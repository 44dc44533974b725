---------------------------- MODULE MCDocuments ----------------------------
(* A finite instance of Documents for TLC.                                 *)
EXTENDS Documents, TLC

\* A body with a surrogate pair across the chunk boundary, and another that is
\* stored with a different line break.
Bodies == {<<"a", "high", "low", "lf">>, <<"a", "cr", "lf">>}
Received == Bodies \cup {Prepare(body) : body \in Bodies}

\* No call is ever chosen by name.
Symmetry == Permutations(Call)
=============================================================================

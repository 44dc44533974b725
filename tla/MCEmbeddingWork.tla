-------------------------- MODULE MCEmbeddingWork --------------------------
(* Finite instances of EmbeddingWork. *)
EXTENDS EmbeddingWork, TLC

CONSTANTS c1, c2

\* Every process runs the same configuration.
SameConfig == [r \in Runners |-> c1]

\* A rolling deployment: one process still runs c1, the others run c2.
MixedConfig ==
    LET old == CHOOSE r \in Runners : TRUE
    IN  [r \in Runners |-> IF r = old THEN c1 ELSE c2]

\* Rows and materials are interchangeable.
RollingSymmetry ==
    Permutations(Works) \cup Permutations(Reservations) \cup Permutations(Materials)

\* Under one configuration the slots are, too.
Symmetry == RollingSymmetry \cup Permutations(Runners)

=============================================================================

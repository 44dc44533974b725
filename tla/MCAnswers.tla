----------------------------- MODULE MCAnswers -----------------------------
(* Finite instances of Answers.                                            *)
EXTENDS Answers, TLC

Alike == Permutations(Requests) \cup Permutations(Slots) \cup Permutations(Materials)
=============================================================================

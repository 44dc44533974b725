--------------------------- MODULE MCBudgetLedger ---------------------------
(* A finite instance of BudgetLedger.                                     *)
EXTENDS BudgetLedger, TLC

\* Both purposes under one approval, and the embedding policy before it.
CurrentAndFormer ==
    {[purpose |-> "embedding", limit |-> 3, share |-> 2],
     [purpose |-> "grounded-answer", limit |-> 3, share |-> 2],
     [purpose |-> "embedding", limit |-> 4, share |-> 4]}

Alike == Permutations(Reservations)
=============================================================================

--------------------------- MODULE BudgetAccount ---------------------------
(***************************************************************************)
(* What the monthly AI budget promises, without transactions or locks: an  *)
(* account per month that both purposes draw from.  An admission happens   *)
(* at once, against the amount that is committed at that moment.           *)
(*                                                                         *)
(* BudgetLedger is the protocol that implements it.                        *)
(***************************************************************************)
EXTENDS Integers

CONSTANTS
    Months,    \* budget periods, consecutive numbers
    Policies,  \* approved spending policies of the deployed processes
    None       \* SQL null; no budget row

Purposes == {"embedding", "grounded-answer"}

(* A policy belongs to one purpose.  limit is budgetLimit, the same for    *)
(* both purposes unless a process runs an older configuration; share is    *)
(* purposeBudgetLimit.  The ledger's constants satisfy it.                 *)
PoliciesOK ==
    /\ Months \subseteq Nat
    /\ Policies \subseteq [purpose: Purposes, limit: Nat, share: Nat]
    /\ None \notin Nat

VARIABLES
    limit,     \* the limit in force for each month, None before its first use
    committed  \* what each purpose may still cost or has cost in each month

accountVars == <<limit, committed>>

Limits == {policy.limit : policy \in Policies}

Total(m) == committed[m]["embedding"] + committed[m]["grounded-answer"]

AccountTypeOK ==
    /\ limit \in [Months -> Limits \cup {None}]
    /\ committed \in [Months -> [Purposes -> Nat]]

AccountInit ==
    /\ limit = [m \in Months |-> None]
    /\ committed = [m \in Months |-> [p \in Purposes |-> 0]]

-----------------------------------------------------------------------------

\* A lower limit may be put in force at any time; a higher one never.
MayAdopt(m, policy) == limit[m] # None => policy.limit <= limit[m]

(* An admission puts its policy's limit in force, and keeps the month      *)
(* within it and the purpose within its share.                             *)
Admit(m, policy, amount) ==
    LET p == policy.purpose
    IN  /\ MayAdopt(m, policy)
        /\ Total(m) + amount <= policy.limit
        /\ committed[m][p] + amount <= policy.share
        /\ limit' = [limit EXCEPT ![m] = policy.limit]
        /\ committed' = [committed EXCEPT ![m][p] = @ + amount]

\* A refused admission may leave the lower limit behind.
Adopt(m, policy) ==
    /\ MayAdopt(m, policy)
    /\ limit' = [limit EXCEPT ![m] = policy.limit]
    /\ UNCHANGED committed

\* Settlement, expiry and cleanup return what is not needed any more.
Return(m, left) ==
    /\ \A p \in Purposes : left[p] <= committed[m][p]
    /\ committed' = [committed EXCEPT ![m] = left]
    /\ UNCHANGED limit

\* A budget nothing is charged to is forgotten long after its month.
Forget(m) ==
    /\ Total(m) = 0
    /\ limit' = [limit EXCEPT ![m] = None]
    /\ UNCHANGED committed

AccountNext ==
    \E m \in Months :
        \/ \E policy \in Policies :
               \/ \E amount \in 0..policy.limit : Admit(m, policy, amount)
               \/ Adopt(m, policy)
        \/ \E left \in [Purposes -> 0..Total(m)] : Return(m, left)
        \/ Forget(m)

AccountSpec == AccountInit /\ [][AccountNext]_accountVars

-----------------------------------------------------------------------------
(* What follows from the promise *)

(* No month is ever committed beyond the largest limit any process was     *)
(* approved for, and no purpose beyond the largest of its shares, whatever *)
(* mixture of old and new configurations is running.                       *)
WithinApprovals ==
    \A m \in Months :
        /\ Total(m) > 0 => \E policy \in Policies : Total(m) <= policy.limit
        /\ \A p \in Purposes : committed[m][p] > 0 =>
               \E policy \in Policies :
                   policy.purpose = p /\ committed[m][p] <= policy.share

(* Whenever the committed amount of a month grows, it stays within the     *)
(* limit in force after that step, and no other month changes with it.     *)
GrowsWithinLimit ==
    [][\A m \in Months :
           Total(m)' > Total(m) => limit'[m] # None /\ Total(m)' <= limit'[m]]_accountVars

(* A limit that was lowered is not raised again by a process that still    *)
(* runs the former configuration, as long as the budget row exists.        *)
LimitNeverRises ==
    [][\A m \in Months :
           limit[m] # None => limit'[m] = None \/ limit'[m] <= limit[m]]_accountVars
=============================================================================

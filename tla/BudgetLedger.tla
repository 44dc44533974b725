---------------------------- MODULE BudgetLedger ----------------------------
(***************************************************************************)
(* How reservations share the monthly AI budget: reserveAiBudget, which    *)
(* the API and the worker call inside transactions of their own, and the   *)
(* transactions that expose, settle, expire and delete a reservation.      *)
(*                                                                         *)
(* Everything rests on the budget row's lock, so the statements of a       *)
(* transaction that needs it are steps of their own; READ COMMITTED, so a  *)
(* statement sees what was committed before it.  A transaction's own       *)
(* writes wait in `tx` until it commits.  Each reservation identity stands *)
(* for the transaction that inserts it and the ones that expose it later.  *)
(***************************************************************************)
EXTENDS Integers, FiniteSets, FiniteSetsExt

CONSTANTS
    Reservations,  \* identities of rows of usage_embedding_reservations
    Policies,      \* approved policies: what reserveAiBudget needs of them
    Maxima,        \* amounts callers reserve
    LastMonth,     \* bound: how many months pass
    None           \* SQL null

Purposes == {"embedding", "grounded-answer"}
Months == 1..LastMonth

ASSUME LedgerConstantsOK ==
    /\ IsFiniteSet(Reservations)
    /\ Policies \subseteq [purpose: Purposes, limit: Nat, share: Nat]
    /\ Maxima \subseteq Nat
    /\ LastMonth \in Nat \ {0}
    /\ None \notin Nat \cup Reservations \cup Policies

VARIABLES
    month,   \* the month of the database clock
    limit,   \* usage_embedding_budgets.limit of each month, None without a row
    row,     \* reservation rows
    holder,  \* whose transaction holds the lock of each month's budget row
    tx       \* transactions under way

vars == <<month, limit, row, holder, tx>>

-----------------------------------------------------------------------------
(* Rows *)

(* Who reserves: the user's activation (API), the worker's scan, a semantic *)
(* query (API), an answer (API).                                            *)
Callers == {"activation", "scan", "query", "answer"}

PurposeOf(caller) == IF caller = "answer" THEN "grounded-answer" ELSE "embedding"

Row ==
    [state: {"absent", "reserved", "settled", "released", "expired"},
     caller: Callers \cup {None},
     month: Months \cup {None},
     live: BOOLEAN,      \* expires_at is in the future
     exposed: BOOLEAN,   \* exposure_started_at is set
     maximum: Nat,
     settled: Nat]       \* settled_amount, 0 for null

NoRow ==
    [state |-> "absent", caller |-> None, month |-> None, live |-> FALSE,
     exposed |-> FALSE, maximum |-> 0, settled |-> 0]

Closed == {"settled", "released", "expired"}

(* begun: the month is chosen.  locked: the budget row is locked.  timed:  *)
(* the clock has been read again.  summed: the sum fits.  exposing: an     *)
(* exposure is written and not yet committed.                              *)
Steps == {"idle", "begun", "locked", "timed", "summed", "exposing"}

Tx ==
    [step: Steps,
     caller: Callers \cup {None},
     policy: Policies \cup {None},
     amount: Nat,
     month: Months \cup {None},
     lockedIn: Months \cup {None},   \* when the lock was granted
     alive: SUBSET Reservations,     \* rows inside their deadline when timed
     counted: [Reservations -> Nat]] \* what the sum took each row for

Nothing == [k \in Reservations |-> 0]

NoTx ==
    [step |-> "idle", caller |-> None, policy |-> None, amount |-> 0,
     month |-> None, lockedIn |-> None, alive |-> {}, counted |-> Nothing]

TypeOK ==
    /\ month \in Months
    /\ limit \in [Months -> {policy.limit : policy \in Policies} \cup {None}]
    /\ row \in [Reservations -> Row]
    /\ \A k \in Reservations : row[k].settled <= row[k].maximum
    /\ holder \in [Months -> Reservations \cup {None}]
    /\ tx \in [Reservations -> Tx]

Init ==
    /\ month = 1
    /\ limit = [m \in Months |-> None]
    /\ row = [k \in Reservations |-> NoRow]
    /\ holder = [m \in Months |-> None]
    /\ tx = [k \in Reservations |-> NoTx]

-----------------------------------------------------------------------------
(* The committed amount *)

\* A lapsed reservation is dropped from the sum even if it was exposed.
CountedIgnoringExposure(k, alive) ==
    CASE row[k].state = "settled" -> row[k].settled
      [] row[k].state = "reserved" /\ k \in alive -> row[k].maximum
      [] OTHER -> 0

\* What reserveAiBudget's sum takes a row for, given the rows still alive.
Counted(k, alive) ==
    CASE row[k].state = "settled" -> row[k].settled
      [] row[k].state = "reserved" /\ (k \in alive \/ row[k].exposed) -> row[k].maximum
      [] OTHER -> 0

AliveNow == {k \in Reservations : row[k].live}

(* An exposure that has passed its check and not committed yet keeps its   *)
(* amount, though the deadline may pass before it commits.                 *)
Standing == AliveNow \cup {k \in Reservations : tx[k].step = "exposing"}

Charge(k) == Counted(k, Standing)

RowsOf(m, callers) ==
    {k \in Reservations : row[k].month = m /\ row[k].caller \in callers}

SumOf(rows, amounts) == MapThenSumSet(LAMBDA k : amounts[k], rows)

CallersOf(purpose) == {caller \in Callers : PurposeOf(caller) = purpose}

Committed(m, purpose) ==
    SumOf(RowsOf(m, CallersOf(purpose)), [k \in Reservations |-> Charge(k)])

-----------------------------------------------------------------------------
(* Admission *)

Free(m) == holder[m] = None

Unlock(m) == holder' = [holder EXCEPT ![m] = None]

EndTx(k) == tx' = [tx EXCEPT ![k] = NoTx]

\* The month is chosen before the lock is asked for.
Begin(k, caller, policy, amount) ==
    /\ tx[k].step = "idle"
    /\ row[k].state = "absent"
    /\ policy.purpose = PurposeOf(caller)
    /\ tx' = [tx EXCEPT ![k] = [NoTx EXCEPT !.step = "begun", !.caller = caller,
                                            !.policy = policy, !.amount = amount,
                                            !.month = month]]
    /\ UNCHANGED <<month, limit, row, holder>>

\* The budget row is read without a lock.
ReadBudgetUnlocked(k) ==
    /\ tx[k].step = "begun"
    /\ tx' = [tx EXCEPT ![k] = [@ EXCEPT !.step = "locked", !.lockedIn = month]]
    /\ UNCHANGED <<month, limit, row, holder>>

(* INSERT .. ON CONFLICT DO NOTHING and SELECT .. FOR UPDATE: either way   *)
(* the transaction owns the month's row when it goes on.                   *)
LockBudget(k) ==
    /\ tx[k].step = "begun"
    /\ Free(tx[k].month)
    /\ holder' = [holder EXCEPT ![tx[k].month] = k]
    /\ tx' = [tx EXCEPT ![k] = [@ EXCEPT !.step = "locked", !.lockedIn = month]]
    /\ UNCHANGED <<month, limit, row>>

(* A limit below the policy's is a newer approval: this process is stale.  *)
AcceptsLimit(k) ==
    limit[tx[k].month] # None => limit[tx[k].month] >= tx[k].policy.limit

\* The month is not compared after the wait for the lock.
WithoutPeriodCheck(k) == AcceptsLimit(k)

NoConflict(k) == AcceptsLimit(k) /\ month = tx[k].month

\* One reading of the clock, after the lock, decides month and deadlines.
ReadClock(k) ==
    /\ tx[k].step = "locked"
    /\ NoConflict(k)
    /\ tx' = [tx EXCEPT ![k] = [@ EXCEPT !.step = "timed", !.alive = AliveNow]]
    /\ UNCHANGED <<month, limit, row, holder>>

Fits(k) ==
    LET amounts == [j \in Reservations |-> Counted(j, tx[k].alive)]
        policy == tx[k].policy
        m == tx[k].month
    IN  /\ SumOf(RowsOf(m, Callers), amounts) + tx[k].amount <= policy.limit
        /\ SumOf(RowsOf(m, CallersOf(policy.purpose)), amounts)
               + tx[k].amount <= policy.share

SumCommitted(k) ==
    /\ tx[k].step = "timed"
    /\ Fits(k)
    /\ tx' = [tx EXCEPT ![k] = [@ EXCEPT !.step = "summed",
           !.counted = [j \in Reservations |-> Counted(j, tx[k].alive)]]]
    /\ UNCHANGED <<month, limit, row, holder>>

(* The deadline is at most the end of the month the clock was read in.  A  *)
(* query exposes its reservation in the same transaction.                  *)
InsertReservation(k) ==
    row' = [row EXCEPT ![k] =
        [state |-> "reserved", caller |-> tx[k].caller, month |-> tx[k].month,
         live |-> month = tx[k].month, exposed |-> tx[k].caller = "query",
         maximum |-> tx[k].amount, settled |-> 0]]

\* exposeQuery() throws on a lapsed reservation, which rolls back: Rollback.
CommitAdmission(k) ==
    /\ tx[k].step = "summed"
    /\ tx[k].caller = "query" => month = tx[k].month
    /\ InsertReservation(k)
    /\ limit' = [limit EXCEPT ![tx[k].month] = tx[k].policy.limit]
    /\ Unlock(tx[k].month)
    /\ EndTx(k)
    /\ UNCHANGED month

(* The worker's scan commits after a refusal, with whatever reserveAiBudget *)
(* has written: a new budget row, a lowered limit.                          *)
CommitRefusal(k) ==
    LET m == tx[k].month
    IN  /\ tx[k].caller = "scan"
        /\ \/ tx[k].step = "locked" /\ ~NoConflict(k)
           \/ tx[k].step = "timed" /\ ~Fits(k)
        /\ limit' = [limit EXCEPT ![m] = IF AcceptsLimit(k) THEN tx[k].policy.limit ELSE @]
        /\ Unlock(m)
        /\ EndTx(k)
        /\ UNCHANGED <<month, row>>

(* The API turns a refusal into an error, which rolls the transaction      *)
(* back; a crash or a lost connection does the same anywhere.              *)
Rollback(k) ==
    /\ tx[k].step # "idle"
    /\ tx' = [tx EXCEPT ![k] = NoTx]
    /\ holder' = [m \in Months |-> IF holder[m] = k THEN None ELSE holder[m]]
    /\ UNCHANGED <<month, limit, row>>

-----------------------------------------------------------------------------
(* Exposure: the mark that the provider may be called *)

\* The reservation row is locked, the budget row is not.
ExposeWithoutBudgetLock(k) ==
    /\ tx[k].step = "idle"
    /\ row[k].caller # "query"
    /\ row[k].state = "reserved"
    /\ row[k].live
    /\ ~row[k].exposed
    /\ tx' = [tx EXCEPT ![k] = [NoTx EXCEPT !.step = "exposing", !.month = row[k].month]]
    /\ UNCHANGED <<month, limit, row, holder>>

(* lockReservation() and the exposure after it.  The deadline is compared  *)
(* under the budget lock; it may pass before the commit.                   *)
Expose(k) ==
    /\ tx[k].step = "idle"
    /\ row[k].caller # "query"
    /\ row[k].state = "reserved"
    /\ row[k].live
    /\ ~row[k].exposed
    /\ Free(row[k].month)
    /\ holder' = [holder EXCEPT ![row[k].month] = k]
    /\ tx' = [tx EXCEPT ![k] = [NoTx EXCEPT !.step = "exposing", !.month = row[k].month]]
    /\ UNCHANGED <<month, limit, row>>

CommitExposure(k) ==
    /\ tx[k].step = "exposing"
    /\ row' = [row EXCEPT ![k] = [@ EXCEPT !.exposed = TRUE]]
    /\ Unlock(tx[k].month)
    /\ EndTx(k)
    /\ UNCHANGED <<month, limit>>

-----------------------------------------------------------------------------
(* The end of a reservation *)

(* What a settlement may write: the price of the reported usage if it fits *)
(* the maximum, else the maximum; nothing for a reservation never exposed. *)
Price(k) == IF row[k].exposed THEN 0..row[k].maximum ELSE {0}

\* No open transaction holds the reservation row itself.
RowFree(k) == tx[k].step = "idle"

(* settle() and settleQuery(), each after locking budget and reservation.  *)
(* An answer that was never exposed is released instead.                   *)
Settle(k) ==
    /\ row[k].state = "reserved"
    /\ RowFree(k)
    /\ Free(row[k].month)
    /\ \E amount \in Price(k) :
           row' = [row EXCEPT ![k] = [@ EXCEPT
               !.state = IF row[k].caller = "answer" /\ ~row[k].exposed
                         THEN "released" ELSE "settled",
               !.settled = amount]]
    /\ UNCHANGED <<month, limit, holder, tx>>

\* The repair takes no budget lock; it skips rows that are locked.
ExpireUnexposed(k) ==
    /\ row[k].state = "reserved"
    /\ PurposeOf(row[k].caller) = "embedding"
    /\ ~row[k].exposed
    /\ ~row[k].live
    /\ RowFree(k)
    /\ row' = [row EXCEPT ![k] = [@ EXCEPT !.state = "expired"]]
    /\ UNCHANGED <<month, limit, holder, tx>>

SettleExpiredQuery(k) ==
    /\ row[k].state = "reserved"
    /\ row[k].caller = "query"
    /\ row[k].exposed
    /\ ~row[k].live
    /\ RowFree(k)
    /\ row' = [row EXCEPT ![k] = [@ EXCEPT !.state = "settled",
                                           !.settled = row[k].maximum]]
    /\ UNCHANGED <<month, limit, holder, tx>>

(* deleteAudit() and deleteReceipt(): 90 days after the end, which for a   *)
(* period of a month is some time after the month.                         *)
DeleteReservation(k) ==
    /\ row[k].state \in Closed
    /\ row[k].month < month
    /\ RowFree(k)
    /\ row' = [row EXCEPT ![k] = NoRow]
    /\ UNCHANGED <<month, limit, holder, tx>>

\* deleteExpiredBudgets(): a row without reservations, not locked.
DeleteBudget(m) ==
    /\ limit[m] # None
    /\ m < month
    /\ Free(m)
    /\ RowsOf(m, Callers) = {}
    /\ limit' = [limit EXCEPT ![m] = None]
    /\ UNCHANGED <<month, row, holder, tx>>

-----------------------------------------------------------------------------
(* Time *)

Lapse(k) ==
    /\ row[k].state = "reserved"
    /\ row[k].live
    /\ row' = [row EXCEPT ![k] = [@ EXCEPT !.live = FALSE]]
    /\ UNCHANGED <<month, limit, holder, tx>>

\* Every deadline of a month has passed when the month has.
MonthEnds ==
    /\ month < LastMonth
    /\ month' = month + 1
    /\ row' = [k \in Reservations |->
           IF row[k].month = month THEN [row[k] EXCEPT !.live = FALSE] ELSE row[k]]
    /\ UNCHANGED <<limit, holder, tx>>

Admission(k) ==
    \/ \E caller \in Callers, policy \in Policies, amount \in Maxima :
           Begin(k, caller, policy, amount)
    \/ LockBudget(k)
    \/ ReadClock(k)
    \/ SumCommitted(k)
    \/ CommitAdmission(k)
    \/ CommitRefusal(k)
    \/ Rollback(k)

Next ==
    \/ \E k \in Reservations :
           \/ Admission(k)
           \/ Expose(k)
           \/ CommitExposure(k)
           \/ Settle(k)
           \/ ExpireUnexposed(k)
           \/ SettleExpiredQuery(k)
           \/ DeleteReservation(k)
           \/ Lapse(k)
    \/ \E m \in Months : DeleteBudget(m)
    \/ MonthEnds

Spec == Init /\ [][Next]_vars

-----------------------------------------------------------------------------
(* Properties *)

(* Between the sum of an admission and its commit, no reservation of the   *)
(* month comes to count for more than the sum took it for: everything that *)
(* raises an amount holds the budget row, and everything that does not     *)
(* hold it only lowers amounts.                                            *)
SumStillCovers ==
    \A k \in Reservations : tx[k].step = "summed" =>
        \A j \in Reservations : row[j].month = tx[k].month =>
            Charge(j) <= tx[k].counted[j]

(* Nobody who had to wait for the lock beyond the end of the month is      *)
(* admitted to the month he asked for.                                     *)
NoLateAdmission ==
    [][\A k \in Reservations : CommitAdmission(k) => tx[k].lockedIn = tx[k].month]_vars

(* A row is never charged more than when it was inserted, and a charge     *)
(* that was exposed to the provider stays at its maximum until a settlement *)
(* prices it; its record stays until its month is over.                    *)
ChargesOnlyFall ==
    [][\A k \in Reservations : row[k].state # "absent" =>
           /\ Charge(k)' <= Charge(k)
           /\ row[k].exposed =>
                  \/ row'[k].state = "reserved" /\ Charge(k)' = row[k].maximum
                  \/ row'[k].state = "settled"
                  \/ row'[k].state = "absent" /\ row[k].month < month]_vars

\* The ledger keeps the promise of the account.
Account == INSTANCE BudgetAccount WITH
    committed <- [m \in Months |-> [p \in Purposes |-> Committed(m, p)]]

KeepsThePromise == Account!AccountSpec
=============================================================================

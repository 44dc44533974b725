------------------------- MODULE BudgetLedgerProofs -------------------------
(* Proofs about BudgetLedger: who holds a budget row, that no charge of a  *)
(* month rises under a sum that was taken of it, and that every step is    *)
(* one of BudgetAccount or changes nothing of it.                          *)
EXTENDS BudgetLedger, FiniteSums, TLAPS

Limits == {policy.limit : policy \in Policies}

Admitting == {"begun", "locked", "timed", "summed"}
Timed == {"timed", "summed"}
Holding == {"locked", "timed", "summed", "exposing"}

\* A row that exists names its caller and its month, which has begun.
RowOK(k) ==
    IF row[k].state = "absent" THEN row[k] = NoRow
    ELSE /\ row[k].month \in Months
         /\ row[k].month <= month
         /\ row[k].caller \in Callers
         /\ row[k].exposed => row[k].state \in {"reserved", "settled"}

(* What a transaction remembers, and that it still holds its budget row.   *)
TxOK(k) ==
    /\ tx[k].step # "idle" => tx[k].month \in Months /\ tx[k].month <= month
    /\ tx[k].step \in Admitting =>
           /\ tx[k].caller \in Callers
           /\ tx[k].policy \in Policies
           /\ row[k].state = "absent"
    /\ tx[k].step \in {"locked", "timed", "summed"} =>
           /\ tx[k].lockedIn \in Months
           /\ tx[k].month <= tx[k].lockedIn
           /\ tx[k].lockedIn <= month
    /\ tx[k].step \in Timed => tx[k].lockedIn = tx[k].month
    /\ tx[k].step = "exposing" => row[k].state = "reserved" /\ tx[k].month = row[k].month
    /\ tx[k].step \in Holding => holder[tx[k].month] = k

\* Rows that stand now stood when the clock was read.
AliveOK(k) ==
    tx[k].step \in Timed =>
        \A j \in Reservations :
            row[j].month = tx[k].month /\ row[j].live => j \in tx[k].alive

LedgerInv ==
    /\ TypeOK
    /\ \A k \in Reservations : RowOK(k) /\ TxOK(k) /\ AliveOK(k)
    /\ SumStillCovers

-----------------------------------------------------------------------------
(* Values *)

LEMMA ConstantFacts ==
  /\ None \notin Months /\ None \notin Reservations /\ None \notin Policies
  /\ None \notin Nat
  /\ Months \subseteq Nat
  /\ \A policy \in Policies : policy.limit \in Limits /\ policy.limit \in Nat
  BY LedgerConstantsOK DEF Months, Limits

LEMMA NoTxIsTx == NoTx \in Tx /\ NoTx.step = "idle"
  BY DEF NoTx, Tx, Steps, Nothing

LEMMA NoRowIsRow ==
  /\ NoRow \in Row
  /\ NoRow.state = "absent" /\ NoRow.month = None /\ NoRow.live = FALSE
  /\ NoRow.settled = 0 /\ NoRow.maximum = 0 /\ NoRow.exposed = FALSE
  BY DEF NoRow, Row

LEMMA CountedIsNumber ==
  ASSUME TypeOK, NEW k \in Reservations, NEW alive
  PROVE  Counted(k, alive) \in Nat /\ Counted(k, alive) <= row[k].maximum
  <1>1. row[k].settled \in Nat /\ row[k].maximum \in Nat /\ row[k].settled <= row[k].maximum
    BY DEF TypeOK, Row
  <1>2. QED
    BY <1>1 DEF Counted

LEMMA ChargeIsNumberNext ==
  ASSUME TypeOK', NEW k \in Reservations
  PROVE  Charge(k)' \in Nat /\ Charge(k)' <= row'[k].maximum
  <1>1. /\ row'[k].settled \in Nat
        /\ row'[k].maximum \in Nat
        /\ row'[k].settled <= row'[k].maximum
    BY DEF TypeOK, Row
  <1>2. QED
    BY <1>1 DEF Charge, Counted

LEMMA InitHolds == Init => LedgerInv
  <1> SUFFICES ASSUME Init PROVE LedgerInv
    OBVIOUS
  <1>1. TypeOK
    <2>1. 1 \in Months
        BY LedgerConstantsOK DEF Months
    <2>2. QED
      BY <2>1, NoTxIsTx, NoRowIsRow DEF Init, TypeOK
  <1>2. \A k \in Reservations : row[k] = NoRow /\ tx[k] = NoTx
    BY DEF Init
  <1>3. \A k \in Reservations : RowOK(k) /\ TxOK(k) /\ AliveOK(k)
    BY <1>2, NoTxIsTx, NoRowIsRow DEF RowOK, TxOK, AliveOK, Admitting, Timed, Holding
  <1>4. SumStillCovers
    BY <1>2, NoTxIsTx DEF SumStillCovers
  <1>5. QED
    BY <1>1, <1>3, <1>4 DEF LedgerInv

-----------------------------------------------------------------------------
(* What a step of one reservation leaves alone *)

Frame(k) ==
    /\ month' = month
    /\ \A j \in Reservations \ {k} : tx'[j] = tx[j] /\ row'[j] = row[j]
    /\ \A m \in Months : holder[m] \in Reservations \ {k} => holder'[m] = holder[m]

\* The rows and transactions of other reservations stay in order.
LEMMA OthersStayOK ==
  ASSUME LedgerInv, NEW k \in Reservations, Frame(k),
         NEW j \in Reservations, j # k
  PROVE  RowOK(j)' /\ TxOK(j)'
  <1>1. RowOK(j) /\ TxOK(j)
    BY DEF LedgerInv
  <1>2. month' = month /\ tx'[j] = tx[j] /\ row'[j] = row[j]
    BY DEF Frame
  <1>3. tx[j].step \in Holding => holder'[tx[j].month] = j
    <2>1. CASE tx[j].step \in Holding
      <3>1. tx[j].month \in Months /\ holder[tx[j].month] = j
        BY <1>1, <2>1 DEF TxOK, Holding
      <3>2. QED
        BY <3>1 DEF Frame
    <2>2. QED
      BY <2>1
  <1>4. QED
    BY <1>1, <1>2, <1>3 DEF RowOK, TxOK

\* The month's row is locked by one transaction at a time.
LEMMA OneHolder ==
  ASSUME LedgerInv, NEW k \in Reservations, NEW j \in Reservations,
         tx[k].step \in Holding, tx[j].step \in Holding, tx[k].month = tx[j].month
  PROVE  k = j
  BY DEF LedgerInv, TxOK

-----------------------------------------------------------------------------
(* Records *)

LEMMA TxStep ==
  ASSUME NEW t \in Tx, NEW s \in Steps
  PROVE  /\ [t EXCEPT !.step = s] \in Tx
         /\ [t EXCEPT !.step = s].step = s
         /\ [t EXCEPT !.step = s].caller = t.caller
         /\ [t EXCEPT !.step = s].policy = t.policy
         /\ [t EXCEPT !.step = s].amount = t.amount
         /\ [t EXCEPT !.step = s].month = t.month
         /\ [t EXCEPT !.step = s].lockedIn = t.lockedIn
         /\ [t EXCEPT !.step = s].alive = t.alive
         /\ [t EXCEPT !.step = s].counted = t.counted
  BY DEF Tx

LEMMA TxLockedIn ==
  ASSUME NEW t \in Tx, NEW m \in Months
  PROVE  /\ [t EXCEPT !.lockedIn = m] \in Tx
         /\ [t EXCEPT !.lockedIn = m].step = t.step
         /\ [t EXCEPT !.lockedIn = m].caller = t.caller
         /\ [t EXCEPT !.lockedIn = m].policy = t.policy
         /\ [t EXCEPT !.lockedIn = m].month = t.month
         /\ [t EXCEPT !.lockedIn = m].lockedIn = m
  BY DEF Tx

LEMMA TxAlive ==
  ASSUME NEW t \in Tx, NEW alive \in SUBSET Reservations
  PROVE  /\ [t EXCEPT !.alive = alive] \in Tx
         /\ [t EXCEPT !.alive = alive].step = t.step
         /\ [t EXCEPT !.alive = alive].caller = t.caller
         /\ [t EXCEPT !.alive = alive].policy = t.policy
         /\ [t EXCEPT !.alive = alive].month = t.month
         /\ [t EXCEPT !.alive = alive].lockedIn = t.lockedIn
         /\ [t EXCEPT !.alive = alive].alive = alive
  BY DEF Tx

LEMMA TxCounted ==
  ASSUME NEW t \in Tx, NEW counted \in [Reservations -> Nat]
  PROVE  /\ [t EXCEPT !.counted = counted] \in Tx
         /\ [t EXCEPT !.counted = counted].step = t.step
         /\ [t EXCEPT !.counted = counted].caller = t.caller
         /\ [t EXCEPT !.counted = counted].policy = t.policy
         /\ [t EXCEPT !.counted = counted].month = t.month
         /\ [t EXCEPT !.counted = counted].lockedIn = t.lockedIn
         /\ [t EXCEPT !.counted = counted].alive = t.alive
         /\ [t EXCEPT !.counted = counted].counted = counted
  BY DEF Tx

-----------------------------------------------------------------------------
(* Sums stay covered *)

Covers(k) ==
    tx[k].step = "summed" =>
        \A j \in Reservations : row[j].month = tx[k].month => Charge(j) <= tx[k].counted[j]

(* What a step may do to its own row: insert it under the month's lock, or *)
(* let it fall.                                                            *)
Calm(k) ==
    /\ Frame(k)
    /\ row[k].state # "absent" =>
           /\ Charge(k)' <= Charge(k)
           /\ row'[k].live => row[k].live
           /\ row'[k].month = row[k].month \/ row'[k] = NoRow
    /\ row[k].state = "absent" /\ row'[k].state # "absent" =>
           tx[k].step = "summed" /\ row'[k].month = tx[k].month

LEMMA OthersKeepTheirCharge ==
  ASSUME NEW k \in Reservations, Frame(k), NEW j \in Reservations, j # k
  PROVE  Charge(j)' = Charge(j)
  <1>1. row'[j] = row[j] /\ tx'[j] = tx[j]
    BY DEF Frame
  <1>2. (j \in Standing)' <=> j \in Standing
    BY <1>1 DEF Standing, AliveNow
  <1>3. QED
    BY <1>1, <1>2 DEF Charge, Counted

LEMMA OthersStayCovered ==
  ASSUME LedgerInv, TypeOK', NEW k \in Reservations, Calm(k), RowOK(k)',
         NEW j \in Reservations, j # k
  PROVE  AliveOK(j)' /\ Covers(j)'
  <1>1. Frame(k) /\ tx'[j] = tx[j]
    BY DEF Calm, Frame
  <1>2. AliveOK(j) /\ Covers(j) /\ RowOK(j) /\ TxOK(j) /\ RowOK(k) /\ TxOK(k)
    BY DEF LedgerInv, SumStillCovers, Covers
  <1>3. CASE tx[j].step \in Timed
    <2>1. tx[j].month \in Months /\ tx[j].step \in Holding
      BY <1>2, <1>3 DEF TxOK, Timed, Holding
    <2>2. ASSUME NEW i \in Reservations, row'[i].month = tx[j].month
          PROVE  /\ row[i].month = tx[j].month
                 /\ row'[i].live => row[i].live
                 /\ Charge(i)' <= Charge(i)
      <3>1. CASE i # k
        <4>1. row'[i] = row[i]
          BY <1>1, <3>1 DEF Frame
        <4>2. Charge(i)' = Charge(i)
          BY <1>1, <3>1, OthersKeepTheirCharge
        <4>3. Charge(i) \in Nat
          BY CountedIsNumber DEF LedgerInv, Charge
        <4>4. QED
          BY <2>2, <4>1, <4>2, <4>3
      <3>2. CASE i = k
        <4>1. row'[k].state # "absent"
          BY <2>1, <2>2, <3>2, NoRowIsRow, ConstantFacts DEF RowOK
        <4>2. row'[k] # NoRow
          BY <4>1, NoRowIsRow
        <4>3. CASE row[k].state = "absent"
          <5>1. tx[k].step \in Holding /\ tx[k].month = tx[j].month
            BY <2>2, <3>2, <4>1, <4>3 DEF Calm, Holding
          <5>2. QED
            BY <2>1, <5>1, OneHolder
        <4>4. QED
          BY <2>2, <3>2, <4>2, <4>3 DEF Calm
      <3>3. QED
        BY <3>1, <3>2
    <2>3. AliveOK(j)'
      BY <1>1, <1>2, <1>3, <2>2 DEF AliveOK
    <2>4. ASSUME tx[j].step = "summed", NEW i \in Reservations,
                 row'[i].month = tx[j].month
          PROVE  Charge(i)' <= tx[j].counted[i]
      <3>1. Charge(i)' <= Charge(i) /\ Charge(i) <= tx[j].counted[i]
        BY <1>2, <2>2, <2>4 DEF Covers
      <3>2. Charge(i) \in Nat /\ Charge(i)' \in Nat
        BY CountedIsNumber, ChargeIsNumberNext DEF LedgerInv, Charge
      <3>3. tx[j].counted[i] \in Nat
        BY DEF LedgerInv, TypeOK, Tx
      <3>4. QED
        BY <3>1, <3>2, <3>3
    <2>5. Covers(j)'
      BY <1>1, <2>4 DEF Covers
    <2>6. QED
      BY <2>3, <2>5
  <1>4. CASE tx[j].step \notin Timed
    BY <1>1, <1>4 DEF AliveOK, Covers, Timed
  <1>5. QED
    BY <1>3, <1>4

(* A calm step keeps the invariant if it keeps it for its own reservation. *)
OwnOK(k) == RowOK(k) /\ TxOK(k) /\ AliveOK(k) /\ Covers(k)

LEMMA CalmStepKeepsInv ==
  ASSUME LedgerInv, NEW k \in Reservations, Calm(k), TypeOK', OwnOK(k)'
  PROVE  LedgerInv'
  <1>1. Frame(k) /\ RowOK(k)'
    BY DEF Calm, OwnOK
  <1>2. ASSUME NEW j \in Reservations
        PROVE  OwnOK(j)'
    <2>1. CASE j # k
      BY <1>1, <2>1, OthersStayOK, OthersStayCovered DEF OwnOK
    <2>2. QED
      BY <2>1
  <1>3. SumStillCovers'
    BY <1>2 DEF OwnOK, Covers, SumStillCovers
  <1>4. QED
    BY <1>2, <1>3 DEF LedgerInv, OwnOK

-----------------------------------------------------------------------------
(* Steps that change no row *)

\* A step that leaves the rows alone is calm unless it adds a standing row.
LEMMA QuietIsCalm ==
  ASSUME LedgerInv, NEW k \in Reservations, Frame(k), row' = row,
         tx'[k].step = "exposing" => row[k].live
  PROVE  Calm(k)
  <1>1. (k \in Standing)' => k \in Standing
    BY DEF Standing, AliveNow
  <1>2. row[k].settled \in Nat /\ row[k].maximum \in Nat
    BY DEF LedgerInv, TypeOK, Row
  <1>3. Charge(k)' <= Charge(k)
    BY <1>1, <1>2 DEF Charge, Counted
  <1>4. QED
    BY <1>3 DEF Calm

\* What a step of one transaction does to tx and to the other locks.
LEMMA OneTx ==
  ASSUME TypeOK, NEW k \in Reservations, NEW t \in Tx, tx' = [tx EXCEPT ![k] = t]
  PROVE  /\ tx' \in [Reservations -> Tx]
         /\ tx'[k] = t
         /\ \A j \in Reservations \ {k} : tx'[j] = tx[j]
  BY DEF TypeOK

LEMMA TakeLock ==
  ASSUME TypeOK, NEW k \in Reservations, NEW m \in Months, Free(m),
         holder' = [holder EXCEPT ![m] = k]
  PROVE  /\ holder' \in [Months -> Reservations \cup {None}]
         /\ holder'[m] = k
         /\ \A n \in Months : holder[n] \in Reservations \ {k} => holder'[n] = holder[n]
  BY ConstantFacts DEF TypeOK, Free

LEMMA GiveLock ==
  ASSUME TypeOK, NEW k \in Reservations, NEW m \in Months, holder[m] = k, Unlock(m)
  PROVE  /\ holder' \in [Months -> Reservations \cup {None}]
         /\ \A n \in Months : holder[n] \in Reservations \ {k} => holder'[n] = holder[n]
  BY DEF TypeOK, Unlock

\* The state of a transaction that has ended.
LEMMA EndedIsOK ==
  ASSUME NEW k \in Reservations, tx'[k] = NoTx, RowOK(k)'
  PROVE  OwnOK(k)'
  BY NoTxIsTx DEF OwnOK, TxOK, AliveOK, Covers, Admitting, Timed, Holding

LEMMA BeginStep ==
  ASSUME LedgerInv, NEW k \in Reservations, NEW caller \in Callers,
         NEW policy \in Policies, NEW amount \in Maxima, Begin(k, caller, policy, amount)
  PROVE  LedgerInv' /\ Calm(k)
  <1> DEFINE t == [NoTx EXCEPT !.step = "begun", !.caller = caller,
                               !.policy = policy, !.amount = amount, !.month = month]
  <1>1. /\ tx' = [tx EXCEPT ![k] = t]
        /\ row[k].state = "absent"
        /\ month' = month /\ limit' = limit /\ row' = row /\ holder' = holder
    BY DEF Begin
  <1>0. TypeOK /\ month \in Months /\ RowOK(k)
    BY DEF LedgerInv, TypeOK
  <1>2. /\ t \in Tx /\ t.step = "begun" /\ t.month = month
        /\ t.caller = caller /\ t.policy = policy
    BY <1>0, LedgerConstantsOK DEF NoTx, Tx, Steps, Nothing
  <1> HIDE DEF t
  <1>3. /\ tx' \in [Reservations -> Tx]
        /\ tx'[k] = t
        /\ \A j \in Reservations \ {k} : tx'[j] = tx[j]
    BY <1>0, <1>1, <1>2, OneTx
  <1>4. TypeOK'
    BY <1>0, <1>1, <1>3 DEF TypeOK
  <1>5. Frame(k)
    BY <1>1, <1>3 DEF Frame
  <1>6. Calm(k)
    BY <1>1, <1>2, <1>3, <1>5, QuietIsCalm
  <1>7. TxOK(k)'
    <2>1. month <= month
      BY <1>0, ConstantFacts
    <2>2. QED
      BY <1>0, <1>1, <1>2, <1>3, <2>1 DEF TxOK, Admitting, Timed, Holding
  <1>8. OwnOK(k)'
    BY <1>0, <1>1, <1>2, <1>3, <1>7 DEF OwnOK, RowOK, AliveOK, Covers, Timed
  <1>9. QED
    BY <1>4, <1>6, <1>8, CalmStepKeepsInv

LEMMA LockBudgetStep ==
  ASSUME LedgerInv, NEW k \in Reservations, LockBudget(k)
  PROVE  LedgerInv' /\ Calm(k)
  <1> DEFINE s == [tx[k] EXCEPT !.step = "locked"]
             t == [s EXCEPT !.lockedIn = month]
             m == tx[k].month
  <1>0. TypeOK /\ month \in Months /\ RowOK(k) /\ TxOK(k) /\ tx[k] \in Tx
    BY DEF LedgerInv, TypeOK
  <1>1. /\ tx[k].step = "begun" /\ Free(m)
        /\ tx' = [tx EXCEPT ![k] = t]
        /\ holder' = [holder EXCEPT ![m] = k]
        /\ month' = month /\ limit' = limit /\ row' = row
    BY DEF LockBudget
  <1>2. m \in Months /\ m <= month /\ m = tx[k].month
    BY <1>0, <1>1 DEF TxOK
  <1>3. s \in Tx /\ s.step = "locked" /\ s.month = m /\ s.caller = tx[k].caller
        /\ s.policy = tx[k].policy
    BY <1>0, TxStep DEF Steps
  <1> HIDE DEF s, m
  <1>4. t \in Tx /\ t.step = "locked" /\ t.month = m /\ t.caller = tx[k].caller
        /\ t.policy = tx[k].policy /\ t.lockedIn = month
    BY <1>0, <1>3, TxLockedIn
  <1> HIDE DEF t
  <1>5. /\ tx' \in [Reservations -> Tx]
        /\ tx'[k] = t
        /\ \A j \in Reservations \ {k} : tx'[j] = tx[j]
    BY <1>0, <1>1, <1>4, OneTx
  <1>6. /\ holder' \in [Months -> Reservations \cup {None}]
        /\ holder'[m] = k
        /\ \A n \in Months : holder[n] \in Reservations \ {k} => holder'[n] = holder[n]
    BY <1>0, <1>1, <1>2, TakeLock
  <1>7. TypeOK'
    BY <1>0, <1>1, <1>5, <1>6 DEF TypeOK
  <1>8. Calm(k)
    <2>1. Frame(k)
      BY <1>1, <1>5, <1>6 DEF Frame
    <2>2. QED
      BY <1>1, <1>4, <1>5, <2>1, QuietIsCalm
  <1>9. TxOK(k)'
    <2>1. month <= month
      BY <1>0, ConstantFacts
    <2>2. QED
      BY <1>0, <1>1, <1>2, <1>4, <1>5, <1>6, <2>1 DEF TxOK, Admitting, Timed, Holding
  <1>10. OwnOK(k)'
    BY <1>0, <1>1, <1>4, <1>5, <1>9 DEF OwnOK, RowOK, AliveOK, Covers, Timed
  <1>11. QED
    BY <1>7, <1>8, <1>10, CalmStepKeepsInv

LEMMA ReadClockStep ==
  ASSUME LedgerInv, NEW k \in Reservations, ReadClock(k)
  PROVE  LedgerInv' /\ Calm(k)
  <1> DEFINE s == [tx[k] EXCEPT !.step = "timed"]
             t == [s EXCEPT !.alive = AliveNow]
  <1>0. TypeOK /\ month \in Months /\ RowOK(k) /\ TxOK(k) /\ tx[k] \in Tx
    BY DEF LedgerInv, TypeOK
  <1>1. /\ tx[k].step = "locked" /\ month = tx[k].month
        /\ tx' = [tx EXCEPT ![k] = t]
        /\ month' = month /\ limit' = limit /\ row' = row /\ holder' = holder
    BY DEF ReadClock, NoConflict
  <1>2. AliveNow \in SUBSET Reservations
    BY DEF AliveNow
  <1>3. s \in Tx /\ s.step = "timed" /\ s.month = tx[k].month /\ s.caller = tx[k].caller
        /\ s.policy = tx[k].policy /\ s.lockedIn = tx[k].lockedIn
    BY <1>0, TxStep DEF Steps
  <1> HIDE DEF s
  <1>4. t \in Tx /\ t.step = "timed" /\ t.month = tx[k].month /\ t.caller = tx[k].caller
        /\ t.policy = tx[k].policy /\ t.lockedIn = tx[k].lockedIn /\ t.alive = AliveNow
    BY <1>0, <1>2, <1>3, TxAlive
  <1> HIDE DEF t
  <1>5. /\ tx' \in [Reservations -> Tx]
        /\ tx'[k] = t
        /\ \A j \in Reservations \ {k} : tx'[j] = tx[j]
    BY <1>0, <1>1, <1>4, OneTx
  <1>6. TypeOK'
    BY <1>0, <1>1, <1>5 DEF TypeOK
  <1>7. Calm(k)
    <2>1. Frame(k)
      BY <1>1, <1>5 DEF Frame
    <2>2. QED
      BY <1>1, <1>4, <1>5, <2>1, QuietIsCalm
  <1>8. TxOK(k)'
    <2>1. tx[k].lockedIn \in Months /\ month <= tx[k].lockedIn /\ tx[k].lockedIn <= month
      BY <1>0, <1>1 DEF TxOK
    <2>2. tx[k].lockedIn = month
      BY <1>0, <2>1, ConstantFacts
    <2>3. QED
      BY <1>0, <1>1, <1>4, <1>5, <2>1, <2>2 DEF TxOK, Admitting, Timed, Holding
  <1>9. AliveOK(k)'
    BY <1>1, <1>4, <1>5 DEF AliveOK, AliveNow
  <1>10. OwnOK(k)'
    BY <1>0, <1>1, <1>4, <1>5, <1>8, <1>9 DEF OwnOK, RowOK, Covers
  <1>11. QED
    BY <1>6, <1>7, <1>10, CalmStepKeepsInv

(* The sum covers what stands: a row of the month that stands stood when   *)
(* the clock was read, for nobody else can be exposing one.                *)
LEMMA SumCommittedStep ==
  ASSUME LedgerInv, NEW k \in Reservations, SumCommitted(k)
  PROVE  LedgerInv' /\ Calm(k)
  <1> DEFINE s == [tx[k] EXCEPT !.step = "summed"]
             c == [j \in Reservations |-> Counted(j, tx[k].alive)]
             t == [s EXCEPT !.counted = c]
  <1>0. TypeOK /\ RowOK(k) /\ TxOK(k) /\ AliveOK(k) /\ tx[k] \in Tx
    BY DEF LedgerInv, TypeOK
  <1>1. /\ tx[k].step = "timed"
        /\ tx' = [tx EXCEPT ![k] = t]
        /\ month' = month /\ limit' = limit /\ row' = row /\ holder' = holder
    BY DEF SumCommitted
  <1>2. c \in [Reservations -> Nat]
    BY <1>0, CountedIsNumber
  <1>c. \A j \in Reservations : c[j] = Counted(j, tx[k].alive)
    OBVIOUS
  <1> HIDE DEF c
  <1>3. s \in Tx /\ s.step = "summed" /\ s.month = tx[k].month /\ s.caller = tx[k].caller
        /\ s.policy = tx[k].policy /\ s.lockedIn = tx[k].lockedIn /\ s.alive = tx[k].alive
    BY <1>0, TxStep DEF Steps
  <1> HIDE DEF s
  <1>4. t \in Tx /\ t.step = "summed" /\ t.month = tx[k].month /\ t.caller = tx[k].caller
        /\ t.policy = tx[k].policy /\ t.lockedIn = tx[k].lockedIn
        /\ t.alive = tx[k].alive /\ t.counted = c
    BY <1>2, <1>3, TxCounted
  <1> HIDE DEF t
  <1>5. /\ tx' \in [Reservations -> Tx]
        /\ tx'[k] = t
        /\ \A j \in Reservations \ {k} : tx'[j] = tx[j]
    BY <1>0, <1>1, <1>4, OneTx
  <1>6. TypeOK'
    BY <1>0, <1>1, <1>5 DEF TypeOK
  <1>7. Calm(k)
    <2>1. Frame(k)
      BY <1>1, <1>5 DEF Frame
    <2>2. QED
      BY <1>1, <1>4, <1>5, <2>1, QuietIsCalm
  <1>8. TxOK(k)'
    BY <1>0, <1>1, <1>4, <1>5 DEF TxOK, Admitting, Timed, Holding
  <1>9. AliveOK(k)'
    BY <1>0, <1>1, <1>4, <1>5 DEF AliveOK, Timed
  <1>10. ASSUME NEW j \in Reservations, row'[j].month = tx'[k].month
         PROVE  Charge(j)' <= c[j]
    <2>1. row[j].month = tx[k].month
      BY <1>1, <1>4, <1>5, <1>10
    <2>2. tx[j].step # "exposing"
      <3>1. SUFFICES ASSUME tx[j].step = "exposing" PROVE FALSE
        OBVIOUS
      <3>2. tx[j].month = row[j].month
        BY <3>1 DEF LedgerInv, TxOK
      <3>3. j = k
        BY <1>1, <2>1, <3>1, <3>2, OneHolder DEF Holding
      <3>4. QED
        BY <1>1, <3>1, <3>3
    <2>3. tx'[j].step # "exposing"
      BY <1>4, <1>5, <2>2
    <2>4. (j \in Standing)' => j \in tx[k].alive
      BY <1>0, <1>1, <2>1, <2>3 DEF Standing, AliveNow, AliveOK, Timed
    <2>5. row[j].settled \in Nat /\ row[j].maximum \in Nat
      BY <1>0 DEF TypeOK, Row
    <2>6. QED
      BY <1>1, <1>c, <2>4, <2>5 DEF Charge, Counted
  <1>11. OwnOK(k)'
    BY <1>0, <1>1, <1>4, <1>5, <1>8, <1>9, <1>10 DEF OwnOK, RowOK, Covers
  <1>12. QED
    BY <1>6, <1>7, <1>11, CalmStepKeepsInv

LEMMA CommitRefusalStep ==
  ASSUME LedgerInv, NEW k \in Reservations, CommitRefusal(k)
  PROVE  LedgerInv' /\ Calm(k)
  <1>0. TypeOK /\ RowOK(k) /\ TxOK(k)
    BY DEF LedgerInv, TypeOK
  <1>1. /\ tx[k].step \in {"locked", "timed"}
        /\ limit' = [limit EXCEPT ![tx[k].month] =
               IF AcceptsLimit(k) THEN tx[k].policy.limit ELSE @]
        /\ Unlock(tx[k].month)
        /\ tx' = [tx EXCEPT ![k] = NoTx]
        /\ month' = month /\ row' = row
    BY DEF CommitRefusal, EndTx
  <1>2. /\ tx[k].month \in Months /\ holder[tx[k].month] = k
        /\ tx[k].policy \in Policies
    BY <1>0, <1>1 DEF TxOK, Holding, Admitting
  <1>3. /\ tx' \in [Reservations -> Tx]
        /\ tx'[k] = NoTx
        /\ \A j \in Reservations \ {k} : tx'[j] = tx[j]
    BY <1>0, <1>1, NoTxIsTx, OneTx
  <1>4. /\ holder' \in [Months -> Reservations \cup {None}]
        /\ \A m \in Months : holder[m] \in Reservations \ {k} => holder'[m] = holder[m]
    BY <1>0, <1>1, <1>2, GiveLock
  <1>5. limit' \in [Months -> Limits \cup {None}]
    <2>1. limit \in [Months -> Limits \cup {None}]
      BY <1>0 DEF TypeOK, Limits
    <2>2. tx[k].policy.limit \in Limits
      BY <1>2, ConstantFacts
    <2>3. QED
      BY <1>1, <2>1, <2>2
  <1>6. TypeOK'
    BY <1>0, <1>1, <1>3, <1>4, <1>5 DEF TypeOK, Limits
  <1>7. Calm(k)
    <2>1. Frame(k)
      BY <1>1, <1>3, <1>4 DEF Frame
    <2>2. QED
      BY <1>1, <1>3, <2>1, QuietIsCalm, NoTxIsTx
  <1>8. OwnOK(k)'
    BY <1>0, <1>1, <1>3, EndedIsOK DEF RowOK
  <1>9. QED
    BY <1>6, <1>7, <1>8, CalmStepKeepsInv

LEMMA RollbackStep ==
  ASSUME LedgerInv, NEW k \in Reservations, Rollback(k)
  PROVE  LedgerInv' /\ Calm(k)
  <1>0. TypeOK /\ RowOK(k)
    BY DEF LedgerInv
  <1>1. /\ tx' = [tx EXCEPT ![k] = NoTx]
        /\ holder' = [m \in Months |-> IF holder[m] = k THEN None ELSE holder[m]]
        /\ month' = month /\ limit' = limit /\ row' = row
    BY DEF Rollback
  <1>2. /\ tx' \in [Reservations -> Tx]
        /\ tx'[k] = NoTx
        /\ \A j \in Reservations \ {k} : tx'[j] = tx[j]
    BY <1>0, <1>1, NoTxIsTx, OneTx
  <1>3. TypeOK'
    BY <1>0, <1>1, <1>2 DEF TypeOK
  <1>4. Calm(k)
    <2>1. Frame(k)
      BY <1>1, <1>2 DEF Frame
    <2>2. QED
      BY <1>1, <1>2, <2>1, QuietIsCalm, NoTxIsTx
  <1>5. OwnOK(k)'
    BY <1>0, <1>1, <1>2, EndedIsOK DEF RowOK
  <1>6. QED
    BY <1>3, <1>4, <1>5, CalmStepKeepsInv

LEMMA ExposeStep ==
  ASSUME LedgerInv, NEW k \in Reservations, Expose(k)
  PROVE  LedgerInv' /\ Calm(k)
  <1> DEFINE t == [NoTx EXCEPT !.step = "exposing", !.month = row[k].month]
             m == row[k].month
  <1>0. TypeOK /\ month \in Months /\ RowOK(k)
    BY DEF LedgerInv, TypeOK
  <1>1. /\ row[k].state = "reserved" /\ row[k].live /\ Free(m)
        /\ holder' = [holder EXCEPT ![m] = k]
        /\ tx' = [tx EXCEPT ![k] = t]
        /\ month' = month /\ limit' = limit /\ row' = row
    BY DEF Expose
  <1>2. m \in Months
    BY <1>0, <1>1 DEF RowOK
  <1>3. t \in Tx /\ t.step = "exposing" /\ t.month = m
    BY <1>2 DEF NoTx, Tx, Steps, Nothing
  <1>m. m = row[k].month
    OBVIOUS
  <1> HIDE DEF t, m
  <1>4. /\ tx' \in [Reservations -> Tx]
        /\ tx'[k] = t
        /\ \A j \in Reservations \ {k} : tx'[j] = tx[j]
    BY <1>0, <1>1, <1>3, OneTx
  <1>5. /\ holder' \in [Months -> Reservations \cup {None}]
        /\ holder'[m] = k
        /\ \A n \in Months : holder[n] \in Reservations \ {k} => holder'[n] = holder[n]
    BY <1>0, <1>1, <1>2, TakeLock
  <1>6. TypeOK'
    BY <1>0, <1>1, <1>4, <1>5 DEF TypeOK
  <1>7. Calm(k)
    <2>1. Frame(k)
      BY <1>1, <1>4, <1>5 DEF Frame
    <2>2. QED
      BY <1>1, <2>1, QuietIsCalm
  <1>8. m <= month
    BY <1>0, <1>1, <1>m DEF RowOK
  <1>9. TxOK(k)'
    BY <1>0, <1>1, <1>2, <1>3, <1>4, <1>5, <1>8, <1>m DEF TxOK, Admitting, Timed, Holding
  <1>10. OwnOK(k)'
    BY <1>0, <1>1, <1>3, <1>4, <1>9 DEF OwnOK, RowOK, AliveOK, Covers, Timed
  <1>11. QED
    BY <1>6, <1>7, <1>10, CalmStepKeepsInv

-----------------------------------------------------------------------------
(* Steps that change a row *)

\* The row of one reservation is replaced.
LEMMA OneRow ==
  ASSUME TypeOK, NEW k \in Reservations, NEW y \in Row, y.settled <= y.maximum,
         row' = [row EXCEPT ![k] = y]
  PROVE  /\ row' \in [Reservations -> Row]
         /\ \A j \in Reservations : row'[j].settled <= row'[j].maximum
         /\ row'[k] = y
         /\ \A j \in Reservations \ {k} : row'[j] = row[j]
  BY DEF TypeOK

LEMMA CommitAdmissionStep ==
  ASSUME LedgerInv, NEW k \in Reservations, CommitAdmission(k)
  PROVE  LedgerInv' /\ Calm(k)
  <1> DEFINE y == [state |-> "reserved", caller |-> tx[k].caller, month |-> tx[k].month,
                   live |-> month = tx[k].month, exposed |-> tx[k].caller = "query",
                   maximum |-> tx[k].amount, settled |-> 0]
  <1>0. TypeOK /\ RowOK(k) /\ TxOK(k) /\ tx[k] \in Tx
    BY DEF LedgerInv, TypeOK
  <1>1. /\ tx[k].step = "summed"
        /\ row' = [row EXCEPT ![k] = y]
        /\ limit' = [limit EXCEPT ![tx[k].month] = tx[k].policy.limit]
        /\ Unlock(tx[k].month)
        /\ tx' = [tx EXCEPT ![k] = NoTx]
        /\ month' = month
    BY DEF CommitAdmission, EndTx, InsertReservation
  <1>2. /\ tx[k].month \in Months /\ tx[k].month <= month
        /\ holder[tx[k].month] = k
        /\ tx[k].policy \in Policies /\ tx[k].caller \in Callers
        /\ row[k].state = "absent"
        /\ tx[k].amount \in Nat
    BY <1>0, <1>1 DEF TxOK, Holding, Admitting, Tx
  <1>3. /\ y \in Row /\ y.settled <= y.maximum
        /\ y.state = "reserved" /\ y.month = tx[k].month /\ y.caller = tx[k].caller
    BY <1>2 DEF Row
  <1> HIDE DEF y
  <1>4. /\ row' \in [Reservations -> Row]
        /\ \A j \in Reservations : row'[j].settled <= row'[j].maximum
        /\ row'[k] = y
        /\ \A j \in Reservations \ {k} : row'[j] = row[j]
    BY <1>0, <1>1, <1>3, OneRow
  <1>5. /\ tx' \in [Reservations -> Tx]
        /\ tx'[k] = NoTx
        /\ \A j \in Reservations \ {k} : tx'[j] = tx[j]
    BY <1>0, <1>1, NoTxIsTx, OneTx
  <1>6. /\ holder' \in [Months -> Reservations \cup {None}]
        /\ \A m \in Months : holder[m] \in Reservations \ {k} => holder'[m] = holder[m]
    BY <1>0, <1>1, <1>2, GiveLock
  <1>7. limit' \in [Months -> Limits \cup {None}]
    <2>1. limit \in [Months -> Limits \cup {None}]
      BY <1>0 DEF TypeOK, Limits
    <2>2. tx[k].policy.limit \in Limits
      BY <1>2, ConstantFacts
    <2>3. QED
      BY <1>1, <2>1, <2>2
  <1>8. TypeOK'
    BY <1>0, <1>1, <1>4, <1>5, <1>6, <1>7 DEF TypeOK, Limits
  <1>9. Calm(k)
    <2>1. Frame(k)
      BY <1>1, <1>4, <1>5, <1>6 DEF Frame
    <2>2. QED
      BY <1>1, <1>2, <1>3, <1>4, <2>1 DEF Calm
  <1>10. RowOK(k)'
    BY <1>1, <1>2, <1>3, <1>4 DEF RowOK
  <1>11. OwnOK(k)'
    BY <1>5, <1>10, EndedIsOK
  <1>12. QED
    BY <1>8, <1>9, <1>11, CalmStepKeepsInv

LEMMA CommitExposureStep ==
  ASSUME LedgerInv, NEW k \in Reservations, CommitExposure(k)
  PROVE  LedgerInv' /\ Calm(k)
  <1> DEFINE y == [row[k] EXCEPT !.exposed = TRUE]
  <1>0. TypeOK /\ RowOK(k) /\ TxOK(k) /\ row[k] \in Row
        /\ row[k].settled <= row[k].maximum
    BY DEF LedgerInv, TypeOK
  <1>1. /\ tx[k].step = "exposing"
        /\ row' = [row EXCEPT ![k] = y]
        /\ Unlock(tx[k].month)
        /\ tx' = [tx EXCEPT ![k] = NoTx]
        /\ month' = month /\ limit' = limit
    BY DEF CommitExposure, EndTx
  <1>2. /\ tx[k].month \in Months /\ holder[tx[k].month] = k
        /\ row[k].state = "reserved"
    BY <1>0, <1>1 DEF TxOK, Holding
  <1>3. /\ y \in Row /\ y.settled <= y.maximum /\ y.exposed = TRUE /\ y.live = row[k].live
        /\ y.state = row[k].state /\ y.month = row[k].month /\ y.caller = row[k].caller
        /\ y.maximum = row[k].maximum
    BY <1>0 DEF Row
  <1> HIDE DEF y
  <1>4. /\ row' \in [Reservations -> Row]
        /\ \A j \in Reservations : row'[j].settled <= row'[j].maximum
        /\ row'[k] = y
        /\ \A j \in Reservations \ {k} : row'[j] = row[j]
    BY <1>0, <1>1, <1>3, OneRow
  <1>5. /\ tx' \in [Reservations -> Tx]
        /\ tx'[k] = NoTx
        /\ \A j \in Reservations \ {k} : tx'[j] = tx[j]
    BY <1>0, <1>1, NoTxIsTx, OneTx
  <1>6. /\ holder' \in [Months -> Reservations \cup {None}]
        /\ \A m \in Months : holder[m] \in Reservations \ {k} => holder'[m] = holder[m]
    BY <1>0, <1>1, <1>2, GiveLock
  <1>7. TypeOK'
    BY <1>0, <1>1, <1>4, <1>5, <1>6 DEF TypeOK
  <1>8. Charge(k)' <= Charge(k)
    <2>1. Charge(k) = row[k].maximum
      BY <1>1, <1>2 DEF Charge, Counted, Standing
    <2>2. QED
      BY <1>3, <1>4, <1>7, <2>1, ChargeIsNumberNext
  <1>9. Calm(k)
    <2>1. Frame(k)
      BY <1>1, <1>4, <1>5, <1>6 DEF Frame
    <2>2. QED
      BY <1>2, <1>3, <1>4, <1>8, <2>1 DEF Calm
  <1>10. RowOK(k)'
    BY <1>0, <1>1, <1>2, <1>3, <1>4 DEF RowOK
  <1>11. OwnOK(k)'
    BY <1>5, <1>10, EndedIsOK
  <1>12. QED
    BY <1>7, <1>9, <1>11, CalmStepKeepsInv

(* A row that falls outside of any transaction of its own: it keeps its    *)
(* identity or is deleted, and its charge does not rise.                   *)
LEMMA FallingRow ==
  ASSUME LedgerInv, NEW k \in Reservations, tx[k].step \in {"idle", "exposing"},
         NEW y \in Row, y.settled <= y.maximum,
         row' = [row EXCEPT ![k] = y],
         y = NoRow \/ /\ y.month = row[k].month /\ y.caller = row[k].caller
                      /\ y.state # "absent"
                      /\ y.live => row[k].live,
         row[k].state # "absent",
         y.exposed => y.state \in {"reserved", "settled"},
         tx[k].step = "exposing" => y.state = "reserved" /\ y.month = row[k].month,
         Charge(k)' <= Charge(k),
         month' = month, limit' = limit, holder' = holder, tx' = tx
  PROVE  LedgerInv' /\ Calm(k)
  <1>0. TypeOK /\ RowOK(k) /\ TxOK(k)
    BY DEF LedgerInv
  <1>1. /\ row' \in [Reservations -> Row]
        /\ \A j \in Reservations : row'[j].settled <= row'[j].maximum
        /\ row'[k] = y
        /\ \A j \in Reservations \ {k} : row'[j] = row[j]
    BY <1>0, OneRow
  <1>2. TypeOK'
    BY <1>0, <1>1 DEF TypeOK
  <1>3. Calm(k)
    BY <1>1, NoRowIsRow DEF Calm, Frame
  <1>4. RowOK(k)'
    BY <1>0, <1>1, NoRowIsRow DEF RowOK
  <1>5. TxOK(k)'
    BY <1>0, <1>1 DEF TxOK, Admitting, Timed, Holding
  <1>6. OwnOK(k)'
    BY <1>4, <1>5 DEF OwnOK, AliveOK, Covers, Timed
  <1>7. QED
    BY <1>2, <1>3, <1>6, CalmStepKeepsInv

LEMMA SettleStep ==
  ASSUME LedgerInv, NEW k \in Reservations, Settle(k)
  PROVE  LedgerInv' /\ Calm(k)
  <1>1. PICK amount \in Price(k) :
          row' = [row EXCEPT ![k] = [row[k] EXCEPT
               !.state = IF row[k].caller = "answer" /\ ~row[k].exposed
                         THEN "released" ELSE "settled",
               !.settled = amount]]
    BY DEF Settle
  <1> DEFINE s == IF row[k].caller = "answer" /\ ~row[k].exposed
                  THEN "released" ELSE "settled"
             y == [row[k] EXCEPT !.state = s, !.settled = amount]
  <1>0. /\ TypeOK /\ RowOK(k) /\ row[k] \in Row
        /\ row[k].maximum \in Nat
        /\ row[k].state = "reserved" /\ tx[k].step = "idle"
        /\ month' = month /\ limit' = limit /\ holder' = holder /\ tx' = tx
    BY DEF Settle, LedgerInv, TypeOK, RowFree, Row
  <1>2. /\ amount \in Nat /\ amount <= row[k].maximum
        /\ ~row[k].exposed => amount = 0
    BY <1>0 DEF Price
  <1>3. s \in {"released", "settled"} /\ (s = "released" => ~row[k].exposed)
    OBVIOUS
  <1>4. row' = [row EXCEPT ![k] = y]
    BY <1>1
  <1> HIDE DEF s
  <1>5. /\ y \in Row /\ y.settled = amount /\ y.maximum = row[k].maximum
        /\ y.state = s /\ y.live = row[k].live /\ y.month = row[k].month
        /\ y.caller = row[k].caller /\ y.exposed = row[k].exposed
    BY <1>0, <1>2, <1>3 DEF Row
  <1> HIDE DEF y
  <1>6. row'[k] = y
    BY <1>0, <1>4 DEF TypeOK
  <1>7. Charge(k)' <= Charge(k)
    <2>1. Charge(k)' = IF s = "settled" THEN amount ELSE 0
      BY <1>3, <1>5, <1>6 DEF Charge, Counted
    <2>2. row[k].exposed => Charge(k) = row[k].maximum
      BY <1>0 DEF Charge, Counted
    <2>3. Charge(k) \in Nat
      BY <1>0, CountedIsNumber DEF Charge
    <2>4. QED
      BY <1>0, <1>2, <1>3, <2>1, <2>2, <2>3
  <1>8. QED
    BY <1>0, <1>2, <1>3, <1>4, <1>5, <1>7, FallingRow

LEMMA ExpireUnexposedStep ==
  ASSUME LedgerInv, NEW k \in Reservations, ExpireUnexposed(k)
  PROVE  LedgerInv' /\ Calm(k)
  <1> DEFINE y == [row[k] EXCEPT !.state = "expired"]
  <1>0. /\ TypeOK /\ row[k] \in Row /\ row[k].settled <= row[k].maximum
        /\ row[k].state = "reserved" /\ ~row[k].exposed /\ tx[k].step = "idle"
        /\ row' = [row EXCEPT ![k] = y]
        /\ month' = month /\ limit' = limit /\ holder' = holder /\ tx' = tx
    BY DEF ExpireUnexposed, LedgerInv, TypeOK, RowFree
  <1>1. /\ y \in Row /\ y.settled = row[k].settled /\ y.maximum = row[k].maximum
        /\ y.state = "expired" /\ y.live = row[k].live /\ y.month = row[k].month
        /\ y.caller = row[k].caller /\ y.exposed = row[k].exposed
    BY <1>0 DEF Row
  <1> HIDE DEF y
  <1>2. Charge(k)' <= Charge(k)
    <2>1. Charge(k)' = 0
      BY <1>0, <1>1 DEF TypeOK, Charge, Counted
    <2>2. Charge(k) \in Nat
      BY <1>0, CountedIsNumber DEF Charge
    <2>3. QED
      BY <2>1, <2>2
  <1>3. QED
    BY <1>0, <1>1, <1>2, FallingRow

LEMMA SettleExpiredQueryStep ==
  ASSUME LedgerInv, NEW k \in Reservations, SettleExpiredQuery(k)
  PROVE  LedgerInv' /\ Calm(k)
  <1> DEFINE y == [row[k] EXCEPT !.state = "settled", !.settled = row[k].maximum]
  <1>0. /\ TypeOK /\ row[k] \in Row /\ row[k].maximum \in Nat
        /\ row[k].state = "reserved" /\ row[k].exposed /\ tx[k].step = "idle"
        /\ row' = [row EXCEPT ![k] = y]
        /\ month' = month /\ limit' = limit /\ holder' = holder /\ tx' = tx
    BY DEF SettleExpiredQuery, LedgerInv, TypeOK, RowFree, Row
  <1>1. /\ y \in Row /\ y.settled = row[k].maximum /\ y.maximum = row[k].maximum
        /\ y.state = "settled" /\ y.live = row[k].live /\ y.month = row[k].month
        /\ y.caller = row[k].caller /\ y.exposed = row[k].exposed
    BY <1>0 DEF Row
  <1> HIDE DEF y
  <1>2. Charge(k)' <= Charge(k)
    BY <1>0, <1>1 DEF TypeOK, Charge, Counted
  <1>3. y.settled <= y.maximum
    BY <1>0, <1>1
  <1>4. QED
    BY <1>0, <1>1, <1>2, <1>3, FallingRow

LEMMA DeleteReservationStep ==
  ASSUME LedgerInv, NEW k \in Reservations, DeleteReservation(k)
  PROVE  LedgerInv' /\ Calm(k)
  <1>0. /\ TypeOK /\ row[k].state \in Closed /\ tx[k].step = "idle"
        /\ row' = [row EXCEPT ![k] = NoRow]
        /\ month' = month /\ limit' = limit /\ holder' = holder /\ tx' = tx
    BY DEF DeleteReservation, LedgerInv, RowFree
  <1>1. row[k].state # "absent"
    BY <1>0 DEF Closed
  <1>2. Charge(k)' <= Charge(k)
    <2>1. Charge(k)' = 0
      BY <1>0, NoRowIsRow DEF TypeOK, Charge, Counted
    <2>2. Charge(k) \in Nat
      BY <1>0, CountedIsNumber DEF Charge
    <2>3. QED
      BY <2>1, <2>2
  <1>3. NoRow.settled <= NoRow.maximum
    BY NoRowIsRow
  <1>4. QED
    BY <1>0, <1>1, <1>2, <1>3, NoRowIsRow, FallingRow

LEMMA LapseStep ==
  ASSUME LedgerInv, NEW k \in Reservations, Lapse(k)
  PROVE  LedgerInv' /\ Calm(k)
  <1> DEFINE y == [row[k] EXCEPT !.live = FALSE]
  <1>0. /\ TypeOK /\ TxOK(k) /\ row[k] \in Row /\ row[k].settled <= row[k].maximum
        /\ row[k].state = "reserved" /\ row[k].live
        /\ row' = [row EXCEPT ![k] = y]
        /\ month' = month /\ limit' = limit /\ holder' = holder /\ tx' = tx
    BY DEF Lapse, LedgerInv, TypeOK
  <1>1. /\ y \in Row /\ y.settled = row[k].settled /\ y.maximum = row[k].maximum
        /\ y.state = "reserved" /\ y.live = FALSE /\ y.month = row[k].month
        /\ y.caller = row[k].caller /\ y.exposed = row[k].exposed
    BY <1>0 DEF Row
  <1> HIDE DEF y
  <1>2. tx[k].step \in {"idle", "exposing"}
    BY <1>0 DEF TxOK, TypeOK, Tx, Steps, Admitting
  <1>3. tx[k].step = "exposing" => tx[k].month = row[k].month
    BY <1>0 DEF TxOK
  <1>4. Charge(k)' <= Charge(k)
    <2>1. Charge(k) = row[k].maximum
      BY <1>0 DEF Charge, Counted, Standing, AliveNow
    <2>2. row'[k] = y /\ row[k].maximum \in Nat
      BY <1>0 DEF TypeOK, Row
    <2>3. Charge(k)' = y.maximum \/ Charge(k)' = 0
      BY <1>1, <2>2 DEF Charge, Counted
    <2>4. QED
      BY <1>1, <2>1, <2>2, <2>3
  <1>5. QED
    BY <1>0, <1>1, <1>2, <1>4, FallingRow

-----------------------------------------------------------------------------
(* Steps of no reservation *)

LEMMA DeleteBudgetStep ==
  ASSUME LedgerInv, NEW m \in Months, DeleteBudget(m)
  PROVE  LedgerInv'
  <1>1. /\ TypeOK
        /\ limit' = [limit EXCEPT ![m] = None]
        /\ month' = month /\ row' = row /\ holder' = holder /\ tx' = tx
    BY DEF LedgerInv, DeleteBudget
  <1>2. TypeOK'
    BY <1>1 DEF TypeOK
  <1>3. \A k \in Reservations : RowOK(k)' /\ TxOK(k)' /\ AliveOK(k)'
    BY <1>1 DEF LedgerInv, RowOK, TxOK, AliveOK
  <1>4. SumStillCovers'
    BY <1>1 DEF LedgerInv, SumStillCovers, Charge, Counted, Standing, AliveNow
  <1>5. QED
    BY <1>2, <1>3, <1>4 DEF LedgerInv

\* A month's end is a lapse of all its rows.
LEMMA MonthEndsRows ==
  ASSUME LedgerInv, MonthEnds, NEW k \in Reservations
  PROVE  /\ row'[k] \in Row
         /\ row'[k].state = row[k].state /\ row'[k].month = row[k].month
         /\ row'[k].caller = row[k].caller /\ row'[k].exposed = row[k].exposed
         /\ row'[k].maximum = row[k].maximum /\ row'[k].settled = row[k].settled
         /\ row'[k].live => row[k].live
         /\ row[k].state = "absent" => row'[k] = NoRow
         /\ Charge(k)' <= Charge(k)
  <1> DEFINE y == [row[k] EXCEPT !.live = FALSE]
  <1>0. /\ TypeOK /\ RowOK(k) /\ row[k] \in Row /\ tx' = tx
        /\ row'[k] = IF row[k].month = month THEN y ELSE row[k]
    BY DEF MonthEnds, LedgerInv, TypeOK
  <1>1. /\ y \in Row /\ y.settled = row[k].settled /\ y.maximum = row[k].maximum
        /\ y.state = row[k].state /\ y.live = FALSE /\ y.month = row[k].month
        /\ y.caller = row[k].caller /\ y.exposed = row[k].exposed
    BY <1>0 DEF Row
  <1> HIDE DEF y
  <1>2. /\ row'[k] \in Row
        /\ row'[k].state = row[k].state /\ row'[k].month = row[k].month
        /\ row'[k].caller = row[k].caller /\ row'[k].exposed = row[k].exposed
        /\ row'[k].maximum = row[k].maximum /\ row'[k].settled = row[k].settled
        /\ row'[k].live => row[k].live
    BY <1>0, <1>1
  <1>3. row[k].state = "absent" => row'[k] = NoRow
    BY <1>0, NoRowIsRow, ConstantFacts DEF RowOK, TypeOK
  <1>4. (k \in Standing)' => k \in Standing
    BY <1>0, <1>2 DEF Standing, AliveNow
  <1>5. row[k].settled \in Nat /\ row[k].maximum \in Nat
    BY <1>0 DEF Row
  <1>6. Charge(k)' <= Charge(k)
    BY <1>2, <1>4, <1>5 DEF Charge, Counted
  <1>7. QED
    BY <1>2, <1>3, <1>6

LEMMA MonthEndsStep ==
  ASSUME LedgerInv, MonthEnds
  PROVE  LedgerInv'
  <1>1. /\ TypeOK /\ month' = month + 1 /\ month < LastMonth /\ month \in Months
        /\ limit' = limit /\ holder' = holder /\ tx' = tx
    BY DEF MonthEnds, LedgerInv, TypeOK
  <1>2. month' \in Months /\ month <= month'
    BY <1>1, LedgerConstantsOK DEF Months
  <1>3. row' \in [Reservations -> Row]
    <2>1. row' = [k \in Reservations |-> row'[k]]
      BY DEF MonthEnds
    <2>2. QED
      BY <2>1, MonthEndsRows
  <1>4. \A k \in Reservations : row'[k].settled <= row'[k].maximum
    BY <1>1, MonthEndsRows DEF TypeOK
  <1>5. TypeOK'
    BY <1>1, <1>2, <1>3, <1>4 DEF TypeOK
  <1>6. ASSUME NEW k \in Reservations
        PROVE  RowOK(k)' /\ TxOK(k)' /\ AliveOK(k)'
    <2>1. RowOK(k) /\ TxOK(k) /\ AliveOK(k)
      BY DEF LedgerInv
    <2>2. \A m \in Months : m <= month => m <= month'
      BY <1>1, <1>2, ConstantFacts
    <2>3. RowOK(k)'
      BY <1>2, <2>1, <2>2, MonthEndsRows DEF RowOK
    <2>4. TxOK(k)'
      BY <1>1, <2>1, <2>2, MonthEndsRows DEF TxOK
    <2>5. AliveOK(k)'
      BY <1>1, <2>1, MonthEndsRows DEF AliveOK
    <2>6. QED
      BY <2>3, <2>4, <2>5
  <1>7. ASSUME NEW k \in Reservations, NEW j \in Reservations,
               tx[k].step = "summed", row'[j].month = tx[k].month
        PROVE  Charge(j)' <= tx[k].counted[j]
    <2>1. Charge(j)' <= Charge(j) /\ Charge(j) <= tx[k].counted[j]
      BY <1>7, MonthEndsRows DEF LedgerInv, SumStillCovers
    <2>2. Charge(j) \in Nat /\ Charge(j)' \in Nat /\ tx[k].counted[j] \in Nat
      <3>1. Charge(j) \in Nat
        BY <1>1, CountedIsNumber DEF Charge
      <3>2. Charge(j)' \in Nat
        BY <1>5, ChargeIsNumberNext
      <3>3. QED
        BY <1>1, <3>1, <3>2 DEF TypeOK, Tx
    <2>3. QED
      BY <2>1, <2>2
  <1>8. SumStillCovers'
    BY <1>1, <1>7 DEF SumStillCovers
  <1>9. QED
    BY <1>5, <1>6, <1>8 DEF LedgerInv

-----------------------------------------------------------------------------
(* Theorems *)

LEMMA StepKeepsInv ==
  ASSUME LedgerInv, [Next]_vars
  PROVE  LedgerInv'
  <1>1. CASE UNCHANGED vars
    BY <1>1 DEF vars, LedgerInv, TypeOK, RowOK, TxOK, AliveOK, SumStillCovers,
                Charge, Counted, Standing, AliveNow
  <1>2. ASSUME NEW k \in Reservations, Admission(k)
        PROVE  LedgerInv'
    BY <1>2, BeginStep, LockBudgetStep, ReadClockStep, SumCommittedStep,
       CommitAdmissionStep, CommitRefusalStep, RollbackStep DEF Admission
  <1>3. CASE Next
    BY <1>2, <1>3, ExposeStep, CommitExposureStep, SettleStep, ExpireUnexposedStep,
       SettleExpiredQueryStep, DeleteReservationStep, LapseStep, DeleteBudgetStep,
       MonthEndsStep DEF Next
  <1>4. QED
    BY <1>1, <1>3

LEMMA LedgerInvHolds == Spec => []LedgerInv
  BY InitHolds, StepKeepsInv, PTL DEF Spec

(* What the theorems about BudgetAccount assume of the months and policies *)
(* holds for those of the ledger.                                          *)
THEOREM PromiseIsMeant == Account!PoliciesOK
  BY LedgerConstantsOK DEF Account!PoliciesOK, Account!Purposes, Purposes, Months

\* Every column and every local variable has a value the code can give it.
THEOREM LedgerIsTyped == Spec => []TypeOK
  <1>1. LedgerInv => TypeOK
    BY DEF LedgerInv
  <1>2. QED
    BY <1>1, LedgerInvHolds, PTL

(* The sum an admission has taken still covers every charge of its month   *)
(* when it commits, whatever ran in between.                               *)
THEOREM SumsStayCovered == Spec => []SumStillCovers
  <1>1. LedgerInv => SumStillCovers
    BY DEF LedgerInv
  <1>2. QED
    BY <1>1, LedgerInvHolds, PTL

\* Whoever is admitted got the lock before the month he is charged to ended.
THEOREM NobodyIsLate == Spec => NoLateAdmission
  <1>1. LedgerInv /\ [Next]_vars =>
            [\A k \in Reservations : CommitAdmission(k) => tx[k].lockedIn = tx[k].month]_vars
    BY DEF LedgerInv, TxOK, CommitAdmission, Timed
  <1>2. QED
    BY <1>1, LedgerInvHolds, PTL DEF Spec, NoLateAdmission

\* A step that leaves a row alone, or falls with its month, keeps its charge.
LEMMA UntouchedChargeStays ==
  ASSUME LedgerInv, NEW k \in Reservations, row[k].state # "absent",
         row'[k].state = row[k].state, row'[k].exposed = row[k].exposed,
         row'[k].maximum = row[k].maximum, row[k].exposed
  PROVE  \/ row'[k].state = "reserved" /\ Charge(k)' = row[k].maximum
         \/ row'[k].state = "settled"
  <1>1. row[k].state \in {"reserved", "settled"}
    BY DEF LedgerInv, RowOK
  <1>2. QED
    BY <1>1 DEF Charge, Counted

LEMMA ExposedChargeStays ==
  ASSUME LedgerInv, Next, NEW k \in Reservations, row[k].state # "absent", row[k].exposed
  PROVE  \/ row'[k].state = "reserved" /\ Charge(k)' = row[k].maximum
         \/ row'[k].state = "settled"
         \/ row'[k].state = "absent" /\ row[k].month < month
  <1>0. TypeOK /\ TxOK(k) /\ RowOK(k) /\ row[k] \in Row
    BY DEF LedgerInv, TypeOK
  <1>1. CASE row'[k] = row[k]
    BY <1>1, UntouchedChargeStays
  <1>2. CASE MonthEnds
    BY <1>2, MonthEndsRows, UntouchedChargeStays
  <1>3. CASE \E m \in Months : DeleteBudget(m)
    BY <1>1, <1>3 DEF DeleteBudget
  <1>4. ASSUME NEW j \in Reservations, Admission(j)
        PROVE  row'[k] = row[k]
    <2>1. CASE CommitAdmission(j)
      <3>1. /\ row[j].state = "absent"
            /\ row' = [row EXCEPT ![j] = row'[j]]
        <4>1. row[j].state = "absent"
          BY <2>1 DEF LedgerInv, TxOK, CommitAdmission, Admitting
        <4>2. row' = [row EXCEPT ![j] = row'[j]]
          BY <1>0, <2>1 DEF CommitAdmission, InsertReservation, TypeOK
        <4>3. QED
          BY <4>1, <4>2
      <3>2. j # k
        BY <3>1
      <3>3. QED
        BY <1>0, <3>1, <3>2 DEF TypeOK
    <2>2. CASE ~CommitAdmission(j)
      BY <1>4, <2>2 DEF Admission, Begin, LockBudget, ReadClock, SumCommitted,
                        CommitRefusal, Rollback
    <2>3. QED
      BY <2>1, <2>2
  <1>5. ASSUME NEW j \in Reservations, j # k,
               \/ Expose(j)
               \/ CommitExposure(j)
               \/ Settle(j)
               \/ ExpireUnexposed(j)
               \/ SettleExpiredQuery(j)
               \/ DeleteReservation(j)
               \/ Lapse(j)
        PROVE  row'[k] = row[k]
    <2>1. CASE Expose(j)
      BY <2>1 DEF Expose
    <2>2. CASE CommitExposure(j)
      BY <1>0, <1>5, <2>2 DEF CommitExposure, TypeOK
    <2>3. CASE Settle(j)
      BY <1>0, <1>5, <2>3 DEF Settle, TypeOK
    <2>4. CASE ExpireUnexposed(j)
      BY <1>0, <1>5, <2>4 DEF ExpireUnexposed, TypeOK
    <2>5. CASE SettleExpiredQuery(j)
      BY <1>0, <1>5, <2>5 DEF SettleExpiredQuery, TypeOK
    <2>6. CASE DeleteReservation(j)
      BY <1>0, <1>5, <2>6 DEF DeleteReservation, TypeOK
    <2>7. CASE Lapse(j)
      BY <1>0, <1>5, <2>7 DEF Lapse, TypeOK
    <2>8. QED
      BY <1>5, <2>1, <2>2, <2>3, <2>4, <2>5, <2>6, <2>7
  <1>6. CASE Expose(k) \/ ExpireUnexposed(k)
    BY <1>6 DEF Expose, ExpireUnexposed
  <1>7. CASE CommitExposure(k) \/ Lapse(k)
    <2>0. row[k] \in Row
      BY <1>0 DEF TypeOK
    <2>1. CASE CommitExposure(k)
      <3>1. row'[k] = [row[k] EXCEPT !.exposed = TRUE]
        BY <1>0, <2>1 DEF CommitExposure, TypeOK
      <3>2. /\ row'[k].state = row[k].state /\ row'[k].maximum = row[k].maximum
            /\ row'[k].exposed = row[k].exposed
        BY <2>0, <3>1 DEF Row
      <3>3. QED
        BY <3>2, UntouchedChargeStays
    <2>2. CASE Lapse(k)
      <3>1. row'[k] = [row[k] EXCEPT !.live = FALSE]
        BY <1>0, <2>2 DEF Lapse, TypeOK
      <3>2. /\ row'[k].state = row[k].state /\ row'[k].maximum = row[k].maximum
            /\ row'[k].exposed = row[k].exposed
        BY <2>0, <3>1 DEF Row
      <3>3. QED
        BY <3>2, UntouchedChargeStays
    <2>3. QED
      BY <1>7, <2>1, <2>2
  <1>8. CASE Settle(k)
    <2>1. row'[k].state = "settled"
      BY <1>0, <1>8 DEF Settle, TypeOK, Row
    <2>2. QED
      BY <2>1
  <1>9. CASE SettleExpiredQuery(k)
    <2>1. row'[k].state = "settled"
      BY <1>0, <1>9 DEF SettleExpiredQuery, TypeOK, Row
    <2>2. QED
      BY <2>1
  <1>10. CASE DeleteReservation(k)
    BY <1>0, <1>10, NoRowIsRow DEF DeleteReservation, TypeOK
  <1>11. QED
    BY <1>1, <1>2, <1>3, <1>4, <1>5, <1>6, <1>7, <1>8, <1>9, <1>10 DEF Next

LEMMA ChargeFalls ==
  ASSUME LedgerInv, Next, NEW k \in Reservations, row[k].state # "absent"
  PROVE  Charge(k)' <= Charge(k)
  <1>0. Charge(k) \in Nat
    BY CountedIsNumber DEF Charge, LedgerInv
  <1>1. ASSUME NEW j \in Reservations, Calm(j)
        PROVE  Charge(k)' <= Charge(k)
    <2>1. CASE j = k
      BY <1>1, <2>1 DEF Calm
    <2>2. CASE j # k
      <3>1. Charge(k)' = Charge(k)
        BY <1>1, <2>2, OthersKeepTheirCharge DEF Calm
      <3>2. QED
        BY <1>0, <3>1
    <2>3. QED
      BY <2>1, <2>2
  <1>2. CASE MonthEnds
    BY <1>2, MonthEndsRows
  <1>3. CASE \E m \in Months : DeleteBudget(m)
    <2>1. Charge(k)' = Charge(k)
      BY <1>3 DEF DeleteBudget, Charge, Counted, Standing, AliveNow
    <2>2. QED
      BY <1>0, <2>1
  <1>4. ASSUME NEW j \in Reservations, Admission(j)
        PROVE  Calm(j)
    BY <1>4, BeginStep, LockBudgetStep, ReadClockStep, SumCommittedStep,
       CommitAdmissionStep, CommitRefusalStep, RollbackStep DEF Admission
  <1>5. QED
    BY <1>1, <1>2, <1>3, <1>4, ExposeStep, CommitExposureStep, SettleStep,
       ExpireUnexposedStep, SettleExpiredQueryStep, DeleteReservationStep,
       LapseStep DEF Next

(* No charge ever rises after its reservation was inserted, and one that   *)
(* was exposed to the provider stays until it is priced and on record      *)
(* until its month is over.                                                *)
THEOREM ChargesFall == Spec => ChargesOnlyFall
  <1>1. ASSUME LedgerInv, [Next]_vars
        PROVE  [\A k \in Reservations : row[k].state # "absent" =>
                    /\ Charge(k)' <= Charge(k)
                    /\ row[k].exposed =>
                           \/ row'[k].state = "reserved" /\ Charge(k)' = row[k].maximum
                           \/ row'[k].state = "settled"
                           \/ row'[k].state = "absent" /\ row[k].month < month]_vars
    BY <1>1, ChargeFalls, ExposedChargeStays
  <1>2. QED
    BY <1>1, LedgerInvHolds, PTL DEF Spec, ChargesOnlyFall

-----------------------------------------------------------------------------
(* What a transaction knows of its promise *)

\* The month still has room for what the admission asks for.
FitsNow(k) ==
    LET m == tx[k].month
        policy == tx[k].policy
    IN  /\ Committed(m, "embedding") + Committed(m, "grounded-answer")
               + tx[k].amount <= policy.limit
        /\ Committed(m, policy.purpose) + tx[k].amount <= policy.share

PromiseOK(k) ==
    /\ tx[k].step \in Admitting => tx[k].policy.purpose = PurposeOf(tx[k].caller)
    /\ tx[k].step \in Timed => AcceptsLimit(k)
    /\ tx[k].step = "summed" => FitsNow(k)

PromiseInv == LedgerInv /\ \A k \in Reservations : PromiseOK(k)

-----------------------------------------------------------------------------
(* The committed amount of a purpose as a sum over all reservations *)

Belongs(k, m, p) == row[k].month = m /\ row[k].caller \in CallersOf(p)

Amounts(m, p) ==
    [k \in Reservations |-> IF Belongs(k, m, p) THEN Charge(k) ELSE 0]

LEMMA AmountsAreNumbers ==
    TypeOK => \A m, p : Amounts(m, p) \in [Reservations -> Nat]
  <1> SUFFICES ASSUME TypeOK, NEW m, NEW p
               PROVE  Amounts(m, p) \in [Reservations -> Nat]
    OBVIOUS
  <1>1. \A k \in Reservations : Charge(k) \in Nat
    BY CountedIsNumber DEF Charge
  <1>2. QED
    BY <1>1 DEF Amounts

LEMMA CommittedIsSum ==
    TypeOK => \A m, p : Committed(m, p) = Sum(Amounts(m, p), Reservations)
  <1> SUFFICES ASSUME TypeOK, NEW m, NEW p
               PROVE  Committed(m, p) = Sum(Amounts(m, p), Reservations)
    OBVIOUS
  <1> DEFINE charges == [k \in Reservations |-> Charge(k)]
             rows == RowsOf(m, CallersOf(p))
  <1>1. \A k \in Reservations : charges[k] \in Nat
    BY CountedIsNumber DEF Charge
  <1>2. Committed(m, p) = Sum(charges, rows)
    BY DEF Committed, SumOf, Sum
  <1>3. rows \in SUBSET Reservations
    BY DEF RowsOf
  <1>4. Amounts(m, p) = [k \in Reservations |-> IF k \in rows THEN charges[k] ELSE 0]
    BY DEF Amounts, RowsOf, Belongs
  <1> HIDE DEF charges, rows
  <1>5. QED
    BY <1>1, <1>2, <1>3, <1>4, SumOfSelected, LedgerConstantsOK

LEMMA CommittedIsNumber ==
    TypeOK => \A m, p : Committed(m, p) \in Nat
  <1> SUFFICES ASSUME TypeOK, NEW m, NEW p
               PROVE  Committed(m, p) \in Nat
    OBVIOUS
  <1>1. \A k \in Reservations : Amounts(m, p)[k] \in Nat
    BY AmountsAreNumbers
  <1>2. QED
    BY <1>1, CommittedIsSum, SumIsNumber, LedgerConstantsOK

LEMMA SumOfIsSum == \A rows, amounts : SumOf(rows, amounts) = Sum(amounts, rows)
  BY DEF SumOf, Sum

(* What the proofs below use of the sums, before and after a step.         *)
SumsOK ==
    \A m, p :
        /\ Amounts(m, p) \in [Reservations -> Nat]
        /\ Committed(m, p) = Sum(Amounts(m, p), Reservations)
        /\ Committed(m, p) \in Nat
        /\ Committed(m, p) =
               Sum([k \in Reservations |-> Charge(k)], RowsOf(m, CallersOf(p)))

LEMMA SumsAreOK == TypeOK => SumsOK
  <1>1. \A m, p : Committed(m, p) =
            Sum([k \in Reservations |-> Charge(k)], RowsOf(m, CallersOf(p)))
    BY SumOfIsSum DEF Committed
  <1>2. QED
    BY <1>1, AmountsAreNumbers, CommittedIsSum, CommittedIsNumber DEF SumsOK

LEMMA SumsAreOKNext == TypeOK' => SumsOK'
  BY SumsAreOK, PTL

LEMMA CommittedFalls ==
  ASSUME TypeOK, TypeOK', NEW m, NEW p,
         \A k \in Reservations : Amounts(m, p)'[k] <= Amounts(m, p)[k]
  PROVE  Committed(m, p)' <= Committed(m, p)
  <1>1. SumsOK /\ SumsOK'
    BY SumsAreOK, SumsAreOKNext
  <1>2. /\ Committed(m, p) = Sum(Amounts(m, p), Reservations)
        /\ Committed(m, p)' = Sum(Amounts(m, p)', Reservations)
        /\ \A k \in Reservations : Amounts(m, p)[k] \in Nat /\ Amounts(m, p)'[k] \in Nat
    BY <1>1 DEF SumsOK
  <1>3. QED
    BY <1>2, SumIsMonotone, LedgerConstantsOK

LEMMA CommittedStays ==
  ASSUME TypeOK, TypeOK', NEW m, NEW p,
         \A k \in Reservations : Amounts(m, p)'[k] = Amounts(m, p)[k]
  PROVE  Committed(m, p)' = Committed(m, p)
  <1>1. SumsOK /\ SumsOK'
    BY SumsAreOK, SumsAreOKNext
  <1>2. /\ Committed(m, p) = Sum(Amounts(m, p), Reservations)
        /\ Committed(m, p)' = Sum(Amounts(m, p)', Reservations)
    BY <1>1 DEF SumsOK
  <1>3. QED
    BY <1>2, SameSum, LedgerConstantsOK

LEMMA CommittedGrows ==
  ASSUME TypeOK, TypeOK', NEW m, NEW p, NEW k \in Reservations,
         Amounts(m, p)[k] = 0,
         \A j \in Reservations \ {k} : Amounts(m, p)'[j] = Amounts(m, p)[j]
  PROVE  Committed(m, p)' = Committed(m, p) + Amounts(m, p)'[k]
  <1>1. SumsOK /\ SumsOK'
    BY SumsAreOK, SumsAreOKNext
  <1>2. /\ Committed(m, p) = Sum(Amounts(m, p), Reservations)
        /\ Committed(m, p)' = Sum(Amounts(m, p)', Reservations)
        /\ \A j \in Reservations : Amounts(m, p)[j] \in Nat /\ Amounts(m, p)'[j] \in Nat
        /\ Committed(m, p) \in Nat /\ Committed(m, p)' \in Nat
    BY <1>1 DEF SumsOK
  <1>3. Sum(Amounts(m, p)', Reservations) + Amounts(m, p)[k]
            = Sum(Amounts(m, p), Reservations) + Amounts(m, p)'[k]
    BY <1>2, SumChanged, LedgerConstantsOK
  <1>4. QED
    BY <1>2, <1>3

-----------------------------------------------------------------------------
(* Steps that only give back *)

(* A reservation keeps its month and purpose or is deleted, and its charge *)
(* does not rise.                                                          *)
Falling(k) ==
    /\ \/ row'[k].month = row[k].month /\ row'[k].caller = row[k].caller
       \/ row'[k] = NoRow
    /\ Charge(k)' <= Charge(k)

LEMMA FallingAmounts ==
  ASSUME LedgerInv, NEW k \in Reservations, Falling(k), TypeOK', NEW m \in Months, NEW p
  PROVE  Amounts(m, p)'[k] <= Amounts(m, p)[k]
  <1>1. Charge(k) \in Nat /\ Charge(k)' \in Nat
    BY CountedIsNumber, ChargeIsNumberNext DEF Charge, LedgerInv
  <1>2. ~(NoRow.month = m)
    BY NoRowIsRow, ConstantFacts
  <1>3. Belongs(k, m, p)' => Belongs(k, m, p)
    BY <1>2 DEF Falling, Belongs
  <1>4. /\ Amounts(m, p)[k] = IF Belongs(k, m, p) THEN Charge(k) ELSE 0
        /\ Amounts(m, p)'[k] = IF Belongs(k, m, p)' THEN Charge(k)' ELSE 0
    BY DEF Amounts
  <1>5. QED
    BY <1>1, <1>3, <1>4 DEF Falling

\* Nothing of the other months changes.
Only(m) ==
    \A k \in Reservations : row[k].month # m =>
        row'[k] = row[k] /\ Charge(k)' = Charge(k)

LEMMA OtherMonthsStay ==
  ASSUME LedgerInv, TypeOK', NEW m \in Months, Only(m),
         \A k \in Reservations : Falling(k),
         NEW n \in Months, n # m, NEW p
  PROVE  Committed(n, p)' = Committed(n, p)
  <1>1. ASSUME NEW k \in Reservations
        PROVE  Amounts(n, p)'[k] = Amounts(n, p)[k]
    <2>1. /\ Amounts(n, p)[k] = IF Belongs(k, n, p) THEN Charge(k) ELSE 0
          /\ Amounts(n, p)'[k] = IF Belongs(k, n, p)' THEN Charge(k)' ELSE 0
      BY DEF Amounts
    <2>2. CASE row[k].month # m
      BY <2>1, <2>2 DEF Only, Belongs
    <2>3. CASE row[k].month = m
      <3>1. row'[k].month # n /\ row[k].month # n
        BY <2>3, NoRowIsRow, ConstantFacts DEF Falling
      <3>2. QED
        BY <2>1, <3>1 DEF Belongs
    <2>4. QED
      BY <2>2, <2>3
  <1>2. QED
    BY <1>1, CommittedStays DEF LedgerInv

\* Such a step returns an amount to the account of one month.
LEMMA FallingIsReturn ==
  ASSUME LedgerInv, LedgerInv', limit' = limit, NEW m \in Months, Only(m),
         \A k \in Reservations : Falling(k)
  PROVE  Account!AccountNext
  <1> DEFINE left == [p \in Purposes |-> Committed(m, p)']
             before == [n \in Months |-> [p \in Purposes |-> Committed(n, p)]]
             after == [n \in Months |-> [p \in Purposes |-> Committed(n, p)']]
  <1>0. TypeOK /\ TypeOK' /\ SumsOK /\ SumsOK'
    BY SumsAreOK, SumsAreOKNext DEF LedgerInv
  <1>1. \A p \in Purposes : Committed(m, p)' <= Committed(m, p)
    BY <1>0, FallingAmounts, CommittedFalls
  <1>2. \A p \in Purposes : Committed(m, p) \in Nat /\ Committed(m, p)' \in Nat
    BY <1>0 DEF SumsOK
  <1>3. /\ "embedding" \in Purposes /\ "grounded-answer" \in Purposes
        /\ \A p \in Purposes : p = "embedding" \/ p = "grounded-answer"
    BY DEF Purposes
  <1>4. Account!Total(m) = Committed(m, "embedding") + Committed(m, "grounded-answer")
    BY <1>3 DEF Account!Total
  <1>5. left \in [Purposes -> 0..Account!Total(m)]
    <2>1. \A p \in Purposes : Committed(m, p)' \in 0..Account!Total(m)
      BY <1>1, <1>2, <1>3, <1>4
    <2>2. QED
      BY <2>1
  <1>6. \A n \in Months \ {m}, p \in Purposes : Committed(n, p)' = Committed(n, p)
    BY <1>0, OtherMonthsStay
  <1>7. after = [before EXCEPT ![m] = left]
    BY <1>6
  <1>8. Account!Return(m, left)
    BY <1>1, <1>7 DEF Account!Return, Account!Purposes, Purposes
  <1>9. QED
    BY <1>5, <1>8 DEF Account!AccountNext, Account!Purposes, Purposes

LEMMA OthersFall ==
  ASSUME LedgerInv, NEW k \in Reservations, Frame(k), NEW j \in Reservations, j # k
  PROVE  Falling(j)
  <1>1. row'[j] = row[j] /\ Charge(j)' = Charge(j)
    BY OthersKeepTheirCharge DEF Frame
  <1>2. Charge(j) \in Nat
    BY CountedIsNumber DEF Charge, LedgerInv
  <1>3. QED
    BY <1>1, <1>2 DEF Falling

\* A step of one reservation that lets it fall, whether or not its row exists.
LEMMA OwnRowFalls ==
  ASSUME LedgerInv, LedgerInv', limit' = limit, NEW k \in Reservations, Frame(k), Falling(k)
  PROVE  Account!AccountNext
  <1>0. TypeOK /\ TypeOK' /\ RowOK(k) /\ RowOK(k)' /\ month \in Months
    BY DEF LedgerInv, TypeOK
  <1>1. ASSUME NEW j \in Reservations, j # k
        PROVE  row'[j] = row[j] /\ Charge(j)' = Charge(j)
    BY <1>1, OthersKeepTheirCharge DEF Frame
  <1>2. \A j \in Reservations : Falling(j)
    BY OthersFall
  <1>3. CASE row[k].state # "absent"
    <2>1. row[k].month \in Months
      BY <1>0, <1>3 DEF RowOK
    <2>2. Only(row[k].month)
      BY <1>1 DEF Only
    <2>3. QED
      BY <1>2, <2>1, <2>2, FallingIsReturn
  <1>4. CASE row[k].state = "absent"
    <2>1. row[k] = NoRow /\ row[k].month \notin Months
      BY <1>0, <1>4, NoRowIsRow, ConstantFacts DEF RowOK
    <2>2. row'[k] = NoRow
      BY <1>0, <2>1, NoRowIsRow, ConstantFacts DEF Falling, RowOK
    <2>3. Charge(k) = 0 /\ Charge(k)' = 0
      BY <2>1, <2>2, NoRowIsRow DEF Charge, Counted
    <2>4. Only(month)
      BY <1>1, <2>1, <2>2, <2>3 DEF Only
    <2>5. QED
      BY <1>0, <1>2, <2>4, FallingIsReturn
  <1>5. QED
    BY <1>3, <1>4

\* A calm step falls unless it inserts a row.
LEMMA CalmStepFalls ==
  ASSUME LedgerInv, NEW k \in Reservations, Calm(k),
         \/ row'[k].month = row[k].month /\ row'[k].caller = row[k].caller
         \/ row'[k] = NoRow,
         row[k].state = "absent" => row'[k] = row[k]
  PROVE  Falling(k)
  <1>1. CASE row[k].state = "absent"
    <2>1. Charge(k) = 0 /\ Charge(k)' = 0
      BY <1>1 DEF Charge, Counted
    <2>2. QED
      BY <2>1 DEF Falling
  <1>2. CASE row[k].state # "absent"
    BY <1>2 DEF Falling, Calm
  <1>3. QED
    BY <1>1, <1>2

(* Nothing but an admission's commit raises an amount, and nothing but a   *)
(* holder of the lock and the cleanup changes a limit.                     *)
GivesBack(k) ==
    \/ \E caller \in Callers, policy \in Policies, amount \in Maxima :
           Begin(k, caller, policy, amount)
    \/ LockBudget(k)
    \/ ReadClock(k)
    \/ SumCommitted(k)
    \/ Rollback(k)
    \/ Expose(k)
    \/ CommitExposure(k)
    \/ Settle(k)
    \/ ExpireUnexposed(k)
    \/ SettleExpiredQuery(k)
    \/ DeleteReservation(k)
    \/ Lapse(k)

LEMMA GivesBackFalls ==
  ASSUME LedgerInv, NEW k \in Reservations, GivesBack(k)
  PROVE  LedgerInv' /\ limit' = limit /\ Frame(k) /\ Falling(k)
  <1>0. TypeOK /\ row[k] \in Row /\ DOMAIN row = Reservations
    BY DEF LedgerInv, TypeOK
  <1>1. LedgerInv' /\ Calm(k)
    BY BeginStep, LockBudgetStep, ReadClockStep, SumCommittedStep, RollbackStep,
       ExposeStep, CommitExposureStep, SettleStep, ExpireUnexposedStep,
       SettleExpiredQueryStep, DeleteReservationStep, LapseStep DEF GivesBack
  <1>2. limit' = limit
    BY DEF GivesBack, Begin, LockBudget, ReadClock, SumCommitted, Rollback, Expose,
           CommitExposure, Settle, ExpireUnexposed, SettleExpiredQuery,
           DeleteReservation, Lapse
  <1>f. SUFFICES Falling(k)
    BY <1>1, <1>2 DEF Calm
  <1>3. CASE row' = row
    BY <1>0, <1>1, <1>3, CalmStepFalls
  <1>4. CASE DeleteReservation(k)
    <2>1. row'[k] = NoRow /\ row[k].state # "absent"
      BY <1>0, <1>4 DEF DeleteReservation, Closed
    <2>2. QED
      BY <1>1, <2>1, CalmStepFalls
  <1>5. CASE Settle(k)
    <2>1. /\ row[k].state = "reserved"
          /\ row'[k].month = row[k].month /\ row'[k].caller = row[k].caller
      BY <1>0, <1>5 DEF Settle, Row
    <2>2. QED
      BY <1>1, <2>1, CalmStepFalls
  <1>6. CASE CommitExposure(k)
    <2>1. /\ row[k].state = "reserved"
          /\ row'[k].month = row[k].month /\ row'[k].caller = row[k].caller
      BY <1>0, <1>6 DEF CommitExposure, Row, LedgerInv, TxOK
    <2>2. QED
      BY <1>1, <2>1, CalmStepFalls
  <1>7. CASE ExpireUnexposed(k) \/ SettleExpiredQuery(k) \/ Lapse(k)
    <2>1. /\ row[k].state = "reserved"
          /\ row'[k].month = row[k].month /\ row'[k].caller = row[k].caller
      BY <1>0, <1>7 DEF ExpireUnexposed, SettleExpiredQuery, Lapse, Row
    <2>2. QED
      BY <1>1, <2>1, CalmStepFalls
  <1>8. QED
    BY <1>3, <1>4, <1>5, <1>6, <1>7 DEF GivesBack, Begin, LockBudget, ReadClock,
       SumCommitted, Rollback, Expose

LEMMA MonthEndsIsReturn ==
  ASSUME LedgerInv, MonthEnds
  PROVE  Account!AccountNext
  <1>1. LedgerInv' /\ limit' = limit /\ month \in Months /\ tx' = tx
    BY MonthEndsStep DEF MonthEnds, LedgerInv, TypeOK
  <1>2. \A k \in Reservations : Falling(k)
    BY MonthEndsRows DEF Falling
  <1>3. ASSUME NEW k \in Reservations, row[k].month # month
        PROVE  row'[k] = row[k] /\ Charge(k)' = Charge(k)
    <2>1. row'[k] = row[k]
      BY <1>3 DEF MonthEnds
    <2>2. (k \in Standing)' <=> k \in Standing
      BY <1>1, <2>1 DEF Standing, AliveNow
    <2>3. QED
      BY <2>1, <2>2 DEF Charge, Counted
  <1>4. Only(month)
    BY <1>3 DEF Only
  <1>5. QED
    BY <1>1, <1>2, <1>4, FallingIsReturn

-----------------------------------------------------------------------------
(* The steps that write a limit *)

(* What an insertion commits: its amount, or nothing if the month ended    *)
(* after the clock was read.                                               *)
LEMMA InsertedAmount ==
  ASSUME LedgerInv, NEW k \in Reservations, CommitAdmission(k)
  PROVE  /\ row[k].state = "absent" /\ row[k].month \notin Months
         /\ row'[k].month = tx[k].month /\ row'[k].caller = tx[k].caller
         /\ Charge(k)' \in {0, tx[k].amount}
         /\ tx[k].amount \in Nat
  <1>0. TypeOK /\ RowOK(k) /\ TxOK(k) /\ tx[k] \in Tx /\ DOMAIN row = Reservations
    BY DEF LedgerInv, TypeOK
  <1>1. row[k].state = "absent"
    BY <1>0 DEF CommitAdmission, TxOK, Admitting
  <1>2. row[k].month \notin Months
    BY <1>0, <1>1, NoRowIsRow, ConstantFacts DEF RowOK
  <1>3. row'[k] = [state |-> "reserved", caller |-> tx[k].caller, month |-> tx[k].month,
                   live |-> month = tx[k].month, exposed |-> tx[k].caller = "query",
                   maximum |-> tx[k].amount, settled |-> 0]
    BY <1>0 DEF CommitAdmission, InsertReservation
  <1>4. Charge(k)' \in {0, tx[k].amount}
    BY <1>3 DEF Charge, Counted
  <1>5. QED
    BY <1>0, <1>1, <1>2, <1>3, <1>4 DEF Tx

\* An insertion commits to the month it was admitted to and to its purpose.
LEMMA InsertionCommits ==
  ASSUME LedgerInv, NEW k \in Reservations, CommitAdmission(k),
         NEW m \in Months, NEW p \in Purposes
  PROVE  Committed(m, p)' =
             IF m = tx[k].month /\ p = PurposeOf(tx[k].caller)
             THEN Committed(m, p) + Charge(k)' ELSE Committed(m, p)
  <1>0. LedgerInv' /\ Calm(k) /\ Frame(k) /\ TypeOK /\ TypeOK'
    BY CommitAdmissionStep DEF Calm, LedgerInv
  <1>1. /\ row[k].month \notin Months
        /\ row'[k].month = tx[k].month /\ row'[k].caller = tx[k].caller
    BY InsertedAmount
  <1>2. \A j \in Reservations \ {k} : Amounts(m, p)'[j] = Amounts(m, p)[j]
    <2>1. ASSUME NEW j \in Reservations, j # k
          PROVE  Amounts(m, p)'[j] = Amounts(m, p)[j]
      <3>1. row'[j] = row[j] /\ Charge(j)' = Charge(j)
        BY <1>0, <2>1, OthersKeepTheirCharge DEF Frame
      <3>2. /\ Amounts(m, p)[j] = IF Belongs(j, m, p) THEN Charge(j) ELSE 0
            /\ Amounts(m, p)'[j] = IF Belongs(j, m, p)' THEN Charge(j)' ELSE 0
        BY DEF Amounts
      <3>3. QED
        BY <3>1, <3>2 DEF Belongs
    <2>2. QED
      BY <2>1
  <1>3. Amounts(m, p)[k] = 0
    BY <1>1 DEF Amounts, Belongs
  <1>4. Committed(m, p)' = Committed(m, p) + Amounts(m, p)'[k]
    BY <1>0, <1>2, <1>3, CommittedGrows
  <1>5. tx[k].caller \in Callers
    BY DEF LedgerInv, TxOK, CommitAdmission, Admitting
  <1>6. Belongs(k, m, p)' <=> m = tx[k].month /\ p = PurposeOf(tx[k].caller)
    BY <1>1, <1>5 DEF Belongs, CallersOf
  <1>7. Amounts(m, p)'[k] = IF Belongs(k, m, p)' THEN Charge(k)' ELSE 0
    BY DEF Amounts
  <1>8. Committed(m, p) \in Nat
    BY <1>0, SumsAreOK DEF SumsOK
  <1>9. QED
    BY <1>4, <1>6, <1>7, <1>8

\* An admission that commits is an admission to the account.
LEMMA CommitIsAdmit ==
  ASSUME PromiseInv, NEW k \in Reservations, CommitAdmission(k)
  PROVE  Account!AccountNext
  <1> DEFINE m == tx[k].month
             policy == tx[k].policy
             a == Charge(k)'
             before == [n \in Months |-> [p \in Purposes |-> Committed(n, p)]]
             after == [n \in Months |-> [p \in Purposes |-> Committed(n, p)']]
  <1>0. LedgerInv /\ TypeOK /\ TxOK(k) /\ PromiseOK(k) /\ SumsOK /\ tx[k].step = "summed"
    BY SumsAreOK DEF PromiseInv, LedgerInv, CommitAdmission
  <1>1. /\ m \in Months /\ policy \in Policies /\ tx[k].amount \in Nat
        /\ policy.purpose = PurposeOf(tx[k].caller)
        /\ AcceptsLimit(k) /\ FitsNow(k)
    BY <1>0, InsertedAmount DEF TxOK, PromiseOK, Admitting, Timed
  <1>2. /\ policy.limit \in Nat /\ policy.share \in Nat /\ policy.purpose \in Purposes
        /\ \A p \in Purposes : Committed(m, p) \in Nat
        /\ "embedding" \in Purposes /\ "grounded-answer" \in Purposes
    BY <1>0, <1>1, LedgerConstantsOK DEF SumsOK, Purposes
  <1>3. a \in Nat /\ a <= tx[k].amount
    BY <1>0, <1>1, InsertedAmount
  <1>4. Account!Total(m) = Committed(m, "embedding") + Committed(m, "grounded-answer")
    BY <1>1, <1>2 DEF Account!Total
  <1> HIDE DEF a
  <1>5. /\ Account!Total(m) + a <= policy.limit
        /\ Committed(m, policy.purpose) + a <= policy.share
        /\ a \in 0..policy.limit
    BY <1>1, <1>2, <1>3, <1>4 DEF FitsNow
  <1>6. Account!MayAdopt(m, policy)
    <2>1. limit[m] # None => limit[m] \in Nat
      BY <1>0, <1>1, LedgerConstantsOK DEF TypeOK
    <2>2. QED
      BY <1>1, <1>2, <2>1 DEF Account!MayAdopt, AcceptsLimit
  <1>7. \A n \in Months, p \in Purposes :
            Committed(n, p)' = IF n = m /\ p = policy.purpose
                               THEN Committed(n, p) + a ELSE Committed(n, p)
    BY <1>0, <1>1, InsertionCommits DEF a
  <1>8. after = [before EXCEPT ![m][policy.purpose] = @ + a]
    BY <1>1, <1>2, <1>7
  <1>9. limit' = [limit EXCEPT ![m] = policy.limit]
    BY DEF CommitAdmission
  <1>10. Account!Admit(m, policy, a)
    BY <1>1, <1>2, <1>5, <1>6, <1>8, <1>9 DEF Account!Admit
  <1>11. QED
    BY <1>1, <1>5, <1>10 DEF Account!AccountNext

\* The amounts of a step that leaves rows and standing exposures alone.
LEMMA CommittedUnchanged ==
  ASSUME TypeOK, TypeOK', row' = row, Standing' = Standing
  PROVE  \A m, p : Committed(m, p)' = Committed(m, p)
  <1>1. \A k \in Reservations : Charge(k)' = Charge(k)
    BY DEF Charge, Counted
  <1>2. ASSUME NEW m, NEW p
        PROVE  Committed(m, p)' = Committed(m, p)
    <2>1. \A k \in Reservations : Amounts(m, p)'[k] = Amounts(m, p)[k]
      BY <1>1 DEF Amounts, Belongs
    <2>2. QED
      BY <2>1, CommittedStays
  <1>3. QED
    BY <1>2

LEMMA SameAccount ==
  ASSUME \A m, p : Committed(m, p)' = Committed(m, p)
  PROVE  [m \in Months |-> [p \in Purposes |-> Committed(m, p)']]
             = [m \in Months |-> [p \in Purposes |-> Committed(m, p)]]
  OBVIOUS

\* A refusal may leave a lower limit behind and nothing else.
LEMMA RefusalIsAdopt ==
  ASSUME PromiseInv, NEW k \in Reservations, CommitRefusal(k)
  PROVE  Account!AccountNext \/ UNCHANGED Account!accountVars
  <1> DEFINE m == tx[k].month
             policy == tx[k].policy
  <1>0. /\ LedgerInv /\ LedgerInv' /\ TypeOK /\ TypeOK' /\ TxOK(k)
        /\ tx[k].step \in {"locked", "timed"} /\ row' = row
        /\ limit' = [limit EXCEPT ![m] = IF AcceptsLimit(k) THEN policy.limit ELSE @]
        /\ tx' = [tx EXCEPT ![k] = NoTx]
    BY CommitRefusalStep DEF PromiseInv, LedgerInv, CommitRefusal, EndTx
  <1>1. m \in Months /\ policy \in Policies /\ policy.limit \in Nat
    BY <1>0, ConstantFacts DEF TxOK, Admitting
  <1>2. \A n, p : Committed(n, p)' = Committed(n, p)
    <2>1. Standing' = Standing
      <3>1. \A j \in Reservations : tx'[j].step = "exposing" <=> tx[j].step = "exposing"
        BY <1>0, NoTxIsTx DEF TypeOK
      <3>2. QED
        BY <1>0, <3>1 DEF Standing, AliveNow
    <2>2. QED
      BY <1>0, <2>1, CommittedUnchanged
  <1>3. CASE AcceptsLimit(k)
    <2>1. limit' = [limit EXCEPT ![m] = policy.limit]
      BY <1>0, <1>3
    <2>2. Account!MayAdopt(m, policy)
      <3>1. limit[m] # None => limit[m] \in Nat
        BY <1>0, <1>1, LedgerConstantsOK DEF TypeOK
      <3>2. QED
        BY <1>1, <1>3, <3>1 DEF Account!MayAdopt, AcceptsLimit
    <2>3. Account!Adopt(m, policy)
      BY <1>2, <2>1, <2>2, SameAccount DEF Account!Adopt
    <2>4. QED
      BY <1>1, <2>3 DEF Account!AccountNext
  <1>4. CASE ~AcceptsLimit(k)
    <2>1. limit' = limit
      BY <1>0, <1>1, <1>4 DEF TypeOK
    <2>2. QED
      BY <1>2, <2>1, SameAccount DEF Account!accountVars
  <1>5. QED
    BY <1>3, <1>4

\* A month without rows has nothing committed.
LEMMA EmptyMonth ==
  ASSUME TypeOK, NEW m, RowsOf(m, Callers) = {}, NEW p \in Purposes
  PROVE  Committed(m, p) = 0
  <1>1. RowsOf(m, CallersOf(p)) = {}
    BY DEF RowsOf, CallersOf
  <1>2. Committed(m, p) = Sum([k \in Reservations |-> Charge(k)], {})
    BY <1>1 DEF Committed, SumOf, Sum
  <1>3. QED
    BY <1>2, SumOfNothing

LEMMA DeleteBudgetIsForget ==
  ASSUME LedgerInv, NEW m \in Months, DeleteBudget(m)
  PROVE  Account!AccountNext
  <1>1. /\ TypeOK /\ TypeOK' /\ row' = row /\ tx' = tx
        /\ limit' = [limit EXCEPT ![m] = None]
        /\ RowsOf(m, Callers) = {}
    BY DeleteBudgetStep DEF LedgerInv, DeleteBudget
  <1>2. "embedding" \in Purposes /\ "grounded-answer" \in Purposes
    BY DEF Purposes
  <1>3. Committed(m, "embedding") = 0 /\ Committed(m, "grounded-answer") = 0
    BY <1>1, <1>2, EmptyMonth
  <1>4. Account!Total(m) = 0
    BY <1>2, <1>3 DEF Account!Total
  <1>5. \A n, p : Committed(n, p)' = Committed(n, p)
    BY <1>1, CommittedUnchanged DEF Standing, AliveNow
  <1>6. Account!Forget(m)
    BY <1>1, <1>4, <1>5, SameAccount DEF Account!Forget
  <1>7. QED
    BY <1>6 DEF Account!AccountNext

-----------------------------------------------------------------------------
(* What transactions know stays true *)

LEMMA InitialPromise == Init => PromiseInv
  <1> SUFFICES ASSUME Init PROVE PromiseInv
    OBVIOUS
  <1>1. \A k \in Reservations : tx[k].step = "idle"
    BY NoTxIsTx DEF Init
  <1>2. QED
    BY <1>1, InitHolds DEF PromiseInv, PromiseOK, Admitting, Timed

(* A transaction's promise stands as long as nobody raises the limit or an *)
(* amount of the month it has locked.                                      *)
LEMMA PromiseStays ==
  ASSUME PromiseInv, LedgerInv', NEW k \in Reservations, tx'[k] = tx[k],
         NEW m, m = tx[k].month,
         tx[k].step \in Timed =>
             /\ limit'[m] = limit[m]
             /\ \A p \in Purposes : Committed(m, p)' <= Committed(m, p)
  PROVE  PromiseOK(k)'
  <1>0. /\ TypeOK /\ TypeOK' /\ TxOK(k) /\ PromiseOK(k) /\ SumsOK /\ SumsOK'
        /\ tx[k] \in Tx
    BY SumsAreOK, SumsAreOKNext DEF PromiseInv, LedgerInv, TypeOK
  <1>1. CASE tx[k].step \in Timed
    <2>1. AcceptsLimit(k)'
      BY <1>0, <1>1 DEF AcceptsLimit, PromiseOK
    <2>2. ASSUME tx[k].step = "summed"
          PROVE  FitsNow(k)'
      <3>1. /\ tx[k].policy \in Policies /\ tx[k].amount \in Nat
            /\ tx[k].policy.limit \in Nat /\ tx[k].policy.share \in Nat
            /\ tx[k].policy.purpose \in Purposes
        BY <1>0, <2>2, LedgerConstantsOK DEF TxOK, Admitting, Tx
      <3>2. /\ "embedding" \in Purposes /\ "grounded-answer" \in Purposes
            /\ \A p \in Purposes :
                   /\ Committed(m, p) \in Nat
                   /\ Committed(m, p)' \in Nat
                   /\ Committed(m, p)' <= Committed(m, p)
        BY <1>0, <1>1 DEF SumsOK, Purposes
      <3>3. FitsNow(k)
        BY <1>0, <2>2 DEF PromiseOK
      <3>4. /\ Committed(m, "embedding")' + Committed(m, "grounded-answer")'
                   + tx[k].amount <= tx[k].policy.limit
            /\ Committed(m, tx[k].policy.purpose)' + tx[k].amount <= tx[k].policy.share
        BY <3>1, <3>2, <3>3 DEF FitsNow
      <3>5. QED
        BY <3>4 DEF FitsNow
    <2>3. QED
      BY <1>0, <2>1, <2>2 DEF PromiseOK, Timed
  <1>2. CASE tx[k].step \notin Timed
    BY <1>0, <1>2 DEF PromiseOK, Timed
  <1>3. QED
    BY <1>1, <1>2

\* The sum of both purposes is the sum over all callers.
LEMMA PurposesAddUp ==
  ASSUME NEW m, NEW c \in [Reservations -> Nat]
  PROVE  /\ Sum(c, RowsOf(m, Callers)) = Sum(c, RowsOf(m, CallersOf("embedding")))
                                         + Sum(c, RowsOf(m, CallersOf("grounded-answer")))
         /\ \A p : Sum(c, RowsOf(m, CallersOf(p))) \in Nat
  <1> DEFINE E == RowsOf(m, CallersOf("embedding"))
             G == RowsOf(m, CallersOf("grounded-answer"))
  <1>1. \A p : IsFiniteSet(RowsOf(m, CallersOf(p))) /\ RowsOf(m, CallersOf(p)) \subseteq Reservations
    <2>1. \A p : RowsOf(m, CallersOf(p)) \subseteq Reservations
      BY DEF RowsOf
    <2>2. QED
      BY <2>1, FS_Subset, LedgerConstantsOK
  <1>2. RowsOf(m, Callers) = E \cup G /\ E \cap G = {}
    BY DEF RowsOf, CallersOf, PurposeOf
  <1>3. \A k \in Reservations : c[k] \in Nat
    OBVIOUS
  <1>4. \A p : Sum(c, RowsOf(m, CallersOf(p))) \in Nat
    BY <1>1, <1>3, SumIsNumber
  <1>5. Sum(c, E \cup G) = Sum(c, E) + Sum(c, G)
    <2>1. IsFiniteSet(E) /\ IsFiniteSet(G) /\ \A k \in E \cup G : c[k] \in Nat
      BY <1>1, <1>3
    <2> HIDE DEF E, G
    <2>2. QED
      BY <1>2, <2>1, SumOfUnion
  <1>6. QED
    BY <1>2, <1>4, <1>5

\* A sum that fits leaves room for what is committed when it is taken.
LEMMA SumMeansFit ==
  ASSUME PromiseInv, NEW k \in Reservations, SumCommitted(k),
         NEW m, m = tx[k].month, NEW policy, policy = tx[k].policy,
         NEW amount, amount = tx[k].amount,
         NEW c, c = [j \in Reservations |-> Counted(j, tx[k].alive)]
  PROVE  FitsNow(k)'
  <1> DEFINE charges == [j \in Reservations |-> Charge(j)']
             rows(p) == RowsOf(m, CallersOf(p))
  <1>0. /\ LedgerInv /\ LedgerInv' /\ TypeOK /\ TypeOK' /\ TxOK(k) /\ PromiseOK(k)
        /\ row' = row /\ SumsOK' /\ tx[k] \in Tx /\ tx[k].step = "timed"
    BY SumCommittedStep, SumsAreOKNext DEF PromiseInv, LedgerInv, TypeOK, SumCommitted
  <1>1. /\ c \in [Reservations -> Nat]
        /\ charges \in [Reservations -> Nat]
    BY <1>0, CountedIsNumber, ChargeIsNumberNext
  <1>2. /\ tx'[k].step = "summed" /\ tx'[k].month = m /\ tx'[k].policy = policy
        /\ tx'[k].amount = amount
        /\ tx'[k].counted = c
    <2>1. tx'[k] = [[tx[k] EXCEPT !.step = "summed"] EXCEPT !.counted = c]
      BY <1>0 DEF SumCommitted, TypeOK
    <2>2. "summed" \in Steps
      BY DEF Steps
    <2>3. QED
      BY <1>0, <1>1, <2>1, <2>2, TxStep, TxCounted
  <1>3. \A j \in Reservations : row[j].month = m => charges[j] <= c[j]
    <2>1. \A j \in Reservations : row[j].month = m => Charge(j)' <= tx'[k].counted[j]
      BY <1>0, <1>2 DEF LedgerInv, SumStillCovers
    <2>2. QED
      BY <1>2, <2>1
  <1>4. ASSUME NEW p
        PROVE  Committed(m, p)' <= Sum(c, rows(p))
    <2>1. Committed(m, p)' = Sum(charges, rows(p))
      <3>1. RowsOf(m, CallersOf(p))' = RowsOf(m, CallersOf(p))
        BY <1>0 DEF RowsOf
      <3>2. Committed(m, p)' = Sum(charges, RowsOf(m, CallersOf(p))')
        BY <1>0 DEF SumsOK
      <3>3. QED
        BY <3>1, <3>2
    <2>2. /\ IsFiniteSet(rows(p))
          /\ \A j \in rows(p) : j \in Reservations /\ row[j].month = m
      <3>1. rows(p) \subseteq Reservations
        BY DEF RowsOf
      <3>2. QED
        BY <3>1, FS_Subset, LedgerConstantsOK DEF RowsOf
    <2>3. \A j \in rows(p) : charges[j] \in Nat /\ c[j] \in Nat /\ charges[j] <= c[j]
      BY <1>1, <1>3, <2>2
    <2> HIDE DEF charges, rows
    <2>4. QED
      BY <2>1, <2>2, <2>3, SumIsMonotone
  <1>5. /\ Sum(c, RowsOf(m, Callers)) + amount <= policy.limit
        /\ Sum(c, rows(policy.purpose)) + amount <= policy.share
    <2>1. Fits(k)
      BY DEF SumCommitted
    <2>2. QED
      BY <2>1, SumOfIsSum DEF Fits
  <1>6. /\ policy \in Policies /\ policy.limit \in Nat /\ policy.share \in Nat
        /\ policy.purpose \in Purposes /\ amount \in Nat
    <2>1. policy \in Policies /\ amount \in Nat
      BY <1>0 DEF TxOK, Admitting, Tx
    <2>2. QED
      BY <2>1, LedgerConstantsOK
  <1>7. /\ Sum(c, RowsOf(m, Callers)) = Sum(c, rows("embedding")) + Sum(c, rows("grounded-answer"))
        /\ \A p : Sum(c, rows(p)) \in Nat
    BY <1>1, PurposesAddUp
  <1>8. \A p : Committed(m, p)' \in Nat
    BY <1>0 DEF SumsOK
  <1> HIDE DEF charges, rows
  <1>9. /\ Committed(m, "embedding")' + Committed(m, "grounded-answer")' + amount
               <= policy.limit
        /\ Committed(m, policy.purpose)' + amount <= policy.share
    BY <1>4, <1>5, <1>6, <1>7, <1>8
  <1>10. QED
    BY <1>2, <1>9 DEF FitsNow

\* The transaction that gives back keeps its own promise.
LEMMA GivesBackOwnPromise ==
  ASSUME PromiseInv, NEW k \in Reservations, GivesBack(k)
  PROVE  PromiseOK(k)'
  <1>0. TypeOK /\ TxOK(k) /\ PromiseOK(k) /\ tx[k] \in Tx
    BY DEF PromiseInv, LedgerInv, TypeOK
  <1>1. CASE tx'[k].step \notin Admitting
    BY <1>1 DEF PromiseOK, Admitting, Timed
  <1>2. ASSUME NEW caller \in Callers, NEW policy \in Policies, NEW amount \in Maxima,
               Begin(k, caller, policy, amount)
        PROVE  PromiseOK(k)'
    <2>1. /\ tx'[k].step = "begun" /\ tx'[k].policy = policy /\ tx'[k].caller = caller
          /\ policy.purpose = PurposeOf(caller)
      BY <1>0, <1>2 DEF Begin, TypeOK, NoTx
    <2>2. QED
      BY <2>1 DEF PromiseOK, Admitting, Timed
  <1>3. CASE LockBudget(k)
    <2>1. /\ tx'[k].step = "locked" /\ tx[k].step = "begun"
          /\ tx'[k].policy = tx[k].policy /\ tx'[k].caller = tx[k].caller
      BY <1>0, <1>3 DEF LockBudget, TypeOK, Tx
    <2>2. QED
      BY <1>0, <2>1 DEF PromiseOK, Admitting, Timed
  <1>4. CASE ReadClock(k)
    <2>1. /\ tx'[k].step = "timed" /\ tx[k].step = "locked"
          /\ tx'[k].policy = tx[k].policy /\ tx'[k].caller = tx[k].caller
          /\ tx'[k].month = tx[k].month
          /\ AcceptsLimit(k) /\ limit' = limit
      BY <1>0, <1>4 DEF ReadClock, TypeOK, Tx, NoConflict
    <2>2. AcceptsLimit(k)'
      BY <2>1 DEF AcceptsLimit
    <2>3. QED
      BY <1>0, <2>1, <2>2 DEF PromiseOK, Admitting, Timed
  <1>5. CASE SumCommitted(k)
    <2>1. /\ tx'[k].step = "summed" /\ tx[k].step = "timed"
          /\ tx'[k].policy = tx[k].policy /\ tx'[k].caller = tx[k].caller
          /\ tx'[k].month = tx[k].month
          /\ limit' = limit
      BY <1>0, <1>5 DEF SumCommitted, TypeOK, Tx
    <2>2. AcceptsLimit(k)' /\ FitsNow(k)'
      BY <1>0, <1>5, <2>1, SumMeansFit DEF AcceptsLimit, PromiseOK, Timed
    <2>3. QED
      BY <1>0, <2>1, <2>2 DEF PromiseOK, Admitting, Timed
  <1>6. CASE \/ Rollback(k) \/ CommitExposure(k)
    <2>1. tx'[k] = NoTx
      BY <1>0, <1>6 DEF Rollback, CommitExposure, EndTx, TypeOK
    <2>2. QED
      BY <1>1, <2>1, NoTxIsTx DEF Admitting
  <1>7. CASE Expose(k)
    <2>1. tx'[k].step = "exposing"
      BY <1>0, <1>7 DEF Expose, TypeOK, NoTx
    <2>2. QED
      BY <1>1, <2>1 DEF Admitting
  <1>8. CASE \/ Settle(k) \/ ExpireUnexposed(k) \/ SettleExpiredQuery(k)
             \/ DeleteReservation(k) \/ Lapse(k)
    <2>1. tx' = tx /\ (row[k].state # "absent")
      BY <1>8 DEF Settle, ExpireUnexposed, SettleExpiredQuery, DeleteReservation, Lapse, Closed
    <2>2. QED
      BY <1>0, <1>1, <2>1 DEF TxOK
  <1>9. QED
    BY <1>2, <1>3, <1>4, <1>5, <1>6, <1>7, <1>8 DEF GivesBack

LEMMA GivesBackKeepsPromise ==
  ASSUME PromiseInv, NEW k \in Reservations, GivesBack(k)
  PROVE  PromiseInv' /\ Account!AccountNext
  <1>1. LedgerInv /\ LedgerInv' /\ limit' = limit /\ Frame(k) /\ Falling(k) /\ TypeOK /\ TypeOK'
    BY GivesBackFalls DEF PromiseInv, LedgerInv
  <1>2. ASSUME NEW j \in Reservations, j # k
        PROVE  PromiseOK(j)'
    <2>1. tx'[j] = tx[j]
      BY <1>1, <1>2 DEF Frame
    <2>2. tx[j].step \in Timed => tx[j].month \in Months
      BY <1>1 DEF LedgerInv, TxOK, Timed
    <2>3. ASSUME NEW m \in Months, NEW p
          PROVE  Committed(m, p)' <= Committed(m, p)
      <3>1. \A i \in Reservations : Falling(i)
        BY <1>1, OthersFall
      <3>2. \A i \in Reservations : Amounts(m, p)'[i] <= Amounts(m, p)[i]
        BY <1>1, <3>1, FallingAmounts
      <3>3. QED
        BY <1>1, <3>2, CommittedFalls
    <2>4. QED
      BY <1>1, <2>1, <2>2, <2>3, PromiseStays
  <1>3. PromiseOK(k)'
    BY GivesBackOwnPromise
  <1>4. Account!AccountNext
    BY <1>1, OwnRowFalls
  <1>5. QED
    BY <1>1, <1>2, <1>3, <1>4 DEF PromiseInv

\* Two transactions that hold a lock hold those of different months.
LEMMA OtherMonth ==
  ASSUME LedgerInv, NEW k \in Reservations, NEW j \in Reservations, j # k,
         tx[k].step \in Holding, tx[j].step \in Timed
  PROVE  tx[j].month \in Months /\ tx[k].month \in Months /\ tx[j].month # tx[k].month
  <1>1. tx[j].step \in Holding
    BY DEF Timed, Holding
  <1>2. tx[j].month \in Months /\ tx[k].month \in Months
    BY <1>1 DEF LedgerInv, TxOK, Holding
  <1>3. QED
    BY <1>1, <1>2, OneHolder

LEMMA CommitKeepsPromise ==
  ASSUME PromiseInv, NEW k \in Reservations, CommitAdmission(k)
  PROVE  PromiseInv' /\ Account!AccountNext
  <1>1. LedgerInv /\ LedgerInv' /\ Frame(k) /\ TypeOK /\ SumsOK /\ tx[k].step = "summed"
    BY CommitAdmissionStep, SumsAreOK DEF PromiseInv, LedgerInv, Calm, CommitAdmission
  <1>2. ASSUME NEW j \in Reservations, j # k
        PROVE  PromiseOK(j)'
    <2>1. tx'[j] = tx[j]
      BY <1>1, <1>2 DEF Frame
    <2>2. ASSUME tx[j].step \in Timed, NEW m, m = tx[j].month
          PROVE  /\ limit'[m] = limit[m]
                 /\ \A p \in Purposes : Committed(m, p)' <= Committed(m, p)
      <3>1. m \in Months /\ tx[k].month \in Months /\ m # tx[k].month
        BY <1>1, <1>2, <2>2, OtherMonth DEF Holding
      <3>2. limit' = [limit EXCEPT ![tx[k].month] = tx[k].policy.limit]
        BY DEF CommitAdmission
      <3>3. limit'[m] = limit[m]
        BY <1>1, <3>1, <3>2 DEF TypeOK
      <3>4. ASSUME NEW p \in Purposes
            PROVE  Committed(m, p)' <= Committed(m, p)
        <4>1. Committed(m, p)' = Committed(m, p) /\ Committed(m, p) \in Nat
          BY <1>1, <3>1, InsertionCommits DEF SumsOK
        <4>2. QED
          BY <4>1
      <3>5. QED
        BY <3>3, <3>4
    <2>3. QED
      BY <1>1, <2>1, <2>2, PromiseStays
  <1>3. PromiseOK(k)'
    <2>1. tx'[k].step = "idle"
      BY <1>1, NoTxIsTx DEF CommitAdmission, EndTx, TypeOK
    <2>2. QED
      BY <2>1 DEF PromiseOK, Admitting, Timed
  <1>4. QED
    BY <1>1, <1>2, <1>3, CommitIsAdmit DEF PromiseInv

LEMMA RefusalKeepsPromise ==
  ASSUME PromiseInv, NEW k \in Reservations, CommitRefusal(k)
  PROVE  PromiseInv'
  <1>1. /\ LedgerInv /\ LedgerInv' /\ Frame(k) /\ TypeOK /\ TypeOK' /\ SumsOK
        /\ tx[k].step \in Holding /\ row' = row /\ tx' = [tx EXCEPT ![k] = NoTx]
        /\ limit' = [limit EXCEPT ![tx[k].month] =
               IF AcceptsLimit(k) THEN tx[k].policy.limit ELSE @]
    BY CommitRefusalStep, SumsAreOK DEF PromiseInv, LedgerInv, Calm, CommitRefusal,
       Holding, EndTx
  <1>2. ASSUME NEW j \in Reservations, j # k
        PROVE  PromiseOK(j)'
    <2>1. tx'[j] = tx[j]
      BY <1>1, <1>2 DEF Frame
    <2>2. ASSUME tx[j].step \in Timed, NEW m, m = tx[j].month
          PROVE  /\ limit'[m] = limit[m]
                 /\ \A p \in Purposes : Committed(m, p)' <= Committed(m, p)
      <3>1. m \in Months /\ tx[k].month \in Months /\ m # tx[k].month
        BY <1>1, <1>2, <2>2, OtherMonth
      <3>2. limit'[m] = limit[m]
        BY <1>1, <3>1 DEF TypeOK
      <3>3. ASSUME NEW p \in Purposes
            PROVE  Committed(m, p)' <= Committed(m, p)
        <4>1. \A i \in Reservations : Falling(i)
          <5>1. tx[k].step # "exposing"
            BY DEF CommitRefusal
          <5>2. \A i \in Reservations : tx'[i].step = "exposing" <=> tx[i].step = "exposing"
            BY <1>1, <5>1, NoTxIsTx DEF TypeOK
          <5>3. \A i \in Reservations : Charge(i)' = Charge(i)
            BY <1>1, <5>2 DEF Charge, Counted, Standing, AliveNow
          <5>4. \A i \in Reservations : Charge(i) \in Nat
            BY <1>1, CountedIsNumber DEF Charge
          <5>5. QED
            BY <1>1, <5>3, <5>4 DEF Falling
        <4>2. \A i \in Reservations : Amounts(m, p)'[i] <= Amounts(m, p)[i]
          BY <1>1, <3>1, <4>1, FallingAmounts
        <4>3. QED
          BY <1>1, <4>2, CommittedFalls
      <3>4. QED
        BY <3>2, <3>3
    <2>3. QED
      BY <1>1, <2>1, <2>2, PromiseStays
  <1>3. PromiseOK(k)'
    <2>1. tx'[k].step = "idle"
      BY <1>1, NoTxIsTx DEF TypeOK
    <2>2. QED
      BY <2>1 DEF PromiseOK, Admitting, Timed
  <1>4. QED
    BY <1>1, <1>2, <1>3 DEF PromiseInv

\* The cleanup skips a budget row that is locked.
LEMMA DeleteBudgetKeepsPromise ==
  ASSUME PromiseInv, NEW n \in Months, DeleteBudget(n)
  PROVE  PromiseInv'
  <1>1. /\ LedgerInv /\ LedgerInv' /\ TypeOK /\ TypeOK' /\ SumsOK
        /\ row' = row /\ tx' = tx /\ Free(n)
        /\ limit' = [limit EXCEPT ![n] = None]
    BY DeleteBudgetStep, SumsAreOK DEF PromiseInv, LedgerInv, DeleteBudget
  <1>2. ASSUME NEW j \in Reservations
        PROVE  PromiseOK(j)'
    <2>1. ASSUME tx[j].step \in Timed, NEW m, m = tx[j].month
          PROVE  /\ limit'[m] = limit[m]
                 /\ \A p \in Purposes : Committed(m, p)' <= Committed(m, p)
      <3>1. m \in Months /\ holder[m] = j
        BY <1>1, <2>1 DEF LedgerInv, TxOK, Timed, Holding
      <3>2. m # n
        BY <1>1, <3>1, ConstantFacts DEF Free
      <3>3. limit'[m] = limit[m]
        BY <1>1, <3>1, <3>2 DEF TypeOK
      <3>4. \A p : Committed(m, p)' = Committed(m, p) /\ Committed(m, p) \in Nat
        BY <1>1, CommittedUnchanged DEF Standing, AliveNow, SumsOK
      <3>5. QED
        BY <3>3, <3>4
    <2>2. QED
      BY <1>1, <2>1, PromiseStays
  <1>3. QED
    BY <1>1, <1>2 DEF PromiseInv

LEMMA MonthEndsKeepsPromise ==
  ASSUME PromiseInv, MonthEnds
  PROVE  PromiseInv'
  <1>1. /\ LedgerInv /\ LedgerInv' /\ TypeOK /\ TypeOK' /\ limit' = limit /\ tx' = tx
    BY MonthEndsStep DEF PromiseInv, LedgerInv, MonthEnds
  <1>2. \A i \in Reservations : Falling(i)
    BY <1>1, MonthEndsRows DEF Falling
  <1>3. ASSUME NEW j \in Reservations
        PROVE  PromiseOK(j)'
    <2>1. ASSUME tx[j].step \in Timed, NEW m, m = tx[j].month, NEW p
          PROVE  Committed(m, p)' <= Committed(m, p)
      <3>1. m \in Months
        BY <1>1, <2>1 DEF LedgerInv, TxOK, Timed
      <3>2. \A i \in Reservations : Amounts(m, p)'[i] <= Amounts(m, p)[i]
        BY <1>1, <1>2, <3>1, FallingAmounts
      <3>3. QED
        BY <1>1, <3>2, CommittedFalls
    <2>2. QED
      BY <1>1, <2>1, PromiseStays
  <1>4. QED
    BY <1>1, <1>3 DEF PromiseInv

-----------------------------------------------------------------------------
(* The refinement *)

LEMMA InitIsAccountInit == Init => Account!AccountInit
  <1> SUFFICES ASSUME Init PROVE Account!AccountInit
    OBVIOUS
  <1>1. TypeOK
    BY InitHolds DEF LedgerInv
  <1>2. ASSUME NEW m \in Months, NEW p \in Purposes
        PROVE  Committed(m, p) = 0
    <2>1. RowsOf(m, Callers) = {}
      BY NoRowIsRow, ConstantFacts DEF Init, RowsOf
    <2>2. QED
      BY <1>1, <2>1, EmptyMonth
  <1>3. limit = [m \in Months |-> None]
    BY DEF Init
  <1>4. QED
    BY <1>2, <1>3 DEF Account!AccountInit, Account!Purposes, Purposes

LEMMA StutterIsStutter ==
  ASSUME PromiseInv, UNCHANGED vars
  PROVE  PromiseInv' /\ UNCHANGED Account!accountVars
  <1>1. /\ LedgerInv /\ LedgerInv' /\ TypeOK /\ TypeOK' /\ SumsOK
        /\ row' = row /\ tx' = tx /\ limit' = limit
    BY StepKeepsInv, SumsAreOK DEF PromiseInv, LedgerInv, vars
  <1>2. \A m, p : Committed(m, p)' = Committed(m, p) /\ Committed(m, p) \in Nat
    BY <1>1, CommittedUnchanged DEF Standing, AliveNow, SumsOK
  <1>3. \A k \in Reservations : PromiseOK(k)'
    BY <1>1, <1>2, PromiseStays
  <1>4. UNCHANGED Account!accountVars
    BY <1>1, <1>2, SameAccount DEF Account!accountVars
  <1>5. QED
    BY <1>1, <1>3, <1>4 DEF PromiseInv

LEMMA StepIsAccountStep ==
  ASSUME PromiseInv, [Next]_vars
  PROVE  PromiseInv' /\ [Account!AccountNext]_(Account!accountVars)
  <1>1. CASE UNCHANGED vars
    BY <1>1, StutterIsStutter
  <1>2. ASSUME NEW k \in Reservations, GivesBack(k)
        PROVE  PromiseInv' /\ Account!AccountNext
    BY <1>2, GivesBackKeepsPromise
  <1>3. ASSUME NEW k \in Reservations, CommitAdmission(k)
        PROVE  PromiseInv' /\ Account!AccountNext
    BY <1>3, CommitKeepsPromise
  <1>4. ASSUME NEW k \in Reservations, CommitRefusal(k)
        PROVE  PromiseInv' /\ [Account!AccountNext]_(Account!accountVars)
    BY <1>4, RefusalKeepsPromise, RefusalIsAdopt
  <1>5. ASSUME NEW m \in Months, DeleteBudget(m)
        PROVE  PromiseInv' /\ Account!AccountNext
    BY <1>5, DeleteBudgetKeepsPromise, DeleteBudgetIsForget DEF PromiseInv
  <1>6. CASE MonthEnds
    BY <1>6, MonthEndsKeepsPromise, MonthEndsIsReturn DEF PromiseInv
  <1>7. CASE Next
    BY <1>2, <1>3, <1>4, <1>5, <1>6, <1>7 DEF Next, Admission, GivesBack
  <1>8. QED
    BY <1>1, <1>7

(* The transactions keep the promise of the account: whatever interleaving *)
(* of admissions, exposures, settlements, expiries and cleanups runs, and  *)
(* whatever rolls back, each step is one of the account's.                 *)
THEOREM LedgerKeepsThePromise == Spec => KeepsThePromise
  <1>1. Init => PromiseInv /\ Account!AccountInit
    BY InitialPromise, InitIsAccountInit
  <1>2. PromiseInv /\ [Next]_vars => PromiseInv' /\ [Account!AccountNext]_(Account!accountVars)
    BY StepIsAccountStep
  <1>3. QED
    BY <1>1, <1>2, PTL DEF Spec, KeepsThePromise, Account!AccountSpec

-----------------------------------------------------------------------------
(* What the account guarantees, for the transactions *)

\* The theorems of BudgetAccountProofs about the account as the rows show it.
Facts == INSTANCE BudgetAccountProofs WITH
    committed <- [m \in Months |-> [p \in Purposes |-> Committed(m, p)]]

LEMMA FactsPolicies == Facts!PoliciesOK
  BY LedgerConstantsOK DEF Facts!PoliciesOK, Facts!Purposes, Purposes, Months

LEMMA SameAccountSpec == Account!AccountSpec => Facts!AccountSpec
  <1>1. Account!AccountInit => Facts!AccountInit
    BY DEF Facts!AccountInit, Account!AccountInit, Facts!Purposes, Account!Purposes
  <1>2. [Account!AccountNext]_(Account!accountVars) => [Facts!AccountNext]_(Facts!accountVars)
    BY DEF Facts!AccountNext, Account!AccountNext, Facts!accountVars, Account!accountVars,
           Facts!Admit, Account!Admit, Facts!Adopt, Account!Adopt, Facts!Return,
           Account!Return, Facts!Forget, Account!Forget, Facts!Purposes, Account!Purposes,
           Facts!Total, Account!Total, Facts!MayAdopt, Account!MayAdopt
  <1>3. QED
    BY <1>1, <1>2, PTL DEF Account!AccountSpec, Facts!AccountSpec

(* Money: what the reservation rows of a month commit, whatever mixture of *)
(* configurations the processes run and however their transactions         *)
(* interleave, stays within an approved limit and within the approved      *)
(* shares of both purposes.                                                *)
THEOREM RowsStayWithinApprovals == Spec => []Account!WithinApprovals
  <1>1. Facts!AccountSpec => []Facts!WithinApprovals
    BY FactsPolicies, Facts!StaysWithinApprovals
  <1>2. Facts!WithinApprovals => Account!WithinApprovals
    BY DEF Facts!WithinApprovals, Account!WithinApprovals, Facts!Purposes,
           Account!Purposes, Facts!Total, Account!Total
  <1>3. QED
    BY <1>1, <1>2, SameAccountSpec, LedgerKeepsThePromise, PTL DEF KeepsThePromise

(* The rows of a month never grow beyond the limit column of its budget    *)
(* row as it is after the step that made them grow.                        *)
THEOREM RowsGrowWithinLimit == Spec => Account!GrowsWithinLimit
  <1> DEFINE A == \A m \in Months :
                 Account!Total(m)' > Account!Total(m) =>
                     limit'[m] # None /\ Account!Total(m)' <= limit'[m]
             F == \A m \in Months :
                 Facts!Total(m)' > Facts!Total(m) =>
                     limit'[m] # None /\ Facts!Total(m)' <= limit'[m]
  <1>1. Facts!AccountSpec => Facts!GrowsWithinLimit
    BY FactsPolicies, Facts!GrowthIsWithinLimit
  <1>2. [F]_(Facts!accountVars) => [A]_(Account!accountVars)
    BY DEF Facts!Total, Account!Total, Facts!accountVars, Account!accountVars
  <1>3. QED
    BY <1>1, <1>2, SameAccountSpec, LedgerKeepsThePromise, PTL
       DEF KeepsThePromise, Facts!GrowsWithinLimit, Account!GrowsWithinLimit
=============================================================================

------------------------ MODULE EmbeddingWorkProofs ------------------------
(* Proofs about EmbeddingWork, for every value of its constants: its       *)
(* types, the safety properties of a single work, and those of the         *)
(* reservations, the slots that hold texts or answers, the bills and the   *)
(* generations.  Every step is first reduced to what it does to one work,  *)
(* or to one reservation.                                                  *)
EXTENDS EmbeddingWork, FiniteSums, FiniteSetTheorems, TLAPS

-----------------------------------------------------------------------------
(* Type correctness *)

\* The rows that a fenced transaction may write, except receipts.
RowsOK ==
    /\ work \in [Works -> Work]
    /\ attempts \in [Works -> [Numbers -> Attempt]]
    /\ reservations \in [Reservations -> Reservation]
    /\ reservedMaximum \in [Reservations -> Nat]
    /\ settledAmount \in [Reservations -> Nat \cup {None}]

ReceiptsOK == receipts \in [Works -> [Numbers -> (1..CallMax) \cup {None}]]

LEMMA ReleasedRow ==
    ASSUME NEW row \in Work, NEW st \in TerminalStates \cup {"RETRY_WAIT"}
    PROVE  [row EXCEPT !.state = st, !.token = None, !.leaseActive = FALSE,
                       !.due = IF st = "RETRY_WAIT" THEN FALSE ELSE row.due] \in Work
<1> DEFINE d == IF st = "RETRY_WAIT" THEN FALSE ELSE row.due
<1>1. d \in BOOLEAN
  BY DEF Work
<1> HIDE DEF d
<1>2. [row EXCEPT !.state = st, !.token = None, !.leaseActive = FALSE,
                  !.due = d] \in Work
  BY <1>1 DEF Work, ActiveStates, TerminalStates
<1> QED
  BY <1>2 DEF d

LEMMA ReservationRow ==
    ASSUME NEW row \in Reservation
    PROVE  /\ \A st \in {"reserved", "settled", "expired"} :
                 [row EXCEPT !.state = st] \in Reservation
           /\ [row EXCEPT !.exposed = TRUE] \in Reservation
           /\ [row EXCEPT !.live = FALSE] \in Reservation
BY DEF Reservation

LEMMA ReceiptsStay == TypeOK /\ UNCHANGED receipts => ReceiptsOK'
BY DEF TypeOK, ReceiptsOK

\* There are finitely many attempts to add up.
LEMMA AttemptsAreFinite ==
    ASSUME NEW k
    PROVE  /\ IsFiniteSet(WorksOf(k) \X Numbers)
           /\ Cardinality(WorksOf(k) \X Numbers) = Cardinality(WorksOf(k)) * MaxAttempts
           /\ Cardinality(WorksOf(k)) \in Nat
           /\ AttemptsOf(k) \subseteq WorksOf(k) \X Numbers
           /\ IsFiniteSet(AttemptsOf(k))
<1>1. IsFiniteSet(WorksOf(k))
  BY ConstantsOK, FS_Subset DEF WorksOf
<1>2. IsFiniteSet(Numbers) /\ Cardinality(Numbers) = MaxAttempts
  <2>1. MaxAttempts \in Int /\ 1 <= MaxAttempts
    BY ConstantsOK
  <2> QED
    BY <2>1, FS_Interval DEF Numbers
<1>3. AttemptsOf(k) \subseteq WorksOf(k) \X Numbers
  BY DEF AttemptsOf
<1> QED
  BY <1>1, <1>2, <1>3, FS_Product, FS_Subset, FS_CardinalityType

LEMMA SumOfIsSum == \A rows, amounts : SumOf(rows, amounts) = Sum(amounts, rows)
BY DEF SumOf, Sum

\* A well-typed set of receipts names an amount for every attempt.
LEMMA UsageIsNumber ==
    ASSUME NEW rs \in [Works -> [Numbers -> (1..CallMax) \cup {None}]]
    PROVE  \A a \in Works \X Numbers : KnownUsage(rs)[a] \in 0..CallMax
<1> TAKE a \in Works \X Numbers
<1>1. rs[a[1]][a[2]] \in (1..CallMax) \cup {None}
  OBVIOUS
<1> QED
  BY <1>1, ConstantsOK DEF KnownUsage

LEMMA TotalIsNumber ==
    ASSUME NEW k, NEW rs \in [Works -> [Numbers -> (1..CallMax) \cup {None}]]
    PROVE  ReceiptTotal(k, rs) \in Nat
<1> DEFINE usage == KnownUsage(rs)
<1>1. \A a \in AttemptsOf(k) : usage[a] \in Nat
  <2> SUFFICES ASSUME NEW a \in AttemptsOf(k) PROVE usage[a] \in Nat
    OBVIOUS
  <2>1. a \in Works \X Numbers
    BY DEF AttemptsOf, WorksOf
  <2>2. usage[a] \in 0..CallMax
    BY <2>1, UsageIsNumber
  <2> QED
    BY <2>2, ConstantsOK
<1>2. ReceiptTotal(k, rs) = Sum(usage, AttemptsOf(k))
  BY SumOfIsSum DEF ReceiptTotal
<1>3. IsFiniteSet(AttemptsOf(k))
  BY AttemptsAreFinite
<1> HIDE DEF usage
<1> QED
  BY <1>1, <1>2, <1>3, SumIsNumber

\* Closing a reservation or leaving it alone keeps the ledger well typed.
LEMMA SettleType ==
    ASSUME TypeOK, ReceiptsOK', NEW k, SettleIfComplete(k)
    PROVE  /\ reservations' \in [Reservations -> Reservation]
           /\ reservedMaximum' \in [Reservations -> Nat]
           /\ settledAmount' \in [Reservations -> Nat \cup {None}]
<1>1. CASE reservations[k].state = "reserved" /\ AllEnded(k)
  <2>1. /\ reservations' = [reservations EXCEPT ![k].state = "settled"]
        /\ settledAmount' = [settledAmount EXCEPT ![k] =
              IF UnknownUsage(k, receipts') THEN reservedMaximum[k]
              ELSE ReceiptTotal(k, receipts')]
        /\ reservedMaximum' = reservedMaximum
    BY <1>1 DEF SettleIfComplete
  <2>2. reservations' \in [Reservations -> Reservation]
    <3>1. \A l \in Reservations :
             [reservations[l] EXCEPT !.state = "settled"] \in Reservation
      BY ReservationRow DEF TypeOK
    <3>2. reservations \in [Reservations -> Reservation]
      BY DEF TypeOK
    <3>3. reservations' = [l \in Reservations |->
                             IF l = k THEN [reservations[l] EXCEPT !.state = "settled"]
                             ELSE reservations[l]]
      BY <2>1, <3>2
    <3> QED
      BY <3>1, <3>2, <3>3
  <2>3. settledAmount' \in [Reservations -> Nat \cup {None}]
    <3>1. ReceiptTotal(k, receipts') \in Nat
      BY TotalIsNumber DEF ReceiptsOK
    <3>2. k \in Reservations => reservedMaximum[k] \in Nat
      BY DEF TypeOK
    <3> QED
      BY <2>1, <3>1, <3>2 DEF TypeOK
  <2> QED
    BY <2>1, <2>2, <2>3 DEF TypeOK
<1>2. CASE ~(reservations[k].state = "reserved" /\ AllEnded(k))
  BY <1>2 DEF SettleIfComplete, TypeOK, ledger
<1> QED
  BY <1>1, <1>2

\* A transaction that finishes a work leaves rows of the right types.
LEMMA FinishType ==
    ASSUME TypeOK, ReceiptsOK', NEW w \in Works,
           NEW st \in TerminalStates \cup {"RETRY_WAIT"},
           NEW oc \in FinishedOutcomes,
           Finish(w, st, oc)
    PROVE  RowsOK'
<1> DEFINE row == [work[w] EXCEPT !.state = st, !.token = None,
                                  !.leaseActive = FALSE,
                                  !.due = IF st = "RETRY_WAIT" THEN FALSE ELSE work[w].due]
           k == work[w].reservation
<1>1. work' \in [Works -> Work]
  <2>1. work[w] \in Work
    BY DEF TypeOK
  <2>2. row \in Work
    BY <2>1, ReleasedRow
  <2>3. work' = [work EXCEPT ![w] = row]
    BY DEF Finish, ReleaseLease
  <2> QED
    BY <2>2, <2>3 DEF TypeOK
<1>2. attempts' \in [Works -> [Numbers -> Attempt]]
  <2> DEFINE rows == [n \in Numbers |->
                        IF /\ work[w].state = "CALLING"
                           /\ attempts[w][n].outcome = "STARTED"
                           /\ attempts[w][n].token = work[w].token
                        THEN [attempts[w][n] EXCEPT !.outcome = oc]
                        ELSE attempts[w][n]]
  <2>1. attempts' = [attempts EXCEPT ![w] = rows]
    BY DEF Finish, CloseAttempt
  <2>2. \A n \in Numbers : attempts[w][n] \in Attempt
    BY DEF TypeOK
  <2>3. rows \in [Numbers -> Attempt]
    BY <2>2 DEF Attempt
  <2> QED
    BY <2>1, <2>3 DEF TypeOK
<1>3. /\ reservations' \in [Reservations -> Reservation]
      /\ reservedMaximum' \in [Reservations -> Nat]
      /\ settledAmount' \in [Reservations -> Nat \cup {None}]
  BY SettleType DEF Finish
<1> QED
  BY <1>1, <1>2, <1>3 DEF RowsOK

\* Rejecting a work and failing an attempt are ways of finishing it.
LEMMA RejectFinishes ==
    ASSUME NEW w, NEW config, RejectFence(w, config)
    PROVE  \E st \in {"OBSOLETE", "FINAL_FAILED"}, oc \in FinishedOutcomes :
              Finish(w, st, oc)
BY DEF RejectFence, FinishedOutcomes

LEMMA FailFinishes ==
    ASSUME NEW w, NEW error, FailCurrentAttempt(w, error)
    PROVE  \E st \in {"RETRY_WAIT", "FINAL_FAILED"}, oc \in FinishedOutcomes :
              /\ st = "RETRY_WAIT" => MayRetry(w)
              /\ Finish(w, st, oc)
<1> DEFINE retry == error # "final" /\ MayRetry(w)
           st == IF retry THEN "RETRY_WAIT" ELSE "FINAL_FAILED"
           oc == IF error = "unknown" THEN "UNKNOWN"
                 ELSE IF retry THEN "RETRYABLE_FAILED" ELSE "FINAL_FAILED"
<1>1. Finish(w, st, oc)
  BY DEF FailCurrentAttempt
<1>2. st \in {"RETRY_WAIT", "FINAL_FAILED"} /\ oc \in FinishedOutcomes
  BY DEF FinishedOutcomes
<1>3. st = "RETRY_WAIT" => MayRetry(w)
  OBVIOUS
<1> QED
  BY <1>1, <1>2, <1>3

LEMMA RejectType ==
    ASSUME TypeOK, ReceiptsOK', NEW w \in Works, NEW config, RejectFence(w, config)
    PROVE  RowsOK'
BY RejectFinishes, FinishType DEF TerminalStates

LEMMA FailType ==
    ASSUME TypeOK, ReceiptsOK', NEW w \in Works, NEW error, FailCurrentAttempt(w, error)
    PROVE  RowsOK'
BY FailFinishes, FinishType DEF TerminalStates

LEMMA UnchangedType ==
    ASSUME TypeOK, UNCHANGED <<work, attempts, ledger>>
    PROVE  RowsOK'
BY DEF TypeOK, RowsOK, ledger

\* Rows as the actions leave them.
LEMMA ClaimedRow ==
    ASSUME NEW row \in Work, NEW r \in Runners
    PROVE  [row EXCEPT !.state = "LEASED", !.token = r, !.leaseActive = TRUE] \in Work
BY DEF Work, ActiveStates, TerminalStates

LEMMA CallingRow ==
    ASSUME NEW row \in Work, NEW n \in Numbers
    PROVE  [row EXCEPT !.state = "CALLING", !.attemptCount = n] \in Work
<1>1. n \in 0..MaxAttempts
  BY ConstantsOK DEF Numbers
<1> QED
  BY <1>1 DEF Work, ActiveStates, TerminalStates

LEMMA PendingRow ==
    ASSUME NEW row \in Work
    PROVE  [row EXCEPT !.state = "PENDING", !.token = None, !.leaseActive = FALSE] \in Work
BY DEF Work, ActiveStates, TerminalStates

LEMMA TimedRow ==
    ASSUME NEW row \in Work
    PROVE  /\ [row EXCEPT !.leaseActive = FALSE] \in Work
           /\ [row EXCEPT !.due = TRUE] \in Work
BY DEF Work, ActiveStates, TerminalStates

LEMMA NumberType == \A n \in Numbers : n \in 0..MaxAttempts
BY ConstantsOK DEF Numbers

LEMMA IdleType == Idle \in Runner
<1>1. 0 \in 0..MaxAttempts
  BY ConstantsOK
<1> QED
  BY <1>1 DEF Idle, Runner

LEMMA RunnerRow ==
    ASSUME NEW row \in Runner
    PROVE  /\ \A step \in {"start", "input", "call"} : [row EXCEPT !.step = step] \in Runner
           /\ \A n \in Numbers : [row EXCEPT !.step = "input", !.number = n] \in Runner
           /\ \A answer \in Results \cup Errors, tokens \in (1..CallMax) \cup {None} :
                 [row EXCEPT !.step = "record", !.answer = answer, !.tokens = tokens] \in Runner
           /\ \A w \in Works : [Idle EXCEPT !.step = "reuse", !.work = w] \in Runner
<1>1. \A step \in {"start", "input", "call"} : [row EXCEPT !.step = step] \in Runner
  BY DEF Runner
<1>2. ASSUME NEW n \in Numbers
      PROVE  [row EXCEPT !.step = "input", !.number = n] \in Runner
  BY NumberType DEF Runner
<1>3. ASSUME NEW answer \in Results \cup Errors, NEW tokens \in (1..CallMax) \cup {None}
      PROVE  [row EXCEPT !.step = "record", !.answer = answer, !.tokens = tokens] \in Runner
  BY DEF Runner
<1>4. ASSUME NEW w \in Works
      PROVE  [Idle EXCEPT !.step = "reuse", !.work = w] \in Runner
  BY IdleType DEF Runner
<1> QED
  BY <1>1, <1>2, <1>3, <1>4

LEMMA NewRow ==
    ASSUME NEW intent \in Intents, NEW epoch \in Nat, NEW config \in Configs,
           NEW k \in Reservations
    PROVE  [NoWork EXCEPT !.state = "PENDING", !.intent = intent, !.epoch = epoch,
                          !.config = config, !.reservation = k, !.due = TRUE] \in Work
<1>1. 0 \in 0..MaxAttempts
  BY ConstantsOK
<1> QED
  BY <1>1 DEF NoWork, Work, ActiveStates, TerminalStates

\* Creating works: the new rows and the reservation that covers them.
LEMMA CreateType ==
    ASSUME TypeOK, NEW intents \in SUBSET Intents, NEW config \in Configs,
           NEW epoch \in Nat, CreateWorks(intents, config, epoch), UNCHANGED attempts
    PROVE  RowsOK'
<1>0. PICK k \in Reservations, ws \in SUBSET {w \in Works : work[w].state = "ABSENT"} :
        \E f \in Bijection(ws, intents) : InsertWorks(k, ws, f, config, epoch)
  BY DEF CreateWorks
<1>1. PICK intentOf \in Bijection(ws, intents) : InsertWorks(k, ws, intentOf, config, epoch)
  BY <1>0
<1>2. \A w \in ws : intentOf[w] \in Intents
  BY DEF Bijection, Injection
<1>3. EmbeddingMaximumCost(Cardinality(ws)) \in Nat
  <2>1. ws \subseteq Works
    OBVIOUS
  <2>2. Cardinality(ws) \in Nat
    BY <2>1, ConstantsOK, FS_Subset, FS_CardinalityType
  <2>3. Cardinality(ws) * MaxAttempts \in Nat
    BY <2>2, ConstantsOK
  <2>4. CallMax \in Nat
    BY ConstantsOK
  <2> QED
    BY <2>3, <2>4 DEF EmbeddingMaximumCost
<1>4. work' \in [Works -> Work]
  BY <1>1, <1>2, NewRow DEF InsertWorks, TypeOK
<1>5. reservations' \in [Reservations -> Reservation]
  <2>1. [state |-> "reserved", live |-> TRUE, exposed |-> FALSE,
         epoch |-> epoch, config |-> config] \in Reservation
    BY DEF Reservation
  <2> QED
    BY <1>1, <2>1 DEF InsertWorks, TypeOK
<1>6. reservedMaximum' \in [Reservations -> Nat]
  BY <1>1, <1>3 DEF InsertWorks, TypeOK
<1> QED
  BY <1>1, <1>4, <1>5, <1>6 DEF InsertWorks, TypeOK, RowsOK

LEMMA TypeFromRows ==
    ASSUME RowsOK,
           consent \in [granted: BOOLEAN, epoch: Nat, config: Configs \cup {None}],
           current \in [Materials -> Nat],
           receipts \in [Works -> [Numbers -> (1..CallMax) \cup {None}]],
           runner \in [Runners -> Runner],
           \A r \in Runners : runner[r].step # "idle" => runner[r].work \in Works,
           billed \in [Works -> [Numbers -> 0..CallMax]]
    PROVE  TypeOK
BY DEF RowsOK, TypeOK

LEMMA TypeInit == Init => TypeOK
<1> SUFFICES ASSUME Init PROVE TypeOK
  OBVIOUS
<1>1. 0 \in 0..MaxAttempts /\ 0 \in 0..CallMax
  BY ConstantsOK
<1>2. NoWork \in Work
  BY <1>1 DEF NoWork, Work
<1>3. NoAttempt \in Attempt
  BY DEF NoAttempt, Attempt
<1>4. NoReservation \in Reservation
  BY DEF NoReservation, Reservation
<1>5. consent \in [granted: BOOLEAN, epoch: Nat, config: Configs \cup {None}]
  BY DEF Init
<1>6. RowsOK
  BY <1>2, <1>3, <1>4 DEF Init, RowsOK
<1>7. /\ current \in [Materials -> Nat]
      /\ receipts \in [Works -> [Numbers -> (1..CallMax) \cup {None}]]
      /\ runner \in [Runners -> Runner]
      /\ \A r \in Runners : runner[r].step = "idle"
      /\ billed \in [Works -> [Numbers -> 0..CallMax]]
  BY <1>1, IdleType DEF Init, Idle
<1> QED
  BY <1>5, <1>6, <1>7, TypeFromRows

\* The transitions of the API.
LEMMA UserType ==
    ASSUME TypeOK, User
    PROVE  TypeOK'
<1>1. ASSUME NEW config \in Configs, NEW targets \in SUBSET Materials,
             NEW retryFailed \in BOOLEAN, Activate(config, targets, retryFailed)
      PROVE  TypeOK'
  <2> DEFINE epoch == GrantedEpoch(config)
             blocking == IF retryFailed THEN RetryBlockingStates
                         ELSE ActiveStates \cup TerminalStates
             pending == {<<m, current[m]>> : m \in targets}
                            \ ExistingIntents(config, epoch, blocking)
  <2>1. epoch \in Nat
    BY DEF GrantedEpoch, TypeOK
  <2>2. pending \in SUBSET Intents
    BY <1>1 DEF Activate, TypeOK, Intents
  <2>3. /\ consent' = [granted |-> TRUE, epoch |-> epoch, config |-> config]
        /\ \/ UNCHANGED <<work, ledger>>
           \/ CreateWorks(pending, config, epoch)
        /\ UNCHANGED <<current, attempts, receipts, runner, billed>>
    BY <1>1 DEF Activate
  <2> HIDE DEF epoch, pending
  <2>4. RowsOK'
    BY <2>1, <2>2, <2>3, CreateType, UnchangedType
  <2>5. consent' \in [granted: BOOLEAN, epoch: Nat, config: Configs \cup {None}]
    BY <2>1, <2>3
  <2> QED
    BY <2>3, <2>4, <2>5 DEF TypeOK, RowsOK
<1>2. CASE Revoke
  <2>1. consent' \in [granted: BOOLEAN, epoch: Nat, config: Configs \cup {None}]
    <3> DEFINE revoked == [granted |-> FALSE, epoch |-> consent.epoch + 1,
                           config |-> consent.config]
    <3>1. consent \in [granted: BOOLEAN, epoch: Nat, config: Configs \cup {None}]
      BY DEF TypeOK
    <3>2. consent' = revoked
      BY <1>2, <3>1 DEF Revoke
    <3> QED
      BY <3>1, <3>2
  <2> QED
    BY <1>2, <2>1 DEF Revoke, TypeOK, tables, ledger
<1>3. ASSUME NEW m \in Materials, UpdateMaterial(m) \/ DeleteMaterial(m)
      PROVE  TypeOK'
  <2>1. current' \in [Materials -> Nat]
    <3>1. current \in [Materials -> Nat] /\ current[m] + 1 \in Nat
      BY DEF TypeOK
    <3>2. \E n \in Nat : current' = [current EXCEPT ![m] = n]
      BY <1>3, <3>1 DEF UpdateMaterial, DeleteMaterial
    <3> QED
      BY <3>1, <3>2
  <2> QED
    BY <1>3, <2>1 DEF UpdateMaterial, DeleteMaterial, TypeOK, tables, ledger
<1> QED
  BY <1>1, <1>2, <1>3 DEF User

\* What a handler step may do to the local state of its slot.
LEMMA GotoType ==
    ASSUME TypeOK, NEW r \in Runners, NEW row \in Runner,
           row.step # "idle" => row.work \in Works,
           runner' = [runner EXCEPT ![r] = row]
    PROVE  /\ runner' \in [Runners -> Runner]
           /\ \A q \in Runners : runner'[q].step # "idle" => runner'[q].work \in Works
BY DEF TypeOK

LEMMA ReturnType ==
    ASSUME TypeOK, NEW r \in Runners, Return(r)
    PROVE  /\ runner' \in [Runners -> Runner]
           /\ \A q \in Runners : runner'[q].step # "idle" => runner'[q].work \in Works
<1>1. Idle \in Runner /\ Idle.step = "idle"
  BY IdleType DEF Idle
<1> QED
  BY <1>1, GotoType DEF Return

LEMMA StepType ==
    ASSUME TypeOK, NEW r \in Runners, runner[r].step # "idle",
           NEW step \in {"start", "call"}, Goto(r, step)
    PROVE  /\ runner' \in [Runners -> Runner]
           /\ \A q \in Runners : runner'[q].step # "idle" => runner'[q].work \in Works
<1> DEFINE row == [runner[r] EXCEPT !.step = step]
<1>1. runner[r] \in Runner /\ runner[r].work \in Works
  BY DEF TypeOK
<1>2. row \in Runner
  BY <1>1, RunnerRow
<1>3. row.work \in Works
  BY <1>1 DEF Runner
<1>4. runner' = [runner EXCEPT ![r] = row]
  BY DEF Goto
<1> HIDE DEF row
<1> QED
  BY <1>2, <1>3, <1>4, GotoType

LEMMA TablesType ==
    ASSUME TypeOK, UNCHANGED tables
    PROVE  RowsOK' /\ receipts' \in [Works -> [Numbers -> (1..CallMax) \cup {None}]]
BY UnchangedType DEF tables, TypeOK

LEMMA RecordType ==
    ASSUME TypeOK, NEW r \in Runners, RecordCall(r)
    PROVE  ReceiptsOK'
<1> DEFINE w == runner[r].work
           n == runner[r].number
           amount == IF receipts[w][n] = None THEN runner[r].tokens ELSE receipts[w][n]
<1>1. receipts' = [receipts EXCEPT ![w][n] = amount]
  BY DEF RecordCall
<1>2. runner[r].tokens \in (1..CallMax) \cup {None}
  BY DEF TypeOK, Runner
<1>3. receipts \in [Works -> [Numbers -> (1..CallMax) \cup {None}]]
  BY DEF TypeOK
<1>4. CASE w \in Works /\ n \in Numbers
  <2>1. amount \in (1..CallMax) \cup {None}
    BY <1>2, <1>3, <1>4
  <2> QED
    BY <1>1, <1>3, <1>4, <2>1 DEF ReceiptsOK
<1>5. CASE ~(w \in Works /\ n \in Numbers)
  BY <1>1, <1>3, <1>5 DEF ReceiptsOK
<1> QED
  BY <1>4, <1>5

\* The transitions of a claim handler.
LEMMA ClaimType ==
    ASSUME TypeOK, NEW r \in Runners, NEW w \in Works, Claim(r, w)
    PROVE  TypeOK'
<1> DEFINE row == [work[w] EXCEPT !.state = "LEASED", !.token = r, !.leaseActive = TRUE]
           local == [Idle EXCEPT !.step = "reuse", !.work = w]
<1>1. work[w] \in Work /\ runner[r] \in Runner
  BY DEF TypeOK
<1>2. row \in Work /\ local \in Runner
  BY <1>1, ClaimedRow, RunnerRow
<1>3. local.work = w
  BY DEF Idle
<1>4. /\ work' = [work EXCEPT ![w] = row]
      /\ runner' = [runner EXCEPT ![r] = local]
      /\ UNCHANGED <<consent, current, attempts, receipts, reservations,
                     reservedMaximum, settledAmount, billed>>
  BY DEF Claim, ledger
<1> HIDE DEF row, local
<1>5. work' \in [Works -> Work]
  BY <1>2, <1>4 DEF TypeOK
<1>6. /\ runner' \in [Runners -> Runner]
      /\ \A q \in Runners : runner'[q].step # "idle" => runner'[q].work \in Works
  BY <1>2, <1>3, <1>4, GotoType
<1> QED
  BY <1>4, <1>5, <1>6 DEF TypeOK

LEMMA ReuseType ==
    ASSUME TypeOK, NEW r \in Runners, Reuse(r)
    PROVE  TypeOK'
<1> DEFINE w == runner[r].work
<1>1. w \in Works
  BY DEF Reuse, TypeOK
<1>2. CASE Goto(r, "start") /\ UNCHANGED tables
  <2>1. /\ runner' \in [Runners -> Runner]
        /\ \A q \in Runners : runner'[q].step # "idle" => runner'[q].work \in Works
    BY <1>2, StepType DEF Reuse
  <2> QED
    BY <1>2, <2>1, TablesType DEF Reuse, TypeOK, RowsOK
<1>3. CASE Finish(w, "PUBLISHED", "SUCCEEDED") /\ Return(r) /\ UNCHANGED receipts
  <2>1. RowsOK'
    BY <1>1, <1>3, FinishType, ReceiptsStay DEF TerminalStates, FinishedOutcomes
  <2> QED
    BY <1>3, <2>1, ReturnType DEF Reuse, TypeOK, RowsOK
<1> QED
  BY <1>2, <1>3 DEF Reuse

LEMMA StartType ==
    ASSUME TypeOK, NEW r \in Runners, StartAttempt(r)
    PROVE  TypeOK'
<1> DEFINE w == runner[r].work
           n == work[w].attemptCount + 1
           k == work[w].reservation
<1>1. w \in Works /\ runner[r] \in Runner /\ work[w] \in Work
  BY DEF StartAttempt, TypeOK
<1>2. UNCHANGED <<consent, current, billed>>
  BY DEF StartAttempt
<1>3. CASE /\ work[w].attemptCount < MaxAttempts
           /\ BeginAttempt(r, w)
           /\ MarkExposure(k)
           /\ UNCHANGED <<receipts, reservedMaximum, settledAmount>>
  <2>1. n \in Numbers
    BY <1>1, <1>3, ConstantsOK DEF Work, Numbers
  <2> DEFINE row == [work[w] EXCEPT !.state = "CALLING", !.attemptCount = n]
             attempt == [outcome |-> "STARTED", token |-> r]
             local == [runner[r] EXCEPT !.step = "input", !.number = n]
  <2>2. row \in Work /\ local \in Runner /\ attempt \in Attempt
    BY <1>1, <2>1, CallingRow, RunnerRow DEF Attempt
  <2>3. local.work = w
    BY <1>1 DEF Runner
  <2>4. /\ work' = [work EXCEPT ![w] = row]
        /\ attempts' = [attempts EXCEPT ![w][n] = attempt]
        /\ runner' = [runner EXCEPT ![r] = local]
    BY <1>3 DEF BeginAttempt
  <2>5. reservations' \in [Reservations -> Reservation]
    <3>1. reservations \in [Reservations -> Reservation]
      BY DEF TypeOK
    <3>2. reservations' = [l \in Reservations |->
                             IF l = k THEN [reservations[l] EXCEPT !.exposed = TRUE]
                             ELSE reservations[l]]
      BY <1>3, <3>1 DEF MarkExposure
    <3>3. \A l \in Reservations : [reservations[l] EXCEPT !.exposed = TRUE] \in Reservation
      BY <3>1, ReservationRow
    <3> QED
      BY <3>1, <3>2, <3>3
  <2> HIDE DEF row, attempt, local, n
  <2>6. work' \in [Works -> Work]
    BY <2>2, <2>4 DEF TypeOK
  <2>7. attempts' \in [Works -> [Numbers -> Attempt]]
    BY <2>2, <2>4 DEF TypeOK
  <2>8. /\ runner' \in [Runners -> Runner]
        /\ \A q \in Runners : runner'[q].step # "idle" => runner'[q].work \in Works
    BY <1>1, <2>2, <2>3, <2>4, GotoType
  <2> QED
    BY <1>2, <1>3, <2>5, <2>6, <2>7, <2>8 DEF TypeOK
<1>4. CASE RejectFence(w, ConfigOf[r]) /\ Return(r) /\ UNCHANGED receipts
  BY <1>1, <1>2, <1>4, RejectType, ReceiptsStay, ReturnType DEF TypeOK, RowsOK
<1>5. CASE Return(r) /\ UNCHANGED tables
  BY <1>2, <1>5, TablesType, ReturnType DEF TypeOK, RowsOK
<1> QED
  BY <1>3, <1>4, <1>5 DEF StartAttempt

LEMMA InputType ==
    ASSUME TypeOK, NEW r \in Runners, CallInput(r)
    PROVE  TypeOK'
<1> DEFINE w == runner[r].work
<1>1. w \in Works /\ runner[r].step # "idle" /\ UNCHANGED <<consent, current, billed>>
  BY DEF CallInput, TypeOK
<1>2. CASE Goto(r, "call") /\ UNCHANGED tables
  <2>1. /\ runner' \in [Runners -> Runner]
        /\ \A q \in Runners : runner'[q].step # "idle" => runner'[q].work \in Works
    BY <1>1, <1>2, StepType
  <2> QED
    BY <1>1, <1>2, <2>1, TablesType DEF TypeOK, RowsOK
<1>3. CASE RejectFence(w, ConfigOf[r]) /\ Return(r) /\ UNCHANGED receipts
  BY <1>1, <1>3, RejectType, ReceiptsStay, ReturnType DEF TypeOK, RowsOK
<1>4. CASE Return(r) /\ UNCHANGED tables
  BY <1>1, <1>4, TablesType, ReturnType DEF TypeOK, RowsOK
<1> QED
  BY <1>2, <1>3, <1>4 DEF CallInput

\* A response that is let through claims its charge or nothing.
LEMMA ResponseOK ==
    ASSUME NEW answer \in Results \cup Errors, NEW cost \in 0..CallMax,
           NEW usage \in Reports(answer, cost)
    PROVE  /\ CheckedResponse(answer, usage).answer \in Results \cup Errors
           /\ CheckedResponse(answer, usage).tokens \in {None, cost}
           /\ CheckedResponse(answer, usage).tokens \in (1..CallMax) \cup {None}
<1>1. CallMax \in Nat
  BY ConstantsOK
<1>2. usage = None \/ (usage = cost /\ cost # 0) \/ usage = CallMax + 1
  BY DEF Reports
<1>3. "final" \in Errors
  BY DEF Errors
<1>4. CASE usage # None /\ usage > CallMax
  BY <1>3, <1>4 DEF CheckedResponse
<1>5. CASE ~(usage # None /\ usage > CallMax)
  <2>1. usage = None \/ (usage = cost /\ cost # 0)
    BY <1>1, <1>2, <1>5
  <2>2. cost # 0 => cost \in 1..CallMax
    BY <1>1
  <2>3. CheckedResponse(answer, usage) = [answer |-> answer, tokens |-> usage]
    BY <1>5 DEF CheckedResponse
  <2> QED
    BY <2>1, <2>2, <2>3
<1> QED
  BY <1>4, <1>5

\* What a provider call leaves behind: a bill, and a usage of that amount
\* or none.
LEMMA EmbedPicks ==
    ASSUME NEW r, Embed(r)
    PROVE  \E cost, answer, tokens :
              /\ tokens \in {None, cost}
              /\ tokens \in (1..CallMax) \cup {None}
              /\ answer \in Results \cup Errors
              /\ cost \in 0..CallMax
              /\ billed' = [billed EXCEPT ![runner[r].work][runner[r].number] = cost]
              /\ runner' = [runner EXCEPT ![r] = [@ EXCEPT !.step = "record",
                                                           !.answer = answer,
                                                           !.tokens = tokens]]
<1>1. PICK answer \in Results \cup Errors, cost \in 0..CallMax :
        \E usage \in Reports(answer, cost) :
           /\ billed' = [billed EXCEPT ![runner[r].work][runner[r].number] = cost]
           /\ runner' = [runner EXCEPT ![r] = [@ EXCEPT !.step = "record",
                !.answer = CheckedResponse(answer, usage).answer,
                !.tokens = CheckedResponse(answer, usage).tokens]]
  BY DEF Embed
<1>2. PICK usage \in Reports(answer, cost) :
           /\ billed' = [billed EXCEPT ![runner[r].work][runner[r].number] = cost]
           /\ runner' = [runner EXCEPT ![r] = [@ EXCEPT !.step = "record",
                !.answer = CheckedResponse(answer, usage).answer,
                !.tokens = CheckedResponse(answer, usage).tokens]]
  BY <1>1
<1> DEFINE seen == CheckedResponse(answer, usage)
<1>3. /\ seen.answer \in Results \cup Errors
      /\ seen.tokens \in {None, cost}
      /\ seen.tokens \in (1..CallMax) \cup {None}
  BY ResponseOK
<1> QED
  BY <1>2, <1>3

LEMMA EmbedType ==
    ASSUME TypeOK, NEW r \in Runners, Embed(r)
    PROVE  TypeOK'
<1> DEFINE w == runner[r].work
           n == runner[r].number
<1>1. w \in Works /\ runner[r] \in Runner /\ UNCHANGED <<consent, current, tables>>
  BY DEF Embed, TypeOK
<1>3. PICK cost, answer, tokens :
           /\ tokens \in {None, cost}
           /\ tokens \in (1..CallMax) \cup {None}
           /\ answer \in Results \cup Errors
           /\ cost \in 0..CallMax
           /\ billed' = [billed EXCEPT ![w][n] = cost]
           /\ runner' = [runner EXCEPT ![r] = [@ EXCEPT !.step = "record",
                                                        !.answer = answer,
                                                        !.tokens = tokens]]
  BY EmbedPicks
<1> DEFINE row == [runner[r] EXCEPT !.step = "record", !.answer = answer, !.tokens = tokens]
<1>5. row \in Runner
  BY <1>1, <1>3, RunnerRow
<1>6. row.work = w
  BY <1>1 DEF Runner
<1>7. runner' = [runner EXCEPT ![r] = row]
  BY <1>3
<1> HIDE DEF row
<1>8. /\ runner' \in [Runners -> Runner]
      /\ \A q \in Runners : runner'[q].step # "idle" => runner'[q].work \in Works
  BY <1>1, <1>5, <1>6, <1>7, GotoType
<1>9. billed' \in [Works -> [Numbers -> 0..CallMax]]
  BY <1>3 DEF TypeOK
<1> QED
  BY <1>1, <1>8, <1>9, TablesType DEF TypeOK, RowsOK

LEMMA FailAttemptType ==
    ASSUME TypeOK, NEW r \in Runners, FailAttempt(r)
    PROVE  TypeOK'
<1> DEFINE w == runner[r].work
<1>1. w \in Works /\ Return(r) /\ UNCHANGED <<consent, current, billed>>
  BY DEF FailAttempt, TypeOK
<1>2. CASE FailCurrentAttempt(w, runner[r].answer) /\ UNCHANGED receipts
  BY <1>1, <1>2, FailType, ReceiptsStay, ReturnType DEF TypeOK, RowsOK
<1>3. CASE RejectFence(w, ConfigOf[r]) /\ UNCHANGED receipts
  BY <1>1, <1>3, RejectType, ReceiptsStay, ReturnType DEF TypeOK, RowsOK
<1>4. CASE UNCHANGED tables
  BY <1>1, <1>4, TablesType, ReturnType DEF TypeOK, RowsOK
<1> QED
  BY <1>2, <1>3, <1>4 DEF FailAttempt

LEMMA LapseType ==
    ASSUME TypeOK, NEW w \in Works,
           \/ work' = [work EXCEPT ![w].leaseActive = FALSE]
           \/ work' = [work EXCEPT ![w].due = TRUE],
           UNCHANGED <<attempts, ledger>>
    PROVE  RowsOK'
<1>1. work[w] \in Work
  BY DEF TypeOK
<1>2. PICK row \in Work : work' = [work EXCEPT ![w] = row]
  BY <1>1, TimedRow
<1>3. work' \in [Works -> Work]
  BY <1>2 DEF TypeOK
<1> QED
  BY <1>3 DEF TypeOK, RowsOK, ledger

LEMMA CompleteType ==
    ASSUME TypeOK, NEW r \in Runners, CompleteAttempt(r)
    PROVE  TypeOK'
<1> DEFINE w == runner[r].work
<1>1. w \in Works /\ Return(r) /\ UNCHANGED <<consent, current, billed>>
  BY DEF CompleteAttempt, TypeOK
<1>2. CASE UNCHANGED tables
  BY <1>1, <1>2, TablesType, ReturnType DEF TypeOK, RowsOK
<1>3. CASE RecordCall(r) /\ RowsOK'
  BY <1>1, <1>3, RecordType, ReturnType DEF TypeOK, RowsOK, ReceiptsOK
<1>4. RecordCall(r) /\ Finish(w, "PUBLISHED", "SUCCEEDED") => RowsOK'
  BY <1>1, RecordType, FinishType DEF TerminalStates, FinishedOutcomes
<1>5. RecordCall(r) /\ FailCurrentAttempt(w, "final") => RowsOK'
  BY <1>1, RecordType, FailType
<1>6. RecordCall(r) /\ RejectFence(w, ConfigOf[r]) => RowsOK'
  BY <1>1, RecordType, RejectType
<1>7. /\ work' = [work EXCEPT ![w].leaseActive = FALSE]
      /\ UNCHANGED <<attempts, ledger>>
      => RowsOK'
  BY <1>1, LapseType
<1> QED
  BY <1>2, <1>3, <1>4, <1>5, <1>6, <1>7 DEF CompleteAttempt

LEMMA AbandonType ==
    ASSUME TypeOK, NEW r \in Runners, Abandon(r)
    PROVE  TypeOK'
BY TablesType, ReturnType DEF Abandon, TypeOK, RowsOK

\* The transitions of repair and of time.
LEMMA RecoverType ==
    ASSUME TypeOK, NEW w \in Works, NEW config, Recover(w, config)
    PROVE  TypeOK'
<1>1. UNCHANGED <<consent, current, receipts, runner, billed>>
  BY DEF Recover
<1>2. CASE RejectFence(w, config)
  BY <1>1, <1>2, RejectType, ReceiptsStay DEF TypeOK, RowsOK
<1>3. CASE FailCurrentAttempt(w, "unknown")
  BY <1>1, <1>3, FailType, ReceiptsStay DEF TypeOK, RowsOK
<1>4. CASE ReturnToPending(w)
  <2> DEFINE row == [work[w] EXCEPT !.state = "PENDING", !.token = None,
                                    !.leaseActive = FALSE]
  <2>1. work[w] \in Work
    BY DEF TypeOK
  <2>2. row \in Work
    BY <2>1, PendingRow
  <2>3. work' = [work EXCEPT ![w] = row] /\ UNCHANGED <<attempts, ledger>>
    BY <1>4 DEF ReturnToPending
  <2> HIDE DEF row
  <2>4. work' \in [Works -> Work]
    BY <2>2, <2>3 DEF TypeOK
  <2> QED
    BY <1>1, <2>3, <2>4 DEF TypeOK, ledger
<1> QED
  BY <1>2, <1>3, <1>4 DEF Recover

LEMMA ReservationType ==
    ASSUME TypeOK, NEW k \in Reservations, ExpireUnexposed(k) \/ ReservationLapses(k)
    PROVE  TypeOK'
<1>1. reservations[k] \in Reservation
  BY DEF TypeOK
<1>2. PICK row \in Reservation : reservations' = [reservations EXCEPT ![k] = row]
  BY <1>1, ReservationRow DEF ExpireUnexposed, ReservationLapses
<1>3. reservations' \in [Reservations -> Reservation]
  BY <1>2 DEF TypeOK
<1> QED
  BY <1>3 DEF ExpireUnexposed, ReservationLapses, TypeOK

LEMMA MissingType ==
    ASSUME TypeOK, NEW config \in Configs, NEW targets \in SUBSET Materials,
           ActivateMissing(config, targets)
    PROVE  TypeOK'
<1> DEFINE pending == {<<m, current[m]>> : m \in targets}
                \ ExistingIntents(config, consent.epoch, ActiveStates \cup TerminalStates)
<1>1. pending \in SUBSET Intents
  BY DEF ActivateMissing, TypeOK, Intents
<1>2. /\ CreateWorks(pending, config, consent.epoch)
      /\ UNCHANGED <<consent, current, attempts, receipts, runner, billed>>
  BY DEF ActivateMissing
<1>3. consent.epoch \in Nat
  BY DEF TypeOK
<1> HIDE DEF pending
<1>4. RowsOK'
  BY <1>1, <1>2, <1>3, CreateType
<1> QED
  BY <1>2, <1>4 DEF TypeOK, RowsOK

LEMMA TypeStep == TypeOK /\ [Next]_vars => TypeOK'
<1> SUFFICES ASSUME TypeOK, [Next]_vars PROVE TypeOK'
  OBVIOUS
<1>1. CASE User
  BY <1>1, UserType
<1>2. ASSUME NEW r \in Runners, Handler(r) PROVE TypeOK'
  BY <1>2, ClaimType, ReuseType, StartType, InputType, EmbedType, FailAttemptType,
     CompleteType, AbandonType DEF Handler
<1>3. CASE Repair
  BY <1>3, RecoverType, ReservationType, MissingType DEF Repair
<1>4. CASE Time
  <2>1. ASSUME NEW w \in Works, LeaseLapses(w) \/ RetryFallsDue(w) PROVE TypeOK'
    BY <2>1, LapseType DEF LeaseLapses, RetryFallsDue, TypeOK, RowsOK
  <2> QED
    BY <1>4, <2>1, ReservationType DEF Time
<1>5. CASE UNCHANGED vars
  BY <1>5 DEF vars, tables, ledger, TypeOK
<1> QED
  BY <1>1, <1>2, <1>3, <1>4, <1>5 DEF Next

(* Every row and every slot keeps its type: in particular no work counts   *)
(* more attempts than embeddingMaxAttempts and no busy slot is without a   *)
(* work, in every reachable state.                                         *)
THEOREM TypeCorrect == Spec => []TypeOK
<1>1. Init => TypeOK
  BY TypeInit
<1>2. TypeOK /\ [Next]_vars => TypeOK'
  BY TypeStep
<1> QED
  BY <1>1, <1>2, PTL DEF Spec

-----------------------------------------------------------------------------
(* What a step may do to a work.                                           *)
(*                                                                         *)
(* Every action is first reduced to what it does to one work: the row x    *)
(* with its attempts a becomes the row y with its attempts b.  There are   *)
(* seven such changes.  The invariants of a work are then proved once per  *)
(* change instead of once per action.                                      *)

SameIdentity(x, y) ==
    /\ y.intent = x.intent
    /\ y.epoch = x.epoch
    /\ y.config = x.config
    /\ y.reservation = x.reservation

Kept(x, a, y, b) == y = x /\ b = a

\* A lease lapses or a retry falls due.
Timed(x, a, y, b) ==
    /\ SameIdentity(x, y)
    /\ y.state = x.state
    /\ y.token = x.token
    /\ y.attemptCount = x.attemptCount
    /\ y.leaseActive => x.leaseActive
    /\ x.state = "RETRY_WAIT" \/ x.leaseActive
    /\ b = a

Created(x, a, y, b) ==
    /\ x.state = "ABSENT"
    /\ y.state = "PENDING"
    /\ y.attemptCount = 0
    /\ y.reservation \in Reservations
    /\ ~y.leaseActive
    /\ b = a

Claimed(x, a, y, b) ==
    /\ SameIdentity(x, y)
    /\ x.state = "PENDING"
    /\ y.state = "LEASED"
    /\ y.attemptCount = x.attemptCount
    /\ b = a

Begun(x, a, y, b) ==
    /\ SameIdentity(x, y)
    /\ x.state = "LEASED"
    /\ x.attemptCount < MaxAttempts
    /\ y.state = "CALLING"
    /\ y.token = x.token
    /\ y.attemptCount = x.attemptCount + 1
    /\ b = [a EXCEPT ![x.attemptCount + 1] = [outcome |-> "STARTED", token |-> x.token]]

Returned(x, a, y, b) ==
    /\ SameIdentity(x, y)
    /\ x.state \in {"RETRY_WAIT", "LEASED"}
    /\ y.state = "PENDING"
    /\ y.attemptCount = x.attemptCount
    /\ ~y.leaseActive
    /\ b = a

Finished(x, a, y, b) ==
    /\ SameIdentity(x, y)
    /\ x.state \in ActiveStates
    /\ y.state \in TerminalStates \cup {"RETRY_WAIT"}
    /\ y.state = "RETRY_WAIT" => x.attemptCount < MaxAttempts
    /\ y.attemptCount = x.attemptCount
    /\ ~y.leaseActive
    /\ \E outcome \in FinishedOutcomes :
          b = [n \in Numbers |->
                 IF x.state = "CALLING" /\ a[n].outcome = "STARTED" /\ a[n].token = x.token
                 THEN [a[n] EXCEPT !.outcome = outcome]
                 ELSE a[n]]

Changed(x, a, y, b) ==
    \/ Kept(x, a, y, b)
    \/ Timed(x, a, y, b)
    \/ Created(x, a, y, b)
    \/ Claimed(x, a, y, b)
    \/ Begun(x, a, y, b)
    \/ Returned(x, a, y, b)
    \/ Finished(x, a, y, b)

WorkChanged(v) == Changed(work[v], attempts[v], work'[v], attempts'[v])

-----------------------------------------------------------------------------
(* Every step changes every work in one of these ways *)

LEMMA FinishChanges ==
    ASSUME TypeOK, NEW w \in Works,
           NEW st \in TerminalStates \cup {"RETRY_WAIT"}, NEW oc \in FinishedOutcomes,
           work[w].state \in ActiveStates,
           st = "RETRY_WAIT" => MayRetry(w),
           Finish(w, st, oc)
    PROVE  /\ Finished(work[w], attempts[w], work'[w], attempts'[w])
           /\ \A v \in Works \ {w} : Kept(work[v], attempts[v], work'[v], attempts'[v])
<1> DEFINE row == [work[w] EXCEPT !.state = st, !.token = None, !.leaseActive = FALSE,
                                  !.due = IF st = "RETRY_WAIT" THEN FALSE ELSE work[w].due]
           rows == [n \in Numbers |->
                      IF /\ work[w].state = "CALLING"
                         /\ attempts[w][n].outcome = "STARTED"
                         /\ attempts[w][n].token = work[w].token
                      THEN [attempts[w][n] EXCEPT !.outcome = oc]
                      ELSE attempts[w][n]]
<1>1. work[w] \in Work
  BY DEF TypeOK
<1>2. /\ SameIdentity(work[w], row)
      /\ row.state = st
      /\ row.attemptCount = work[w].attemptCount
      /\ ~row.leaseActive
  BY <1>1 DEF SameIdentity, Work
<1>3. work' = [work EXCEPT ![w] = row] /\ attempts' = [attempts EXCEPT ![w] = rows]
  BY DEF Finish, ReleaseLease, CloseAttempt
<1> HIDE DEF row
<1>4. work'[w] = row /\ attempts'[w] = rows
  BY <1>3 DEF TypeOK
<1>5. \A v \in Works \ {w} : work'[v] = work[v] /\ attempts'[v] = attempts[v]
  BY <1>3 DEF TypeOK
<1>6. Finished(work[w], attempts[w], row, rows)
  BY <1>2 DEF Finished, MayRetry
<1> QED
  BY <1>4, <1>5, <1>6 DEF Kept

LEMMA RejectChanges ==
    ASSUME TypeOK, NEW w \in Works, NEW config, work[w].state \in ActiveStates,
           RejectFence(w, config)
    PROVE  \A v \in Works : WorkChanged(v)
<1>1. PICK st \in TerminalStates, oc \in FinishedOutcomes : Finish(w, st, oc)
  BY RejectFinishes DEF TerminalStates
<1>2. st # "RETRY_WAIT"
  BY DEF TerminalStates
<1> QED
  BY <1>1, <1>2, FinishChanges DEF WorkChanged, Changed

LEMMA FailChanges ==
    ASSUME TypeOK, NEW w \in Works, NEW error, work[w].state \in ActiveStates,
           FailCurrentAttempt(w, error)
    PROVE  \A v \in Works : WorkChanged(v)
<1>1. PICK st \in {"RETRY_WAIT", "FINAL_FAILED"}, oc \in FinishedOutcomes :
         /\ st = "RETRY_WAIT" => MayRetry(w)
         /\ Finish(w, st, oc)
  BY FailFinishes
<1>2. st \in TerminalStates \cup {"RETRY_WAIT"}
  BY DEF TerminalStates
<1> QED
  BY <1>1, <1>2, FinishChanges DEF WorkChanged, Changed

LEMMA PublishChanges ==
    ASSUME TypeOK, NEW w \in Works, work[w].state \in ActiveStates,
           Finish(w, "PUBLISHED", "SUCCEEDED")
    PROVE  \A v \in Works : WorkChanged(v)
BY FinishChanges DEF WorkChanged, Changed, TerminalStates, FinishedOutcomes

LEMMA UnchangedKeeps ==
    ASSUME UNCHANGED <<work, attempts>>
    PROVE  \A v \in Works : WorkChanged(v)
BY DEF WorkChanged, Changed, Kept

LEMMA CreateChanges ==
    ASSUME TypeOK, NEW intents, NEW config, NEW epoch,
           CreateWorks(intents, config, epoch), UNCHANGED attempts
    PROVE  \A v \in Works : WorkChanged(v)
<1>1. PICK k \in Reservations, ws \in SUBSET {w \in Works : work[w].state = "ABSENT"} :
         \E f \in Bijection(ws, intents) : InsertWorks(k, ws, f, config, epoch)
  BY DEF CreateWorks
<1>2. PICK f \in Bijection(ws, intents) : InsertWorks(k, ws, f, config, epoch)
  BY <1>1
<1> TAKE v \in Works
<1>3. CASE v \in ws
  <2> DEFINE row == [NoWork EXCEPT !.state = "PENDING", !.intent = f[v], !.epoch = epoch,
                                   !.config = config, !.reservation = k, !.due = TRUE]
  <2>1. work'[v] = row
    BY <1>2, <1>3 DEF InsertWorks
  <2>2. /\ row.state = "PENDING"
        /\ row.attemptCount = 0
        /\ row.reservation = k
        /\ row.leaseActive = FALSE
    BY DEF NoWork
  <2>3. work[v].state = "ABSENT"
    BY <1>3
  <2> HIDE DEF row
  <2>4. Created(work[v], attempts[v], work'[v], attempts'[v])
    BY <2>1, <2>2, <2>3 DEF Created
  <2> QED
    BY <2>4 DEF WorkChanged, Changed
<1>4. CASE v \notin ws
  BY <1>2, <1>4 DEF InsertWorks, WorkChanged, Changed, Kept
<1> QED
  BY <1>3, <1>4

\* A change of the single row of w, when attempts stay as they are.
LEMMA SingleChange ==
    ASSUME TypeOK, NEW w \in Works, NEW row,
           work' = [work EXCEPT ![w] = row], UNCHANGED attempts,
           Changed(work[w], attempts[w], row, attempts[w])
    PROVE  \A v \in Works : WorkChanged(v)
<1> TAKE v \in Works
<1>1. CASE v = w
  BY <1>1 DEF TypeOK, WorkChanged
<1>2. CASE v # w
  BY <1>2 DEF TypeOK, WorkChanged, Changed, Kept
<1> QED
  BY <1>1, <1>2

LEMMA LapseChanges ==
    ASSUME TypeOK, NEW w \in Works, work[w].leaseActive,
           work' = [work EXCEPT ![w].leaseActive = FALSE], UNCHANGED attempts
    PROVE  \A v \in Works : WorkChanged(v)
<1> DEFINE row == [work[w] EXCEPT !.leaseActive = FALSE]
<1>1. work[w] \in Work
  BY DEF TypeOK
<1>2. Timed(work[w], attempts[w], row, attempts[w])
  BY <1>1 DEF Timed, SameIdentity, Work
<1>3. work' = [work EXCEPT ![w] = row]
  OBVIOUS
<1> HIDE DEF row
<1> QED
  BY <1>2, <1>3, SingleChange DEF Changed

LEMMA DueChanges ==
    ASSUME TypeOK, NEW w \in Works, RetryFallsDue(w)
    PROVE  \A v \in Works : WorkChanged(v)
<1> DEFINE row == [work[w] EXCEPT !.due = TRUE]
<1>1. work[w] \in Work
  BY DEF TypeOK
<1>2. Timed(work[w], attempts[w], row, attempts[w])
  BY <1>1 DEF Timed, SameIdentity, Work, RetryFallsDue
<1>3. work' = [work EXCEPT ![w] = row] /\ UNCHANGED attempts
  BY DEF RetryFallsDue
<1> HIDE DEF row
<1> QED
  BY <1>2, <1>3, SingleChange DEF Changed

LEMMA ClaimChanges ==
    ASSUME TypeOK, NEW r \in Runners, NEW w \in Works, Claim(r, w)
    PROVE  \A v \in Works : WorkChanged(v)
<1> DEFINE row == [work[w] EXCEPT !.state = "LEASED", !.token = r, !.leaseActive = TRUE]
<1>1. work[w] \in Work
  BY DEF TypeOK
<1>2. Claimed(work[w], attempts[w], row, attempts[w])
  BY <1>1 DEF Claimed, SameIdentity, Work, Claim
<1>3. work' = [work EXCEPT ![w] = row] /\ UNCHANGED attempts
  BY DEF Claim
<1> HIDE DEF row
<1> QED
  BY <1>2, <1>3, SingleChange DEF Changed

LEMMA PendingChanges ==
    ASSUME TypeOK, NEW w \in Works, work[w].state \in {"RETRY_WAIT", "LEASED"},
           ReturnToPending(w)
    PROVE  \A v \in Works : WorkChanged(v)
<1> DEFINE row == [work[w] EXCEPT !.state = "PENDING", !.token = None, !.leaseActive = FALSE]
<1>1. work[w] \in Work
  BY DEF TypeOK
<1>2. Returned(work[w], attempts[w], row, attempts[w])
  BY <1>1 DEF Returned, SameIdentity, Work
<1>3. work' = [work EXCEPT ![w] = row] /\ UNCHANGED attempts
  BY DEF ReturnToPending
<1> HIDE DEF row
<1> QED
  BY <1>2, <1>3, SingleChange DEF Changed

LEMMA BeginChanges ==
    ASSUME TypeOK, NEW r \in Runners, NEW w \in Works,
           work[w].state = "LEASED", work[w].token = r,
           work[w].attemptCount < MaxAttempts,
           BeginAttempt(r, w)
    PROVE  \A v \in Works : WorkChanged(v)
<1> DEFINE n == work[w].attemptCount + 1
           row == [work[w] EXCEPT !.state = "CALLING", !.attemptCount = n]
           rows == [attempts[w] EXCEPT ![n] = [outcome |-> "STARTED", token |-> r]]
<1>1. work[w] \in Work
  BY DEF TypeOK
<1>2. Begun(work[w], attempts[w], row, rows)
  BY <1>1 DEF Begun, SameIdentity, Work
<1>3. work' = [work EXCEPT ![w] = row] /\ attempts' = [attempts EXCEPT ![w] = rows]
  BY DEF BeginAttempt
<1> HIDE DEF row, rows
<1> TAKE v \in Works
<1>4. CASE v = w
  BY <1>2, <1>3, <1>4 DEF TypeOK, WorkChanged, Changed
<1>5. CASE v # w
  BY <1>3, <1>5 DEF TypeOK, WorkChanged, Changed, Kept
<1> QED
  BY <1>4, <1>5

LEMMA HandlerChanges ==
    ASSUME TypeOK, NEW r \in Runners, Handler(r)
    PROVE  \A v \in Works : WorkChanged(v)
<1> DEFINE w == runner[r].work
<1>1. HoldsLease(r, "LEASED") => work[w].state = "LEASED" /\ work[w].token = r
  BY DEF HoldsLease
<1>2. HoldsAttempt(r) => work[w].state = "CALLING" /\ work[w].leaseActive
  BY DEF HoldsAttempt, HoldsLease
<1>3. {"LEASED", "CALLING"} \subseteq ActiveStates
  BY DEF ActiveStates
<1>4. ASSUME NEW v \in Works, Claim(r, v) PROVE \A u \in Works : WorkChanged(u)
  BY <1>4, ClaimChanges
<1>5. CASE Reuse(r)
  <2>1. w \in Works
    BY <1>5 DEF Reuse, TypeOK
  <2> QED
    BY <1>1, <1>3, <1>5, <2>1, PublishChanges, UnchangedKeeps DEF Reuse, tables
<1>6. CASE StartAttempt(r)
  <2>1. w \in Works
    BY <1>6 DEF StartAttempt, TypeOK
  <2> QED
    BY <1>1, <1>3, <1>6, <2>1, BeginChanges, RejectChanges, UnchangedKeeps
       DEF StartAttempt, tables
<1>7. CASE CallInput(r)
  <2>1. w \in Works
    BY <1>7 DEF CallInput, TypeOK
  <2> QED
    BY <1>2, <1>3, <1>7, <2>1, RejectChanges, UnchangedKeeps DEF CallInput, tables
<1>8. CASE Embed(r) \/ Abandon(r)
  BY <1>8, UnchangedKeeps DEF Embed, Abandon, tables
<1>9. CASE FailAttempt(r)
  <2>1. w \in Works
    BY <1>9 DEF FailAttempt, TypeOK
  <2> QED
    BY <1>2, <1>3, <1>9, <2>1, FailChanges, RejectChanges, UnchangedKeeps
       DEF FailAttempt, tables
<1>10. CASE CompleteAttempt(r)
  <2>1. w \in Works
    BY <1>10 DEF CompleteAttempt, TypeOK
  <2> QED
    BY <1>2, <1>3, <1>10, <2>1, PublishChanges, FailChanges, RejectChanges, LapseChanges,
       UnchangedKeeps DEF CompleteAttempt, tables
<1> QED
  BY <1>4, <1>5, <1>6, <1>7, <1>8, <1>9, <1>10 DEF Handler

LEMMA StepChanges ==
    ASSUME TypeOK, [Next]_vars
    PROVE  \A v \in Works : WorkChanged(v)
<1>1. CASE User
  <2>1. ASSUME NEW config \in Configs, NEW targets, NEW retryFailed,
               Activate(config, targets, retryFailed)
        PROVE  \A v \in Works : WorkChanged(v)
    BY <2>1, CreateChanges, UnchangedKeeps DEF Activate
  <2>2. CASE Revoke \/ \E m \in Materials : UpdateMaterial(m) \/ DeleteMaterial(m)
    BY <2>2, UnchangedKeeps DEF Revoke, UpdateMaterial, DeleteMaterial, tables
  <2> QED
    BY <1>1, <2>1, <2>2 DEF User
<1>2. CASE \E r \in Runners : Handler(r)
  BY <1>2, HandlerChanges
<1>3. CASE Repair
  <2>1. ASSUME NEW w \in Works, NEW config, Recover(w, config)
        PROVE  \A v \in Works : WorkChanged(v)
    BY <2>1, RejectChanges, PendingChanges, FailChanges DEF Recover, Rejectable, ActiveStates
  <2>2. ASSUME NEW k \in Reservations, ExpireUnexposed(k)
        PROVE  \A v \in Works : WorkChanged(v)
    BY <2>2, UnchangedKeeps DEF ExpireUnexposed
  <2>3. ASSUME NEW config, NEW targets, ActivateMissing(config, targets)
        PROVE  \A v \in Works : WorkChanged(v)
    BY <2>3, CreateChanges DEF ActivateMissing
  <2> QED
    BY <1>3, <2>1, <2>2, <2>3 DEF Repair
<1>4. CASE Time
  <2>1. ASSUME NEW w \in Works, LeaseLapses(w) PROVE \A v \in Works : WorkChanged(v)
    BY <2>1, LapseChanges DEF LeaseLapses
  <2>2. ASSUME NEW k \in Reservations, ReservationLapses(k)
        PROVE  \A v \in Works : WorkChanged(v)
    BY <2>2, UnchangedKeeps DEF ReservationLapses
  <2> QED
    BY <1>4, <2>1, <2>2, DueChanges DEF Time
<1>5. CASE UNCHANGED vars
  BY <1>5, UnchangedKeeps DEF vars, tables
<1> QED
  BY <1>1, <1>2, <1>3, <1>4, <1>5 DEF Next

-----------------------------------------------------------------------------
(* The invariant of one work *)

AttemptsMatch(x, a) ==
    /\ \A n \in Numbers :
          /\ a[n].outcome # "ABSENT" <=> n <= x.attemptCount
          /\ a[n].outcome = "STARTED" <=> x.state = "CALLING" /\ n = x.attemptCount
    /\ x.state = "CALLING" =>
          /\ x.attemptCount > 0
          /\ a[x.attemptCount].token = x.token

RowInv(x, a) ==
    /\ x.state = "ABSENT" => x.attemptCount = 0
    /\ x.state # "ABSENT" <=> x.reservation \in Reservations
    /\ x.leaseActive => x.state \in {"LEASED", "CALLING"}
    /\ x.state \in {"PENDING", "LEASED", "RETRY_WAIT"} => x.attemptCount < MaxAttempts
    /\ AttemptsMatch(x, a)

WorkInv == \A v \in Works : RowInv(work[v], attempts[v])

LEMMA BegunMatches ==
    ASSUME NEW x \in Work, NEW y \in Work,
           NEW a \in [Numbers -> Attempt], NEW b \in [Numbers -> Attempt],
           AttemptsMatch(x, a), Begun(x, a, y, b)
    PROVE  AttemptsMatch(y, b)
<1> DEFINE m == x.attemptCount + 1
<1>1. x.attemptCount \in Nat /\ MaxAttempts \in Nat
  BY ConstantsOK DEF Work
<1>2. m \in Numbers
  BY <1>1 DEF Begun, Numbers
<1>3. y.attemptCount = m /\ y.state = "CALLING" /\ x.state = "LEASED" /\ y.token = x.token
  BY DEF Begun
<1>4. b[m] = [outcome |-> "STARTED", token |-> x.token]
  BY <1>2 DEF Begun
<1>5. \A n \in Numbers \ {m} : b[n] = a[n]
  BY DEF Begun
<1>6. ASSUME NEW n \in Numbers
      PROVE  /\ b[n].outcome # "ABSENT" <=> n <= m
             /\ b[n].outcome = "STARTED" <=> n = m
  <2>1. n \in Nat
    BY DEF Numbers
  <2>2. CASE n = m
    BY <1>4, <2>1, <2>2
  <2>3. CASE n # m
    <3>1. a[n].outcome # "ABSENT" <=> n <= x.attemptCount
      BY DEF AttemptsMatch
    <3>2. a[n].outcome # "STARTED"
      BY <1>3 DEF AttemptsMatch
    <3> QED
      BY <1>1, <1>5, <2>1, <2>3, <3>1, <3>2
  <2> QED
    BY <2>2, <2>3
<1>7. m > 0
  BY <1>1
<1> HIDE DEF m
<1> QED
  BY <1>3, <1>4, <1>6, <1>7 DEF AttemptsMatch

LEMMA FinishedMatches ==
    ASSUME NEW x \in Work, NEW y \in Work,
           NEW a \in [Numbers -> Attempt], NEW b \in [Numbers -> Attempt],
           AttemptsMatch(x, a), Finished(x, a, y, b)
    PROVE  AttemptsMatch(y, b)
<1>1. PICK outcome \in FinishedOutcomes :
        b = [n \in Numbers |->
               IF x.state = "CALLING" /\ a[n].outcome = "STARTED" /\ a[n].token = x.token
               THEN [a[n] EXCEPT !.outcome = outcome]
               ELSE a[n]]
  BY DEF Finished
<1>2. outcome # "ABSENT" /\ outcome # "STARTED"
  BY DEF FinishedOutcomes
<1>3. y.state # "CALLING" /\ y.attemptCount = x.attemptCount
  BY DEF Finished, TerminalStates
<1>4. ASSUME NEW n \in Numbers
      PROVE  /\ b[n].outcome # "ABSENT" <=> n <= x.attemptCount
             /\ b[n].outcome # "STARTED"
  <2>1. /\ a[n].outcome # "ABSENT" <=> n <= x.attemptCount
        /\ a[n].outcome = "STARTED" <=> x.state = "CALLING" /\ n = x.attemptCount
        /\ x.state = "CALLING" => a[x.attemptCount].token = x.token
    BY DEF AttemptsMatch
  <2>2. a[n] \in Attempt
    OBVIOUS
  <2>3. CASE a[n].outcome = "STARTED"
    <3>1. b[n] = [a[n] EXCEPT !.outcome = outcome]
      BY <1>1, <2>1, <2>3
    <3>2. b[n].outcome = outcome
      BY <2>2, <3>1 DEF Attempt
    <3> QED
      BY <1>2, <2>1, <2>3, <3>2
  <2>4. CASE a[n].outcome # "STARTED"
    <3>1. b[n] = a[n]
      BY <1>1, <2>4
    <3> QED
      BY <2>1, <2>4, <3>1
  <2> QED
    BY <2>3, <2>4
<1> QED
  BY <1>3, <1>4 DEF AttemptsMatch

LEMMA RowStep ==
    ASSUME NEW x \in Work, NEW y \in Work,
           NEW a \in [Numbers -> Attempt], NEW b \in [Numbers -> Attempt],
           RowInv(x, a), Changed(x, a, y, b)
    PROVE  RowInv(y, b)
<1>1. x.attemptCount \in Nat /\ MaxAttempts \in Nat \ {0}
  BY ConstantsOK DEF Work
<1>2. CASE Kept(x, a, y, b)
  BY <1>2 DEF Kept
<1>3. CASE Timed(x, a, y, b)
  BY <1>3 DEF Timed, SameIdentity, RowInv, AttemptsMatch
<1>4. CASE Created(x, a, y, b)
  BY <1>1, <1>4 DEF Created, RowInv, AttemptsMatch
<1>5. CASE Claimed(x, a, y, b)
  BY <1>5 DEF Claimed, SameIdentity, RowInv, AttemptsMatch
<1>6. CASE Begun(x, a, y, b)
  BY <1>1, <1>6, BegunMatches DEF Begun, SameIdentity, RowInv
<1>7. CASE Returned(x, a, y, b)
  BY <1>7 DEF Returned, SameIdentity, RowInv, AttemptsMatch
<1>8. CASE Finished(x, a, y, b)
  <2>1. AttemptsMatch(y, b)
    BY <1>8, FinishedMatches DEF RowInv
  <2> QED
    BY <1>1, <1>8, <2>1 DEF Finished, SameIdentity, RowInv, ActiveStates, TerminalStates
<1> QED
  BY <1>2, <1>3, <1>4, <1>5, <1>6, <1>7, <1>8 DEF Changed

LEMMA WorkInvInit == Init => WorkInv
<1>1. \A n \in Numbers : ~(n <= 0)
  BY DEF Numbers
<1>2. RowInv(NoWork, [n \in Numbers |-> NoAttempt])
  <2>1. /\ NoWork.state = "ABSENT"
        /\ NoWork.attemptCount = 0
        /\ NoWork.reservation \notin Reservations
        /\ NoWork.leaseActive = FALSE
    BY ConstantsOK DEF NoWork
  <2>2. \A n \in Numbers : [l \in Numbers |-> NoAttempt][n].outcome = "ABSENT"
    BY DEF NoAttempt
  <2> QED
    BY <1>1, <2>1, <2>2 DEF RowInv, AttemptsMatch
<1> QED
  BY <1>2 DEF Init, WorkInv

LEMMA WorkInvStep == TypeOK /\ WorkInv /\ [Next]_vars => WorkInv'
<1> SUFFICES ASSUME TypeOK, WorkInv, [Next]_vars, NEW v \in Works
             PROVE  RowInv(work[v], attempts[v])'
  BY DEF WorkInv
<1>1. TypeOK'
  BY TypeStep
<1>2. /\ work[v] \in Work /\ attempts[v] \in [Numbers -> Attempt]
      /\ work'[v] \in Work /\ attempts'[v] \in [Numbers -> Attempt]
  BY <1>1 DEF TypeOK
<1>3. Changed(work[v], attempts[v], work'[v], attempts'[v])
  BY StepChanges DEF WorkChanged
<1>4. RowInv(work[v], attempts[v])
  BY DEF WorkInv
<1> QED
  BY <1>2, <1>3, <1>4, RowStep

LEMMA WorkInvHolds == Spec => []WorkInv
<1>1. Init => WorkInv
  BY WorkInvInit
<1>2. TypeOK /\ WorkInv /\ [Next]_vars => WorkInv'
  BY WorkInvStep
<1> QED
  BY <1>1, <1>2, TypeCorrect, PTL DEF Spec

(* The attempt rows and the work row never drift apart, for any number of  *)
(* works, slots and attempts: a work is CALLING exactly while its newest   *)
(* attempt is the only open one and carries the lease of the work.         *)
THEOREM AttemptsNeverDrift == Spec => []OneOpenAttempt
<1>1. WorkInv => OneOpenAttempt
  BY DEF WorkInv, RowInv, AttemptsMatch, OneOpenAttempt
<1> QED
  BY <1>1, WorkInvHolds, PTL

(* No work is left waiting with its attempts used up, so a claimed work    *)
(* can always start: start() refuses only for a lapsed lease or a fence.   *)
THEOREM NothingIsStranded == Spec => []NothingStranded
<1>1. WorkInv => NothingStranded
  BY DEF WorkInv, RowInv, NothingStranded
<1> QED
  BY <1>1, WorkInvHolds, PTL

-----------------------------------------------------------------------------
(* What a step may do to a reservation *)

IsActive(v) == work[v].state \in ActiveStates

\* A reservation with active works does not lose the last of them.
StillOpen(k) == (\E v \in WorksOf(k) : IsActive(v)) => ~AllEnded(k)

ReservationKept(k) ==
    /\ reservations'[k] = reservations[k]
    /\ reservedMaximum'[k] = reservedMaximum[k]
    /\ settledAmount'[k] = settledAmount[k]
    /\ reservations[k].state = "reserved" => StillOpen(k)

\* Works of the same generation: they embed the same under the same consent.
Twins(x, y) == x.intent = y.intent /\ x.config = y.config /\ x.epoch = y.epoch

\* Opened for works that did not exist before and have no live twin, at the
\* cost of all of them.
Opened(k) ==
    /\ reservations[k].state = "ABSENT"
    /\ reservations'[k].state = "reserved"
    /\ \E ws \in SUBSET Works :
          /\ ws # {}
          /\ \A v \in ws : /\ work[v].state = "ABSENT"
                           /\ work'[v].reservation = k
                           /\ work'[v].state = "PENDING"
          /\ \A v \in Works \ ws : work'[v] = work[v]
          /\ \A v \in ws, w \in Works :
                v # w /\ work'[w].state \in RetryBlockingStates => ~Twins(work'[v], work'[w])
          /\ reservedMaximum'[k] = EmbeddingMaximumCost(Cardinality(ws))

\* Exposed, or past its deadline.
Marked(k) ==
    /\ reservations'[k].state = reservations[k].state
    /\ reservations[k].exposed => reservations'[k].exposed
    /\ reservedMaximum'[k] = reservedMaximum[k]
    /\ settledAmount'[k] = settledAmount[k]
    /\ reservations[k].state = "reserved" => StillOpen(k)

Expired(k) ==
    /\ reservations[k].state = "reserved"
    /\ ~reservations[k].exposed
    /\ reservations'[k].state = "expired"
    /\ ~reservations'[k].exposed
    /\ reservedMaximum'[k] = reservedMaximum[k]

Settled(k) ==
    /\ reservations[k].state = "reserved"
    /\ reservations'[k].state = "settled"
    /\ reservations'[k].exposed = reservations[k].exposed
    /\ AllEnded(k)
    /\ reservedMaximum'[k] = reservedMaximum[k]
    /\ settledAmount'[k] = IF UnknownUsage(k, receipts') THEN reservedMaximum[k]
                           ELSE ReceiptTotal(k, receipts')

ReservationChanged(k) ==
    \/ ReservationKept(k)
    \/ Opened(k)
    \/ Marked(k)
    \/ Expired(k)
    \/ Settled(k)

\* A new work belongs to a reservation that is opened by the same step.
NewWorkOpens(v) ==
    work[v].state = "ABSENT" /\ work'[v].state # "ABSENT" =>
        /\ reservations[work'[v].reservation].state = "ABSENT"
        /\ reservations'[work'[v].reservation].state = "reserved"

\* An attempt begins only on an open reservation, which it exposes.
CallExposes(v) ==
    work[v].state = "LEASED" /\ work'[v].state = "CALLING" =>
        /\ reservations[work[v].reservation].state = "reserved"
        /\ work[v].reservation \in Reservations =>
              reservations'[work[v].reservation].exposed

LedgerChanged ==
    /\ \A k \in Reservations : ReservationChanged(k)
    /\ \A v \in Works : NewWorkOpens(v)
    /\ \A v \in Works : CallExposes(v)

LEMMA LedgerUntouched ==
    ASSUME UNCHANGED ledger,
           \A v \in Works : IsActive(v) => work'[v].state \in ActiveStates,
           \A v \in Works : work[v].state = "ABSENT" => work'[v].state = "ABSENT",
           \A v \in Works : work[v].state = "LEASED" => work'[v].state # "CALLING"
    PROVE  LedgerChanged
<1>1. ASSUME NEW k \in Reservations PROVE ReservationKept(k)
  BY DEF ledger, ReservationKept, StillOpen, AllEnded, WorksOf
<1> QED
  BY <1>1 DEF LedgerChanged, ReservationChanged, NewWorkOpens, CallExposes

LEMMA FinishLedger ==
    ASSUME TypeOK, NEW w \in Works,
           NEW st \in TerminalStates \cup {"RETRY_WAIT"}, NEW oc \in FinishedOutcomes,
           IsActive(w),
           st = "RETRY_WAIT" => MayRetry(w),
           Finish(w, st, oc)
    PROVE  LedgerChanged
<1> DEFINE l == work[w].reservation
<1>1. /\ Finished(work[w], attempts[w], work'[w], attempts'[w])
      /\ \A v \in Works \ {w} : work'[v] = work[v]
  BY FinishChanges DEF Kept, IsActive
<1>2. work[w].state # "ABSENT"
  BY DEF IsActive, ActiveStates
<1>3. \A v \in Works : NewWorkOpens(v) /\ CallExposes(v)
  BY <1>1, <1>2 DEF NewWorkOpens, CallExposes, Finished, TerminalStates
<1>4. SettleIfComplete(l)
  BY DEF Finish
<1>5. ASSUME NEW k \in Reservations, k # l PROVE ReservationKept(k)
  <2>1. /\ reservations'[k] = reservations[k]
        /\ reservedMaximum'[k] = reservedMaximum[k]
        /\ settledAmount'[k] = settledAmount[k]
    BY <1>4, <1>5 DEF SettleIfComplete, ledger, TypeOK
  <2>2. \A v \in WorksOf(k) : work'[v] = work[v]
    BY <1>1, <1>5 DEF WorksOf
  <2> QED
    BY <2>1, <2>2 DEF ReservationKept, StillOpen, AllEnded, IsActive
<1>6. ASSUME l \in Reservations PROVE ReservationChanged(l)
  <2>1. CASE reservations[l].state = "reserved" /\ AllEnded(l)
    <3>1. reservations' = [reservations EXCEPT ![l].state = "settled"]
      BY <1>4, <2>1 DEF SettleIfComplete
    <3>2. reservations[l] \in Reservation /\ DOMAIN reservations = Reservations
      BY <1>6 DEF TypeOK
    <3>3. reservations'[l] = [reservations[l] EXCEPT !.state = "settled"]
      BY <1>6, <3>1, <3>2
    <3>4. /\ reservations'[l].state = "settled"
          /\ reservations'[l].exposed = reservations[l].exposed
      BY <3>2, <3>3 DEF Reservation
    <3>5. /\ reservedMaximum'[l] = reservedMaximum[l]
          /\ settledAmount'[l] = IF UnknownUsage(l, receipts') THEN reservedMaximum[l]
                                 ELSE ReceiptTotal(l, receipts')
      BY <1>4, <1>6, <2>1 DEF SettleIfComplete, TypeOK
    <3> QED
      BY <2>1, <3>4, <3>5 DEF Settled, ReservationChanged
  <2>2. CASE ~(reservations[l].state = "reserved" /\ AllEnded(l))
    <3>1. UNCHANGED ledger
      BY <1>4, <2>2 DEF SettleIfComplete
    <3> QED
      BY <2>2, <3>1 DEF ledger, ReservationKept, StillOpen, ReservationChanged
  <2> QED
    BY <2>1, <2>2
<1> QED
  BY <1>3, <1>5, <1>6 DEF LedgerChanged, ReservationChanged

LEMMA RejectLedger ==
    ASSUME TypeOK, NEW w \in Works, NEW config, IsActive(w), RejectFence(w, config)
    PROVE  LedgerChanged
<1>1. PICK st \in TerminalStates, oc \in FinishedOutcomes : Finish(w, st, oc)
  BY RejectFinishes DEF TerminalStates
<1>2. st # "RETRY_WAIT"
  BY DEF TerminalStates
<1> QED
  BY <1>1, <1>2, FinishLedger

LEMMA FailLedger ==
    ASSUME TypeOK, NEW w \in Works, NEW error, IsActive(w), FailCurrentAttempt(w, error)
    PROVE  LedgerChanged
<1>1. PICK st \in {"RETRY_WAIT", "FINAL_FAILED"}, oc \in FinishedOutcomes :
         /\ st = "RETRY_WAIT" => MayRetry(w)
         /\ Finish(w, st, oc)
  BY FailFinishes
<1>2. st \in TerminalStates \cup {"RETRY_WAIT"}
  BY DEF TerminalStates
<1> QED
  BY <1>1, <1>2, FinishLedger

LEMMA PublishLedger ==
    ASSUME TypeOK, NEW w \in Works, IsActive(w), Finish(w, "PUBLISHED", "SUCCEEDED")
    PROVE  LedgerChanged
BY FinishLedger DEF TerminalStates, FinishedOutcomes

LEMMA CreateLedger ==
    ASSUME TypeOK, NEW intents, NEW config, NEW epoch, intents # {},
           intents \cap ExistingIntents(config, epoch, RetryBlockingStates) = {},
           CreateWorks(intents, config, epoch)
    PROVE  LedgerChanged
<1>1. PICK l \in Reservations, ws \in SUBSET {w \in Works : work[w].state = "ABSENT"} :
         \E f \in Bijection(ws, intents) : InsertWorks(l, ws, f, config, epoch)
  BY DEF CreateWorks
<1>2. PICK f \in Bijection(ws, intents) : InsertWorks(l, ws, f, config, epoch)
  BY <1>1
<1>3. ws # {}
  BY DEF Bijection, Surjection
<1>4. ASSUME NEW v \in ws
      PROVE  /\ v \in Works
             /\ work'[v].state = "PENDING"
             /\ work'[v].reservation = l
             /\ work'[v].intent = f[v]
             /\ work'[v].epoch = epoch
             /\ work'[v].config = config
  <2>1. work'[v] = [NoWork EXCEPT !.state = "PENDING", !.intent = f[v], !.epoch = epoch,
                                  !.config = config, !.reservation = l, !.due = TRUE]
    BY <1>2 DEF InsertWorks
  <2> QED
    BY <2>1 DEF NoWork
<1>5. \A v \in Works \ ws : work'[v] = work[v]
  BY <1>2 DEF InsertWorks
<1>6. reservations[l].state = "ABSENT" /\ reservations'[l].state = "reserved"
  BY <1>2 DEF InsertWorks, TypeOK
<1>7. \A v \in Works : NewWorkOpens(v) /\ CallExposes(v)
  BY <1>4, <1>5, <1>6 DEF NewWorkOpens, CallExposes
<1>8. Opened(l)
  <2>1. reservedMaximum'[l] = EmbeddingMaximumCost(Cardinality(ws))
    BY <1>2 DEF InsertWorks, TypeOK
  <2>2. ASSUME NEW v \in ws, NEW w \in Works, v # w, work'[w].state \in RetryBlockingStates,
               Twins(work'[v], work'[w])
        PROVE  FALSE
    <3>1. f[v] \in intents
      BY DEF Bijection, Injection
    <3>2. CASE w \in ws
      <4>1. f[v] = f[w]
        BY <1>4, <2>2, <3>2 DEF Twins
      <4> QED
        BY <2>2, <3>2, <4>1 DEF Bijection, Injection, IsInjective
    <3>3. CASE w \notin ws
      <4>1. work'[w] = work[w]
        BY <1>5, <3>3
      <4>2. work[w].intent = f[v] /\ work[w].config = config /\ work[w].epoch = epoch
        BY <1>4, <2>2, <4>1 DEF Twins
      <4>3. f[v] \in ExistingIntents(config, epoch, RetryBlockingStates)
        BY <2>2, <4>1, <4>2 DEF ExistingIntents
      <4> QED
        BY <3>1, <4>3
    <3> QED
      BY <3>2, <3>3
  <2> QED
    BY <1>3, <1>4, <1>5, <1>6, <2>1, <2>2 DEF Opened
<1>9. ASSUME NEW k \in Reservations, k # l PROVE ReservationKept(k)
  <2>1. /\ reservations'[k] = reservations[k]
        /\ reservedMaximum'[k] = reservedMaximum[k]
        /\ settledAmount'[k] = settledAmount[k]
    BY <1>2, <1>9 DEF InsertWorks, TypeOK
  <2>2. \A v \in Works : IsActive(v) => v \notin ws
    BY DEF IsActive, ActiveStates
  <2> QED
    BY <1>5, <2>1, <2>2 DEF ReservationKept, StillOpen, AllEnded, IsActive, WorksOf
<1> QED
  BY <1>7, <1>8, <1>9 DEF LedgerChanged, ReservationChanged

\* Works that change but stay active leave the ledger as it is.
LEMMA StillActive ==
    ASSUME TypeOK, NEW w \in Works, NEW row, IsActive(w),
           row.state \in ActiveStates \ {"CALLING"},
           work' = [work EXCEPT ![w] = row], UNCHANGED ledger
    PROVE  LedgerChanged
<1>1. /\ \A v \in Works : IsActive(v) => work'[v].state \in ActiveStates
      /\ \A v \in Works : work[v].state = "ABSENT" => work'[v].state = "ABSENT"
      /\ \A v \in Works : work[v].state = "LEASED" => work'[v].state # "CALLING"
  BY DEF TypeOK, IsActive, ActiveStates
<1> QED
  BY <1>1, LedgerUntouched

LEMMA TimedLedger ==
    ASSUME TypeOK, NEW w \in Works,
           \/ work' = [work EXCEPT ![w].leaseActive = FALSE]
           \/ work' = [work EXCEPT ![w].due = TRUE],
           UNCHANGED ledger
    PROVE  LedgerChanged
<1>1. work[w] \in Work
  BY DEF TypeOK
<1>2. PICK row : row.state = work[w].state /\ work' = [work EXCEPT ![w] = row]
  <2>1. /\ [work[w] EXCEPT !.leaseActive = FALSE].state = work[w].state
        /\ [work[w] EXCEPT !.due = TRUE].state = work[w].state
    BY <1>1 DEF Work
  <2> QED
    BY <2>1
<1>3. \A v \in Works : work'[v].state = work[v].state
  BY <1>2 DEF TypeOK
<1> QED
  BY <1>3, LedgerUntouched DEF IsActive

LEMMA KeptLedger ==
    ASSUME UNCHANGED <<work, ledger>>
    PROVE  LedgerChanged
BY LedgerUntouched DEF IsActive

LEMMA BeginLedger ==
    ASSUME TypeOK, NEW r \in Runners, NEW w \in Works, work[w].state = "LEASED",
           reservations[work[w].reservation].state = "reserved",
           BeginAttempt(r, w), MarkExposure(work[w].reservation),
           UNCHANGED <<reservedMaximum, settledAmount>>
    PROVE  LedgerChanged
<1> DEFINE l == work[w].reservation
           row == [work[w] EXCEPT !.state = "CALLING", !.attemptCount = work[w].attemptCount + 1]
<1>1. row.state = "CALLING" /\ row.reservation = l
  BY DEF TypeOK, Work
<1>2. work' = [work EXCEPT ![w] = row]
  BY DEF BeginAttempt
<1> HIDE DEF row
<1>3. /\ \A v \in Works : IsActive(v) => work'[v].state \in ActiveStates
      /\ \A v \in Works : work[v].state = "ABSENT" => work'[v].state = "ABSENT"
  BY <1>1, <1>2 DEF TypeOK, IsActive, ActiveStates
<1>4. \A k \in Reservations : StillOpen(k)
  BY <1>3 DEF StillOpen, AllEnded, WorksOf
<1>5. ASSUME NEW k \in Reservations PROVE ReservationKept(k) \/ Marked(k)
  <2>1. reservations[k] \in Reservation /\ DOMAIN reservations = Reservations
    BY DEF TypeOK
  <2>2. CASE k = l
    <3>1. reservations'[k] = [reservations[k] EXCEPT !.exposed = TRUE]
      BY <2>1, <2>2 DEF MarkExposure
    <3>2. reservations'[k].state = reservations[k].state /\ reservations'[k].exposed
      BY <2>1, <3>1 DEF Reservation
    <3> QED
      BY <1>4, <3>2 DEF Marked
  <2>3. CASE k # l
    <3>1. reservations'[k] = reservations[k]
      BY <2>1, <2>3 DEF MarkExposure
    <3> QED
      BY <1>4, <3>1 DEF ReservationKept
  <2> QED
    BY <2>2, <2>3
<1>6. \A v \in Works : CallExposes(v)
  <2>1. l \in Reservations => reservations'[l].exposed
    BY DEF MarkExposure, TypeOK, Reservation
  <2>2. \A v \in Works \ {w} : work'[v] = work[v]
    BY <1>2 DEF TypeOK
  <2> QED
    BY <2>1, <2>2 DEF CallExposes
<1> QED
  BY <1>3, <1>5, <1>6 DEF LedgerChanged, ReservationChanged, NewWorkOpens

LEMMA ReservationStepLedger ==
    ASSUME TypeOK, NEW l \in Reservations, ExpireUnexposed(l) \/ ReservationLapses(l)
    PROVE  LedgerChanged
<1>1. UNCHANGED <<work, reservedMaximum, settledAmount>>
  BY DEF ExpireUnexposed, ReservationLapses
<1>2. \A k \in Reservations : StillOpen(k)
  BY <1>1 DEF StillOpen, AllEnded, WorksOf, IsActive
<1>3. ASSUME NEW k \in Reservations, k # l PROVE ReservationKept(k)
  <2>1. reservations'[k] = reservations[k]
    BY <1>3 DEF ExpireUnexposed, ReservationLapses, TypeOK
  <2> QED
    BY <1>1, <1>2, <2>1 DEF ReservationKept
<1>4. reservations[l] \in Reservation /\ DOMAIN reservations = Reservations
  BY DEF TypeOK
<1>5. CASE ExpireUnexposed(l)
  <2>1. reservations'[l] = [reservations[l] EXCEPT !.state = "expired"]
    BY <1>4, <1>5 DEF ExpireUnexposed
  <2>2. /\ reservations'[l].state = "expired"
        /\ reservations'[l].exposed = reservations[l].exposed
    BY <1>4, <2>1 DEF Reservation
  <2>3. Expired(l)
    BY <1>1, <1>5, <2>2 DEF ExpireUnexposed, Expirable, Expired
  <2> QED
    BY <1>1, <1>3, <2>3 DEF LedgerChanged, ReservationChanged, NewWorkOpens, CallExposes
<1>6. CASE ReservationLapses(l)
  <2>1. reservations'[l] = [reservations[l] EXCEPT !.live = FALSE]
    BY <1>4, <1>6 DEF ReservationLapses
  <2>2. /\ reservations'[l].state = reservations[l].state
        /\ reservations'[l].exposed = reservations[l].exposed
    BY <1>4, <2>1 DEF Reservation
  <2>3. Marked(l)
    BY <1>1, <1>2, <2>2 DEF Marked
  <2> QED
    BY <1>1, <1>3, <2>3 DEF LedgerChanged, ReservationChanged, NewWorkOpens, CallExposes
<1> QED
  BY <1>5, <1>6

LEMMA HandlerLedger ==
    ASSUME TypeOK, NEW r \in Runners, Handler(r)
    PROVE  LedgerChanged
<1> DEFINE w == runner[r].work
<1>1. HoldsLease(r, "LEASED") => work[w].state = "LEASED" /\ IsActive(w)
  BY DEF HoldsLease, IsActive, ActiveStates
<1>2. HoldsAttempt(r) => IsActive(w)
  BY DEF HoldsAttempt, HoldsLease, IsActive, ActiveStates
<1>3. ASSUME NEW v \in Works, Claim(r, v) PROVE LedgerChanged
  <2> DEFINE row == [work[v] EXCEPT !.state = "LEASED", !.token = r, !.leaseActive = TRUE]
  <2>1. row.state \in ActiveStates \ {"CALLING"} /\ IsActive(v)
    BY <1>3 DEF TypeOK, Work, Claim, IsActive, ActiveStates
  <2>2. work' = [work EXCEPT ![v] = row] /\ UNCHANGED ledger
    BY <1>3 DEF Claim
  <2> HIDE DEF row
  <2> QED
    BY <2>1, <2>2, StillActive
<1>4. CASE Reuse(r)
  <2>1. w \in Works
    BY <1>4 DEF Reuse, TypeOK
  <2> QED
    BY <1>1, <1>4, <2>1, PublishLedger, KeptLedger DEF Reuse, tables
<1>5. CASE StartAttempt(r)
  <2>1. w \in Works
    BY <1>5 DEF StartAttempt, TypeOK
  <2>2. FencesHold(w, ConfigOf[r]) => reservations[work[w].reservation].state = "reserved"
    BY DEF FencesHold, ReservationActive
  <2> QED
    BY <1>1, <1>5, <2>1, <2>2, BeginLedger, RejectLedger, KeptLedger DEF StartAttempt, tables
<1>6. CASE CallInput(r)
  <2>1. w \in Works
    BY <1>6 DEF CallInput, TypeOK
  <2> QED
    BY <1>2, <1>6, <2>1, RejectLedger, KeptLedger DEF CallInput, tables
<1>7. CASE Embed(r) \/ Abandon(r)
  BY <1>7, KeptLedger DEF Embed, Abandon, tables
<1>8. CASE FailAttempt(r)
  <2>1. w \in Works
    BY <1>8 DEF FailAttempt, TypeOK
  <2> QED
    BY <1>2, <1>8, <2>1, FailLedger, RejectLedger, KeptLedger DEF FailAttempt, tables
<1>9. CASE CompleteAttempt(r)
  <2>1. w \in Works
    BY <1>9 DEF CompleteAttempt, TypeOK
  <2> QED
    BY <1>2, <1>9, <2>1, PublishLedger, FailLedger, RejectLedger, TimedLedger, KeptLedger
       DEF CompleteAttempt, tables
<1> QED
  BY <1>3, <1>4, <1>5, <1>6, <1>7, <1>8, <1>9 DEF Handler

LEMMA BlockingIsEnough ==
    \A config, epoch, states, more :
        states \subseteq more =>
            ExistingIntents(config, epoch, states) \subseteq ExistingIntents(config, epoch, more)
BY DEF ExistingIntents

LEMMA StepLedger ==
    ASSUME TypeOK, [Next]_vars
    PROVE  LedgerChanged
<1>1. CASE User
  <2>1. ASSUME NEW config \in Configs, NEW targets, NEW retryFailed,
               Activate(config, targets, retryFailed)
        PROVE  LedgerChanged
    <3> DEFINE epoch == GrantedEpoch(config)
               blocking == IF retryFailed THEN RetryBlockingStates
                           ELSE ActiveStates \cup TerminalStates
               pending == {<<m, current[m]>> : m \in targets}
                              \ ExistingIntents(config, epoch, blocking)
    <3>1. pending \cap ExistingIntents(config, epoch, RetryBlockingStates) = {}
      BY BlockingIsEnough DEF RetryBlockingStates, TerminalStates
    <3>2. \/ UNCHANGED <<work, ledger>>
          \/ pending # {} /\ CreateWorks(pending, config, epoch)
      BY <2>1 DEF Activate
    <3> HIDE DEF pending
    <3> QED
      BY <3>1, <3>2, CreateLedger, KeptLedger
  <2>2. CASE Revoke \/ \E m \in Materials : UpdateMaterial(m) \/ DeleteMaterial(m)
    BY <2>2, KeptLedger DEF Revoke, UpdateMaterial, DeleteMaterial, tables
  <2> QED
    BY <1>1, <2>1, <2>2 DEF User
<1>2. CASE \E r \in Runners : Handler(r)
  BY <1>2, HandlerLedger
<1>3. CASE Repair
  <2>1. ASSUME NEW w \in Works, NEW config, Recover(w, config) PROVE LedgerChanged
    <3>1. CASE RejectFence(w, config) /\ Rejectable(w)
      BY <3>1, RejectLedger DEF Rejectable, IsActive
    <3>2. CASE FailCurrentAttempt(w, "unknown") /\ work[w].state = "CALLING"
      BY <3>2, FailLedger DEF IsActive, ActiveStates
    <3>3. CASE ReturnToPending(w) /\ work[w].state \in {"RETRY_WAIT", "LEASED"}
      <4> DEFINE row == [work[w] EXCEPT !.state = "PENDING", !.token = None,
                                        !.leaseActive = FALSE]
      <4>1. row.state \in ActiveStates \ {"CALLING"} /\ IsActive(w)
        BY <3>3 DEF TypeOK, Work, IsActive, ActiveStates
      <4>2. work' = [work EXCEPT ![w] = row] /\ UNCHANGED ledger
        BY <3>3 DEF ReturnToPending
      <4> HIDE DEF row
      <4> QED
        BY <4>1, <4>2, StillActive
    <3> QED
      BY <2>1, <3>1, <3>2, <3>3 DEF Recover
  <2>2. ASSUME NEW config, NEW targets, ActivateMissing(config, targets)
        PROVE  LedgerChanged
    <3> DEFINE pending == {<<m, current[m]>> : m \in targets}
             \ ExistingIntents(config, consent.epoch, ActiveStates \cup TerminalStates)
    <3>1. pending \cap ExistingIntents(config, consent.epoch, RetryBlockingStates) = {}
      BY BlockingIsEnough DEF RetryBlockingStates, TerminalStates
    <3>2. pending # {} /\ CreateWorks(pending, config, consent.epoch)
      BY <2>2 DEF ActivateMissing
    <3> HIDE DEF pending
    <3> QED
      BY <3>1, <3>2, CreateLedger
  <2> QED
    BY <1>3, <2>1, <2>2, ReservationStepLedger DEF Repair
<1>4. CASE Time
  <2>1. ASSUME NEW w \in Works, LeaseLapses(w) \/ RetryFallsDue(w) PROVE LedgerChanged
    BY <2>1, TimedLedger DEF LeaseLapses, RetryFallsDue
  <2> QED
    BY <1>4, <2>1, ReservationStepLedger DEF Time
<1>5. CASE UNCHANGED vars
  BY <1>5, KeptLedger DEF vars, tables
<1> QED
  BY <1>1, <1>2, <1>3, <1>4, <1>5 DEF Next

-----------------------------------------------------------------------------
(* The invariant of a reservation *)

LedgerInv ==
    \A k \in Reservations :
        /\ reservations[k].state = "ABSENT" => WorksOf(k) = {}
        /\ reservations[k].state = "reserved" => \E w \in WorksOf(k) : IsActive(w)
        /\ reservations[k].state = "settled" =>
              \A w \in WorksOf(k) : work[w].state \in TerminalStates

\* Terminal works are kept as they are.
LEMMA TerminalKept ==
    ASSUME TypeOK, WorkInv, NEW v \in Works, WorkChanged(v),
           work[v].state \in TerminalStates
    PROVE  work'[v] = work[v] /\ attempts'[v] = attempts[v]
<1>1. work[v].state \notin {"ABSENT", "PENDING", "LEASED", "CALLING", "RETRY_WAIT"}
  BY DEF TerminalStates
<1>2. ~work[v].leaseActive
  BY <1>1 DEF WorkInv, RowInv
<1> QED
  BY <1>1, <1>2 DEF WorkChanged, Changed, Kept, Timed, Created, Claimed, Begun, Returned,
                    Finished, ActiveStates

\* Works stay with their reservation, and no work disappears.
LEMMA IdentityKept ==
    ASSUME TypeOK, WorkInv, NEW v \in Works, WorkChanged(v), work[v].state # "ABSENT"
    PROVE  work'[v].reservation = work[v].reservation /\ work'[v].state # "ABSENT"
BY DEF WorkChanged, Changed, SameIdentity, Kept, Timed, Created, Claimed, Begun, Returned,
       Finished, TerminalStates

LEMMA WorksKept ==
    ASSUME TypeOK, WorkInv, WorkInv', [Next]_vars, NEW k \in Reservations,
           reservations[k].state # "ABSENT"
    PROVE  WorksOf(k)' = WorksOf(k)
<1>1. LedgerChanged /\ \A v \in Works : WorkChanged(v)
  BY StepLedger, StepChanges
<1>2. ASSUME NEW v \in Works, work[v].reservation = k
      PROVE  work'[v].reservation = k
  <2>1. work[v].state # "ABSENT"
    BY <1>2 DEF WorkInv, RowInv
  <2> QED
    BY <1>1, <1>2, <2>1, IdentityKept
<1>3. ASSUME NEW v \in Works, work'[v].reservation = k
      PROVE  work[v].reservation = k
  <2>1. work'[v].state # "ABSENT"
    BY <1>3 DEF WorkInv, RowInv
  <2>2. work[v].state # "ABSENT"
    BY <1>1, <1>3, <2>1 DEF LedgerChanged, NewWorkOpens
  <2> QED
    BY <1>1, <1>3, <2>2, IdentityKept
<1> QED
  BY <1>2, <1>3 DEF WorksOf

LEMMA LedgerInvInit == Init => LedgerInv
<1> SUFFICES ASSUME Init, NEW k \in Reservations
             PROVE  reservations[k].state = "ABSENT" /\ WorksOf(k) = {}
  BY DEF LedgerInv
<1>1. reservations[k].state = "ABSENT"
  BY DEF Init, NoReservation
<1>2. \A w \in Works : work[w].reservation # k
  BY ConstantsOK DEF Init, NoWork
<1> QED
  BY <1>1, <1>2 DEF WorksOf

LEMMA LedgerInvStep ==
    TypeOK /\ WorkInv /\ LedgerInv /\ [Next]_vars => LedgerInv'
<1> SUFFICES ASSUME TypeOK, WorkInv, LedgerInv, [Next]_vars, NEW k \in Reservations
             PROVE  /\ reservations'[k].state = "ABSENT" => WorksOf(k)' = {}
                    /\ reservations'[k].state = "reserved" =>
                          \E w \in WorksOf(k)' : work'[w].state \in ActiveStates
                    /\ reservations'[k].state = "settled" =>
                          \A w \in WorksOf(k)' : work'[w].state \in TerminalStates
  BY DEF LedgerInv, IsActive
<1>1. TypeOK' /\ WorkInv'
  BY TypeStep, WorkInvStep
<1>2. /\ ReservationChanged(k)
      /\ \A v \in Works : NewWorkOpens(v)
      /\ \A v \in Works : WorkChanged(v)
  BY StepLedger, StepChanges DEF LedgerChanged
<1>3. CASE reservations'[k].state = "ABSENT"
  <2>1. reservations[k].state = "ABSENT"
    BY <1>2, <1>3 DEF ReservationChanged, ReservationKept, Opened, Marked, Expired, Settled
  <2>2. ASSUME NEW v \in Works, work'[v].reservation = k PROVE FALSE
    <3>1. work'[v].state # "ABSENT"
      BY <1>1, <2>2 DEF WorkInv, RowInv
    <3>2. work[v].state # "ABSENT"
      BY <1>2, <1>3, <2>2, <3>1 DEF NewWorkOpens
    <3>3. work[v].reservation = k
      BY <1>2, <2>2, <3>2, IdentityKept
    <3> QED
      BY <2>1, <3>3 DEF LedgerInv, WorksOf
  <2> QED
    BY <1>3, <2>2 DEF WorksOf
<1>4. CASE reservations'[k].state = "reserved"
  <2>1. CASE Opened(k)
    BY <1>4, <2>1 DEF Opened, WorksOf, ActiveStates
  <2>2. CASE ~Opened(k)
    <3>1. reservations[k].state = "reserved" /\ StillOpen(k)
      BY <1>2, <1>4, <2>2 DEF ReservationChanged, ReservationKept, Marked, Expired, Settled
    <3>2. ~AllEnded(k)
      BY <3>1 DEF StillOpen, LedgerInv
    <3>3. WorksOf(k)' = WorksOf(k)
      BY <1>1, <3>1, WorksKept
    <3> QED
      BY <1>4, <3>2, <3>3 DEF AllEnded
  <2> QED
    BY <2>1, <2>2
<1>5. CASE reservations'[k].state = "settled"
  <2>1. CASE Settled(k)
    <3>1. WorksOf(k)' = WorksOf(k)
      BY <1>1, <2>1, WorksKept DEF Settled
    <3>2. ASSUME NEW w \in WorksOf(k) PROVE work'[w].state \in TerminalStates
      <4>1. w \in Works /\ work[w].state # "ABSENT"
        BY DEF WorksOf, WorkInv, RowInv
      <4>2. work'[w].state # "ABSENT" /\ work'[w].state \notin ActiveStates
        BY <1>2, <2>1, <4>1, IdentityKept DEF Settled, AllEnded
      <4>3. work'[w] \in Work
        BY <1>1, <4>1 DEF TypeOK
      <4> QED
        BY <4>2, <4>3 DEF Work
    <3> QED
      BY <1>5, <3>1, <3>2
  <2>2. CASE ~Settled(k)
    <3>1. reservations[k].state = "settled"
      BY <1>2, <1>5, <2>2 DEF ReservationChanged, ReservationKept, Opened, Marked, Expired
    <3>2. WorksOf(k)' = WorksOf(k)
      BY <1>1, <3>1, WorksKept
    <3>3. \A w \in WorksOf(k) : w \in Works /\ work[w].state \in TerminalStates
      BY <3>1 DEF LedgerInv, WorksOf
    <3>4. \A w \in WorksOf(k) : work'[w] = work[w]
      BY <1>2, <3>3, TerminalKept
    <3> QED
      BY <1>5, <3>2, <3>3, <3>4
  <2> QED
    BY <2>1, <2>2
<1> QED
  BY <1>3, <1>4, <1>5

LEMMA LedgerInvHolds == Spec => []LedgerInv
<1>1. Init => LedgerInv
  BY LedgerInvInit
<1>2. TypeOK /\ WorkInv /\ LedgerInv /\ [Next]_vars => LedgerInv'
  BY LedgerInvStep
<1> QED
  BY <1>1, <1>2, TypeCorrect, WorkInvHolds, PTL DEF Spec

(* However many works share a reservation, it is settled by the very       *)
(* transaction that ends the last of them, and never before: none of them  *)
(* can be left behind with a reservation that nobody settles any more.     *)
THEOREM ReservationsCloseWithTheirWorks == Spec => []ClosedWithItsWorks
<1>1. LedgerInv => ClosedWithItsWorks
  BY DEF LedgerInv, ClosedWithItsWorks, IsActive
<1> QED
  BY <1>1, LedgerInvHolds, PTL

-----------------------------------------------------------------------------
(* What a step never does *)

LEMMA ReceiptsKept ==
    ASSUME TypeOK, [Next]_vars, NEW v \in Works, work[v].state # "CALLING"
    PROVE  receipts'[v] = receipts[v]
<1>1. CASE \E r \in Runners : CompleteAttempt(r)
  <2>1. PICK r \in Runners : CompleteAttempt(r)
    BY <1>1
  <2>2. CASE HoldsAttempt(r) /\ RecordCall(r)
    <3>1. work[runner[r].work].state = "CALLING"
      BY <2>2 DEF HoldsAttempt, HoldsLease
    <3>2. runner[r].work # v
      BY <3>1
    <3> QED
      BY <2>2, <3>2 DEF RecordCall, TypeOK
  <2> QED
    BY <2>1, <2>2 DEF CompleteAttempt, tables
<1>2. CASE User
  BY <1>2 DEF User, Activate, Revoke, UpdateMaterial, DeleteMaterial, tables
<1>3. ASSUME NEW r \in Runners, Handler(r), ~CompleteAttempt(r) PROVE UNCHANGED receipts
  BY <1>3 DEF Handler, Claim, Reuse, StartAttempt, CallInput, Embed, FailAttempt, Abandon, tables
<1>4. CASE Repair \/ Time
  BY <1>4 DEF Repair, Time, Recover, ExpireUnexposed, ActivateMissing, LeaseLapses,
              RetryFallsDue, ReservationLapses
<1>5. CASE UNCHANGED vars
  BY <1>5 DEF vars, tables
<1> QED
  BY <1>1, <1>2, <1>3, <1>4, <1>5 DEF Next

(* Nothing that has ended is ever changed again, by however late an answer *)
(* and by however many slots: neither the work, nor its attempts and       *)
(* receipts, nor the amount at which its reservation was settled.          *)
THEOREM ClosedIsClosed == Spec => ClosedStaysClosed
<1> DEFINE A == /\ \A w \in Works : work[w].state \in TerminalStates =>
                      /\ work'[w] = work[w]
                      /\ attempts'[w] = attempts[w]
                      /\ receipts'[w] = receipts[w]
                /\ \A k \in Reservations : reservations[k].state \in {"settled", "expired"} =>
                      /\ reservations'[k].state = reservations[k].state
                      /\ settledAmount'[k] = settledAmount[k]
<1>1. ASSUME TypeOK, WorkInv, [Next]_vars PROVE A
  <2>1. LedgerChanged /\ \A v \in Works : WorkChanged(v)
    BY <1>1, StepLedger, StepChanges
  <2>2. ASSUME NEW w \in Works, work[w].state \in TerminalStates
        PROVE  /\ work'[w] = work[w]
               /\ attempts'[w] = attempts[w]
               /\ receipts'[w] = receipts[w]
    <3>1. work[w].state # "CALLING"
      BY <2>2 DEF TerminalStates
    <3> QED
      BY <1>1, <2>1, <2>2, <3>1, TerminalKept, ReceiptsKept
  <2>3. ASSUME NEW k \in Reservations, reservations[k].state \in {"settled", "expired"}
        PROVE  /\ reservations'[k].state = reservations[k].state
               /\ settledAmount'[k] = settledAmount[k]
    BY <2>1, <2>3 DEF LedgerChanged, ReservationChanged, ReservationKept, Opened, Marked,
                      Expired, Settled
  <2> QED
    BY <2>2, <2>3
<1>2. TypeOK /\ WorkInv /\ [Next]_vars => [A]_vars
  BY <1>1
<1> QED
  BY <1>2, TypeCorrect, WorkInvHolds, PTL DEF Spec, ClosedStaysClosed

-----------------------------------------------------------------------------
(* Slots that hold texts or an answer *)

\* The call that the slot is about to make, or has made, is on record.
OnRecord(r) ==
    LET w == runner[r].work
        k == work[w].reservation
    IN  /\ w \in Works
        /\ runner[r].number \in Numbers
        /\ attempts[w][runner[r].number].outcome # "ABSENT"
        /\ k \in Reservations
        /\ reservations[k].exposed
        /\ reservations[k].state \in {"reserved", "settled"}

SlotInv == \A r \in Runners : runner[r].step \in {"input", "call", "record"} => OnRecord(r)

\* What a step may do to a slot.
SlotChanged(r) ==
    \/ runner'[r] = runner[r]
    \/ runner'[r].step \in {"idle", "reuse", "start"}
    \/ /\ runner[r].step \in {"input", "call"}
       /\ runner'[r].work = runner[r].work
       /\ runner'[r].number = runner[r].number
    \/ OnRecord(r)'

LEMMA BeginOnRecord ==
    ASSUME TypeOK, WorkInv, NEW r \in Runners, NEW w \in Works, runner[r].work = w,
           work[w].state = "LEASED", work[w].attemptCount < MaxAttempts,
           reservations[work[w].reservation].state = "reserved",
           BeginAttempt(r, w), MarkExposure(work[w].reservation)
    PROVE  OnRecord(r)'
<1> DEFINE n == work[w].attemptCount + 1
           k == work[w].reservation
           row == [work[w] EXCEPT !.state = "CALLING", !.attemptCount = n]
           local == [runner[r] EXCEPT !.step = "input", !.number = n]
<1>1. work[w] \in Work /\ runner[r] \in Runner
  BY DEF TypeOK
<1>2. k \in Reservations
  BY DEF WorkInv, RowInv
<1>3. n \in Numbers
  BY <1>1, ConstantsOK DEF Work, Numbers
<1>4. row.reservation = k /\ local.work = w /\ local.number = n
  BY <1>1 DEF Work, Runner
<1>5. work'[w] = row /\ runner'[r] = local
  BY DEF BeginAttempt, TypeOK
<1>6. attempts'[w][n].outcome = "STARTED"
  <2>1. attempts' = [attempts EXCEPT ![w][n] = [outcome |-> "STARTED", token |-> r]]
    BY DEF BeginAttempt
  <2>2. attempts'[w][n] = [outcome |-> "STARTED", token |-> r]
    BY <1>3, <2>1 DEF TypeOK
  <2> QED
    BY <2>2
<1>7. reservations'[k].exposed /\ reservations'[k].state = "reserved"
  <2>1. reservations[k] \in Reservation /\ DOMAIN reservations = Reservations
    BY <1>2 DEF TypeOK
  <2>2. reservations'[k] = [reservations[k] EXCEPT !.exposed = TRUE]
    BY <1>2, <2>1 DEF MarkExposure
  <2> QED
    BY <2>1, <2>2 DEF Reservation
<1> HIDE DEF n, k, row, local
<1>8. /\ runner'[r].work = w
      /\ runner'[r].number = n
      /\ work'[w].reservation = k
  BY <1>4, <1>5
<1> QED
  BY <1>2, <1>3, <1>6, <1>7, <1>8 DEF OnRecord

LEMMA HandlerSlots ==
    ASSUME TypeOK, WorkInv, NEW r \in Runners, Handler(r), NEW q \in Runners
    PROVE  SlotChanged(q)
<1> DEFINE w == runner[r].work
<1>1. Return(r) => SlotChanged(q)
  BY DEF Return, Idle, TypeOK, SlotChanged
<1>2. ASSUME NEW v \in Works, Claim(r, v) PROVE SlotChanged(q)
  BY <1>2 DEF Claim, Idle, TypeOK, SlotChanged
<1>3. Goto(r, "start") => SlotChanged(q)
  BY DEF Goto, TypeOK, Runner, SlotChanged
<1>4. CASE Reuse(r)
  BY <1>1, <1>3, <1>4 DEF Reuse
<1>5. CASE StartAttempt(r)
  <2>1. w \in Works
    BY <1>5 DEF StartAttempt, TypeOK
  <2>2. CASE /\ HoldsLease(r, "LEASED")
             /\ FencesHold(w, ConfigOf[r])
             /\ work[w].attemptCount < MaxAttempts
             /\ BeginAttempt(r, w)
             /\ MarkExposure(work[w].reservation)
    <3>1. /\ work[w].state = "LEASED"
          /\ reservations[work[w].reservation].state = "reserved"
      BY <2>2 DEF HoldsLease, FencesHold, ReservationActive
    <3>2. OnRecord(r)'
      BY <2>1, <2>2, <3>1, BeginOnRecord
    <3>3. q # r => runner'[q] = runner[q]
      BY <2>2 DEF BeginAttempt, TypeOK
    <3> QED
      BY <3>2, <3>3 DEF SlotChanged
  <2> QED
    BY <1>1, <1>5, <2>2 DEF StartAttempt
<1>6. CASE CallInput(r)
  <2>1. CASE Goto(r, "call") /\ runner[r].step = "input"
    BY <2>1 DEF Goto, TypeOK, Runner, SlotChanged
  <2> QED
    BY <1>1, <1>6, <2>1 DEF CallInput
<1>7. CASE Embed(r)
  <2>1. runner[r] \in Runner /\ runner[r].step = "call"
    BY <1>7 DEF TypeOK, Embed
  <2>2. PICK cost, answer, tokens :
          /\ tokens \in {None, cost}
          /\ tokens \in (1..CallMax) \cup {None}
          /\ answer \in Results \cup Errors
          /\ cost \in 0..CallMax
          /\ billed' = [billed EXCEPT ![runner[r].work][runner[r].number] = cost]
          /\ runner' = [runner EXCEPT ![r] = [@ EXCEPT !.step = "record",
                                                       !.answer = answer,
                                                       !.tokens = tokens]]
    BY <1>7, EmbedPicks
  <2> DEFINE row == [runner[r] EXCEPT !.step = "record", !.answer = answer, !.tokens = tokens]
  <2>3. row.work = runner[r].work /\ row.number = runner[r].number
    BY <2>1 DEF Runner
  <2>4. runner' = [runner EXCEPT ![r] = row]
    BY <2>2
  <2> HIDE DEF row
  <2> QED
    BY <2>1, <2>3, <2>4 DEF TypeOK, SlotChanged
<1>8. CASE FailAttempt(r) \/ CompleteAttempt(r) \/ Abandon(r)
  BY <1>1, <1>8 DEF FailAttempt, CompleteAttempt, Abandon
<1> QED
  BY <1>2, <1>4, <1>5, <1>6, <1>7, <1>8 DEF Handler

LEMMA StepSlots ==
    ASSUME TypeOK, WorkInv, [Next]_vars, NEW q \in Runners
    PROVE  SlotChanged(q)
<1>1. CASE \E r \in Runners : Handler(r)
  BY <1>1, HandlerSlots
<1>2. CASE User
  BY <1>2 DEF User, Activate, Revoke, UpdateMaterial, DeleteMaterial, SlotChanged
<1>3. CASE Repair \/ Time
  BY <1>3 DEF Repair, Time, Recover, ExpireUnexposed, ActivateMissing, LeaseLapses,
              RetryFallsDue, ReservationLapses, SlotChanged
<1>4. CASE UNCHANGED vars
  BY <1>4 DEF vars, SlotChanged
<1> QED
  BY <1>1, <1>2, <1>3, <1>4 DEF Next

\* Attempt rows are never deleted while a slot may come back for them.
LEMMA AttemptsGrow ==
    ASSUME TypeOK, NEW v \in Works, WorkChanged(v), NEW n \in Numbers,
           attempts[v][n].outcome # "ABSENT"
    PROVE  attempts'[v][n].outcome # "ABSENT"
<1>1. attempts[v] \in [Numbers -> Attempt]
  BY DEF TypeOK
<1>2. CASE Begun(work[v], attempts[v], work'[v], attempts'[v])
  <2> DEFINE m == work[v].attemptCount + 1
  <2>1. attempts'[v] = [attempts[v] EXCEPT ![m] = [outcome |-> "STARTED",
                                                   token |-> work[v].token]]
    BY <1>2 DEF Begun
  <2>2. CASE n = m
    BY <1>1, <2>1, <2>2
  <2>3. CASE n # m
    BY <1>1, <2>1, <2>3
  <2> QED
    BY <2>2, <2>3
<1>3. CASE Finished(work[v], attempts[v], work'[v], attempts'[v])
  <2>1. PICK outcome \in FinishedOutcomes :
          attempts'[v] = [l \in Numbers |->
            IF /\ work[v].state = "CALLING"
               /\ attempts[v][l].outcome = "STARTED"
               /\ attempts[v][l].token = work[v].token
            THEN [attempts[v][l] EXCEPT !.outcome = outcome]
            ELSE attempts[v][l]]
    BY <1>3 DEF Finished
  <2>2. outcome # "ABSENT"
    BY DEF FinishedOutcomes
  <2>3. [attempts[v][n] EXCEPT !.outcome = outcome].outcome = outcome
    BY <1>1 DEF Attempt
  <2> QED
    BY <2>1, <2>2, <2>3
<1>4. CASE attempts'[v] = attempts[v]
  BY <1>4
<1> QED
  BY <1>2, <1>3, <1>4 DEF WorkChanged, Changed, Kept, Timed, Created, Claimed, Returned

LEMMA SlotInvInit == Init => SlotInv
BY DEF Init, Idle, SlotInv

LEMMA OnRecordKept ==
    ASSUME TypeOK, WorkInv, [Next]_vars, NEW r \in Runners, OnRecord(r),
           runner'[r].work = runner[r].work, runner'[r].number = runner[r].number
    PROVE  OnRecord(r)'
<1> DEFINE w == runner[r].work
           n == runner[r].number
           k == work[w].reservation
<1>1. /\ w \in Works
      /\ n \in Numbers
      /\ attempts[w][n].outcome # "ABSENT"
      /\ k \in Reservations
      /\ reservations[k].exposed
      /\ reservations[k].state \in {"reserved", "settled"}
  BY DEF OnRecord
<1>2. ReservationChanged(k) /\ WorkChanged(w)
  BY <1>1, StepLedger, StepChanges DEF LedgerChanged
<1>3. work[w].state # "ABSENT"
  BY <1>1 DEF WorkInv, RowInv
<1>4. work'[w].reservation = k
  BY <1>1, <1>2, <1>3, IdentityKept
<1>5. attempts'[w][n].outcome # "ABSENT"
  BY <1>1, <1>2, AttemptsGrow
<1>6. reservations'[k].exposed /\ reservations'[k].state \in {"reserved", "settled"}
  BY <1>1, <1>2 DEF ReservationChanged, ReservationKept, Opened, Marked, Expired, Settled
<1> HIDE DEF w, n, k
<1>7. runner'[r].work = w /\ runner'[r].number = n
  BY DEF w, n
<1> QED
  BY <1>1, <1>4, <1>5, <1>6, <1>7 DEF OnRecord

LEMMA SlotInvStep == TypeOK /\ WorkInv /\ SlotInv /\ [Next]_vars => SlotInv'
<1> SUFFICES ASSUME TypeOK, WorkInv, SlotInv, [Next]_vars, NEW r \in Runners,
                    runner'[r].step \in {"input", "call", "record"}
             PROVE  OnRecord(r)'
  BY DEF SlotInv
<1>1. SlotChanged(r)
  BY StepSlots
<1>2. CASE runner'[r] = runner[r]
  BY <1>2, OnRecordKept DEF SlotInv
<1>3. CASE /\ runner[r].step \in {"input", "call"}
           /\ runner'[r].work = runner[r].work
           /\ runner'[r].number = runner[r].number
  BY <1>3, OnRecordKept DEF SlotInv
<1> QED
  BY <1>1, <1>2, <1>3 DEF SlotChanged

LEMMA SlotInvHolds == Spec => []SlotInv
<1>1. Init => SlotInv
  BY SlotInvInit
<1>2. TypeOK /\ WorkInv /\ SlotInv /\ [Next]_vars => SlotInv'
  BY SlotInvStep
<1> QED
  BY <1>1, <1>2, TypeCorrect, WorkInvHolds, PTL DEF Spec

(* No text is ever in the hands of a slot without an attempt row and an    *)
(* exposed reservation that still counts, however long the slot stalls and *)
(* whatever happens to its work in the meantime: a call that was paid for  *)
(* can not be on a reservation that was released as unused.                *)
THEOREM CallsAreOnRecord == Spec => []CallsAreAccounted
<1>1. SlotInv => CallsAreAccounted
  BY DEF SlotInv, OnRecord, CallsAreAccounted
<1> QED
  BY <1>1, SlotInvHolds, PTL

-----------------------------------------------------------------------------
(* Use of texts and vectors *)

LEMMA FencesAllow ==
    ASSUME NEW w, NEW config, FencesHold(w, config)
    PROVE  Allowed(w)
<1>1. /\ ConsentHolds(w)
      /\ work[w].intent \in CurrentIntents
      /\ ReservationActive(work[w].reservation)
  BY DEF FencesHold, Outdated
<1>2. PICK m \in Materials : work[w].intent = <<m, current[m]>>
  BY <1>1 DEF CurrentIntents
<1>3. work[w].intent[2] = current[work[w].intent[1]]
  BY <1>2
<1> QED
  BY <1>1, <1>3 DEF ConsentHolds, ReservationActive, Allowed

\* Only the finished work becomes PUBLISHED, and only if it is finished so.
LEMMA FinishPublishes ==
    ASSUME TypeOK, NEW w \in Works, NEW st, NEW oc, Finish(w, st, oc),
           NEW v \in Works, work[v].state # "PUBLISHED", work'[v].state = "PUBLISHED"
    PROVE  v = w /\ st = "PUBLISHED"
<1> DEFINE row == [work[w] EXCEPT !.state = st, !.token = None, !.leaseActive = FALSE,
                                  !.due = IF st = "RETRY_WAIT" THEN FALSE ELSE work[w].due]
<1>1. row.state = st
  BY DEF TypeOK, Work
<1>2. work' = [work EXCEPT ![w] = row]
  BY DEF Finish, ReleaseLease
<1> HIDE DEF row
<1> QED
  BY <1>1, <1>2 DEF TypeOK

LEMMA RejectPublishesNothing ==
    ASSUME TypeOK, NEW w \in Works, NEW config, RejectFence(w, config), NEW v \in Works
    PROVE  work'[v].state = "PUBLISHED" => work[v].state = "PUBLISHED"
BY RejectFinishes, FinishPublishes

LEMMA FailPublishesNothing ==
    ASSUME TypeOK, NEW w \in Works, NEW error, FailCurrentAttempt(w, error), NEW v \in Works
    PROVE  work'[v].state = "PUBLISHED" => work[v].state = "PUBLISHED"
BY FailFinishes, FinishPublishes

LEMMA RowPublishesNothing ==
    ASSUME TypeOK, NEW w \in Works, NEW row, row.state # "PUBLISHED",
           work' = [work EXCEPT ![w] = row], NEW v \in Works
    PROVE  work'[v].state = "PUBLISHED" => work[v].state = "PUBLISHED"
BY DEF TypeOK

LEMMA TimePublishesNothing ==
    ASSUME TypeOK, NEW w \in Works,
           \/ work' = [work EXCEPT ![w].leaseActive = FALSE]
           \/ work' = [work EXCEPT ![w].due = TRUE],
           NEW v \in Works
    PROVE  work'[v].state = "PUBLISHED" => work[v].state = "PUBLISHED"
<1>1. work[w] \in Work
  BY DEF TypeOK
<1>2. PICK row : row.state = work[w].state /\ work' = [work EXCEPT ![w] = row]
  <2>1. /\ [work[w] EXCEPT !.leaseActive = FALSE].state = work[w].state
        /\ [work[w] EXCEPT !.due = TRUE].state = work[w].state
    BY <1>1 DEF Work
  <2> QED
    BY <2>1
<1> QED
  BY <1>2 DEF TypeOK

LEMMA CreatePublishesNothing ==
    ASSUME TypeOK, NEW intents, NEW config, NEW epoch,
           CreateWorks(intents, config, epoch), NEW v \in Works
    PROVE  work'[v].state = "PUBLISHED" => work[v].state = "PUBLISHED"
<1>1. PICK k \in Reservations, ws \in SUBSET {w \in Works : work[w].state = "ABSENT"} :
         \E f \in Bijection(ws, intents) : InsertWorks(k, ws, f, config, epoch)
  BY DEF CreateWorks
<1>2. PICK f \in Bijection(ws, intents) : InsertWorks(k, ws, f, config, epoch)
  BY <1>1
<1> QED
  BY <1>2 DEF InsertWorks, NoWork

LEMMA PublishIsAllowed ==
    ASSUME TypeOK, [Next]_vars, NEW v \in Works,
           work[v].state # "PUBLISHED", work'[v].state = "PUBLISHED"
    PROVE  Allowed(v)
<1>1. ASSUME NEW r \in Runners, Handler(r) PROVE Allowed(v)
  <2> DEFINE w == runner[r].work
  <2>1. ASSUME NEW u \in Works, Claim(r, u) PROVE FALSE
    <3> DEFINE row == [work[u] EXCEPT !.state = "LEASED", !.token = r, !.leaseActive = TRUE]
    <3>1. row.state # "PUBLISHED"
      BY DEF TypeOK, Work
    <3>2. work' = [work EXCEPT ![u] = row]
      BY <2>1 DEF Claim
    <3> HIDE DEF row
    <3> QED
      BY <3>1, <3>2, RowPublishesNothing
  <2>2. CASE Reuse(r)
    <3>1. w \in Works
      BY <2>2 DEF Reuse, TypeOK
    <3> QED
      BY <2>2, <3>1, FinishPublishes, FencesAllow DEF Reuse, tables
  <2>3. CASE StartAttempt(r)
    <3>1. w \in Works
      BY <2>3 DEF StartAttempt, TypeOK
    <3>2. CASE BeginAttempt(r, w)
      <4> DEFINE row == [work[w] EXCEPT !.state = "CALLING",
                                        !.attemptCount = work[w].attemptCount + 1]
      <4>1. row.state # "PUBLISHED"
        BY <3>1 DEF TypeOK, Work
      <4>2. work' = [work EXCEPT ![w] = row]
        BY <3>2 DEF BeginAttempt
      <4> HIDE DEF row
      <4> QED
        BY <3>1, <4>1, <4>2, RowPublishesNothing
    <3> QED
      BY <2>3, <3>1, <3>2, RejectPublishesNothing DEF StartAttempt, tables
  <2>4. CASE CallInput(r)
    BY <2>4, RejectPublishesNothing DEF CallInput, TypeOK, tables
  <2>5. CASE Embed(r) \/ Abandon(r)
    BY <2>5 DEF Embed, Abandon, tables
  <2>6. CASE FailAttempt(r)
    BY <2>6, FailPublishesNothing, RejectPublishesNothing DEF FailAttempt, TypeOK, tables
  <2>7. CASE CompleteAttempt(r)
    <3>1. w \in Works
      BY <2>7 DEF CompleteAttempt, TypeOK
    <3>2. CASE PublishFences(w, ConfigOf[r]) /\ Finish(w, "PUBLISHED", "SUCCEEDED")
      BY <3>1, <3>2, FinishPublishes, FencesAllow DEF PublishFences
    <3> QED
      BY <2>7, <3>1, <3>2, FailPublishesNothing, RejectPublishesNothing, TimePublishesNothing
         DEF CompleteAttempt, tables
  <2> QED
    BY <1>1, <2>1, <2>2, <2>3, <2>4, <2>5, <2>6, <2>7 DEF Handler
<1>2. CASE User
  BY <1>2, CreatePublishesNothing DEF User, Activate, Revoke, UpdateMaterial, DeleteMaterial,
                                      tables
<1>3. CASE Repair
  <2>1. ASSUME NEW w \in Works, NEW config, Recover(w, config) PROVE FALSE
    <3>1. CASE ReturnToPending(w)
      <4> DEFINE row == [work[w] EXCEPT !.state = "PENDING", !.token = None,
                                        !.leaseActive = FALSE]
      <4>1. row.state # "PUBLISHED"
        BY DEF TypeOK, Work
      <4>2. work' = [work EXCEPT ![w] = row]
        BY <3>1 DEF ReturnToPending
      <4> HIDE DEF row
      <4> QED
        BY <4>1, <4>2, RowPublishesNothing
    <3> QED
      BY <2>1, <3>1, FailPublishesNothing, RejectPublishesNothing DEF Recover
  <2> QED
    BY <1>3, <2>1, CreatePublishesNothing DEF Repair, ExpireUnexposed, ActivateMissing
<1>4. CASE Time
  BY <1>4, TimePublishesNothing DEF Time, LeaseLapses, RetryFallsDue, ReservationLapses
<1>5. CASE UNCHANGED vars
  BY <1>5 DEF vars, tables
<1> QED
  BY <1>1, <1>2, <1>3, <1>4, <1>5 DEF Next

LEMMA InputIsAllowed ==
    ASSUME TypeOK, [Next]_vars, NEW q \in Runners,
           runner[q].step # "call", runner'[q].step = "call"
    PROVE  Allowed(runner[q].work)
<1>1. ASSUME NEW r \in Runners, Handler(r) PROVE Allowed(runner[q].work)
  <2>1. Return(r) => FALSE
    BY DEF Return, Idle, TypeOK
  <2>2. CASE CallInput(r)
    <3>1. CASE InputFences(runner[r].work, ConfigOf[r]) /\ Goto(r, "call")
      <4>1. q = r
        BY <3>1 DEF Goto, TypeOK
      <4> QED
        BY <3>1, <4>1, FencesAllow DEF InputFences
    <3> QED
      BY <2>1, <2>2, <3>1 DEF CallInput
  <2>3. ASSUME NEW row, row.step # "call", runner' = [runner EXCEPT ![r] = row]
        PROVE  FALSE
    BY <2>3 DEF TypeOK
  <2>4. CASE Reuse(r)
    <3>1. CASE Goto(r, "start")
      <4>1. [runner[r] EXCEPT !.step = "start"].step = "start"
        BY DEF TypeOK, Runner
      <4> QED
        BY <2>3, <3>1, <4>1 DEF Goto
    <3> QED
      BY <2>1, <2>4, <3>1 DEF Reuse
  <2>5. CASE StartAttempt(r)
    <3>1. CASE BeginAttempt(r, runner[r].work)
      <4> DEFINE n == work[runner[r].work].attemptCount + 1
      <4>1. [runner[r] EXCEPT !.step = "input", !.number = n].step = "input"
        BY DEF TypeOK, Runner
      <4> QED
        BY <2>3, <3>1, <4>1 DEF BeginAttempt
    <3> QED
      BY <2>1, <2>5, <3>1 DEF StartAttempt
  <2>6. CASE Embed(r)
    <3>1. PICK cost, answer, tokens :
            /\ tokens \in {None, cost}
            /\ tokens \in (1..CallMax) \cup {None}
            /\ answer \in Results \cup Errors
            /\ cost \in 0..CallMax
            /\ billed' = [billed EXCEPT ![runner[r].work][runner[r].number] = cost]
            /\ runner' = [runner EXCEPT ![r] = [@ EXCEPT !.step = "record",
                                                         !.answer = answer,
                                                         !.tokens = tokens]]
      BY <2>6, EmbedPicks
    <3>2. [runner[r] EXCEPT !.step = "record", !.answer = answer, !.tokens = tokens].step
             = "record"
      BY DEF TypeOK, Runner
    <3> QED
      BY <2>3, <3>1, <3>2
  <2>7. ASSUME NEW w \in Works, Claim(r, w) PROVE FALSE
    BY <2>7 DEF Claim, Idle, TypeOK
  <2>8. CASE FailAttempt(r) \/ CompleteAttempt(r) \/ Abandon(r)
    BY <2>1, <2>8 DEF FailAttempt, CompleteAttempt, Abandon
  <2> QED
    BY <1>1, <2>2, <2>4, <2>5, <2>6, <2>7, <2>8 DEF Handler
<1>2. ASSUME ~\E r \in Runners : Handler(r) PROVE UNCHANGED runner
  <2>1. CASE User
    BY <2>1 DEF User, Activate, Revoke, UpdateMaterial, DeleteMaterial
  <2>2. CASE Repair \/ Time
    BY <2>2 DEF Repair, Time, Recover, ExpireUnexposed, ActivateMissing, LeaseLapses,
                RetryFallsDue, ReservationLapses
  <2> QED
    BY <1>2, <2>1, <2>2 DEF Next, vars
<1> QED
  BY <1>1, <1>2

(* Whatever was true when a work was claimed, and however many processes   *)
(* with different configurations there are: texts are handed to a slot and *)
(* vectors are published only under the consent, the revision and the      *)
(* reservation that hold at that very moment.                              *)
THEOREM UseIsAlwaysAllowed == Spec => UseIsAllowed
<1> DEFINE A == /\ \A r \in Runners :
                      runner[r].step # "call" /\ runner'[r].step = "call"
                         => Allowed(runner[r].work)
                /\ \A w \in Works :
                      work[w].state # "PUBLISHED" /\ work'[w].state = "PUBLISHED"
                         => Allowed(w)
<1>1. TypeOK /\ [Next]_vars => [A]_vars
  BY PublishIsAllowed, InputIsAllowed
<1> QED
  BY <1>1, TypeCorrect, PTL DEF Spec, UseIsAllowed

-----------------------------------------------------------------------------
(* Bills, receipts and the slots that stand between them *)

\* What is known of one attempt: nothing is billed before it begins, and a
\* receipt is no less than the bill.
BillOK(w, n) ==
    /\ attempts[w][n].outcome = "ABSENT" => billed[w][n] = 0 /\ receipts[w][n] = None
    /\ receipts[w][n] # None => billed[w][n] <= receipts[w][n]

BillInv == \A w \in Works, n \in Numbers : BillOK(w, n)

\* The attempt of a slot is its own, has no receipt yet, and the usage that
\* the slot was told is no less than the bill.
HolderOK(r) ==
    LET w == runner[r].work
        n == runner[r].number
    IN  /\ attempts[w][n].token = r
        /\ receipts[w][n] = None
        /\ runner[r].step = "record" /\ runner[r].tokens # None =>
              billed[w][n] <= runner[r].tokens

HolderInv == \A r \in Runners : runner[r].step \in {"input", "call", "record"} => HolderOK(r)

\* An attempt keeps the token it was begun with.
LEMMA TokensKept ==
    ASSUME TypeOK, NEW v \in Works, WorkChanged(v), NEW n \in Numbers,
           attempts[v][n].outcome # "ABSENT", RowInv(work[v], attempts[v])
    PROVE  attempts'[v][n].token = attempts[v][n].token
<1>1. attempts[v] \in [Numbers -> Attempt]
  BY DEF TypeOK
<1>2. CASE Begun(work[v], attempts[v], work'[v], attempts'[v])
  <2> DEFINE m == work[v].attemptCount + 1
  <2>1. attempts'[v] = [attempts[v] EXCEPT ![m] = [outcome |-> "STARTED",
                                                   token |-> work[v].token]]
    BY <1>2 DEF Begun
  <2>2. n <= work[v].attemptCount
    BY DEF RowInv, AttemptsMatch
  <2>3. n \in Nat /\ work[v].attemptCount \in Nat
    BY ConstantsOK DEF Numbers, TypeOK, Work
  <2>4. n # m
    BY <2>2, <2>3
  <2> QED
    BY <1>1, <2>1, <2>4
<1>3. CASE Finished(work[v], attempts[v], work'[v], attempts'[v])
  <2>1. PICK outcome \in FinishedOutcomes :
          attempts'[v] = [l \in Numbers |->
            IF /\ work[v].state = "CALLING"
               /\ attempts[v][l].outcome = "STARTED"
               /\ attempts[v][l].token = work[v].token
            THEN [attempts[v][l] EXCEPT !.outcome = outcome]
            ELSE attempts[v][l]]
    BY <1>3 DEF Finished
  <2>2. [attempts[v][n] EXCEPT !.outcome = outcome].token = attempts[v][n].token
    BY <1>1 DEF Attempt
  <2> QED
    BY <2>1, <2>2
<1>4. CASE attempts'[v] = attempts[v]
  BY <1>4
<1> QED
  BY <1>2, <1>3, <1>4 DEF WorkChanged, Changed, Kept, Timed, Created, Claimed, Returned

\* Only a slot that calls the provider changes a bill.
BillChanged(w, n) ==
    \E r \in Runners : /\ runner[r].step = "call"
                       /\ runner'[r].step = "record"
                       /\ runner[r].work = w
                       /\ runner[r].number = n

\* Only a slot that holds the attempt, and leaves it, writes its receipt.
ReceiptWritten(w, n) ==
    \E r \in Runners : /\ runner[r].step = "record"
                       /\ runner'[r] = Idle
                       /\ runner[r].work = w
                       /\ runner[r].number = n
                       /\ attempts[w][n] = [outcome |-> "STARTED", token |-> r]
                       /\ receipts'[w][n] = runner[r].tokens
                       /\ UNCHANGED billed

LEMMA StepBills ==
    ASSUME TypeOK, [Next]_vars, NEW w \in Works, NEW n \in Numbers,
           billed'[w][n] # billed[w][n]
    PROVE  BillChanged(w, n) /\ UNCHANGED receipts
<1>1. CASE \E r \in Runners : Embed(r)
  <2>1. PICK r \in Runners : Embed(r)
    BY <1>1
  <2>2. PICK cost, answer, tokens :
          /\ tokens \in {None, cost}
          /\ tokens \in (1..CallMax) \cup {None}
          /\ answer \in Results \cup Errors
          /\ cost \in 0..CallMax
          /\ billed' = [billed EXCEPT ![runner[r].work][runner[r].number] = cost]
          /\ runner' = [runner EXCEPT ![r] = [@ EXCEPT !.step = "record",
                                                       !.answer = answer,
                                                       !.tokens = tokens]]
    BY <2>1, EmbedPicks
  <2>3. runner[r].step = "call" /\ UNCHANGED receipts
    BY <2>1 DEF Embed, tables
  <2>4. runner'[r].step = "record"
    BY <2>2 DEF TypeOK, Runner
  <2>5. runner[r].work = w /\ runner[r].number = n
    BY <2>2 DEF TypeOK
  <2> QED
    BY <2>3, <2>4, <2>5 DEF BillChanged
<1>2. CASE User
  BY <1>2 DEF User, Activate, Revoke, UpdateMaterial, DeleteMaterial, tables
<1>3. ASSUME NEW r \in Runners, Handler(r), ~Embed(r) PROVE UNCHANGED billed
  BY <1>3 DEF Handler, Claim, Reuse, StartAttempt, CallInput, CompleteAttempt, FailAttempt,
              Abandon, tables
<1>4. CASE Repair \/ Time
  BY <1>4 DEF Repair, Time, Recover, ExpireUnexposed, ActivateMissing, LeaseLapses,
              RetryFallsDue, ReservationLapses
<1>5. CASE UNCHANGED vars
  BY <1>5 DEF vars, tables
<1> QED
  BY <1>1, <1>2, <1>3, <1>4, <1>5 DEF Next

LEMMA StepReceipts ==
    ASSUME TypeOK, [Next]_vars, NEW w \in Works, NEW n \in Numbers,
           receipts'[w][n] # receipts[w][n]
    PROVE  ReceiptWritten(w, n)
<1>1. CASE \E r \in Runners : CompleteAttempt(r)
  <2>1. PICK r \in Runners : CompleteAttempt(r)
    BY <1>1
  <2>2. HoldsAttempt(r) /\ RecordCall(r)
    BY <2>1 DEF CompleteAttempt, tables
  <2>3. runner[r].step = "record" /\ UNCHANGED billed /\ runner'[r] = Idle
    BY <2>1 DEF CompleteAttempt, Return, TypeOK
  <2>4. runner[r].work = w /\ runner[r].number = n
    BY <2>2 DEF RecordCall, TypeOK
  <2>5. receipts'[w][n] = runner[r].tokens
    BY <2>2, <2>4 DEF RecordCall, TypeOK
  <2>6. attempts[w][n] = [outcome |-> "STARTED", token |-> r]
    <3>1. attempts[w][n].outcome = "STARTED" /\ attempts[w][n].token = r
      BY <2>2, <2>4 DEF HoldsAttempt, HasActiveAttempt
    <3>2. attempts[w][n] \in Attempt
      BY DEF TypeOK
    <3> QED
      BY <3>1, <3>2 DEF Attempt
  <2> QED
    BY <2>3, <2>4, <2>5, <2>6 DEF ReceiptWritten
<1>2. CASE User
  BY <1>2 DEF User, Activate, Revoke, UpdateMaterial, DeleteMaterial, tables
<1>3. ASSUME NEW r \in Runners, Handler(r), ~CompleteAttempt(r) PROVE UNCHANGED receipts
  BY <1>3 DEF Handler, Claim, Reuse, StartAttempt, CallInput, Embed, FailAttempt, Abandon, tables
<1>4. CASE Repair \/ Time
  BY <1>4 DEF Repair, Time, Recover, ExpireUnexposed, ActivateMissing, LeaseLapses,
              RetryFallsDue, ReservationLapses
<1>5. CASE UNCHANGED vars
  BY <1>5 DEF vars, tables
<1> QED
  BY <1>1, <1>2, <1>3, <1>4, <1>5 DEF Next

LEMMA BillInvStep ==
    TypeOK /\ WorkInv /\ SlotInv /\ BillInv /\ HolderInv /\ [Next]_vars => BillInv'
<1> SUFFICES ASSUME TypeOK, WorkInv, SlotInv, BillInv, HolderInv, [Next]_vars,
                    NEW w \in Works, NEW n \in Numbers
             PROVE  /\ attempts'[w][n].outcome = "ABSENT" =>
                          billed'[w][n] = 0 /\ receipts'[w][n] = None
                    /\ receipts'[w][n] # None => billed'[w][n] <= receipts'[w][n]
  BY DEF BillInv, BillOK
<1>1. BillOK(w, n) /\ WorkChanged(w)
  BY StepChanges DEF BillInv
<1>2. CASE billed'[w][n] # billed[w][n]
  <2>1. PICK r \in Runners : runner[r].step = "call" /\ runner[r].work = w /\ runner[r].number = n
    BY <1>2, StepBills DEF BillChanged
  <2>2. receipts[w][n] = None /\ attempts[w][n].outcome # "ABSENT"
    BY <2>1 DEF SlotInv, OnRecord, HolderInv, HolderOK
  <2>3. receipts' = receipts
    BY <1>2, StepBills
  <2>4. attempts'[w][n].outcome # "ABSENT"
    BY <1>1, <2>2, AttemptsGrow
  <2> QED
    BY <2>2, <2>3, <2>4
<1>3. CASE receipts'[w][n] # receipts[w][n]
  <2>1. PICK r \in Runners :
          /\ runner[r].step = "record"
          /\ runner[r].work = w
          /\ runner[r].number = n
          /\ attempts[w][n] = [outcome |-> "STARTED", token |-> r]
          /\ receipts'[w][n] = runner[r].tokens
          /\ UNCHANGED billed
    BY <1>3, StepReceipts DEF ReceiptWritten
  <2>2. runner[r].tokens # None => billed[w][n] <= runner[r].tokens
    BY <2>1 DEF HolderInv, HolderOK
  <2>3. attempts'[w][n].outcome # "ABSENT"
    BY <1>1, <2>1, AttemptsGrow
  <2> QED
    BY <2>1, <2>2, <2>3
<1>4. CASE billed'[w][n] = billed[w][n] /\ receipts'[w][n] = receipts[w][n]
  <2>1. attempts'[w][n].outcome = "ABSENT" => attempts[w][n].outcome = "ABSENT"
    BY <1>1, AttemptsGrow
  <2> QED
    BY <1>1, <1>4, <2>1 DEF BillOK
<1> QED
  BY <1>2, <1>3, <1>4

\* What a step may do to a slot, and what it does for the slot's attempt.
SlotMoved(q) ==
    \/ runner'[q] = runner[q]
    \/ runner'[q].step \in {"idle", "reuse", "start"}
    \/ /\ runner[q].step = "input"
       /\ runner'[q].step = "call"
       /\ runner'[q].work = runner[q].work
       /\ runner'[q].number = runner[q].number
    \/ /\ runner[q].step = "call"
       /\ runner'[q].step = "record"
       /\ runner'[q].work = runner[q].work
       /\ runner'[q].number = runner[q].number
       /\ runner'[q].tokens # None =>
             billed'[runner[q].work][runner[q].number] <= runner'[q].tokens
       /\ UNCHANGED <<attempts, receipts>>
    \/ LET w == runner'[q].work
           n == runner'[q].number
       IN  /\ runner'[q].step = "input"
           /\ w \in Works
           /\ n \in Numbers
           /\ attempts[w][n].outcome = "ABSENT"
           /\ attempts'[w][n].token = q
           /\ UNCHANGED receipts

LEMMA BeginMoves ==
    ASSUME TypeOK, WorkInv, NEW r \in Runners, NEW w \in Works, runner[r].work = w,
           work[w].state = "LEASED", work[w].attemptCount < MaxAttempts,
           BeginAttempt(r, w), UNCHANGED receipts
    PROVE  SlotMoved(r)
<1> DEFINE n == work[w].attemptCount + 1
           local == [runner[r] EXCEPT !.step = "input", !.number = n]
<1>1. work[w] \in Work /\ runner[r] \in Runner
  BY DEF TypeOK
<1>2. n \in Numbers /\ work[w].attemptCount \in Nat
  BY <1>1, ConstantsOK DEF Work, Numbers
<1>3. attempts[w][n].outcome = "ABSENT"
  BY <1>2 DEF WorkInv, RowInv, AttemptsMatch
<1>4. local.step = "input" /\ local.work = w /\ local.number = n
  BY <1>1 DEF Runner
<1>5. runner'[r] = local
  BY DEF BeginAttempt, TypeOK
<1>6. attempts'[w][n].token = r
  <2>1. attempts' = [attempts EXCEPT ![w][n] = [outcome |-> "STARTED", token |-> r]]
    BY DEF BeginAttempt
  <2>2. attempts'[w][n] = [outcome |-> "STARTED", token |-> r]
    BY <1>2, <2>1 DEF TypeOK
  <2> QED
    BY <2>2
<1> HIDE DEF n, local
<1> QED
  BY <1>2, <1>3, <1>4, <1>5, <1>6 DEF SlotMoved

LEMMA HandlerMoves ==
    ASSUME TypeOK, WorkInv, SlotInv, NEW r \in Runners, Handler(r), NEW q \in Runners
    PROVE  SlotMoved(q)
<1> DEFINE w == runner[r].work
<1>1. Return(r) => SlotMoved(q)
  BY DEF Return, Idle, TypeOK, SlotMoved
<1>2. ASSUME NEW v \in Works, Claim(r, v) PROVE SlotMoved(q)
  BY <1>2 DEF Claim, Idle, TypeOK, SlotMoved
<1>3. Goto(r, "start") => SlotMoved(q)
  BY DEF Goto, TypeOK, Runner, SlotMoved
<1>4. CASE Reuse(r)
  BY <1>1, <1>3, <1>4 DEF Reuse
<1>5. CASE StartAttempt(r)
  <2>1. w \in Works
    BY <1>5 DEF StartAttempt, TypeOK
  <2>2. CASE /\ HoldsLease(r, "LEASED")
             /\ work[w].attemptCount < MaxAttempts
             /\ BeginAttempt(r, w)
             /\ UNCHANGED receipts
    <3>1. work[w].state = "LEASED"
      BY <2>2 DEF HoldsLease
    <3>2. SlotMoved(r)
      BY <2>1, <2>2, <3>1, BeginMoves
    <3>3. q # r => runner'[q] = runner[q]
      BY <2>2 DEF BeginAttempt, TypeOK
    <3> QED
      BY <3>2, <3>3 DEF SlotMoved
  <2> QED
    BY <1>1, <1>5, <2>2 DEF StartAttempt
<1>6. CASE CallInput(r)
  <2>1. CASE Goto(r, "call") /\ runner[r].step = "input"
    BY <2>1 DEF Goto, TypeOK, Runner, SlotMoved
  <2> QED
    BY <1>1, <1>6, <2>1 DEF CallInput
<1>7. CASE Embed(r)
  <2>1. /\ runner[r] \in Runner
        /\ runner[r].step = "call"
        /\ UNCHANGED <<attempts, receipts>>
    BY <1>7 DEF TypeOK, Embed, tables
  <2>2. PICK cost, answer, tokens :
          /\ tokens \in {None, cost}
          /\ tokens \in (1..CallMax) \cup {None}
          /\ answer \in Results \cup Errors
          /\ cost \in 0..CallMax
          /\ billed' = [billed EXCEPT ![runner[r].work][runner[r].number] = cost]
          /\ runner' = [runner EXCEPT ![r] = [@ EXCEPT !.step = "record",
                                                       !.answer = answer,
                                                       !.tokens = tokens]]
    BY <1>7, EmbedPicks
  <2> DEFINE row == [runner[r] EXCEPT !.step = "record", !.answer = answer, !.tokens = tokens]
  <2>3. /\ row.step = "record"
        /\ row.work = runner[r].work
        /\ row.number = runner[r].number
        /\ row.tokens = tokens
    BY <2>1 DEF Runner
  <2>4. runner' = [runner EXCEPT ![r] = row]
    BY <2>2
  <2> HIDE DEF row
  <2>5. CASE q = r
    <3>1. w \in Works
      BY <2>1 DEF TypeOK
    <3>2. runner[r].number \in Numbers
      BY <2>1 DEF SlotInv, OnRecord
    <3>3. billed'[w][runner[r].number] = cost
      BY <2>2, <3>1, <3>2 DEF TypeOK
    <3> QED
      BY <2>1, <2>2, <2>3, <2>4, <2>5, <3>3, ConstantsOK DEF TypeOK, SlotMoved
  <2>6. CASE q # r
    BY <2>4, <2>6 DEF TypeOK, SlotMoved
  <2> QED
    BY <2>5, <2>6
<1>8. CASE FailAttempt(r) \/ CompleteAttempt(r) \/ Abandon(r)
  BY <1>1, <1>8 DEF FailAttempt, CompleteAttempt, Abandon
<1> QED
  BY <1>2, <1>4, <1>5, <1>6, <1>7, <1>8 DEF Handler

LEMMA StepMoves ==
    ASSUME TypeOK, WorkInv, SlotInv, [Next]_vars, NEW q \in Runners
    PROVE  SlotMoved(q)
<1>1. CASE \E r \in Runners : Handler(r)
  BY <1>1, HandlerMoves
<1>2. CASE User
  BY <1>2 DEF User, Activate, Revoke, UpdateMaterial, DeleteMaterial, SlotMoved
<1>3. CASE Repair \/ Time
  BY <1>3 DEF Repair, Time, Recover, ExpireUnexposed, ActivateMissing, LeaseLapses,
              RetryFallsDue, ReservationLapses, SlotMoved
<1>4. CASE UNCHANGED vars
  BY <1>4 DEF vars, SlotMoved
<1> QED
  BY <1>1, <1>2, <1>3, <1>4 DEF Next

\* A slot that stays with its attempt keeps it to itself.
LEMMA HolderKept ==
    ASSUME TypeOK, WorkInv, SlotInv, HolderInv, [Next]_vars, NEW q \in Runners,
           runner[q].step \in {"input", "call", "record"},
           runner'[q].step \in {"input", "call", "record"},
           NEW w \in Works, NEW n \in Numbers, runner[q].work = w, runner[q].number = n
    PROVE  /\ attempts'[w][n].token = q
           /\ receipts'[w][n] = None
           /\ runner[q].step = "record" => billed'[w][n] = billed[w][n]
<1>1. attempts[w][n].outcome # "ABSENT" /\ attempts[w][n].token = q /\ receipts[w][n] = None
  BY DEF SlotInv, OnRecord, HolderInv, HolderOK
<1>2. attempts'[w][n].token = q
  <2>1. WorkChanged(w) /\ RowInv(work[w], attempts[w])
    BY StepChanges DEF WorkInv
  <2> QED
    BY <1>1, <2>1, TokensKept
<1>3. receipts'[w][n] = None
  <2> SUFFICES ASSUME receipts'[w][n] # receipts[w][n] PROVE FALSE
    BY <1>1
  <2>1. PICK r \in Runners : /\ runner'[r] = Idle
                             /\ attempts[w][n] = [outcome |-> "STARTED", token |-> r]
    <3>1. ReceiptWritten(w, n)
      BY StepReceipts
    <3> QED
      BY <3>1 DEF ReceiptWritten
  <2>2. r = q
    BY <1>1, <2>1
  <2> QED
    BY <2>1, <2>2 DEF Idle
<1>4. ASSUME runner[q].step = "record" PROVE billed'[w][n] = billed[w][n]
  <2> SUFFICES ASSUME billed'[w][n] # billed[w][n] PROVE FALSE
    OBVIOUS
  <2>1. PICK r \in Runners : /\ runner[r].step = "call"
                             /\ runner[r].work = w
                             /\ runner[r].number = n
    BY StepBills DEF BillChanged
  <2>2. attempts[w][n].token = r
    BY <2>1 DEF HolderInv, HolderOK
  <2> QED
    BY <1>1, <1>4, <2>1, <2>2
<1> QED
  BY <1>2, <1>3, <1>4

LEMMA HolderInvStep ==
    TypeOK /\ WorkInv /\ SlotInv /\ BillInv /\ HolderInv /\ [Next]_vars => HolderInv'
<1> SUFFICES ASSUME TypeOK, WorkInv, SlotInv, BillInv, HolderInv, [Next]_vars,
                    NEW q \in Runners, runner'[q].step \in {"input", "call", "record"}
             PROVE  /\ attempts'[runner'[q].work][runner'[q].number].token = q
                    /\ receipts'[runner'[q].work][runner'[q].number] = None
                    /\ runner'[q].step = "record" /\ runner'[q].tokens # None =>
                          billed'[runner'[q].work][runner'[q].number] <= runner'[q].tokens
  BY DEF HolderInv, HolderOK
<1>1. SlotMoved(q)
  BY StepMoves
<1> DEFINE w == runner[q].work
           n == runner[q].number
<1>2. ASSUME runner[q].step \in {"input", "call", "record"}
      PROVE  /\ w \in Works
             /\ n \in Numbers
             /\ attempts'[w][n].token = q
             /\ receipts'[w][n] = None
             /\ runner[q].step = "record" => billed'[w][n] = billed[w][n]
  <2>1. w \in Works /\ n \in Numbers
    BY <1>2 DEF SlotInv, OnRecord
  <2> HIDE DEF w, n
  <2>2. runner[q].work = w /\ runner[q].number = n
    BY DEF w, n
  <2> QED
    BY <1>2, <2>1, <2>2, HolderKept
<1>3. CASE runner'[q] = runner[q]
  <2>1. HolderOK(q)
    BY <1>3 DEF HolderInv
  <2> QED
    BY <1>2, <1>3, <2>1 DEF HolderOK
<1>4. CASE /\ runner[q].step = "input"
           /\ runner'[q].step = "call"
           /\ runner'[q].work = w
           /\ runner'[q].number = n
  BY <1>2, <1>4
<1>5. CASE /\ runner[q].step = "call"
           /\ runner'[q].step = "record"
           /\ runner'[q].work = w
           /\ runner'[q].number = n
           /\ runner'[q].tokens # None => billed'[w][n] <= runner'[q].tokens
  BY <1>2, <1>5
<1>6. ASSUME NEW v \in Works, NEW m \in Numbers,
             runner'[q].work = v, runner'[q].number = m,
             runner'[q].step = "input",
             attempts[v][m].outcome = "ABSENT",
             attempts'[v][m].token = q,
             UNCHANGED receipts
      PROVE  attempts'[v][m].token = q /\ receipts'[v][m] = None
  BY <1>6 DEF BillInv, BillOK
<1> QED
  BY <1>1, <1>3, <1>4, <1>5, <1>6 DEF SlotMoved

-----------------------------------------------------------------------------
(* What the ledger holds against the bills *)

\* A reservation covers every attempt of its works.  One that was never
\* exposed, or was released, has none.  A settled one stands at its maximum
\* or at the sum of the receipts of all its attempts.
CoverOK(k) ==
    /\ reservations[k].state # "ABSENT" =>
          reservedMaximum[k] = EmbeddingMaximumCost(Cardinality(WorksOf(k)))
    /\ ~reservations[k].exposed \/ reservations[k].state = "expired" => AttemptsOf(k) = {}
    /\ reservations[k].state = "settled" =>
          \/ settledAmount[k] = reservedMaximum[k]
          \/ /\ \A a \in AttemptsOf(k) : receipts[a[1]][a[2]] # None
             /\ settledAmount[k] = ReceiptTotal(k, receipts)

CoverInv == \A k \in Reservations : CoverOK(k)

\* A step that begins no attempt of a reservation keeps the set of them.
LEMMA AttemptsStay ==
    ASSUME TypeOK, WorkInv, [Next]_vars, NEW k \in Reservations,
           reservations[k].state # "ABSENT",
           \A v \in WorksOf(k) : ~(work[v].state = "LEASED" /\ work'[v].state = "CALLING")
    PROVE  AttemptsOf(k)' = AttemptsOf(k)
<1>1. WorksOf(k)' = WorksOf(k)
  BY WorkInvStep, WorksKept
<1>2. ASSUME NEW v \in WorksOf(k), NEW n \in Numbers
      PROVE  attempts'[v][n].outcome # "ABSENT" <=> attempts[v][n].outcome # "ABSENT"
  <2>1. v \in Works /\ WorkChanged(v)
    BY StepChanges DEF WorksOf
  <2>2. attempts[v][n].outcome # "ABSENT" => attempts'[v][n].outcome # "ABSENT"
    BY <2>1, AttemptsGrow
  <2>3. ASSUME attempts[v][n].outcome = "ABSENT" PROVE attempts'[v][n].outcome = "ABSENT"
    <3>1. CASE Finished(work[v], attempts[v], work'[v], attempts'[v])
      BY <2>3, <3>1 DEF Finished
    <3>2. ~Begun(work[v], attempts[v], work'[v], attempts'[v])
      BY DEF Begun
    <3> QED
      BY <2>1, <2>3, <3>1, <3>2 DEF WorkChanged, Changed, Kept, Timed, Created, Claimed, Returned
  <2> QED
    BY <2>2, <2>3
<1> QED
  BY <1>1, <1>2 DEF AttemptsOf

\* How the first two conjuncts of CoverOK survive a step.
LEMMA CoverMaximum ==
    ASSUME TypeOK, WorkInv, LedgerInv, CoverInv, [Next]_vars, NEW k \in Reservations,
           reservations'[k].state # "ABSENT"
    PROVE  reservedMaximum'[k] = EmbeddingMaximumCost(Cardinality(WorksOf(k)'))
<1>1. ReservationChanged(k) /\ CoverOK(k)
  BY StepLedger DEF LedgerChanged, CoverInv
<1>2. CASE Opened(k)
  <2>1. PICK ws \in SUBSET Works :
          /\ \A v \in ws : work'[v].reservation = k
          /\ \A v \in Works \ ws : work'[v] = work[v]
          /\ reservedMaximum'[k] = EmbeddingMaximumCost(Cardinality(ws))
    BY <1>2 DEF Opened
  <2>2. WorksOf(k) = {}
    BY <1>2 DEF Opened, LedgerInv
  <2>3. WorksOf(k)' = ws
    BY <2>1, <2>2 DEF WorksOf
  <2> QED
    BY <2>1, <2>3
<1>3. CASE reservations[k].state # "ABSENT"
  <2>1. WorksOf(k)' = WorksOf(k)
    BY <1>3, WorkInvStep, WorksKept
  <2>2. reservedMaximum'[k] = reservedMaximum[k]
    BY <1>1, <1>3 DEF ReservationChanged, ReservationKept, Opened, Marked, Expired, Settled
  <2> QED
    BY <1>1, <1>3, <2>1, <2>2 DEF CoverOK
<1>4. CASE reservations[k].state = "ABSENT" /\ ~Opened(k)
  BY <1>1, <1>4 DEF ReservationChanged, ReservationKept, Marked, Expired, Settled
<1> QED
  BY <1>2, <1>3, <1>4

\* A reservation without works has no attempts, nor has a new work.
LEMMA NewHasNoAttempts ==
    ASSUME TypeOK, WorkInv, LedgerInv, [Next]_vars, NEW k \in Reservations,
           reservations[k].state = "ABSENT"
    PROVE  AttemptsOf(k)' = {}
<1>1. ReservationChanged(k)
  BY StepLedger DEF LedgerChanged
<1>2. WorksOf(k) = {}
  BY DEF LedgerInv
<1>3. /\ WorkInv'
      /\ TypeOK'
      /\ \A v \in Works : NewWorkOpens(v)
      /\ \A v \in Works : WorkChanged(v)
  BY WorkInvStep, TypeStep, StepLedger, StepChanges DEF LedgerChanged
<1> SUFFICES ASSUME NEW v \in Works, work'[v].reservation = k, NEW n \in Numbers
             PROVE  attempts'[v][n].outcome = "ABSENT"
  BY DEF AttemptsOf, WorksOf
<1>4. work'[v].state # "ABSENT"
  BY <1>3 DEF WorkInv, RowInv
<1>5. work[v].state = "ABSENT"
  BY <1>2, <1>3, IdentityKept DEF WorksOf
<1>6. Created(work[v], attempts[v], work'[v], attempts'[v])
  BY <1>3, <1>4, <1>5 DEF WorkChanged, Changed, Kept, Timed, Created, Claimed, Begun,
                          Returned, Finished, ActiveStates
<1>7. work'[v].attemptCount = 0
  BY <1>6 DEF Created
<1>8. ~(n <= 0)
  BY DEF Numbers
<1> QED
  BY <1>3, <1>7, <1>8 DEF WorkInv, RowInv, AttemptsMatch

LEMMA CoverExposure ==
    ASSUME TypeOK, WorkInv, LedgerInv, CoverInv, [Next]_vars, NEW k \in Reservations,
           ~reservations'[k].exposed \/ reservations'[k].state = "expired"
    PROVE  AttemptsOf(k)' = {}
<1>1. /\ ReservationChanged(k)
      /\ CoverOK(k)
      /\ \A v \in Works : CallExposes(v)
  BY StepLedger DEF LedgerChanged, CoverInv
<1>2. CASE reservations[k].state = "ABSENT"
  BY <1>2, NewHasNoAttempts
<1>3. CASE reservations[k].state # "ABSENT"
  <2>1. ~reservations[k].exposed \/ reservations[k].state = "expired"
    BY <1>1, <1>3 DEF ReservationChanged, ReservationKept, Opened, Marked, Expired, Settled
  <2>2. AttemptsOf(k) = {}
    BY <1>1, <2>1 DEF CoverOK
  <2>3. ASSUME NEW v \in WorksOf(k), work[v].state = "LEASED", work'[v].state = "CALLING"
        PROVE  FALSE
    <3>1. reservations[k].state = "reserved" /\ reservations'[k].exposed
      BY <1>1, <2>3 DEF CallExposes, WorksOf
    <3>2. reservations'[k].state # "expired"
      BY <1>1, <3>1 DEF ReservationChanged, ReservationKept, Opened, Marked, Expired, Settled
    <3> QED
      BY <3>1, <3>2
  <2> QED
    BY <1>3, <2>2, <2>3, AttemptsStay
<1> QED
  BY <1>2, <1>3

LEMMA CoverSettled ==
    ASSUME TypeOK, WorkInv, LedgerInv, CoverInv, [Next]_vars, NEW k \in Reservations,
           reservations'[k].state = "settled"
    PROVE  \/ settledAmount'[k] = reservedMaximum'[k]
           \/ /\ \A a \in AttemptsOf(k)' : receipts'[a[1]][a[2]] # None
              /\ settledAmount'[k] = ReceiptTotal(k, receipts)'
<1>1. ReservationChanged(k) /\ CoverOK(k)
  BY StepLedger DEF LedgerChanged, CoverInv
<1>2. CASE Settled(k)
  <2>1. AttemptsOf(k)' = AttemptsOf(k)
    BY <1>2, AttemptsStay DEF Settled, AllEnded, ActiveStates
  <2>2. CASE UnknownUsage(k, receipts')
    BY <1>2, <2>2 DEF Settled
  <2>3. CASE ~UnknownUsage(k, receipts')
    <3>1. settledAmount'[k] = ReceiptTotal(k, receipts')
      BY <1>2, <2>3 DEF Settled
    <3>2. ReceiptTotal(k, receipts)' = ReceiptTotal(k, receipts')
      BY <2>1 DEF ReceiptTotal, KnownUsage
    <3>3. \A a \in AttemptsOf(k) : receipts'[a[1]][a[2]] # None
      BY <2>3 DEF UnknownUsage
    <3> QED
      BY <2>1, <3>1, <3>2, <3>3
  <2> QED
    BY <2>2, <2>3
<1>3. CASE ~Settled(k)
  <2>1. /\ reservations[k].state = "settled"
        /\ settledAmount'[k] = settledAmount[k]
        /\ reservedMaximum'[k] = reservedMaximum[k]
    BY <1>1, <1>3 DEF ReservationChanged, ReservationKept, Opened, Marked, Expired
  <2>2. ASSUME NEW v \in WorksOf(k)
        PROVE  v \in Works /\ work[v].state \notin {"LEASED", "CALLING"}
    BY <2>1 DEF LedgerInv, WorksOf, TerminalStates
  <2>3. AttemptsOf(k)' = AttemptsOf(k)
    BY <2>1, <2>2, AttemptsStay
  <2>4. \A a \in AttemptsOf(k) : receipts'[a[1]] = receipts[a[1]]
    <3> SUFFICES ASSUME NEW a \in AttemptsOf(k) PROVE receipts'[a[1]] = receipts[a[1]]
      OBVIOUS
    <3>1. a[1] \in WorksOf(k)
      BY DEF AttemptsOf
    <3>2. a[1] \in Works /\ work[a[1]].state # "CALLING"
      BY <2>2, <3>1
    <3> QED
      BY <3>2, ReceiptsKept
  <2>5. ReceiptTotal(k, receipts)' = ReceiptTotal(k, receipts)
    <3> DEFINE new == KnownUsage(receipts')
               old == KnownUsage(receipts)
    <3>1. /\ ReceiptTotal(k, receipts)' = Sum(new, AttemptsOf(k))
          /\ ReceiptTotal(k, receipts) = Sum(old, AttemptsOf(k))
      BY <2>3, SumOfIsSum DEF ReceiptTotal, KnownUsage
    <3>2. \A a \in AttemptsOf(k) : new[a] = old[a]
      BY <2>4 DEF KnownUsage, AttemptsOf, WorksOf
    <3>3. IsFiniteSet(AttemptsOf(k))
      BY AttemptsAreFinite
    <3> HIDE DEF new, old
    <3> QED
      BY <3>1, <3>2, <3>3, SameSum
  <2> QED
    BY <1>1, <2>1, <2>3, <2>4, <2>5 DEF CoverOK
<1> QED
  BY <1>2, <1>3

LEMMA CoverInvStep ==
    TypeOK /\ WorkInv /\ LedgerInv /\ CoverInv /\ [Next]_vars => CoverInv'
<1> SUFFICES ASSUME TypeOK, WorkInv, LedgerInv, CoverInv, [Next]_vars, NEW k \in Reservations
             PROVE  CoverOK(k)'
  BY DEF CoverInv
<1> QED
  BY CoverMaximum, CoverExposure, CoverSettled DEF CoverOK

LEMMA BillingInit == Init => BillInv /\ HolderInv /\ CoverInv
<1> SUFFICES ASSUME Init PROVE BillInv /\ HolderInv /\ CoverInv
  OBVIOUS
<1>1. BillInv
  BY DEF Init, BillInv, BillOK
<1>2. HolderInv
  BY DEF Init, Idle, HolderInv
<1>3. CoverInv
  <2> SUFFICES ASSUME NEW k \in Reservations PROVE CoverOK(k)
    BY DEF CoverInv
  <2>1. reservations[k].state = "ABSENT"
    BY DEF Init, NoReservation
  <2>2. AttemptsOf(k) = {}
    BY DEF Init, NoAttempt, AttemptsOf, WorksOf
  <2> QED
    BY <2>1, <2>2 DEF CoverOK
<1> QED
  BY <1>1, <1>2, <1>3

\* All the bills of a reservation are within the cost of all its attempts.
LEMMA BillsAreBounded ==
    ASSUME TypeOK, NEW k \in Reservations
    PROVE  /\ BilledTotal(k) \in Nat
           /\ BilledTotal(k) <= EmbeddingMaximumCost(Cardinality(WorksOf(k)))
<1> DEFINE S == WorksOf(k) \X Numbers
           c == Cardinality(WorksOf(k))
<1>1. IsFiniteSet(S) /\ Cardinality(S) = c * MaxAttempts /\ c \in Nat
  BY AttemptsAreFinite
<1>2. \A a \in S : Bills[a] \in Nat /\ Bills[a] <= CallMax
  <2> SUFFICES ASSUME NEW a \in S PROVE Bills[a] \in Nat /\ Bills[a] <= CallMax
    OBVIOUS
  <2>1. a \in Works \X Numbers
    BY DEF WorksOf
  <2>2. Bills[a] = billed[a[1]][a[2]]
    BY <2>1 DEF Bills
  <2>3. billed[a[1]][a[2]] \in 0..CallMax
    BY <2>1 DEF TypeOK
  <2> QED
    BY <2>2, <2>3, ConstantsOK
<1>3. CallMax \in Nat
  BY ConstantsOK
<1>4. BilledTotal(k) = Sum(Bills, S)
  BY SumOfIsSum DEF BilledTotal
<1> HIDE DEF S
<1>5. Sum(Bills, S) \in Nat
  BY <1>1, <1>2, SumIsNumber
<1>6. Sum(Bills, S) <= Cardinality(S) * CallMax
  BY <1>1, <1>2, <1>3, SumIsBounded
<1> QED
  BY <1>1, <1>4, <1>5, <1>6 DEF EmbeddingMaximumCost

\* Where no attempt has begun, nothing is billed.
LEMMA NoAttemptsNoBills ==
    ASSUME TypeOK, BillInv, NEW k \in Reservations, AttemptsOf(k) = {}
    PROVE  BilledTotal(k) = 0
<1> DEFINE S == WorksOf(k) \X Numbers
<1>1. \A a \in S : Bills[a] = 0
  <2> SUFFICES ASSUME NEW a \in S PROVE Bills[a] = 0
    OBVIOUS
  <2>1. a[1] \in Works /\ a[2] \in Numbers /\ a \in Works \X Numbers
    BY DEF WorksOf
  <2>2. attempts[a[1]][a[2]].outcome = "ABSENT"
    BY DEF AttemptsOf
  <2>3. billed[a[1]][a[2]] = 0
    BY <2>1, <2>2 DEF BillInv, BillOK
  <2> QED
    BY <2>1, <2>3 DEF Bills
<1>2. IsFiniteSet(S)
  BY AttemptsAreFinite
<1>3. BilledTotal(k) = Sum(Bills, S)
  BY SumOfIsSum DEF BilledTotal
<1> HIDE DEF S
<1> QED
  BY <1>1, <1>2, <1>3, SumOfZeros

\* Where every attempt has a receipt, the receipts cover the bills.
LEMMA ReceiptsCoverBills ==
    ASSUME TypeOK, BillInv, NEW k \in Reservations,
           \A a \in AttemptsOf(k) : receipts[a[1]][a[2]] # None
    PROVE  BilledTotal(k) <= ReceiptTotal(k, receipts)
<1> DEFINE S == WorksOf(k) \X Numbers
           T == AttemptsOf(k)
           usage == KnownUsage(receipts)
<1>1. /\ IsFiniteSet(S)
      /\ IsFiniteSet(T)
      /\ T \subseteq S
  BY AttemptsAreFinite
<1>2. IsFiniteSet(S \ T)
  BY <1>1, FS_Subset
<1>3. \A a \in S : /\ Bills[a] = billed[a[1]][a[2]]
                   /\ Bills[a] \in Nat
                   /\ usage[a] \in Nat
  <2> SUFFICES ASSUME NEW a \in S
               PROVE  /\ Bills[a] = billed[a[1]][a[2]]
                      /\ Bills[a] \in Nat
                      /\ usage[a] \in Nat
    OBVIOUS
  <2>1. a \in Works \X Numbers
    BY DEF WorksOf
  <2>2. Bills[a] = billed[a[1]][a[2]]
    BY <2>1 DEF Bills
  <2>3. billed[a[1]][a[2]] \in 0..CallMax
    BY <2>1 DEF TypeOK
  <2>4. usage[a] \in 0..CallMax
    BY <2>1, UsageIsNumber DEF TypeOK
  <2> QED
    BY <2>2, <2>3, <2>4, ConstantsOK
<1>4. \A a \in S \ T : Bills[a] = 0
  <2> SUFFICES ASSUME NEW a \in S \ T PROVE Bills[a] = 0
    OBVIOUS
  <2>1. a[1] \in Works /\ a[2] \in Numbers
    BY DEF WorksOf
  <2>2. attempts[a[1]][a[2]].outcome = "ABSENT"
    BY DEF AttemptsOf
  <2> QED
    BY <1>3, <2>1, <2>2 DEF BillInv, BillOK
<1>5. \A a \in T : Bills[a] <= usage[a]
  <2> SUFFICES ASSUME NEW a \in T PROVE Bills[a] <= usage[a]
    OBVIOUS
  <2>1. a \in S /\ a[1] \in Works /\ a[2] \in Numbers /\ a \in Works \X Numbers
    BY DEF AttemptsOf, WorksOf
  <2>2. billed[a[1]][a[2]] <= receipts[a[1]][a[2]]
    BY <2>1 DEF BillInv, BillOK
  <2>3. usage[a] = receipts[a[1]][a[2]]
    BY <2>1 DEF KnownUsage
  <2> QED
    BY <1>3, <2>1, <2>2, <2>3
<1>6. BilledTotal(k) = Sum(Bills, S) /\ ReceiptTotal(k, receipts) = Sum(usage, T)
  BY SumOfIsSum DEF BilledTotal, ReceiptTotal
<1> HIDE DEF S, T, usage
<1>7. Sum(Bills, S) = Sum(Bills, T) + Sum(Bills, S \ T)
  <2>1. S = T \cup (S \ T) /\ T \cap (S \ T) = {}
    BY <1>1
  <2> QED
    BY <1>1, <1>2, <1>3, <2>1, SumOfUnion
<1>8. Sum(Bills, S \ T) = 0
  BY <1>2, <1>4, SumOfZeros
<1>9. Sum(Bills, T) <= Sum(usage, T)
  BY <1>1, <1>3, <1>5, SumIsMonotone
<1>10. Sum(Bills, T) \in Nat /\ Sum(usage, T) \in Nat
  BY <1>1, <1>3, SumIsNumber
<1> QED
  BY <1>6, <1>7, <1>8, <1>9, <1>10

\* The receipts of a reservation are within the cost of all its attempts.
LEMMA ReceiptsAreBounded ==
    ASSUME TypeOK, NEW k \in Reservations
    PROVE  ReceiptTotal(k, receipts) <= EmbeddingMaximumCost(Cardinality(WorksOf(k)))
<1> DEFINE S == WorksOf(k) \X Numbers
           T == AttemptsOf(k)
           c == Cardinality(WorksOf(k))
           usage == KnownUsage(receipts)
<1>1. /\ IsFiniteSet(S)
      /\ Cardinality(S) = c * MaxAttempts
      /\ c \in Nat
      /\ T \in SUBSET S
  BY AttemptsAreFinite
<1>2. \A a \in S : usage[a] \in Nat /\ usage[a] <= CallMax
  <2> SUFFICES ASSUME NEW a \in S PROVE usage[a] \in Nat /\ usage[a] <= CallMax
    OBVIOUS
  <2>1. a \in Works \X Numbers
    BY DEF WorksOf
  <2>2. usage[a] \in 0..CallMax
    BY <2>1, UsageIsNumber DEF TypeOK
  <2> QED
    BY <2>2, ConstantsOK
<1>3. ReceiptTotal(k, receipts) = Sum(usage, T)
  BY SumOfIsSum DEF ReceiptTotal
<1>4. CallMax \in Nat
  BY ConstantsOK
<1> HIDE DEF S, T, usage
<1>5. Sum(usage, T) <= Sum(usage, S)
  BY <1>1, <1>2, SumOfPart
<1>6. Sum(usage, S) <= Cardinality(S) * CallMax
  BY <1>1, <1>2, <1>4, SumIsBounded
<1>7. Sum(usage, T) \in Nat /\ Sum(usage, S) \in Nat
  <2>1. IsFiniteSet(T) /\ \A a \in T : usage[a] \in Nat
    BY <1>1, <1>2, FS_Subset
  <2> QED
    BY <1>1, <1>2, <2>1, SumIsNumber
<1>8. Cardinality(S) * CallMax \in Nat
  <2>1. Cardinality(S) \in Nat
    BY <1>1, FS_CardinalityType
  <2> QED
    BY <1>4, <2>1
<1> QED
  BY <1>1, <1>3, <1>5, <1>6, <1>7, <1>8 DEF EmbeddingMaximumCost

LEMMA BillsAreCovered ==
    ASSUME TypeOK, LedgerInv, BillInv, CoverInv, NEW k \in Reservations
    PROVE  BilledTotal(k) <= CommittedAmount(k) /\ ReceiptTotal(k, receipts) <= reservedMaximum[k]
<1>1. CoverOK(k) /\ reservedMaximum[k] \in Nat /\ reservations[k] \in Reservation
  BY DEF CoverInv, TypeOK
<1>2. CASE reservations[k].state = "ABSENT"
  <2>1. WorksOf(k) = {}
    BY <1>2 DEF LedgerInv
  <2>2. AttemptsOf(k) = {}
    BY <2>1 DEF AttemptsOf
  <2>3. BilledTotal(k) = 0 /\ CommittedAmount(k) = 0
    BY <1>2, <2>2, NoAttemptsNoBills DEF CommittedAmount
  <2>4. ReceiptTotal(k, receipts) = 0
    BY <2>2, SumOfIsSum, SumOfNothing DEF ReceiptTotal
  <2> QED
    BY <1>1, <2>3, <2>4
<1>3. CASE reservations[k].state # "ABSENT"
  <2>1. reservedMaximum[k] = EmbeddingMaximumCost(Cardinality(WorksOf(k)))
    BY <1>1, <1>3 DEF CoverOK
  <2>2. /\ ReceiptTotal(k, receipts) <= reservedMaximum[k]
        /\ BilledTotal(k) <= reservedMaximum[k]
    BY <2>1, BillsAreBounded, ReceiptsAreBounded
  <2>3. BilledTotal(k) <= CommittedAmount(k)
    <3>1. CASE reservations[k].state = "settled"
      BY <1>1, <2>2, <3>1, ReceiptsCoverBills DEF CoverOK, CommittedAmount
    <3>2. CASE reservations[k].state # "settled" /\ AttemptsOf(k) = {}
      BY <1>1, <3>2, NoAttemptsNoBills DEF CommittedAmount
    <3>3. CASE reservations[k].state # "settled" /\ AttemptsOf(k) # {}
      <4>1. reservations[k].exposed /\ reservations[k].state = "reserved"
        BY <1>1, <1>3, <3>3 DEF CoverOK, Reservation
      <4> QED
        BY <2>2, <4>1 DEF CommittedAmount
    <3> QED
      BY <3>1, <3>2, <3>3
  <2> QED
    BY <2>2, <2>3
<1> QED
  BY <1>2, <1>3

(* Money: whatever a provider charged for the works of a reservation, for  *)
(* calls whose answer was lost, that came without usage, or that ended     *)
(* after the reservation was settled, is counted against the budget; and   *)
(* no settlement exceeds what was reserved, for any number of works,       *)
(* attempts and slots.                                                     *)
THEOREM BillsNeverEscape == Spec => []ReservationsSuffice
<1>1. Init => BillInv /\ HolderInv /\ CoverInv
  BY BillingInit
<1>2. /\ TypeOK /\ WorkInv /\ LedgerInv /\ SlotInv
      /\ BillInv /\ HolderInv /\ CoverInv
      /\ [Next]_vars
      => BillInv' /\ HolderInv' /\ CoverInv'
  BY BillInvStep, HolderInvStep, CoverInvStep
<1>3. TypeOK /\ LedgerInv /\ BillInv /\ CoverInv => ReservationsSuffice
  BY BillsAreCovered DEF ReservationsSuffice, LedgerCoversBills, SettlementFits
<1> QED
  BY <1>1, <1>2, <1>3, TypeCorrect, WorkInvHolds, LedgerInvHolds, SlotInvHolds, PTL DEF Spec

-----------------------------------------------------------------------------
(* Generations *)

\* A work that lives after a step lived before it, or is one of the works
\* for which the step opened a reservation.
LEMMA LivesOn ==
    ASSUME TypeOK, WorkInv, [Next]_vars, NEW v \in Works,
           work'[v].state \in RetryBlockingStates, work[v].state # "ABSENT"
    PROVE  work[v].state \in RetryBlockingStates /\ Twins(work'[v], work[v])
<1>1. WorkChanged(v)
  BY StepChanges
<1>2. work[v].state \in RetryBlockingStates
  BY <1>1 DEF WorkChanged, Changed, Kept, Timed, Created, Claimed, Begun, Returned, Finished,
              RetryBlockingStates, ActiveStates
<1>3. Twins(work'[v], work[v])
  BY <1>1 DEF WorkChanged, Changed, Kept, Timed, Created, Claimed, Begun, Returned, Finished,
              SameIdentity, Twins
<1> QED
  BY <1>2, <1>3

LEMMA NewHasNoTwin ==
    ASSUME TypeOK, WorkInv, LedgerInv, [Next]_vars, NEW v \in Works, NEW w \in Works, v # w,
           work[v].state = "ABSENT", work'[v].state # "ABSENT",
           work'[w].state \in RetryBlockingStates
    PROVE  ~Twins(work'[v], work'[w])
<1> DEFINE k == work'[v].reservation
<1>1. LedgerChanged
  BY StepLedger
<1>2. k \in Reservations
  <2>1. WorkInv'
    BY WorkInvStep
  <2> QED
    BY <2>1 DEF WorkInv, RowInv
<1>3. reservations[k].state = "ABSENT" /\ reservations'[k].state = "reserved"
  BY <1>1 DEF LedgerChanged, NewWorkOpens
<1>4. Opened(k)
  BY <1>1, <1>2, <1>3 DEF LedgerChanged, ReservationChanged, ReservationKept, Marked, Expired,
                          Settled
<1>5. v \notin WorksOf(k)
  BY <1>2, <1>3 DEF LedgerInv
<1> QED
  BY <1>4, <1>5 DEF Opened, WorksOf

LEMMA GenerationStep ==
    TypeOK /\ WorkInv /\ LedgerInv /\ OneLiveGeneration /\ [Next]_vars => OneLiveGeneration'
<1> SUFFICES ASSUME TypeOK, WorkInv, LedgerInv, OneLiveGeneration, [Next]_vars,
                    NEW v \in Works, NEW w \in Works, v # w,
                    work'[v].state \in RetryBlockingStates,
                    work'[w].state \in RetryBlockingStates
             PROVE  ~Twins(work'[v], work'[w])
  BY DEF OneLiveGeneration, Twins, RetryBlockingStates
<1>1. work'[v].state # "ABSENT" /\ work'[w].state # "ABSENT"
  BY DEF RetryBlockingStates, ActiveStates
<1>2. CASE work[v].state = "ABSENT"
  BY <1>1, <1>2, NewHasNoTwin
<1>3. CASE work[w].state = "ABSENT"
  <2>1. ~Twins(work'[w], work'[v])
    BY <1>1, <1>3, NewHasNoTwin
  <2> QED
    BY <2>1 DEF Twins
<1>4. CASE work[v].state # "ABSENT" /\ work[w].state # "ABSENT"
  <2>1. /\ work[v].state \in RetryBlockingStates
        /\ work[w].state \in RetryBlockingStates
        /\ Twins(work'[v], work[v])
        /\ Twins(work'[w], work[w])
    BY <1>4, LivesOn
  <2>2. ~Twins(work[v], work[w])
    BY <2>1 DEF OneLiveGeneration, Twins, RetryBlockingStates
  <2> QED
    BY <2>1, <2>2 DEF Twins
<1> QED
  BY <1>2, <1>3, <1>4

(* However the user's command, its retries and the worker's scan for       *)
(* missing works interleave, no two works ever embed the same revision     *)
(* under the same configuration and epoch while both are active or         *)
(* published: the partial unique index is never what stops an insert.      *)
THEOREM GenerationsAreUnique == Spec => []OneLiveGeneration
<1>1. Init => OneLiveGeneration
  BY DEF Init, NoWork, OneLiveGeneration, ActiveStates
<1>2. TypeOK /\ WorkInv /\ LedgerInv /\ OneLiveGeneration /\ [Next]_vars => OneLiveGeneration'
  BY GenerationStep
<1> QED
  BY <1>1, <1>2, TypeCorrect, WorkInvHolds, LedgerInvHolds, PTL DEF Spec

=============================================================================

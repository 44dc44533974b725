------------------------------ MODULE Answers ------------------------------
(***************************************************************************)
(* Grounded answers of one owner: what the API admits, what a worker's     *)
(* sweep starts, completes, ends and erases, and what a reader is told.    *)
(*                                                                         *)
(* One action is one committed transaction, or one step of a worker        *)
(* outside a transaction.  Every transaction locks the owner's consent row *)
(* first, so the transactions of one owner are serial.  AnswerPromise says *)
(* what all of this is for.                                                *)
(***************************************************************************)
EXTENDS Integers, FiniteSets

CONSTANTS
    Requests,     \* request ids, chosen by the browser
    Slots,        \* calls of AnswersService.process under way in all workers
    Materials,    \* materials of the owner
    Configs,      \* fingerprints of approved answer policies
    RequestMax,   \* requestMaximum: what one request reserves
    Bills,        \* amounts the provider may charge for a call
    MaxRevision,  \* bound: revisions per material
    MaxEpoch,     \* bound: consent epochs
    None          \* SQL null

\* Why a request ended without an answer, or lost it.
Reasons == {"consent_changed", "evidence_changed", "reservation_expired", "expired",
            "invalid_response", "provider_failed", "unknown_outcome"}

ASSUME AnswersConstantsOK ==
    /\ IsFiniteSet(Slots)
    /\ RequestMax \in Nat \ {0}
    /\ Bills \subseteq Nat
    /\ MaxRevision \in Nat \ {0}
    /\ MaxEpoch \in Nat \ {0}
    /\ None \notin Nat \cup Requests \cup Materials \cup Configs \cup Reasons

VARIABLES
    consent,      \* usage_answer_consents
    current,      \* current revision of each material, 0 once deleted
    request,      \* answer_requests
    attempts,     \* answer_call_attempts: request, then the slot that drew it
    reservation,  \* usage_embedding_reservations of these requests
    slot,         \* local variables of AnswersService.process
    billed        \* what the provider charged for the request's row

rows == <<request, attempts, reservation>>
vars == <<consent, current, rows, slot, billed>>

-----------------------------------------------------------------------------
(* Rows *)

Active == {"RESERVED", "RUNNING"}
Stored == {"PUBLISHED", "NO_ANSWER"}
Refused == {"FAILED", "EXPIRED", "INVALIDATED"}
Terminal == Stored \cup Refused

\* Where a text comes from, and the permission under which it may be sent.
Origin ==
    [material: Materials, revision: 1..MaxRevision, epoch: 1..MaxEpoch, config: Configs]

Request ==
    [state: {"absent"} \cup Terminal \cup Active,
     origin: Origin \cup {None},  \* of its evidence; material, revision, epoch, config
     sources: SUBSET Origin,      \* of everything its question and evidence send
     question: BOOLEAN,           \* question is not null
     evidence: BOOLEAN,           \* evidence is not empty
     claims: BOOLEAN,             \* claims is not null
     failure: Reasons \cup {None},
     live: BOOLEAN,               \* expires_at is in the future
     kept: BOOLEAN,               \* answer_expires_at is in the future, not null
     deduped: BOOLEAN]            \* dedupe_expires_at is in the future

NoRequest ==
    [state |-> "absent", origin |-> None, sources |-> {}, question |-> FALSE,
     evidence |-> FALSE, claims |-> FALSE, failure |-> None, live |-> FALSE,
     kept |-> FALSE, deduped |-> FALSE]

Reservation ==
    [state: {"absent", "reserved", "settled", "released"},
     live: BOOLEAN,      \* expires_at is in the future
     exposed: BOOLEAN,   \* exposure_started_at is set
     settled: Nat,       \* settled_amount, 0 for null
     aged: BOOLEAN]      \* completed_at is more than 90 days ago

NoReservation ==
    [state |-> "absent", live |-> FALSE, exposed |-> FALSE, settled |-> 0, aged |-> FALSE]

Outcomes == {"SUCCEEDED", "FAILED", "UNKNOWN"}

\* What generate() comes back with; rejected is a candidate complete() refuses.
Results == {"claims", "insufficient", "rejected", "provider_failed", "unknown_outcome"}
Candidates == {"claims", "insufficient", "rejected"}

Slot ==
    [step: {"idle", "calling", "returned"},
     request: Requests \cup {None},
     config: Configs \cup {None},   \* the configuration of its process
     bill: Nat]                     \* what the call was charged

IdleSlot ==
    [step |-> "idle", request |-> None, config |-> None, bill |-> 0]

Revisions == 0..MaxRevision

TypeOK ==
    /\ consent \in [granted: BOOLEAN, epoch: 0..MaxEpoch, config: Configs \cup {None}]
    /\ current \in [Materials -> Revisions]
    /\ request \in [Requests -> Request]
    /\ attempts \in [Requests -> [Slots -> {"none", "STARTED"} \cup Outcomes]]
    /\ reservation \in [Requests -> Reservation]
    /\ \A r \in Requests : reservation[r].settled <= RequestMax
    /\ slot \in [Slots -> Slot]
    /\ billed \in [Requests -> Nat]

Init ==
    /\ consent = [granted |-> FALSE, epoch |-> 0, config |-> None]
    /\ current = [m \in Materials |-> 1]
    /\ request = [r \in Requests |-> NoRequest]
    /\ attempts = [r \in Requests |-> [s \in Slots |-> "none"]]
    /\ reservation = [r \in Requests |-> NoReservation]
    /\ slot = [s \in Slots |-> IdleSlot]
    /\ billed = [r \in Requests |-> 0]

-----------------------------------------------------------------------------
(* Fences *)

Consented(origin, config) ==
    /\ consent.granted
    /\ consent.epoch = origin.epoch
    /\ consent.config = origin.config
    /\ config = origin.config

RevisionStands(r) == current[request[r].origin.material] = request[r].origin.revision

EvidenceStands(r) == request[r].evidence /\ RevisionStands(r)

\* fences(): why a worker of this configuration may not go on, None if it may.
FenceFailure(r, config) ==
    IF ~Consented(request[r].origin, config) THEN "consent_changed"
    ELSE IF ~EvidenceStands(r) THEN "evidence_changed"
    ELSE IF ~reservation[r].live THEN "reservation_expired"
    ELSE None

-----------------------------------------------------------------------------
(* The owner: consent and materials *)

Grant(config) ==
    /\ consent.epoch < MaxEpoch
    /\ ~(consent.granted /\ consent.config = config)
    /\ consent' = [granted |-> TRUE, epoch |-> consent.epoch + 1, config |-> config]
    /\ UNCHANGED <<current, rows, slot, billed>>

Revoke ==
    /\ consent.epoch < MaxEpoch
    /\ consent.granted
    /\ consent' = [consent EXCEPT !.granted = FALSE, !.epoch = @ + 1]
    /\ UNCHANGED <<current, rows, slot, billed>>

\* External: the materials component stores a new revision, or deletes.
EditMaterial(m) ==
    /\ current[m] \in 1..(MaxRevision - 1)
    /\ current' = [current EXCEPT ![m] = @ + 1]
    /\ UNCHANGED <<consent, rows, slot, billed>>

DeleteMaterial(m) ==
    /\ current[m] # 0
    /\ current' = [current EXCEPT ![m] = 0]
    /\ UNCHANGED <<consent, rows, slot, billed>>

-----------------------------------------------------------------------------
(* The API *)

\* The revision of the earlier answer is not compared.
UsableTurnOfAnyRevision(h, origin) ==
    /\ request[h].state = "PUBLISHED"
    /\ request[h].kept
    /\ request[h].evidence
    /\ request[h].origin.material = origin.material
    /\ request[h].origin.epoch = origin.epoch
    /\ request[h].origin.config = origin.config

(* An earlier answer whose claims the question may repeat.                 *)
UsableTurn(h, origin) ==
    /\ request[h].state = "PUBLISHED"
    /\ request[h].kept
    /\ request[h].evidence
    /\ request[h].origin = origin

(* A request id that is known already changes nothing, whatever it asks.   *)
Generate(r, config, m, history) ==
    LET origin == [material |-> m, revision |-> current[m],
                   epoch |-> consent.epoch, config |-> config]
    IN  /\ request[r].state = "absent"
        /\ consent.granted
        /\ consent.config = config
        /\ current[m] # 0
        /\ \A h \in history : UsableTurn(h, origin)
        /\ request' = [request EXCEPT ![r] =
               [NoRequest EXCEPT !.state = "RESERVED", !.origin = origin,
                   !.sources = {origin} \cup {request[h].origin : h \in history},
                   !.question = TRUE, !.evidence = TRUE, !.live = TRUE, !.deduped = TRUE]]
        /\ reservation' = [reservation EXCEPT ![r] =
               [NoReservation EXCEPT !.state = "reserved", !.live = TRUE]]
        /\ UNCHANGED <<consent, current, attempts, slot, billed>>

Overdue(r) ==
    \/ request[r].state \in Stored /\ ~request[r].kept
    \/ request[r].state \in Active /\ ~request[r].live

\* A cleared answer is not told from one without citations.
ReportOfClearedRow(r, config) ==
    LET state == request[r].state
    IN  IF state = "absent" THEN "absent"
        ELSE IF ~Consented(request[r].origin, config) THEN "INVALIDATED"
        ELSE IF Overdue(r) THEN "EXPIRED"
        ELSE IF state \in Stored \cup Active /\ request[r].evidence /\ ~RevisionStands(r)
        THEN "INVALIDATED"
        ELSE state

(* The state read() reports through a process of this configuration; it    *)
(* changes no row.                                                         *)
Report(r, config) ==
    LET state == request[r].state
    IN  IF state = "absent" THEN "absent"
        ELSE IF state \in Stored /\ ~request[r].evidence
        THEN IF request[r].failure = "expired" THEN "EXPIRED" ELSE "INVALIDATED"
        ELSE IF ~Consented(request[r].origin, config) THEN "INVALIDATED"
        ELSE IF Overdue(r) THEN "EXPIRED"
        ELSE IF state \in Stored \cup Active /\ request[r].evidence /\ ~RevisionStands(r)
        THEN "INVALIDATED"
        ELSE state

-----------------------------------------------------------------------------
(* The worker: starting and completing a call *)

\* A request that is running is started again.
StartAgain(s, r, config) ==
    /\ slot[s].step = "idle"
    /\ request[r].state \in Active
    /\ request[r].live
    /\ FenceFailure(r, config) = None
    /\ reservation[r].state = "reserved"
    /\ request' = [request EXCEPT ![r].state = "RUNNING"]
    /\ attempts' = [attempts EXCEPT ![r][s] = "STARTED"]
    /\ reservation' = [reservation EXCEPT ![r].exposed = TRUE]
    /\ slot' = [slot EXCEPT ![s] =
           [IdleSlot EXCEPT !.step = "calling", !.request = r, !.config = config]]
    /\ UNCHANGED <<consent, current, billed>>

(* start() of a reserved request.  A deadline that passes before expose()  *)
(* throws and rolls everything back, as expose() does unless the           *)
(* reservation is still open.                                              *)
Start(s, r, config) ==
    /\ slot[s].step = "idle"
    /\ request[r].state = "RESERVED"
    /\ request[r].live
    /\ FenceFailure(r, config) = None
    /\ reservation[r].state = "reserved"
    /\ request' = [request EXCEPT ![r].state = "RUNNING"]
    /\ attempts' = [attempts EXCEPT ![r][s] = "STARTED"]
    /\ reservation' = [reservation EXCEPT ![r].exposed = TRUE]
    /\ slot' = [slot EXCEPT ![s] =
           [IdleSlot EXCEPT !.step = "calling", !.request = r, !.config = config]]
    /\ UNCHANGED <<consent, current, billed>>

(* External: the provider answers, or does not; it may charge either way.  *)
Call(s, bill) ==
    LET r == slot[s].request
    IN  /\ slot[s].step = "calling"
        /\ slot' = [slot EXCEPT ![s] = [@ EXCEPT !.step = "returned", !.bill = bill]]
        /\ billed' = [billed EXCEPT ![r] = IF attempts[r][s] = "none" THEN @ ELSE @ + bill]
        /\ UNCHANGED <<consent, current, rows>>

\* Without reported usage nothing is charged.
PriceOfReport(r, usage) ==
    IF reservation[r].exposed /\ usage # None /\ usage <= RequestMax THEN usage ELSE 0

(* settle(): the reported price if it fits, the maximum if a call may have *)
(* happened, nothing otherwise.                                            *)
Price(r, usage) ==
    IF ~reservation[r].exposed THEN 0
    ELSE IF usage # None /\ usage <= RequestMax THEN usage ELSE RequestMax

\* A request that never started is settled like one that may have been called.
SettleUnexposed(r, usage) ==
    reservation' =
        IF reservation[r].state # "reserved" THEN reservation
        ELSE [reservation EXCEPT ![r] = [@ EXCEPT
                  !.state = "settled",
                  !.settled = IF usage # None /\ usage <= RequestMax
                              THEN usage ELSE RequestMax]]

Settle(r, usage) ==
    reservation' =
        IF reservation[r].state # "reserved" THEN reservation
        ELSE [reservation EXCEPT ![r] = [@ EXCEPT
                  !.state = IF reservation[r].exposed THEN "settled" ELSE "released",
                  !.settled = Price(r, usage)]]

\* finish() leaves the question of a refused request in the row.
FinishKeepingQuestion(r, state, failure, outcome) ==
    /\ request' = [request EXCEPT ![r] = [@ EXCEPT
           !.state = state, !.failure = failure, !.question = state \notin Stored,
           !.claims = state = "PUBLISHED", !.kept = state \in Stored]]
    /\ attempts' = [attempts EXCEPT ![r] = [s \in Slots |->
           IF attempts[r][s] = "STARTED" THEN outcome ELSE attempts[r][s]]]

(* finish(): the terminal state of an active request.                      *)
Finish(r, state, failure, outcome) ==
    /\ request' = [request EXCEPT ![r] = [@ EXCEPT
           !.state = state, !.failure = failure, !.question = FALSE, !.sources = {},
           !.claims = state = "PUBLISHED", !.kept = state \in Stored]]
    /\ attempts' = [attempts EXCEPT ![r] = [s \in Slots |->
           IF attempts[r][s] = "STARTED" THEN outcome ELSE attempts[r][s]]]

OutcomeOf(result) ==
    IF result \in Candidates THEN "SUCCEEDED"
    ELSE IF result = "unknown_outcome" THEN "UNKNOWN" ELSE "FAILED"

\* The state a result leads to once its fences have been evaluated.
StateOf(r, result, fence) ==
    IF ~request[r].live THEN "EXPIRED"
    ELSE IF fence # None THEN "INVALIDATED"
    ELSE IF result = "claims" THEN "PUBLISHED"
    ELSE IF result = "insufficient" THEN "NO_ANSWER" ELSE "FAILED"

ReasonOf(r, result, fence) ==
    IF ~request[r].live THEN "expired"
    ELSE IF fence # None THEN fence
    ELSE IF result \in {"claims", "insufficient"} THEN None
    ELSE IF result = "rejected" THEN "invalid_response" ELSE result

(* The usage that generate() reports is what the provider charged; what it *)
(* does not understand it reports without.                                 *)
Reported(s, result) ==
    IF result = "unknown_outcome" THEN {None} ELSE {None, slot[s].bill}

\* The result is published because the request is running, whatever changed.
CompleteUnfenced(s, result) ==
    LET r == slot[s].request
    IN  /\ slot[s].step = "returned"
        /\ request[r].state = "RUNNING"
        /\ attempts[r][s] = "STARTED"
        /\ Finish(r, StateOf(r, result, None), ReasonOf(r, result, None), OutcomeOf(result))
        /\ \E usage \in Reported(s, result) : Settle(r, usage)
        /\ slot' = [slot EXCEPT ![s] = IdleSlot]
        /\ UNCHANGED <<consent, current, billed>>

(* complete(): the fences are evaluated again under the locks.             *)
Complete(s, result) ==
    LET r == slot[s].request
        fence == FenceFailure(r, slot[s].config)
    IN  /\ slot[s].step = "returned"
        /\ request[r].state = "RUNNING"
        /\ attempts[r][s] = "STARTED"
        /\ Finish(r, StateOf(r, result, fence), ReasonOf(r, result, fence), OutcomeOf(result))
        /\ \E usage \in Reported(s, result) : Settle(r, usage)
        /\ slot' = [slot EXCEPT ![s] = IdleSlot]
        /\ UNCHANGED <<consent, current, billed>>

\* complete() of a request that somebody else has ended, or that is gone.
CompleteTooLate(s) ==
    LET r == slot[s].request
    IN  /\ slot[s].step = "returned"
        /\ ~(request[r].state = "RUNNING" /\ attempts[r][s] = "STARTED")
        /\ slot' = [slot EXCEPT ![s] = IdleSlot]
        /\ UNCHANGED <<consent, current, rows, billed>>

(* A crash, or a publishing transaction that fails: the call is not        *)
(* repeated and the row is left to the sweep.                              *)
Abandon(s) ==
    /\ slot[s].step # "idle"
    /\ slot' = [slot EXCEPT ![s] = IdleSlot]
    /\ UNCHANGED <<consent, current, rows, billed>>

-----------------------------------------------------------------------------
(* The worker: ending and erasing, branches of start() *)

\* The reservation is left open.
EndWithoutSettlement(r, config) ==
    LET fence == FenceFailure(r, config)
    IN  /\ request[r].state \in Active
        /\ ~request[r].live \/ fence # None
        /\ Finish(r,
               IF ~request[r].live \/ fence = "reservation_expired"
               THEN "EXPIRED" ELSE "INVALIDATED",
               IF fence # None THEN fence ELSE "expired",
               "UNKNOWN")
        /\ UNCHANGED <<consent, current, reservation, slot, billed>>

(* Nobody has to be on it: a request that may not go on is ended at once.  *)
End(r, config) ==
    LET fence == FenceFailure(r, config)
    IN  /\ request[r].state \in Active
        /\ ~request[r].live \/ fence # None
        /\ Finish(r,
               IF ~request[r].live \/ fence = "reservation_expired"
               THEN "EXPIRED" ELSE "INVALIDATED",
               IF fence # None THEN fence ELSE "expired",
               "UNKNOWN")
        /\ Settle(r, None)
        /\ UNCHANGED <<consent, current, slot, billed>>

\* The evidence of a refused request is kept.
MustClearStored(r, config) ==
    /\ request[r].evidence
    /\ \/ request[r].state \in Stored /\ ~request[r].kept
       \/ FenceFailure(r, config) \in {"consent_changed", "evidence_changed"}

(* answer_expires_at is null for a refused request, and not (null > now)   *)
(* in SQL and JavaScript together is true.                                 *)
MustClear(r, config) ==
    /\ request[r].evidence
    /\ \/ ~request[r].kept
       \/ FenceFailure(r, config) \in {"consent_changed", "evidence_changed"}

MayDelete(r) == ~request[r].deduped /\ reservation[r].aged

ClearContent(r, config) ==
    /\ request[r].state \in Terminal
    /\ MustClear(r, config)
    /\ ~MayDelete(r)
    /\ request' = [request EXCEPT ![r] = [@ EXCEPT
           !.question = FALSE, !.claims = FALSE, !.evidence = FALSE,
           !.failure = IF ~request[r].kept THEN "expired" ELSE FenceFailure(r, config)]]
    /\ UNCHANGED <<consent, current, attempts, reservation, slot, billed>>

\* deleteReceipt() of the request, which takes its attempt along, and of its usage.
DeleteReceipt(r) ==
    /\ request[r].state \in Terminal
    /\ MayDelete(r)
    /\ request' = [request EXCEPT ![r] = NoRequest]
    /\ attempts' = [attempts EXCEPT ![r] = [s \in Slots |-> "none"]]
    /\ reservation' = [reservation EXCEPT ![r] = NoReservation]
    /\ billed' = [billed EXCEPT ![r] = 0]
    /\ UNCHANGED <<consent, current, slot>>

-----------------------------------------------------------------------------
(* The database clock *)

ReservationLapses(r) ==
    /\ reservation[r].live
    /\ reservation' = [reservation EXCEPT ![r].live = FALSE]
    /\ UNCHANGED <<consent, current, request, attempts, slot, billed>>

\* expires_at is computed after the reservation's, with the same length.
RequestLapses(r) ==
    /\ request[r].live
    /\ ~reservation[r].live
    /\ request' = [request EXCEPT ![r].live = FALSE]
    /\ UNCHANGED <<consent, current, attempts, reservation, slot, billed>>

AnswerLapses(r) ==
    /\ request[r].kept
    /\ request' = [request EXCEPT ![r].kept = FALSE]
    /\ UNCHANGED <<consent, current, attempts, reservation, slot, billed>>

\* answer_request_retention: the receipt outlives the request and its answer.
ReceiptLapses(r) ==
    /\ request[r].deduped
    /\ ~request[r].live /\ ~request[r].kept
    /\ request' = [request EXCEPT ![r].deduped = FALSE]
    /\ UNCHANGED <<consent, current, attempts, reservation, slot, billed>>

UsageAges(r) ==
    /\ reservation[r].state \in {"settled", "released"}
    /\ ~reservation[r].aged
    /\ reservation' = [reservation EXCEPT ![r].aged = TRUE]
    /\ UNCHANGED <<consent, current, request, attempts, slot, billed>>

-----------------------------------------------------------------------------
Owner ==
    \/ \E config \in Configs : Grant(config)
    \/ Revoke
    \/ \E m \in Materials : EditMaterial(m) \/ DeleteMaterial(m)
    \/ \E r \in Requests, config \in Configs, m \in Materials,
          history \in SUBSET Requests : Generate(r, config, m, history)

Worker(s) ==
    \/ \E r \in Requests, config \in Configs : Start(s, r, config)
    \/ \E bill \in Bills : Call(s, bill)
    \/ \E result \in Results : Complete(s, result)
    \/ CompleteTooLate(s)
    \/ Abandon(s)

(* What a visit of the sweep does to a request nobody has to call for; a   *)
(* worker may be without a policy.                                         *)
Visit(r, config) ==
    \/ End(r, config)
    \/ ClearContent(r, config)
    \/ DeleteReceipt(r)

Clock(r) ==
    \/ ReservationLapses(r)
    \/ RequestLapses(r)
    \/ AnswerLapses(r)
    \/ ReceiptLapses(r)
    \/ UsageAges(r)

Next ==
    \/ Owner
    \/ \E s \in Slots : Worker(s)
    \/ \E r \in Requests, config \in Configs \cup {None} : Visit(r, config)
    \/ \E r \in Requests : Clock(r)

Spec == Init /\ [][Next]_vars

(* At least one worker keeps running, with whatever policy: its scanner    *)
(* runs every 15 seconds and takes the requests visited longest ago, and   *)
(* what a visit has to do stays to be done until a visit has done it.      *)
(* Nothing is assumed of the provider, of a call under way or of the       *)
(* receipts' end, which would erase everything too.                        *)
SweepFairness ==
    /\ \E config \in Configs \cup {None} :
           \A r \in Requests : WF_vars(Visit(r, config))
    /\ \A r \in Requests :
           /\ WF_vars(ReservationLapses(r))
           /\ WF_vars(RequestLapses(r))
           /\ WF_vars(AnswerLapses(r))

FairSpec == Spec /\ SweepFairness

-----------------------------------------------------------------------------
(* Properties *)

(* A request makes at most one call, however often it is visited, and the  *)
(* call is on record, exposed and charged for before it is made.           *)
OneRecordedCall ==
    \A r \in Requests :
        /\ \A s, t \in Slots : attempts[r][s] # "none" /\ attempts[r][t] # "none" => s = t
        /\ \A s \in Slots :
               /\ attempts[r][s] # "none" =>
                      reservation[r].exposed /\ request[r].state # "RESERVED"
               /\ attempts[r][s] = "STARTED" <=>
                      attempts[r][s] # "none" /\ request[r].state = "RUNNING"

(* What the provider charged stays covered by the ledger up to what was    *)
(* reserved, whether the answer came, was lost or came too late.           *)
LedgerCoversBills ==
    \A r \in Requests :
        CASE reservation[r].state = "reserved" -> billed[r] > 0 => reservation[r].exposed
          [] reservation[r].state = "settled" ->
                 billed[r] <= reservation[r].settled \/ reservation[r].settled = RequestMax
          [] OTHER -> billed[r] = 0

(* A request and its reservation end in the same transaction: no open      *)
(* reservation outlives its request and no open request has lost its own.  *)
ClosedTogether ==
    \A r \in Requests :
        /\ request[r].state \in Active <=> reservation[r].state = "reserved"
        /\ request[r].state = "absent" <=> reservation[r].state = "absent"

(* A question and unpublished claims never stay in a row that has ended.   *)
NothingLeftBehind ==
    \A r \in Requests :
        /\ request[r].question => request[r].state \in Active
        /\ request[r].claims => request[r].state = "PUBLISHED" /\ request[r].evidence

(* What a process has once reported as failed, expired or invalidated, no  *)
(* process of its configuration ever shows as an answer, although a call   *)
(* may still be under way and the sweep rewrites the row.                  *)
NeverShownAgain ==
    [][\A r \in Requests, config \in Configs :
           Report(r, config) \in Refused =>
               Report(r, config)' \in Refused \cup {"absent"}]_vars

(* An answer that is shown still has its text and its citations.           *)
ShownIsComplete ==
    \A r \in Requests, config \in Configs :
        Report(r, config) = "PUBLISHED" => request[r].claims /\ request[r].evidence

(* Private text is in a row exactly as long as the row's state has use for *)
(* it: no transaction ends a request and leaves its text, and none erases  *)
(* the text of an answer that is still shown.                              *)
ContentMatchesState == NothingLeftBehind /\ ShownIsComplete

(* Whatever a call sends, the evidence and the claims of earlier answers,  *)
(* is of the current revision and under the consent in force when the call *)
(* is committed.                                                           *)
SendsOnlyPermitted ==
    [][\A r \in Requests :
           request[r].state = "RESERVED" /\ request'[r].state = "RUNNING" =>
               \A origin \in request[r].sources :
                   /\ current[origin.material] = origin.revision
                   /\ consent.granted /\ consent.epoch = origin.epoch
                   /\ consent.config = origin.config]_vars

(* A result is published only while everything that permitted the call     *)
(* still holds.                                                            *)
PublishesOnlyPermitted ==
    [][\A r \in Requests :
           request[r].state # "PUBLISHED" /\ request'[r].state = "PUBLISHED" =>
               /\ consent.granted
               /\ consent.epoch = request[r].origin.epoch
               /\ consent.config = request[r].origin.config
               /\ current[request[r].origin.material] = request[r].origin.revision
               /\ request[r].live]_vars

(* Every question, every citation list and every answer is erased, even if *)
(* the worker died that had the call.                                      *)
EverythingIsErased ==
    \A r \in Requests :
        /\ request[r].question ~> ~request[r].question
        /\ request[r].evidence ~> ~(request[r].evidence \/ request[r].claims)

\* What the owner is told of a request, and what its reservation stands for.
Status(r) ==
    CASE request[r].state = "absent" -> "none"
      [] request[r].state = "RESERVED" -> "open"
      [] request[r].state = "RUNNING" -> "called"
      [] OTHER -> IF Report(r, request[r].origin.config) \in Stored
                  THEN "answered" ELSE "closed"

Charge(r) ==
    CASE reservation[r].state = "reserved" -> RequestMax
      [] reservation[r].state = "settled" -> reservation[r].settled
      [] OTHER -> 0

\* The requests, their calls and their costs are those of the promise.
Promise == INSTANCE AnswerPromise WITH
    status <- [r \in Requests |-> Status(r)],
    charge <- [r \in Requests |-> Charge(r)]

KeepsThePromise == Promise!PromiseSpec

(* ADR 0008: a repeated request is told the reason for which its result    *)
(* failed or was invalidated.  The sweep that erases the evidence of such  *)
(* a request replaces the reason in its row, which read() passes on while  *)
(* the consent stands, by "expired".                                       *)
TerminalReasonReturned ==
    \A r \in Requests, config \in Configs :
        request[r].state \in {"FAILED", "INVALIDATED"} /\ Consented(request[r].origin, config) =>
            request[r].failure # "expired"
=============================================================================

--------------------------- MODULE EmbeddingWork ---------------------------
(***************************************************************************)
(* The life of an embedding work: activation, claim, attempt, provider     *)
(* call, publication, failure, recovery and the settlement of the budget   *)
(* reservation that its works share.                                       *)
(*                                                                         *)
(* One action is one committed PostgreSQL transaction or one step of a     *)
(* claim handler outside a transaction.  Every worker transaction locks    *)
(* consent, material, budget, reservation and work before it reads what it *)
(* decides on, and keeps the locks until it commits, so it is one step.    *)
(*                                                                         *)
(* Clocks are flags: a lease is live or lapsed, a retry is due or not, a   *)
(* reservation is inside or past its deadline.  A flag may turn at any     *)
(* moment, which covers every length of the delays in the code.            *)
(*                                                                         *)
(* A lease token is modelled by the slot that drew it.  A slot works on    *)
(* one claim at a time, so the token a slot remembers is the row's token   *)
(* exactly when the row's token is that slot and the slot is on that row.  *)
(***************************************************************************)
EXTENDS Naturals, FiniteSets, FiniteSetsExt

CONSTANTS
    Works,         \* identities of rows of indexing_embedding_works
    Reservations,  \* identities of rows of the reservation table
    Runners,       \* claim-handler slots: BullMQ concurrency of every process
    Materials,     \* materials of one owner
    Configs,       \* approved embedding configurations (fingerprints)
    ConfigOf,      \* the configuration of the process a slot lives in
    MaxAttempts,   \* embeddingMaxAttempts
    CallMax,       \* the most one provider call for one work can be billed
    MaxRevision,   \* bound: revisions of one material
    MaxEpoch,      \* bound: consent epochs
    None           \* SQL null

ASSUME ConstantsOK ==
    /\ IsFiniteSet(Works)
    /\ ConfigOf \in [Runners -> Configs]
    /\ MaxAttempts \in Nat \ {0}
    /\ CallMax \in Nat \ {0}
    /\ MaxRevision \in Nat
    /\ MaxEpoch \in Nat
    /\ None \notin Runners \cup Reservations \cup Configs

VARIABLES
    consent,         \* the owner's consent row: granted, epoch, config
    current,         \* current revision of each material, 0 once deleted
    work,            \* embedding work rows
    attempts,        \* attempt rows of each work, by attempt number
    receipts,        \* amount on the receipt of each attempt, None if unknown
    reservations,    \* reservation rows
    reservedMaximum, \* their reserved_maximum column
    settledAmount,   \* their settled_amount column
    runner,          \* local state of the claim handlers
    billed           \* what the provider really charged (no row holds this)

ledger == <<reservations, reservedMaximum, settledAmount>>
tables == <<work, attempts, receipts, ledger>>
vars == <<consent, current, tables, runner, billed>>

-----------------------------------------------------------------------------
(* Rows *)

ActiveStates == {"PENDING", "LEASED", "CALLING", "RETRY_WAIT"}
TerminalStates == {"PUBLISHED", "FINAL_FAILED", "OBSOLETE"}
FinishedOutcomes ==
    {"SUCCEEDED", "RETRYABLE_FAILED", "FINAL_FAILED", "UNKNOWN", "OBSOLETE"}
Numbers == 1..MaxAttempts

\* The revision of a material that a work embeds: its embedding intent.
Intents == Materials \X (Nat \ {0})

Work ==
    [state: {"ABSENT"} \cup ActiveStates \cup TerminalStates,
     intent: Intents \cup {None},
     epoch: Nat,
     config: Configs \cup {None},
     reservation: Reservations \cup {None},
     token: Runners \cup {None},
     leaseActive: BOOLEAN,
     due: BOOLEAN,
     attemptCount: 0..MaxAttempts]

NoWork ==
    [state |-> "ABSENT", intent |-> None, epoch |-> 0, config |-> None,
     reservation |-> None, token |-> None, leaseActive |-> FALSE,
     due |-> FALSE, attemptCount |-> 0]

Attempt ==
    [outcome: {"ABSENT", "STARTED"} \cup FinishedOutcomes,
     token: Runners \cup {None}]

NoAttempt == [outcome |-> "ABSENT", token |-> None]

Reservation ==
    [state: {"ABSENT", "reserved", "settled", "expired"},
     live: BOOLEAN,      \* expires_at is in the future
     exposed: BOOLEAN,   \* exposure_started_at is set
     epoch: Nat,
     config: Configs \cup {None}]

NoReservation ==
    [state |-> "ABSENT", live |-> FALSE, exposed |-> FALSE, epoch |-> 0,
     config |-> None]

(* What a claim handler learns from the provider.  "vectors" is a usable  *)
(* result, "unusable" one that completeAttempt refuses; the others are the *)
(* classes of EmbeddingProviderError: not retryable, retryable with a      *)
(* known outcome, retryable with an unknown one.                           *)
Results == {"vectors", "unusable"}
Errors == {"final", "retryable", "unknown"}

Runner ==
    [step: {"idle", "reuse", "start", "input", "call", "record"},
     work: Works \cup {None},
     number: 0..MaxAttempts,
     answer: Results \cup Errors \cup {None},
     tokens: (1..CallMax) \cup {None}]  \* the usage the answer reports

Idle ==
    [step |-> "idle", work |-> None, number |-> 0, answer |-> None,
     tokens |-> None]

TypeOK ==
    /\ consent \in [granted: BOOLEAN, epoch: Nat, config: Configs \cup {None}]
    /\ current \in [Materials -> Nat]
    /\ work \in [Works -> Work]
    /\ attempts \in [Works -> [Numbers -> Attempt]]
    /\ receipts \in [Works -> [Numbers -> (1..CallMax) \cup {None}]]
    /\ reservations \in [Reservations -> Reservation]
    /\ reservedMaximum \in [Reservations -> Nat]
    /\ settledAmount \in [Reservations -> Nat \cup {None}]
    /\ runner \in [Runners -> Runner]
    /\ \A r \in Runners : runner[r].step # "idle" => runner[r].work \in Works
    /\ billed \in [Works -> [Numbers -> 0..CallMax]]

Init ==
    /\ consent = [granted |-> FALSE, epoch |-> 0, config |-> None]
    /\ current = [m \in Materials |-> 1]
    /\ work = [w \in Works |-> NoWork]
    /\ attempts = [w \in Works |-> [n \in Numbers |-> NoAttempt]]
    /\ receipts = [w \in Works |-> [n \in Numbers |-> None]]
    /\ reservations = [k \in Reservations |-> NoReservation]
    /\ reservedMaximum = [k \in Reservations |-> 0]
    /\ settledAmount = [k \in Reservations |-> None]
    /\ runner = [r \in Runners |-> Idle]
    /\ billed = [w \in Works |-> [n \in Numbers |-> 0]]

-----------------------------------------------------------------------------
(* Consent and materials, as the other parts of the API change them *)

CurrentIntents ==
    {<<m, current[m]>> : m \in {l \in Materials : current[l] # 0}}

\* An update that changes the content makes a new revision current.
UpdateMaterial(m) ==
    /\ current[m] \in 1..(MaxRevision - 1)
    /\ current' = [current EXCEPT ![m] = @ + 1]
    /\ UNCHANGED <<consent, tables, runner, billed>>

DeleteMaterial(m) ==
    /\ current[m] # 0
    /\ current' = [current EXCEPT ![m] = 0]
    /\ UNCHANGED <<consent, tables, runner, billed>>

Revoke ==
    /\ consent.granted
    /\ consent.epoch < MaxEpoch
    /\ consent' = [consent EXCEPT !.granted = FALSE, !.epoch = @ + 1]
    /\ UNCHANGED <<current, tables, runner, billed>>

-----------------------------------------------------------------------------
(* Activation: works and the reservation they share *)

EmbeddingMaximumCost(n) == n * MaxAttempts * CallMax

\* A work waiting for its retry does not count as existing.
RetryBlockingStatesWithoutWaiting == (ActiveStates \ {"RETRY_WAIT"}) \cup {"PUBLISHED"}

RetryBlockingStates == ActiveStates \cup {"PUBLISHED"}

ExistingIntents(config, epoch, states) ==
    {work[w].intent : w \in {v \in Works : /\ work[v].config = config
                                           /\ work[v].epoch = epoch
                                           /\ work[v].state \in states}}

\* New work rows ws, and the reservation row k that covers them.
InsertWorks(k, ws, intentOf, config, epoch) ==
    /\ reservations[k].state = "ABSENT"
    /\ reservations' = [reservations EXCEPT ![k] =
           [state |-> "reserved", live |-> TRUE, exposed |-> FALSE,
            epoch |-> epoch, config |-> config]]
    /\ reservedMaximum' =
           [reservedMaximum EXCEPT ![k] = EmbeddingMaximumCost(Cardinality(ws))]
    /\ work' = [w \in Works |->
           IF w \in ws
           THEN [NoWork EXCEPT !.state = "PENDING", !.intent = intentOf[w],
                               !.epoch = epoch, !.config = config,
                               !.reservation = k, !.due = TRUE]
           ELSE work[w]]
    /\ UNCHANGED settledAmount

CreateWorks(intents, config, epoch) ==
    \E k \in Reservations, ws \in SUBSET {w \in Works : work[w].state = "ABSENT"} :
    \E intentOf \in Bijection(ws, intents) : InsertWorks(k, ws, intentOf, config, epoch)

GrantedEpoch(config) ==
    IF consent.granted /\ consent.config = config
    THEN consent.epoch ELSE consent.epoch + 1

(* The user's command: it grants consent and embeds the targets that have  *)
(* no work yet, or, with retryFailed, none that is active or published.    *)
Activate(config, targets, retryFailed) ==
    LET epoch == GrantedEpoch(config)
        blocking == IF retryFailed THEN RetryBlockingStates
                    ELSE ActiveStates \cup TerminalStates
        pending == {<<m, current[m]>> : m \in targets}
                       \ ExistingIntents(config, epoch, blocking)
    IN  /\ \A m \in targets : current[m] # 0
        /\ retryFailed => targets # {}
        /\ epoch <= MaxEpoch
        /\ consent' = [granted |-> TRUE, epoch |-> epoch, config |-> config]
        /\ \/ pending = {} /\ UNCHANGED <<work, ledger>>
           \/ pending # {} /\ CreateWorks(pending, config, epoch)
        /\ UNCHANGED <<current, attempts, receipts, runner, billed>>

RunningConfigs == {ConfigOf[r] : r \in Runners}

(* The worker's scan under a consent that is already granted.  `granted`   *)
(* implies that the activation row carries the same epoch, because only    *)
(* Activate grants and it writes both rows.                                *)
ActivateMissing(config, targets) ==
    LET pending == {<<m, current[m]>> : m \in targets}
            \ ExistingIntents(config, consent.epoch, ActiveStates \cup TerminalStates)
    IN  /\ config \in RunningConfigs
        /\ consent.granted
        /\ consent.config = config
        /\ \A m \in targets : current[m] # 0
        /\ pending # {}
        /\ CreateWorks(pending, config, consent.epoch)
        /\ UNCHANGED <<consent, current, attempts, receipts, runner, billed>>

-----------------------------------------------------------------------------
(* Fences and the shared closing steps of a worker transaction *)

ConsentHolds(w) ==
    /\ consent.granted
    /\ consent.epoch = work[w].epoch
    /\ consent.config = work[w].config

ReservationActive(k) == reservations[k].state = "reserved" /\ reservations[k].live

(* embeddingFenceFailure(), seen from a process with this configuration.   *)
(* rejectFence() tells the failures of a work that must not run any more   *)
(* from those of a work that has lost its budget.                          *)
Outdated(w, config) ==
    LET k == work[w].reservation
    IN  \/ config # work[w].config
        \/ ~ConsentHolds(w)
        \/ work[w].intent \notin CurrentIntents
        \/ reservations[k].config # work[w].config
        \/ reservations[k].epoch # work[w].epoch

FencesHold(w, config) ==
    ~Outdated(w, config) /\ ReservationActive(work[w].reservation)

HoldsLease(r, state) ==
    LET w == runner[r].work
    IN  work[w].state = state /\ work[w].token = r /\ work[w].leaseActive

HasActiveAttempt(r) ==
    LET attempt == attempts[runner[r].work][runner[r].number]
    IN  attempt.outcome = "STARTED" /\ attempt.token = r

WorksOf(k) == {w \in Works : work[w].reservation = k}

\* The attempts of a reservation: what completedReservationAttempts returns.
AttemptsOf(k) ==
    {a \in WorksOf(k) \X Numbers : attempts[a[1]][a[2]].outcome # "ABSENT"}

\* The usage that the receipt rows rs know of.
KnownUsage(rs) ==
    [a \in Works \X Numbers |-> IF rs[a[1]][a[2]] = None THEN 0 ELSE rs[a[1]][a[2]]]

SumOf(rows, amounts) == MapThenSumSet(LAMBDA a : amounts[a], rows)

\* What settle() adds up, over the receipt rows rs.
ReceiptTotal(k, rs) == SumOf(AttemptsOf(k), KnownUsage(rs))

\* An attempt without a known amount is taken for free.
IgnoresUnknownUsage(k, rs) == FALSE

UnknownUsage(k, rs) ==
    \/ reservations[k].exposed /\ AttemptsOf(k) = {}
    \/ \E a \in AttemptsOf(k) : rs[a[1]][a[2]] = None

-----------------------------------------------------------------------------
(* Changes that several transactions share; each names what it assigns *)

\* A work that waits for its first or its next attempt counts as ended.
AllEndedExceptWaiting(k) ==
    \A w \in WorksOf(k) : work'[w].state \notin {"LEASED", "CALLING"}

AllEnded(k) == \A w \in WorksOf(k) : work'[w].state \notin ActiveStates

(* The end of every fenced transaction, over the new work and receipt      *)
(* rows: once no work of a reserved reservation is active, the reservation *)
(* is settled at the sum of its receipts, or at its maximum.  Closing adds *)
(* no attempt, so the old attempt rows name the same attempts.             *)
SettleIfComplete(k) ==
    IF reservations[k].state = "reserved" /\ AllEnded(k)
    THEN /\ reservations' = [reservations EXCEPT ![k].state = "settled"]
         /\ settledAmount' = [settledAmount EXCEPT ![k] =
                IF UnknownUsage(k, receipts') THEN reservedMaximum[k]
                ELSE ReceiptTotal(k, receipts')]
         /\ UNCHANGED reservedMaximum
    ELSE UNCHANGED ledger

CloseAttempt(w, outcome) ==
    attempts' = [attempts EXCEPT ![w] = [n \in Numbers |->
        IF /\ work[w].state = "CALLING"
           /\ @[n].outcome = "STARTED"
           /\ @[n].token = work[w].token
        THEN [@[n] EXCEPT !.outcome = outcome]
        ELSE @[n]]]

ReleaseLease(w, state) ==
    work' = [work EXCEPT ![w] = [@ EXCEPT !.state = state, !.token = None,
                                          !.leaseActive = FALSE,
                                          !.due = IF state = "RETRY_WAIT" THEN FALSE ELSE work[w].due]]

\* The lease is released but the STARTED attempt is left open.
FinishWithoutAttempt(w, state, outcome) ==
    /\ ReleaseLease(w, state)
    /\ UNCHANGED attempts
    /\ SettleIfComplete(work[w].reservation)

\* Leaves receipts to the caller, which assigns them first.
Finish(w, state, outcome) ==
    /\ ReleaseLease(w, state)
    /\ CloseAttempt(w, outcome)
    /\ SettleIfComplete(work[w].reservation)

RejectFence(w, config) ==
    IF Outdated(w, config)
    THEN Finish(w, "OBSOLETE", "OBSOLETE")
    ELSE Finish(w, "FINAL_FAILED", "FINAL_FAILED")

\* The limit is compared with the attempt before the one that just ended.
MayRetryOneMore(w) == work[w].attemptCount <= MaxAttempts

MayRetry(w) == work[w].attemptCount < MaxAttempts

FailCurrentAttempt(w, error) ==
    LET retry == error # "final" /\ MayRetry(w)
    IN  Finish(w, IF retry THEN "RETRY_WAIT" ELSE "FINAL_FAILED",
               IF error = "unknown" THEN "UNKNOWN"
               ELSE IF retry THEN "RETRYABLE_FAILED" ELSE "FINAL_FAILED")

-----------------------------------------------------------------------------
(* One claim handler: claim, reuse, start, input, provider call, record *)

Goto(r, step) == runner' = [runner EXCEPT ![r].step = step]
Return(r) == runner' = [runner EXCEPT ![r] = Idle]

Claim(r, w) ==
    /\ runner[r].step = "idle"
    /\ work[w].state = "PENDING"
    /\ work[w].due
    /\ work' = [work EXCEPT ![w] = [@ EXCEPT !.state = "LEASED", !.token = r,
                                            !.leaseActive = TRUE]]
    /\ runner' = [runner EXCEPT ![r] = [Idle EXCEPT !.step = "reuse", !.work = w]]
    /\ UNCHANGED <<consent, current, attempts, receipts, ledger, billed>>

(* A published work of another revision of the material, under the same    *)
(* configuration and epoch.  Whether the texts of the chunks agree and the *)
(* vectors are still stored is left open: Reuse may decline.               *)
Reusable(w) ==
    \E v \in Works : /\ work[v].state = "PUBLISHED"
                     /\ work[v].intent[1] = work[w].intent[1]
                     /\ work[v].intent[2] # work[w].intent[2]
                     /\ work[v].config = work[w].config
                     /\ work[v].epoch = work[w].epoch

Reuse(r) ==
    LET w == runner[r].work
    IN  /\ runner[r].step = "reuse"
        /\ \/ /\ HoldsLease(r, "LEASED")
              /\ FencesHold(w, ConfigOf[r])
              /\ Reusable(w)
              /\ UNCHANGED receipts
              /\ Finish(w, "PUBLISHED", "SUCCEEDED")
              /\ Return(r)
           \/ Goto(r, "start") /\ UNCHANGED tables
        /\ UNCHANGED <<consent, current, billed>>

BeginAttempt(r, w) ==
    LET n == work[w].attemptCount + 1
    IN  /\ work' = [work EXCEPT ![w] = [@ EXCEPT !.state = "CALLING", !.attemptCount = n]]
        /\ attempts' = [attempts EXCEPT ![w][n] = [outcome |-> "STARTED", token |-> r]]
        /\ runner' = [runner EXCEPT ![r] = [@ EXCEPT !.step = "input", !.number = n]]

MarkExposure(k) == reservations' = [reservations EXCEPT ![k].exposed = TRUE]

StartAttempt(r) ==
    LET w == runner[r].work
    IN  /\ runner[r].step = "start"
        /\ \/ /\ HoldsLease(r, "LEASED")
              /\ FencesHold(w, ConfigOf[r])
              /\ work[w].attemptCount < MaxAttempts
              /\ BeginAttempt(r, w)
              /\ MarkExposure(work[w].reservation)
              /\ UNCHANGED <<receipts, reservedMaximum, settledAmount>>
           \/ /\ HoldsLease(r, "LEASED")
              /\ ~FencesHold(w, ConfigOf[r])
              /\ UNCHANGED receipts
              /\ RejectFence(w, ConfigOf[r])
              /\ Return(r)
           \/ /\ ~(HoldsLease(r, "LEASED") /\ (FencesHold(w, ConfigOf[r])
                                => work[w].attemptCount < MaxAttempts))
              /\ Return(r)
              /\ UNCHANGED tables
        /\ UNCHANGED <<consent, current, billed>>

HoldsAttempt(r) == HoldsLease(r, "CALLING") /\ HasActiveAttempt(r)

InputFences(w, config) == FencesHold(w, config)

CallInput(r) ==
    LET w == runner[r].work
    IN  /\ runner[r].step = "input"
        /\ \/ /\ HoldsAttempt(r)
              /\ InputFences(w, ConfigOf[r])
              /\ Goto(r, "call")
              /\ UNCHANGED tables
           \/ /\ HoldsAttempt(r)
              /\ ~InputFences(w, ConfigOf[r])
              /\ UNCHANGED receipts
              /\ RejectFence(w, ConfigOf[r])
              /\ Return(r)
           \/ ~HoldsAttempt(r) /\ Return(r) /\ UNCHANGED tables
        /\ UNCHANGED <<consent, current, billed>>

\* A response may claim any usage.
AcceptsAnyUsage(answer, usage) == [answer |-> answer, tokens |-> usage]

(* GeminiEmbedding refuses a response that claims more than its input can  *)
(* cost.  The error carries no usage: what was charged stays unknown.      *)
CheckedResponse(answer, usage) ==
    IF usage # None /\ usage > CallMax THEN [answer |-> "final", tokens |-> None]
    ELSE [answer |-> answer, tokens |-> usage]

\* The usage a response claims, if any: its charge, or more than there can be.
Reports(answer, cost) ==
    {None} \cup (IF answer \in Results THEN {cost, CallMax + 1} \ {0} ELSE {})

(* The provider call, outside every transaction: nothing in the database   *)
(* is looked at, so it may happen long after the lease has lapsed.         *)
Embed(r) ==
    /\ runner[r].step = "call"
    /\ \E answer \in Results \cup Errors, cost \in 0..CallMax :
       \E usage \in Reports(answer, cost) :
          LET seen == CheckedResponse(answer, usage)
          IN  /\ billed' = [billed EXCEPT ![runner[r].work][runner[r].number] = cost]
              /\ runner' = [runner EXCEPT ![r] = [@ EXCEPT !.step = "record",
                                                           !.answer = seen.answer,
                                                           !.tokens = seen.tokens]]
    /\ UNCHANGED <<consent, current, tables>>

FailAttempt(r) ==
    LET w == runner[r].work
    IN  /\ runner[r].step = "record"
        /\ runner[r].answer \in Errors
        /\ \/ /\ HoldsAttempt(r)
              /\ FencesHold(w, ConfigOf[r])
              /\ UNCHANGED receipts
              /\ FailCurrentAttempt(w, runner[r].answer)
           \/ /\ HoldsAttempt(r)
              /\ ~FencesHold(w, ConfigOf[r])
              /\ UNCHANGED receipts
              /\ RejectFence(w, ConfigOf[r])
           \/ ~HoldsAttempt(r) /\ UNCHANGED tables
        /\ Return(r)
        /\ UNCHANGED <<consent, current, billed>>

RecordCall(r) ==
    LET w == runner[r].work
        n == runner[r].number
    IN  receipts' = [receipts EXCEPT ![w][n] = IF @ = None THEN runner[r].tokens ELSE @]

\* recordCall() throws, and the transaction with it, above the maximum.
FitsReservation(r) ==
    runner[r].tokens # None =>
        runner[r].tokens <= reservedMaximum[work[runner[r].work].reservation]

\* A late result is published although the fences reject it.
PublishFencesUnchecked(w, config) == TRUE

PublishFences(w, config) == FencesHold(w, config)

CompleteAttempt(r) ==
    LET w == runner[r].work
    IN  /\ runner[r].step = "record"
        /\ runner[r].answer \in Results
        /\ \/ /\ HoldsAttempt(r) /\ FitsReservation(r)
              /\ RecordCall(r)
              /\ \/ /\ PublishFences(w, ConfigOf[r])
                    /\ runner[r].answer = "vectors"
                    /\ Finish(w, "PUBLISHED", "SUCCEEDED")
                 \/ /\ PublishFences(w, ConfigOf[r])
                    /\ runner[r].answer = "unusable"
                    /\ FailCurrentAttempt(w, "final")
                 \/ /\ ~PublishFences(w, ConfigOf[r])
                    /\ RejectFence(w, ConfigOf[r])
                 \/ \* the lease lapses between the lock and the update
                    /\ work' = [work EXCEPT ![w].leaseActive = FALSE]
                    /\ UNCHANGED <<attempts, ledger>>
           \/ ~(HoldsAttempt(r) /\ FitsReservation(r)) /\ UNCHANGED tables
        /\ Return(r)
        /\ UNCHANGED <<consent, current, billed>>

(* The slot loses what it knows: the process dies or shuts down, the       *)
(* provider key is missing, or a transaction fails and is rolled back.     *)
Abandon(r) ==
    /\ runner[r].step # "idle"
    /\ Return(r)
    /\ UNCHANGED <<consent, current, tables, billed>>

-----------------------------------------------------------------------------
(* Repair, run every 15 seconds by every worker process *)

\* A lapsed call is only closed while its lease is live.
RejectableWhileLive(w) ==
    work[w].state \in {"PENDING", "RETRY_WAIT"} \/ work[w].leaseActive

\* The early return for terminal works is missing.
RejectableThoughTerminal(w) == work[w].state # "ABSENT"

Rejectable(w) == work[w].state \in ActiveStates

ReturnToPending(w) ==
    /\ work' = [work EXCEPT ![w] = [@ EXCEPT !.state = "PENDING", !.token = None,
                                            !.leaseActive = FALSE]]
    /\ UNCHANGED <<attempts, ledger>>

Recover(w, config) ==
    /\ config \in RunningConfigs
    /\ UNCHANGED <<consent, current, receipts, runner, billed>>
    /\ \/ /\ Rejectable(w)
          /\ ~FencesHold(w, config)
          /\ RejectFence(w, config)
       \/ /\ work[w].state = "RETRY_WAIT"
          /\ work[w].due
          /\ FencesHold(w, config)
          /\ ReturnToPending(w)
       \/ /\ work[w].state = "LEASED"
          /\ ~work[w].leaseActive
          /\ FencesHold(w, config)
          /\ ReturnToPending(w)
       \/ /\ work[w].state = "CALLING"
          /\ ~work[w].leaseActive
          /\ FencesHold(w, config)
          /\ FailCurrentAttempt(w, "unknown")

\* Exposed reservations are released as well.
ExpirableThoughExposed(k) == reservations[k].state = "reserved"

Expirable(k) == reservations[k].state = "reserved" /\ ~reservations[k].exposed

ExpireUnexposed(k) ==
    /\ Expirable(k)
    /\ ~reservations[k].live
    /\ reservations' = [reservations EXCEPT ![k].state = "expired"]
    /\ UNCHANGED <<consent, current, work, attempts, receipts, reservedMaximum,
                   settledAmount, runner, billed>>

-----------------------------------------------------------------------------
(* Time *)

LeaseLapses(w) ==
    /\ work[w].leaseActive
    /\ work' = [work EXCEPT ![w].leaseActive = FALSE]
    /\ UNCHANGED <<consent, current, attempts, receipts, ledger, runner, billed>>

RetryFallsDue(w) ==
    /\ work[w].state = "RETRY_WAIT"
    /\ ~work[w].due
    /\ work' = [work EXCEPT ![w].due = TRUE]
    /\ UNCHANGED <<consent, current, attempts, receipts, ledger, runner, billed>>

ReservationLapses(k) ==
    /\ reservations[k].live
    /\ reservations' = [reservations EXCEPT ![k].live = FALSE]
    /\ UNCHANGED <<consent, current, work, attempts, receipts, reservedMaximum,
                   settledAmount, runner, billed>>

-----------------------------------------------------------------------------
Time ==
    \/ \E w \in Works : LeaseLapses(w) \/ RetryFallsDue(w)
    \/ \E k \in Reservations : ReservationLapses(k)

User ==
    \/ \E c \in Configs, targets \in SUBSET Materials, retryFailed \in BOOLEAN :
          Activate(c, targets, retryFailed)
    \/ Revoke
    \/ \E m \in Materials : UpdateMaterial(m) \/ DeleteMaterial(m)

Handler(r) ==
    \/ \E w \in Works : Claim(r, w)
    \/ Reuse(r)
    \/ StartAttempt(r)
    \/ CallInput(r)
    \/ Embed(r)
    \/ FailAttempt(r)
    \/ CompleteAttempt(r)
    \/ Abandon(r)

Repair ==
    \/ \E w \in Works, c \in Configs : Recover(w, c)
    \/ \E k \in Reservations : ExpireUnexposed(k)
    \/ \E c \in Configs, targets \in SUBSET Materials : ActivateMissing(c, targets)

Next == User \/ (\E r \in Runners : Handler(r)) \/ Repair \/ Time

Spec == Init /\ [][Next]_vars

-----------------------------------------------------------------------------
(* What must hold *)

(* A work is CALLING exactly while one attempt row is open; that row is its *)
(* newest, was opened under the lease that the work still carries, and the *)
(* rows 1..attempt_count all exist.  start(), publish() and finish() each  *)
(* write both tables and must keep them together.                          *)
OneOpenAttempt ==
    \A w \in Works :
        /\ \A n \in Numbers :
              /\ attempts[w][n].outcome # "ABSENT" <=> n <= work[w].attemptCount
              /\ attempts[w][n].outcome = "STARTED" <=>
                    work[w].state = "CALLING" /\ n = work[w].attemptCount
        /\ work[w].state = "CALLING" =>
              /\ work[w].attemptCount > 0
              /\ attempts[w][work[w].attemptCount].token = work[w].token

(* A slot that has been given texts, however stale it is by now, has a     *)
(* committed attempt row and an exposed reservation behind it, and that    *)
(* reservation can no longer be released as unused: expireUnexposed() and  *)
(* startAttempt() race for an expiring reservation.                        *)
CallsAreAccounted ==
    \A r \in Runners : runner[r].step \in {"call", "record"} =>
        LET w == runner[r].work
            k == work[w].reservation
        IN  /\ attempts[w][runner[r].number].outcome # "ABSENT"
            /\ reservations[k].exposed
            /\ reservations[k].state \in {"reserved", "settled"}

\* What reserveAiBudget() counts against the budget for one reservation.
CommittedAmount(k) ==
    IF reservations[k].state = "settled" THEN settledAmount[k]
    ELSE IF reservations[k].state = "reserved"
            /\ (reservations[k].live \/ reservations[k].exposed)
         THEN reservedMaximum[k]
         ELSE 0

\* What the provider charged for each attempt.
Bills == [a \in Works \X Numbers |-> billed[a[1]][a[2]]]

BilledTotal(k) == SumOf(WorksOf(k) \X Numbers, Bills)

(* Whatever the provider charged for the works of a reservation, including *)
(* calls that ended after the reservation was settled, is counted against  *)
(* the budget: crashes, lost answers, missing usage and late answers are   *)
(* never taken for free.                                                   *)
LedgerCoversBills == \A k \in Reservations : BilledTotal(k) <= CommittedAmount(k)

(* The receipts of a reservation stay within its maximum, so settle() does *)
(* not reach the throw that would roll back the last work's transition.    *)
SettlementFits == \A k \in Reservations : ReceiptTotal(k, receipts) <= reservedMaximum[k]

(* What is reserved for a set of works is enough for all their attempts:   *)
(* it covers the bills, and no settlement exceeds it.                      *)
ReservationsSuffice == LedgerCoversBills /\ SettlementFits

(* A reservation stays reserved only as long as one of its works can still *)
(* run, and is settled only when none can: there is no second chance to    *)
(* settle it, because terminal works are never looked at again.            *)
ClosedWithItsWorks ==
    \A k \in Reservations :
        /\ reservations[k].state = "reserved" =>
              \E w \in WorksOf(k) : work[w].state \in ActiveStates
        /\ reservations[k].state = "settled" =>
              \A w \in WorksOf(k) : work[w].state \in TerminalStates

(* No two works embed the same revision under the same configuration and   *)
(* epoch while one of them is active or published, across automatic        *)
(* activation, the user's command and its retries: the partial unique      *)
(* index embedding_work_active_unique is never what stops an insert.       *)
OneLiveGeneration ==
    \A v, w \in Works :
        (/\ v # w
         /\ work[v].state \in ActiveStates \cup {"PUBLISHED"}
         /\ work[w].state \in ActiveStates \cup {"PUBLISHED"})
        => \/ work[v].intent # work[w].intent
           \/ work[v].config # work[w].config
           \/ work[v].epoch # work[w].epoch

(* A work that waits for a claim or a retry has an attempt left, so the    *)
(* attempt limit in start() never strands a claimed work.                  *)
NothingStranded ==
    \A w \in Works : work[w].state \in {"PENDING", "LEASED", "RETRY_WAIT"} =>
        work[w].attemptCount < MaxAttempts

(* Terminal works, their attempts and receipts, and closed reservations    *)
(* never change again: a late answer or a stale handler cannot revive or   *)
(* rewrite them.                                                           *)
ClosedStaysClosed ==
    [][/\ \A w \in Works : work[w].state \in TerminalStates =>
             /\ work'[w] = work[w]
             /\ attempts'[w] = attempts[w]
             /\ receipts'[w] = receipts[w]
       /\ \A k \in Reservations : reservations[k].state \in {"settled", "expired"} =>
             /\ reservations'[k].state = reservations[k].state
             /\ settledAmount'[k] = settledAmount[k]]_vars

\* The owner still allows, and the budget still covers, using this work.
Allowed(w) ==
    /\ consent.granted
    /\ consent.epoch = work[w].epoch
    /\ consent.config = work[w].config
    /\ work[w].intent[2] = current[work[w].intent[1]]
    /\ reservations[work[w].reservation].state = "reserved"
    /\ reservations[work[w].reservation].live

(* Texts leave the database for a handler, and vectors become searchable,  *)
(* only at a moment when the owner's consent, the current revision and the *)
(* reservation allow it, whatever was true when the work was claimed.      *)
UseIsAllowed ==
    [][/\ \A r \in Runners :
             runner[r].step # "call" /\ runner'[r].step = "call" => Allowed(runner[r].work)
       /\ \A w \in Works :
             work[w].state # "PUBLISHED" /\ work'[w].state = "PUBLISHED" => Allowed(w)]_vars

-----------------------------------------------------------------------------
(* Progress.  Repair visits every active work again and again (runOnce     *)
(* fires every 15 seconds, reserveRepairBatch takes the longest unvisited  *)
(* first) and deadlines pass.  Nothing is assumed of handlers, queue or    *)
(* provider: they may crash, stall or answer late forever.                 *)

RepairFairness ==
    /\ \A w \in Works : WF_vars(\E c \in Configs : Recover(w, c))
    /\ \A k \in Reservations : WF_vars(ReservationLapses(k))

FairSpec == Spec /\ RepairFairness

(* Every work ends, even if no handler ever completes one. *)
EveryWorkEnds ==
    \A w \in Works :
        work[w].state \in ActiveStates ~> work[w].state \in TerminalStates

=============================================================================

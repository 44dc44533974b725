--------------------------- MODULE AnswersProofs ---------------------------
(* Proofs about Answers, for every value of its constants.                 *)
(*                                                                         *)
(* A row of a request is x with its reservation v, its attempts a and what *)
(* the provider charged b; y, w, c and d are the same after a step.        *)
EXTENDS Answers, TLAPS

-----------------------------------------------------------------------------
(* Type correctness *)

\* The columns of a request that end together with it.
FinishedRow(x, state, failure) ==
    [x EXCEPT !.state = state, !.failure = failure, !.question = FALSE, !.sources = {},
              !.claims = state = "PUBLISHED", !.kept = state \in Stored]

LEMMA FinishedRowFields ==
    ASSUME NEW x \in Request, NEW state \in Terminal, NEW failure \in Reasons \cup {None},
           NEW y, y = FinishedRow(x, state, failure)
    PROVE  /\ y \in Request
           /\ y.state = state
           /\ y.origin = x.origin
           /\ y.sources = {}
           /\ ~y.question
           /\ y.evidence = x.evidence
           /\ y.claims <=> state = "PUBLISHED"
           /\ y.failure = failure
           /\ y.live = x.live
           /\ y.kept <=> state \in Stored
           /\ y.deduped = x.deduped
<1> DEFINE published == (state = "PUBLISHED")
           stored == (state \in Stored)
<1>1. published \in BOOLEAN /\ stored \in BOOLEAN
  OBVIOUS
<1> HIDE DEF published, stored
<1>2. [x EXCEPT !.state = state, !.failure = failure, !.question = FALSE, !.sources = {},
                !.claims = published, !.kept = stored] \in Request
  BY <1>1 DEF Request
<1>3. LET z == [x EXCEPT !.state = state, !.failure = failure, !.question = FALSE,
                         !.sources = {}, !.claims = published, !.kept = stored]
      IN  /\ z.state = state
          /\ z.origin = x.origin
          /\ z.sources = {}
          /\ z.question = FALSE
          /\ z.evidence = x.evidence
          /\ z.claims = published
          /\ z.failure = failure
          /\ z.live = x.live
          /\ z.kept = stored
          /\ z.deduped = x.deduped
  BY DEF Request
<1> QED
  BY <1>2, <1>3 DEF FinishedRow, published, stored

\* What finish() does to the rows of a request.
LEMMA FinishRows ==
    ASSUME TypeOK, NEW r \in Requests, NEW state \in Terminal,
           NEW failure \in Reasons \cup {None}, NEW outcome \in Outcomes,
           Finish(r, state, failure, outcome)
    PROVE  /\ request' \in [Requests -> Request]
           /\ attempts' \in [Requests -> [Slots -> {"none", "STARTED"} \cup Outcomes]]
           /\ request'[r] = FinishedRow(request[r], state, failure)
           /\ attempts'[r] = [s \in Slots |->
                  IF attempts[r][s] = "STARTED" THEN outcome ELSE attempts[r][s]]
           /\ \A q \in Requests \ {r} : request'[q] = request[q] /\ attempts'[q] = attempts[q]
<1>1. request[r] \in Request /\ attempts[r] \in [Slots -> {"none", "STARTED"} \cup Outcomes]
  BY DEF TypeOK
<1>2. request' = [request EXCEPT ![r] = FinishedRow(request[r], state, failure)]
  BY DEF Finish, FinishedRow, TypeOK
<1>3. FinishedRow(request[r], state, failure) \in Request
  BY <1>1, FinishedRowFields
<1> DEFINE closed == [s \in Slots |->
                        IF attempts[r][s] = "STARTED" THEN outcome ELSE attempts[r][s]]
<1>4. attempts' = [attempts EXCEPT ![r] = closed]
  BY DEF Finish
<1>5. closed \in [Slots -> {"none", "STARTED"} \cup Outcomes]
  BY <1>1
<1> HIDE DEF closed
<1>6. /\ request' \in [Requests -> Request]
      /\ attempts' \in [Requests -> [Slots -> {"none", "STARTED"} \cup Outcomes]]
  BY <1>2, <1>3, <1>4, <1>5 DEF TypeOK
<1>7. request'[r] = FinishedRow(request[r], state, failure) /\ attempts'[r] = closed
  BY <1>2, <1>4 DEF TypeOK
<1> QED
  BY <1>2, <1>4, <1>6, <1>7 DEF closed, TypeOK

\* What settle() does to the reservation of a request.
LEMMA SettleRows ==
    ASSUME TypeOK, NEW r \in Requests, NEW usage \in Nat \cup {None}, Settle(r, usage)
    PROVE  /\ reservation' \in [Requests -> Reservation]
           /\ Price(r, usage) \in 0..RequestMax
           /\ \A q \in Requests \ {r} : reservation'[q] = reservation[q]
           /\ reservation[r].state # "reserved" => reservation'[r] = reservation[r]
           /\ reservation[r].state = "reserved" =>
                  /\ reservation'[r].state =
                         IF reservation[r].exposed THEN "settled" ELSE "released"
                  /\ reservation'[r].settled = Price(r, usage)
                  /\ reservation'[r].exposed = reservation[r].exposed
                  /\ reservation'[r].live = reservation[r].live
<1>1. reservation \in [Requests -> Reservation] /\ reservation[r] \in Reservation
  BY DEF TypeOK
<1>2. Price(r, usage) \in 0..RequestMax
  BY AnswersConstantsOK DEF Price
<1> DEFINE price == Price(r, usage)
           state == IF reservation[r].exposed THEN "settled" ELSE "released"
           settled == [reservation[r] EXCEPT !.state = state, !.settled = price]
<1>3. price \in Nat /\ state \in {"settled", "released"}
  BY <1>2, AnswersConstantsOK
<1>4. CASE reservation[r].state # "reserved"
  BY <1>1, <1>2, <1>4 DEF Settle
<1>5. CASE reservation[r].state = "reserved"
  <2>1. reservation' = [reservation EXCEPT ![r] = settled]
    BY <1>1, <1>5 DEF Settle
  <2> HIDE DEF price, state
  <2>2. /\ settled \in Reservation
        /\ settled.state = state
        /\ settled.settled = price
        /\ settled.exposed = reservation[r].exposed
        /\ settled.live = reservation[r].live
    BY <1>1, <1>3 DEF Reservation
  <2> HIDE DEF settled
  <2>3. reservation'[r] = settled /\ \A q \in Requests \ {r} : reservation'[q] = reservation[q]
    BY <1>1, <2>1
  <2>4. reservation' \in [Requests -> Reservation]
    BY <1>1, <2>1, <2>2
  <2> QED
    BY <1>2, <1>5, <2>2, <2>3, <2>4 DEF price, state
<1> QED
  BY <1>4, <1>5

-----------------------------------------------------------------------------
(* What a step may do to the rows of one request *)

SameRequest(x, y) ==
    /\ y.state = x.state
    /\ y.origin = x.origin
    /\ y.sources = x.sources
    /\ y.question = x.question
    /\ y.evidence = x.evidence
    /\ y.claims = x.claims
    /\ y.failure = x.failure

SameReservation(v, w) ==
    /\ w.state = v.state
    /\ w.exposed = v.exposed
    /\ w.settled = v.settled

\* Nothing, or a deadline passes.
Timed(x, v, a, b, y, w, c, d) ==
    /\ SameRequest(x, y)
    /\ SameReservation(v, w)
    /\ y.live => x.live
    /\ y.kept => x.kept
    /\ y.deduped => x.deduped
    /\ x.live \/ x.kept => y.deduped = x.deduped
    /\ c = a
    /\ d = b

Created(x, v, a, b, y, w, c, d) ==
    /\ x.state = "absent"
    /\ y.state = "RESERVED"
    /\ y.origin \in Origin
    /\ y.origin.epoch = consent.epoch
    /\ y.origin.revision = current[y.origin.material]
    /\ y.sources = {y.origin}
    /\ y.question /\ y.evidence /\ ~y.claims
    /\ y.live /\ ~y.kept /\ y.deduped
    /\ w.state = "reserved" /\ ~w.exposed /\ w.settled = 0
    /\ c = a
    /\ d = b

\* A call is sent while its permission stands.
Begun(r, x, v, a, b, y, w, c, d) ==
    /\ x.state = "RESERVED"
    /\ \E config \in Configs : Consented(x.origin, config)
    /\ EvidenceStands(r)
    /\ y.state = "RUNNING"
    /\ y.origin = x.origin /\ y.sources = x.sources
    /\ y.question = x.question /\ y.evidence = x.evidence /\ y.claims = x.claims
    /\ y.live = x.live /\ y.kept = x.kept /\ y.deduped = x.deduped
    /\ w.state = v.state /\ w.exposed /\ w.settled = v.settled
    /\ \E s \in Slots : c = [a EXCEPT ![s] = "STARTED"] /\ slot'[s] # slot[s]
    /\ d = b

Billed(x, v, a, b, y, w, c, d) ==
    /\ y = x
    /\ w = v
    /\ c = a
    /\ d >= b
    /\ \E s \in Slots : a[s] # "none" /\ slot'[s] # slot[s]
    /\ x.state = "RUNNING" \/ v.settled = RequestMax

(* A bill is known to be covered, or the whole maximum is kept.  Only a    *)
(* running request whose permission stands gets an answer.                 *)
Ended(r, x, v, a, b, y, w, c, d) ==
    /\ x.state \in Active
    /\ \E state \in Terminal, failure \in Reasons \cup {None}, outcome \in Outcomes :
           /\ y = FinishedRow(x, state, failure)
           /\ c = [s \in Slots |-> IF a[s] = "STARTED" THEN outcome ELSE a[s]]
           /\ state \in Stored =>
                  /\ x.state = "RUNNING"
                  /\ x.live
                  /\ \E config \in Configs : Consented(x.origin, config)
                  /\ EvidenceStands(r)
    /\ v.state = "reserved" =>
           /\ w.state = IF v.exposed THEN "settled" ELSE "released"
           /\ w.exposed = v.exposed
           /\ v.exposed =>
                  \/ w.settled = RequestMax
                  \/ /\ b <= w.settled
                     /\ \E s \in Slots : a[s] # "none" /\ slot'[s] # slot[s]
    /\ d = b

Cleared(x, v, a, b, y, w, c, d) ==
    /\ x.state \in Terminal
    /\ y.state = x.state
    /\ y.origin = x.origin /\ y.sources = x.sources
    /\ ~y.question /\ ~y.evidence /\ ~y.claims
    /\ y.live = x.live /\ y.kept = x.kept /\ y.deduped = x.deduped
    /\ w = v
    /\ c = a
    /\ d = b

Deleted(x, v, a, b, y, w, c, d) ==
    /\ x.state \in Terminal
    /\ ~x.deduped
    /\ y = NoRequest
    /\ w = NoReservation
    /\ c = [s \in Slots |-> "none"]
    /\ d = 0

Changed(r, x, v, a, b, y, w, c, d) ==
    \/ Timed(x, v, a, b, y, w, c, d)
    \/ Created(x, v, a, b, y, w, c, d)
    \/ Begun(r, x, v, a, b, y, w, c, d)
    \/ Billed(x, v, a, b, y, w, c, d)
    \/ Ended(r, x, v, a, b, y, w, c, d)
    \/ Cleared(x, v, a, b, y, w, c, d)
    \/ Deleted(x, v, a, b, y, w, c, d)

RowChanged(r) ==
    Changed(r, request[r], reservation[r], attempts[r], billed[r],
            request'[r], reservation'[r], attempts'[r], billed'[r])

\* Steps that write no row of any request.
LEMMA RowsKept ==
    ASSUME UNCHANGED rows, UNCHANGED billed
    PROVE  \A r \in Requests : RowChanged(r)
BY DEF rows, RowChanged, Changed, Timed, SameRequest, SameReservation

\* Steps that write the rows of one request only.
LEMMA OthersKept ==
    ASSUME NEW r \in Requests, RowChanged(r),
           \A q \in Requests \ {r} :
               /\ request'[q] = request[q]
               /\ reservation'[q] = reservation[q]
               /\ attempts'[q] = attempts[q]
               /\ billed'[q] = billed[q]
    PROVE  \A q \in Requests : RowChanged(q)
<1>1. ASSUME NEW q \in Requests \ {r} PROVE RowChanged(q)
  BY <1>1 DEF RowChanged, Changed, Timed, SameRequest, SameReservation
<1> QED
  BY <1>1

-----------------------------------------------------------------------------
(* Every action is such a step and keeps the types *)

LEMMA IdleRows ==
    /\ IdleSlot \in Slot
    /\ IdleSlot.step = "idle" /\ IdleSlot.request = None /\ IdleSlot.bill = 0
    /\ NoRequest \in Request
    /\ NoRequest.state = "absent" /\ NoRequest.origin = None /\ NoRequest.sources = {}
    /\ ~NoRequest.question /\ ~NoRequest.evidence /\ ~NoRequest.claims
    /\ ~NoRequest.live /\ ~NoRequest.kept /\ ~NoRequest.deduped
    /\ NoReservation \in Reservation
    /\ NoReservation.state = "absent" /\ NoReservation.settled = 0
    /\ ~NoReservation.exposed /\ ~NoReservation.live
<1>1. IdleSlot \in Slot /\ IdleSlot.step = "idle" /\ IdleSlot.request = None /\ IdleSlot.bill = 0
  BY DEF IdleSlot, Slot
<1>2. /\ NoRequest \in Request
      /\ NoRequest.state = "absent" /\ NoRequest.origin = None /\ NoRequest.sources = {}
      /\ ~NoRequest.question /\ ~NoRequest.evidence /\ ~NoRequest.claims
      /\ ~NoRequest.live /\ ~NoRequest.kept /\ ~NoRequest.deduped
  BY DEF NoRequest, Request
<1>3. /\ NoReservation \in Reservation
      /\ NoReservation.state = "absent" /\ NoReservation.settled = 0
      /\ ~NoReservation.exposed /\ ~NoReservation.live
  BY DEF NoReservation, Reservation
<1> QED
  BY <1>1, <1>2, <1>3

LEMMA FenceNames ==
    ASSUME NEW r, NEW config
    PROVE  /\ FenceFailure(r, config) \in Reasons \cup {None}
           /\ FenceFailure(r, config) = None =>
                  Consented(request[r].origin, config) /\ EvidenceStands(r)
<1>1. None \notin Reasons
  BY AnswersConstantsOK
<1> QED
  BY <1>1 DEF FenceFailure, Reasons

LEMMA GrantStep ==
    ASSUME TypeOK, NEW config \in Configs, Grant(config)
    PROVE  TypeOK'
<1>1. consent.epoch + 1 \in 0..MaxEpoch
  BY AnswersConstantsOK DEF Grant, TypeOK
<1>2. consent' = [granted |-> TRUE, epoch |-> consent.epoch + 1, config |-> config]
  BY DEF Grant
<1>3. consent' \in [granted: BOOLEAN, epoch: 0..MaxEpoch, config: Configs \cup {None}]
  BY <1>1, <1>2
<1> QED
  BY <1>3 DEF Grant, TypeOK, rows

LEMMA RevokeStep ==
    ASSUME TypeOK, Revoke
    PROVE  TypeOK'
<1>1. consent' = [granted |-> FALSE, epoch |-> consent.epoch + 1, config |-> consent.config]
  BY DEF Revoke, TypeOK
<1>2. consent.epoch + 1 \in 0..MaxEpoch /\ consent.config \in Configs \cup {None}
  BY AnswersConstantsOK DEF Revoke, TypeOK
<1>3. consent' \in [granted: BOOLEAN, epoch: 0..MaxEpoch, config: Configs \cup {None}]
  BY <1>1, <1>2
<1> QED
  BY <1>3 DEF Revoke, TypeOK, rows

LEMMA MaterialStep ==
    ASSUME TypeOK, NEW m \in Materials, EditMaterial(m) \/ DeleteMaterial(m)
    PROVE  TypeOK'
<1>1. CASE EditMaterial(m)
  <2>1. current[m] + 1 \in Revisions
    BY <1>1, AnswersConstantsOK DEF EditMaterial, Revisions
  <2> QED
    BY <1>1, <2>1 DEF EditMaterial, TypeOK, rows
<1>2. CASE DeleteMaterial(m)
  <2>1. 0 \in Revisions
    BY AnswersConstantsOK DEF Revisions
  <2> QED
    BY <1>2, <2>1 DEF DeleteMaterial, TypeOK, rows
<1> QED
  BY <1>1, <1>2

LEMMA GenerateStep ==
    ASSUME TypeOK, consent.granted => consent.epoch > 0, NEW r \in Requests,
           NEW config \in Configs, NEW m \in Materials, NEW history \in SUBSET Requests, Generate(r, config, m, history)
    PROVE  TypeOK' /\ RowChanged(r) /\ \A q \in Requests \ {r} :
               /\ request'[q] = request[q]
               /\ reservation'[q] = reservation[q]
               /\ attempts'[q] = attempts[q]
               /\ billed'[q] = billed[q]
<1> DEFINE origin == [material |-> m, revision |-> current[m],
                      epoch |-> consent.epoch, config |-> config]
           sources == {origin} \cup {request[h].origin : h \in history}
           y == [NoRequest EXCEPT !.state = "RESERVED", !.origin = origin,
                   !.sources = sources,
                   !.question = TRUE, !.evidence = TRUE, !.live = TRUE, !.deduped = TRUE]
           w == [NoReservation EXCEPT !.state = "reserved", !.live = TRUE]
<1>1. origin \in Origin /\ origin.epoch = consent.epoch /\ origin.revision = current[origin.material]
  <2>1. current[m] \in 1..MaxRevision /\ consent.epoch \in 1..MaxEpoch
    BY AnswersConstantsOK DEF Generate, TypeOK, Revisions
  <2> QED
    BY <2>1 DEF Origin
<1>2. sources = {origin}
  BY DEF Generate, UsableTurn
<1>3. /\ request' = [request EXCEPT ![r] = y]
      /\ reservation' = [reservation EXCEPT ![r] = w]
      /\ request[r].state = "absent"
  BY DEF Generate
<1> HIDE DEF origin, sources
<1>4. /\ y \in Request
      /\ y.state = "RESERVED" /\ y.origin = origin /\ y.sources = sources
      /\ y.question /\ y.evidence /\ ~y.claims /\ y.live /\ ~y.kept /\ y.deduped
  BY <1>1, <1>2, IdleRows DEF Request, Active
<1>5. /\ w \in Reservation
      /\ w.state = "reserved" /\ ~w.exposed /\ w.settled = 0
  BY IdleRows DEF Reservation
<1> HIDE DEF y, w
<1>6. UNCHANGED <<consent, current, attempts, slot, billed>>
  BY DEF Generate
<1>7. /\ request'[r] = y /\ reservation'[r] = w
      /\ \A q \in Requests \ {r} : request'[q] = request[q] /\ reservation'[q] = reservation[q]
  BY <1>3 DEF TypeOK
<1>8. /\ request' \in [Requests -> Request]
      /\ reservation' \in [Requests -> Reservation]
      /\ \A q \in Requests : reservation'[q].settled <= RequestMax
  <2>1. 0 <= RequestMax
    BY AnswersConstantsOK
  <2> QED
    BY <1>3, <1>4, <1>5, <1>7, <2>1 DEF TypeOK
<1>9. TypeOK'
  BY <1>6, <1>8 DEF TypeOK
<1>10. Created(request[r], reservation[r], attempts[r], billed[r],
               request'[r], reservation'[r], attempts'[r], billed'[r])
  BY <1>1, <1>2, <1>3, <1>4, <1>5, <1>6, <1>7 DEF Created
<1> QED
  BY <1>6, <1>7, <1>9, <1>10 DEF RowChanged, Changed

LEMMA StartStep ==
    ASSUME TypeOK, NEW s \in Slots, NEW r \in Requests, NEW config \in Configs,
           Start(s, r, config)
    PROVE  TypeOK' /\ RowChanged(r) /\ \A q \in Requests \ {r} :
               /\ request'[q] = request[q]
               /\ reservation'[q] = reservation[q]
               /\ attempts'[q] = attempts[q]
               /\ billed'[q] = billed[q]
<1> DEFINE y == [request[r] EXCEPT !.state = "RUNNING"]
           w == [reservation[r] EXCEPT !.exposed = TRUE]
           c == [attempts[r] EXCEPT ![s] = "STARTED"]
           work == [IdleSlot EXCEPT !.step = "calling", !.request = r, !.config = config]
<1>1. /\ request[r] \in Request
      /\ reservation[r] \in Reservation
      /\ attempts[r] \in [Slots -> {"none", "STARTED"} \cup Outcomes]
      /\ reservation[r].settled <= RequestMax
  BY DEF TypeOK
<1>2. /\ request' = [request EXCEPT ![r] = y]
      /\ reservation' = [reservation EXCEPT ![r] = w]
      /\ attempts' = [attempts EXCEPT ![r] = c]
      /\ slot' = [slot EXCEPT ![s] = work]
      /\ UNCHANGED <<consent, current, billed>>
      /\ request[r].state = "RESERVED"
  BY DEF Start, TypeOK
<1>3. /\ y \in Request
      /\ y.state = "RUNNING" /\ y.origin = request[r].origin /\ y.sources = request[r].sources
      /\ y.question = request[r].question /\ y.evidence = request[r].evidence
      /\ y.claims = request[r].claims /\ y.live = request[r].live
      /\ y.kept = request[r].kept /\ y.deduped = request[r].deduped
  BY <1>1 DEF Request, Active
<1>4. /\ w \in Reservation
      /\ w.state = reservation[r].state /\ w.exposed /\ w.settled = reservation[r].settled
  BY <1>1 DEF Reservation
<1>5. c \in [Slots -> {"none", "STARTED"} \cup Outcomes]
  BY <1>1
<1>6. work \in Slot /\ work.step = "calling" /\ slot[s].step = "idle"
  BY IdleRows DEF Slot, Start
<1> HIDE DEF y, w, work
<1>7. /\ request'[r] = y /\ reservation'[r] = w /\ attempts'[r] = c
      /\ \A q \in Requests \ {r} :
             /\ request'[q] = request[q]
             /\ reservation'[q] = reservation[q]
             /\ attempts'[q] = attempts[q]
  BY <1>2 DEF TypeOK
<1>8. /\ request' \in [Requests -> Request]
      /\ reservation' \in [Requests -> Reservation]
      /\ attempts' \in [Requests -> [Slots -> {"none", "STARTED"} \cup Outcomes]]
      /\ slot' \in [Slots -> Slot]
      /\ slot'[s] = work
  BY <1>2, <1>3, <1>4, <1>5, <1>6 DEF TypeOK
<1>9. \A q \in Requests : reservation'[q].settled <= RequestMax
  BY <1>1, <1>4, <1>7 DEF TypeOK
<1>10. TypeOK'
  BY <1>2, <1>8, <1>9 DEF TypeOK
<1>11. Begun(r, request[r], reservation[r], attempts[r], billed[r],
             request'[r], reservation'[r], attempts'[r], billed'[r])
  <2>1. Consented(request[r].origin, config) /\ EvidenceStands(r)
    BY FenceNames DEF Start
  <2> QED
    BY <1>2, <1>3, <1>4, <1>6, <1>7, <1>8, <2>1 DEF Begun
<1> QED
  BY <1>2, <1>7, <1>10, <1>11 DEF RowChanged, Changed

-----------------------------------------------------------------------------
(* The invariant *)

\* The rows of a request agree with each other.
RowOK(x, v, a, b) ==
    /\ x.state = "absent" => v.state = "absent" /\ ~x.evidence
    /\ x.state # "absent" => x.origin \in Origin /\ x.sources \subseteq {x.origin}
    /\ x.question <=> x.state \in Active
    /\ x.claims <=> x.state = "PUBLISHED" /\ x.evidence
    /\ x.kept => x.state \in Stored /\ x.deduped
    /\ x.live => x.deduped
    /\ x.state \in Active => x.evidence
    /\ x.state \in Active <=> v.state = "reserved"
    /\ x.state = "absent" <=> v.state = "absent"
    /\ x.state = "RUNNING" => v.exposed
    /\ x.state = "RESERVED" => ~v.exposed
    /\ v.state # "reserved" => (v.state = "settled" <=> v.exposed)
    /\ \A s \in Slots :
           /\ a[s] # "none" => v.exposed
           /\ a[s] = "STARTED" <=> a[s] # "none" /\ x.state = "RUNNING"
           /\ \A t \in Slots : a[s] # "none" /\ a[t] # "none" => s = t
    /\ b > 0 => v.exposed
    /\ v.state = "settled" => b <= v.settled \/ v.settled = RequestMax

RowsOK == \A r \in Requests : RowOK(request[r], reservation[r], attempts[r], billed[r])

\* What a slot knows of the call it has made.
SlotOK(s) ==
    LET r == slot[s].request
    IN  /\ slot[s].step # "idle" => r \in Requests /\ slot[s].config \in Configs
        /\ slot[s].step # "idle" /\ attempts[r][s] # "none" =>
               /\ billed[r] = IF slot[s].step = "calling" THEN 0 ELSE slot[s].bill
               /\ request[r].state = "RUNNING" \/ reservation[r].settled = RequestMax

SlotsOK == \A s \in Slots : SlotOK(s)

\* No request is of a later consent or a later revision than the present one.
PermissionOK ==
    /\ consent.granted => consent.epoch > 0
    /\ \A r \in Requests :
           request[r].state # "absent" =>
               LET origin == request[r].origin
               IN  /\ origin.epoch <= consent.epoch
                   /\ \/ current[origin.material] = 0
                      \/ origin.revision <= current[origin.material]

AnswersInv == TypeOK /\ RowsOK /\ SlotsOK /\ PermissionOK

-----------------------------------------------------------------------------
(* The steps of a worker and of the clock *)

LEMMA CallStep ==
    ASSUME TypeOK, SlotsOK, NEW s \in Slots, NEW bill \in Bills, Call(s, bill)
    PROVE  TypeOK' /\ \A q \in Requests : RowChanged(q)
<1> DEFINE r == slot[s].request
           work == [slot[s] EXCEPT !.step = "returned", !.bill = bill]
<1>1. r \in Requests /\ slot[s] \in Slot /\ bill \in Nat /\ slot[s].step = "calling"
  BY AnswersConstantsOK DEF SlotsOK, SlotOK, Call, TypeOK
<1>2. work \in Slot /\ work.step = "returned"
  BY <1>1 DEF Slot
<1>3. /\ slot' = [slot EXCEPT ![s] = work]
      /\ billed' = [billed EXCEPT ![r] = IF attempts[r][s] = "none" THEN @ ELSE @ + bill]
      /\ UNCHANGED <<consent, current, rows>>
  BY DEF Call
<1> HIDE DEF work
<1>4. slot' \in [Slots -> Slot] /\ slot'[s] = work /\ slot'[s] # slot[s]
  BY <1>1, <1>2, <1>3 DEF TypeOK
<1>5. /\ billed' \in [Requests -> Nat]
      /\ \A q \in Requests : billed'[q] = billed[q]
                             \/ (q = r /\ attempts[r][s] # "none" /\ billed'[q] >= billed[q])
  <2> DEFINE d == IF attempts[r][s] = "none" THEN billed[r] ELSE billed[r] + bill
  <2>1. d \in Nat /\ (d = billed[r] \/ (attempts[r][s] # "none" /\ d >= billed[r]))
    BY <1>1 DEF TypeOK
  <2>2. billed' = [billed EXCEPT ![r] = d]
    BY <1>3
  <2> HIDE DEF d
  <2>3. billed \in [Requests -> Nat]
    BY DEF TypeOK
  <2>4. billed'[r] = d /\ \A q \in Requests \ {r} : billed'[q] = billed[q]
    BY <1>1, <2>2, <2>3
  <2>5. billed' \in [Requests -> Nat]
    BY <1>1, <2>1, <2>2, <2>3
  <2> QED
    BY <2>1, <2>4, <2>5
<1>6. TypeOK'
  BY <1>3, <1>4, <1>5 DEF TypeOK, rows
<1>7. ASSUME NEW q \in Requests PROVE RowChanged(q)
  <2>1. CASE billed'[q] = billed[q]
    BY <1>3, <2>1 DEF rows, RowChanged, Changed, Timed, SameRequest, SameReservation
  <2>2. CASE q = r /\ attempts[r][s] # "none" /\ billed'[q] >= billed[q]
    <3>1. request[r].state = "RUNNING" \/ reservation[r].settled = RequestMax
      BY <1>1, <2>2 DEF SlotsOK, SlotOK
    <3> QED
      BY <1>1, <1>3, <1>4, <2>2, <3>1 DEF rows, RowChanged, Changed, Billed
  <2> QED
    BY <1>5, <2>1, <2>2
<1> QED
  BY <1>6, <1>7

\* A slot that forgets its call.
LEMMA FreedSlot ==
    ASSUME TypeOK, NEW s \in Slots, slot' = [slot EXCEPT ![s] = IdleSlot]
    PROVE  /\ slot' \in [Slots -> Slot]
           /\ slot'[s].step = "idle"
           /\ \A t \in Slots \ {s} : slot'[t] = slot[t]
BY IdleRows DEF TypeOK

\* Finishing and settling in one transaction.
LEMMA EndedRows ==
    ASSUME AnswersInv, NEW r \in Requests, NEW state \in Terminal,
           NEW failure \in Reasons \cup {None}, NEW outcome \in Outcomes,
           NEW usage \in Nat \cup {None},
           request[r].state \in Active,
           Finish(r, state, failure, outcome),
           Settle(r, usage),
           UNCHANGED <<consent, current, billed>>,
           slot' \in [Slots -> Slot],
           reservation[r].exposed =>
               \/ Price(r, usage) = RequestMax
               \/ /\ billed[r] <= Price(r, usage)
                  /\ \E s \in Slots : attempts[r][s] # "none" /\ slot'[s] # slot[s],
           state \in Stored =>
               /\ request[r].state = "RUNNING"
               /\ request[r].live
               /\ \E config \in Configs : Consented(request[r].origin, config)
               /\ EvidenceStands(r)
    PROVE  TypeOK' /\ RowChanged(r) /\ \A q \in Requests \ {r} :
               /\ request'[q] = request[q]
               /\ reservation'[q] = reservation[q]
               /\ attempts'[q] = attempts[q]
               /\ billed'[q] = billed[q]
<1>1. TypeOK /\ reservation[r].state = "reserved"
  BY DEF AnswersInv, RowsOK, RowOK
<1>2. /\ request' \in [Requests -> Request]
      /\ attempts' \in [Requests -> [Slots -> {"none", "STARTED"} \cup Outcomes]]
      /\ request'[r] = FinishedRow(request[r], state, failure)
      /\ attempts'[r] = [s \in Slots |->
             IF attempts[r][s] = "STARTED" THEN outcome ELSE attempts[r][s]]
      /\ \A q \in Requests \ {r} : request'[q] = request[q] /\ attempts'[q] = attempts[q]
  BY <1>1, FinishRows
<1>3. /\ reservation' \in [Requests -> Reservation]
      /\ Price(r, usage) \in 0..RequestMax
      /\ \A q \in Requests \ {r} : reservation'[q] = reservation[q]
      /\ reservation'[r].state = IF reservation[r].exposed THEN "settled" ELSE "released"
      /\ reservation'[r].settled = Price(r, usage)
      /\ reservation'[r].exposed = reservation[r].exposed
  BY <1>1, SettleRows
<1>4. \A q \in Requests : reservation'[q].settled <= RequestMax
  BY <1>1, <1>3, AnswersConstantsOK DEF TypeOK
<1>5. TypeOK'
  BY <1>1, <1>2, <1>3, <1>4 DEF TypeOK
<1>6. Ended(r, request[r], reservation[r], attempts[r], billed[r],
            request'[r], reservation'[r], attempts'[r], billed'[r])
  BY <1>1, <1>2, <1>3 DEF Ended
<1> QED
  BY <1>2, <1>3, <1>5, <1>6 DEF RowChanged, Changed

LEMMA EndStep ==
    ASSUME AnswersInv, NEW r \in Requests, NEW config, End(r, config)
    PROVE  TypeOK' /\ \A q \in Requests : RowChanged(q)
<1> DEFINE fence == FenceFailure(r, config)
           state == IF ~request[r].live \/ fence = "reservation_expired"
                    THEN "EXPIRED" ELSE "INVALIDATED"
           failure == IF fence # None THEN fence ELSE "expired"
<1>1. state \in Terminal /\ state \notin Stored
  BY DEF Terminal, Stored, Refused
<1>2. failure \in Reasons \cup {None}
  BY FenceNames DEF Reasons
<1>3. "UNKNOWN" \in Outcomes
  BY DEF Outcomes
<1>4. /\ request[r].state \in Active
      /\ Finish(r, state, failure, "UNKNOWN")
      /\ Settle(r, None)
      /\ UNCHANGED <<consent, current, slot, billed>>
  BY DEF End
<1> HIDE DEF fence, state, failure
<1>5. reservation[r].exposed => Price(r, None) = RequestMax
  BY DEF Price
<1>6. slot' \in [Slots -> Slot]
  BY <1>4 DEF AnswersInv, TypeOK
<1>7. TypeOK' /\ RowChanged(r) /\ \A q \in Requests \ {r} :
             /\ request'[q] = request[q]
             /\ reservation'[q] = reservation[q]
             /\ attempts'[q] = attempts[q]
             /\ billed'[q] = billed[q]
  BY <1>1, <1>2, <1>3, <1>4, <1>5, <1>6, EndedRows
<1> QED
  BY <1>7, OthersKept

LEMMA CompleteStep ==
    ASSUME AnswersInv, NEW s \in Slots, NEW result \in Results, Complete(s, result)
    PROVE  TypeOK' /\ \A q \in Requests : RowChanged(q)
<1> DEFINE r == slot[s].request
           fence == FenceFailure(r, slot[s].config)
           state == StateOf(r, result, fence)
           failure == ReasonOf(r, result, fence)
           outcome == OutcomeOf(result)
<1>1. PICK usage \in Reported(s, result) : Settle(r, usage)
  BY DEF Complete
<1>2. /\ slot[s].step = "returned"
      /\ request[r].state = "RUNNING"
      /\ attempts[r][s] = "STARTED"
      /\ Finish(r, state, failure, outcome)
      /\ slot' = [slot EXCEPT ![s] = IdleSlot]
      /\ UNCHANGED <<consent, current, billed>>
  BY DEF Complete
<1>3. r \in Requests /\ slot[s].config \in Configs /\ slot[s] \in Slot /\ TypeOK
  BY <1>2 DEF AnswersInv, SlotsOK, SlotOK, TypeOK
<1>4. billed[r] = slot[s].bill
  BY <1>2 DEF AnswersInv, SlotsOK, SlotOK
<1>5. usage \in Nat \cup {None} /\ usage \in {None, billed[r]}
  BY <1>3, <1>4 DEF Reported, Slot
<1>6. state \in Terminal /\ (state \in Stored => request[r].live /\ fence = None)
  BY DEF StateOf, Terminal, Stored, Refused
<1>7. fence \in Reasons \cup {None}
      /\ (fence = None => Consented(request[r].origin, slot[s].config) /\ EvidenceStands(r))
  BY FenceNames
<1> HIDE DEF fence
<1>8. failure \in Reasons \cup {None}
  BY <1>7 DEF ReasonOf, Reasons, Results
<1>9. outcome \in Outcomes
  BY DEF OutcomeOf, Outcomes
<1>10. request[r].state \in Active
  BY <1>2 DEF Active
<1>11. slot' \in [Slots -> Slot] /\ slot'[s] # slot[s]
  BY <1>2, <1>3, FreedSlot
<1>12. reservation[r].exposed =>
             \/ Price(r, usage) = RequestMax
             \/ /\ billed[r] <= Price(r, usage)
                /\ \E t \in Slots : attempts[r][t] # "none" /\ slot'[t] # slot[t]
  <2>1. billed[r] \in Nat /\ attempts[r][s] # "none"
    BY <1>2, <1>3 DEF TypeOK
  <2> QED
    BY <1>5, <1>11, <2>1 DEF Price
<1>13. state \in Stored =>
             /\ request[r].state = "RUNNING"
             /\ request[r].live
             /\ \E config \in Configs : Consented(request[r].origin, config)
             /\ EvidenceStands(r)
  BY <1>2, <1>3, <1>6, <1>7
<1> HIDE DEF r, state, failure, outcome
<1>14. TypeOK' /\ RowChanged(r) /\ \A q \in Requests \ {r} :
             /\ request'[q] = request[q]
             /\ reservation'[q] = reservation[q]
             /\ attempts'[q] = attempts[q]
             /\ billed'[q] = billed[q]
  BY <1>1, <1>2, <1>3, <1>5, <1>6, <1>8, <1>9, <1>10, <1>11, <1>12, <1>13, EndedRows
<1> QED
  BY <1>3, <1>14, OthersKept

LEMMA LeaveStep ==
    ASSUME TypeOK, NEW s \in Slots, CompleteTooLate(s) \/ Abandon(s)
    PROVE  TypeOK' /\ \A q \in Requests : RowChanged(q)
<1>1. slot' = [slot EXCEPT ![s] = IdleSlot] /\ UNCHANGED <<consent, current, rows, billed>>
  BY DEF CompleteTooLate, Abandon
<1>2. TypeOK'
  BY <1>1, FreedSlot DEF TypeOK, rows
<1> QED
  BY <1>1, <1>2, RowsKept

\* Steps that rewrite the request, or the reservation, of one request only.
LEMMA RequestRows ==
    ASSUME TypeOK, NEW r \in Requests, NEW y \in Request,
           request' = [request EXCEPT ![r] = y],
           UNCHANGED <<consent, current, attempts, reservation, slot, billed>>,
           \/ Timed(request[r], reservation[r], attempts[r], billed[r],
                    y, reservation[r], attempts[r], billed[r])
           \/ Cleared(request[r], reservation[r], attempts[r], billed[r],
                      y, reservation[r], attempts[r], billed[r])
    PROVE  TypeOK' /\ \A q \in Requests : RowChanged(q)
<1>1. request'[r] = y /\ \A q \in Requests \ {r} : request'[q] = request[q]
  BY DEF TypeOK
<1>2. TypeOK'
  BY DEF TypeOK
<1>3. RowChanged(r)
  BY <1>1 DEF RowChanged, Changed
<1> QED
  BY <1>1, <1>2, <1>3, OthersKept

LEMMA ReservationRows ==
    ASSUME TypeOK, NEW r \in Requests, NEW w \in Reservation,
           reservation' = [reservation EXCEPT ![r] = w],
           UNCHANGED <<consent, current, request, attempts, slot, billed>>,
           SameReservation(reservation[r], w)
    PROVE  TypeOK' /\ \A q \in Requests : RowChanged(q)
<1>1. reservation'[r] = w /\ \A q \in Requests \ {r} : reservation'[q] = reservation[q]
  BY DEF TypeOK
<1>2. \A q \in Requests : reservation'[q].settled <= RequestMax
  BY <1>1 DEF TypeOK, SameReservation
<1>3. TypeOK'
  BY <1>2 DEF TypeOK
<1>4. RowChanged(r)
  BY <1>1 DEF RowChanged, Changed, Timed, SameRequest
<1> QED
  BY <1>1, <1>3, <1>4, OthersKept

LEMMA ClearStep ==
    ASSUME TypeOK, NEW r \in Requests, NEW config, ClearContent(r, config)
    PROVE  TypeOK' /\ \A q \in Requests : RowChanged(q)
<1> DEFINE failure == IF ~request[r].kept THEN "expired" ELSE FenceFailure(r, config)
           y == [request[r] EXCEPT !.question = FALSE, !.claims = FALSE,
                                   !.evidence = FALSE, !.failure = failure]
<1>1. request[r] \in Request
  BY DEF TypeOK
<1>2. failure \in Reasons \cup {None}
  BY FenceNames DEF Reasons
<1>3. /\ request[r].state \in Terminal
      /\ request' = [request EXCEPT ![r] = y]
      /\ UNCHANGED <<consent, current, attempts, reservation, slot, billed>>
  BY <1>1 DEF ClearContent, TypeOK
<1> HIDE DEF failure
<1>4. /\ y \in Request
      /\ y.state = request[r].state /\ y.origin = request[r].origin
      /\ y.sources = request[r].sources
      /\ ~y.question /\ ~y.evidence /\ ~y.claims
      /\ y.live = request[r].live /\ y.kept = request[r].kept
      /\ y.deduped = request[r].deduped
  BY <1>1, <1>2 DEF Request
<1> HIDE DEF y
<1>5. Cleared(request[r], reservation[r], attempts[r], billed[r],
              y, reservation[r], attempts[r], billed[r])
  BY <1>3, <1>4 DEF Cleared
<1> QED
  BY <1>3, <1>4, <1>5, RequestRows

LEMMA DeleteStep ==
    ASSUME TypeOK, NEW r \in Requests, DeleteReceipt(r)
    PROVE  TypeOK' /\ \A q \in Requests : RowChanged(q)
<1> DEFINE c == [s \in Slots |-> "none"]
<1>1. /\ request[r].state \in Terminal /\ ~request[r].deduped
      /\ request' = [request EXCEPT ![r] = NoRequest]
      /\ attempts' = [attempts EXCEPT ![r] = c]
      /\ reservation' = [reservation EXCEPT ![r] = NoReservation]
      /\ billed' = [billed EXCEPT ![r] = 0]
      /\ UNCHANGED <<consent, current, slot>>
  BY DEF DeleteReceipt, MayDelete
<1>2. c \in [Slots -> {"none", "STARTED"} \cup Outcomes]
  OBVIOUS
<1> HIDE DEF c
<1>3. /\ request'[r] = NoRequest /\ reservation'[r] = NoReservation
      /\ attempts'[r] = c /\ billed'[r] = 0
      /\ \A q \in Requests \ {r} :
             /\ request'[q] = request[q]
             /\ reservation'[q] = reservation[q]
             /\ attempts'[q] = attempts[q]
             /\ billed'[q] = billed[q]
  BY <1>1 DEF TypeOK
<1>4. \A q \in Requests : reservation'[q].settled <= RequestMax
  BY <1>3, IdleRows, AnswersConstantsOK DEF TypeOK
<1>5. TypeOK'
  BY <1>1, <1>2, <1>4, IdleRows DEF TypeOK
<1>6. RowChanged(r)
  BY <1>1, <1>3 DEF RowChanged, Changed, Deleted, c
<1> QED
  BY <1>3, <1>5, <1>6, OthersKept

LEMMA ClockStep ==
    ASSUME TypeOK, NEW r \in Requests, Clock(r)
    PROVE  TypeOK' /\ \A q \in Requests : RowChanged(q)
<1>1. request[r] \in Request /\ reservation[r] \in Reservation
  BY DEF TypeOK
<1>2. CASE ReservationLapses(r)
  <2> DEFINE w == [reservation[r] EXCEPT !.live = FALSE]
  <2>1. w \in Reservation /\ SameReservation(reservation[r], w)
    BY <1>1 DEF Reservation, SameReservation
  <2>2. reservation' = [reservation EXCEPT ![r] = w]
        /\ UNCHANGED <<consent, current, request, attempts, slot, billed>>
    BY <1>2 DEF ReservationLapses, TypeOK
  <2> QED
    BY <2>1, <2>2, ReservationRows
<1>3. CASE UsageAges(r)
  <2> DEFINE w == [reservation[r] EXCEPT !.aged = TRUE]
  <2>1. w \in Reservation /\ SameReservation(reservation[r], w)
    BY <1>1 DEF Reservation, SameReservation
  <2>2. reservation' = [reservation EXCEPT ![r] = w]
        /\ UNCHANGED <<consent, current, request, attempts, slot, billed>>
    BY <1>3 DEF UsageAges, TypeOK
  <2> QED
    BY <2>1, <2>2, ReservationRows
<1>4. CASE RequestLapses(r)
  <2> DEFINE y == [request[r] EXCEPT !.live = FALSE]
  <2>1. y \in Request /\ SameRequest(request[r], y)
        /\ ~y.live /\ y.kept = request[r].kept /\ y.deduped = request[r].deduped
    BY <1>1 DEF Request, SameRequest
  <2>2. request' = [request EXCEPT ![r] = y]
        /\ UNCHANGED <<consent, current, attempts, reservation, slot, billed>>
    BY <1>4 DEF RequestLapses, TypeOK
  <2> HIDE DEF y
  <2> QED
    BY <2>1, <2>2, RequestRows DEF Timed, SameReservation
<1>5. CASE AnswerLapses(r)
  <2> DEFINE y == [request[r] EXCEPT !.kept = FALSE]
  <2>1. y \in Request /\ SameRequest(request[r], y)
        /\ ~y.kept /\ y.live = request[r].live /\ y.deduped = request[r].deduped
    BY <1>1 DEF Request, SameRequest
  <2>2. request' = [request EXCEPT ![r] = y]
        /\ UNCHANGED <<consent, current, attempts, reservation, slot, billed>>
    BY <1>5 DEF AnswerLapses, TypeOK
  <2> HIDE DEF y
  <2> QED
    BY <2>1, <2>2, RequestRows DEF Timed, SameReservation
<1>6. CASE ReceiptLapses(r)
  <2> DEFINE y == [request[r] EXCEPT !.deduped = FALSE]
  <2>1. y \in Request /\ SameRequest(request[r], y)
        /\ ~y.deduped /\ y.live = request[r].live /\ y.kept = request[r].kept
    BY <1>1 DEF Request, SameRequest
  <2>2. request' = [request EXCEPT ![r] = y]
        /\ UNCHANGED <<consent, current, attempts, reservation, slot, billed>>
        /\ ~request[r].live /\ ~request[r].kept /\ request[r].deduped
    BY <1>6 DEF ReceiptLapses, TypeOK
  <2> HIDE DEF y
  <2> QED
    BY <2>1, <2>2, RequestRows DEF Timed, SameReservation
<1> QED
  BY <1>2, <1>3, <1>4, <1>5, <1>6 DEF Clock

LEMMA StepChanges ==
    ASSUME AnswersInv, [Next]_vars
    PROVE  TypeOK' /\ \A q \in Requests : RowChanged(q)
<1> USE DEF AnswersInv
<1>1. CASE UNCHANGED vars
  BY <1>1, RowsKept DEF TypeOK, vars, rows
<1>2. CASE Owner
  <2>1. ASSUME NEW config \in Configs, Grant(config)
        PROVE  TypeOK' /\ \A q \in Requests : RowChanged(q)
    BY <2>1, GrantStep, RowsKept DEF Grant
  <2>2. ASSUME Revoke
        PROVE  TypeOK' /\ \A q \in Requests : RowChanged(q)
    BY <2>2, RevokeStep, RowsKept DEF Revoke
  <2>3. ASSUME NEW m \in Materials, EditMaterial(m) \/ DeleteMaterial(m)
        PROVE  TypeOK' /\ \A q \in Requests : RowChanged(q)
    BY <2>3, MaterialStep, RowsKept DEF EditMaterial, DeleteMaterial
  <2>4. ASSUME NEW r \in Requests, NEW config \in Configs, NEW m \in Materials,
               NEW history \in SUBSET Requests, Generate(r, config, m, history)
        PROVE  TypeOK' /\ \A q \in Requests : RowChanged(q)
    BY <2>4, GenerateStep, OthersKept DEF PermissionOK
  <2> QED
    BY <1>2, <2>1, <2>2, <2>3, <2>4 DEF Owner
<1>3. ASSUME NEW s \in Slots, Worker(s)
      PROVE  TypeOK' /\ \A q \in Requests : RowChanged(q)
  <2>1. ASSUME NEW r \in Requests, NEW config \in Configs, Start(s, r, config)
        PROVE  TypeOK' /\ \A q \in Requests : RowChanged(q)
    BY <2>1, StartStep, OthersKept
  <2>2. ASSUME NEW bill \in Bills, Call(s, bill)
        PROVE  TypeOK' /\ \A q \in Requests : RowChanged(q)
    BY <2>2, CallStep
  <2>3. ASSUME NEW result \in Results, Complete(s, result)
        PROVE  TypeOK' /\ \A q \in Requests : RowChanged(q)
    BY <2>3, CompleteStep
  <2>4. ASSUME CompleteTooLate(s) \/ Abandon(s)
        PROVE  TypeOK' /\ \A q \in Requests : RowChanged(q)
    BY <2>4, LeaveStep
  <2> QED
    BY <1>3, <2>1, <2>2, <2>3, <2>4 DEF Worker
<1>4. ASSUME NEW r \in Requests, NEW config \in Configs \cup {None}, Visit(r, config)
      PROVE  TypeOK' /\ \A q \in Requests : RowChanged(q)
  BY <1>4, EndStep, ClearStep, DeleteStep DEF Visit
<1>5. ASSUME NEW r \in Requests, Clock(r)
      PROVE  TypeOK' /\ \A q \in Requests : RowChanged(q)
  BY <1>5, ClockStep
<1> QED
  BY <1>1, <1>2, <1>3, <1>4, <1>5 DEF Next

-----------------------------------------------------------------------------
(* Every such step keeps the invariant *)

LEMMA RowStaysOK ==
    ASSUME NEW r,
           NEW x \in Request, NEW y \in Request,
           NEW v \in Reservation, NEW w \in Reservation,
           NEW a \in [Slots -> {"none", "STARTED"} \cup Outcomes],
           NEW c \in [Slots -> {"none", "STARTED"} \cup Outcomes],
           NEW b \in Nat, NEW d \in Nat,
           RowOK(x, v, a, b),
           Changed(r, x, v, a, b, y, w, c, d)
    PROVE  RowOK(y, w, c, d)
<1>1. CASE Timed(x, v, a, b, y, w, c, d)
  BY <1>1 DEF Timed, SameRequest, SameReservation, RowOK, Request
<1>2. CASE Created(x, v, a, b, y, w, c, d)
  BY <1>2 DEF Created, RowOK, Active, Stored
<1>3. CASE Begun(r, x, v, a, b, y, w, c, d)
  BY <1>3 DEF Begun, RowOK, Active, Stored, Outcomes
<1>4. CASE Billed(x, v, a, b, y, w, c, d)
  BY <1>4 DEF Billed, RowOK, Active
<1>5. CASE Ended(r, x, v, a, b, y, w, c, d)
  <2>1. PICK state \in Terminal, failure \in Reasons \cup {None}, outcome \in Outcomes :
          /\ y = FinishedRow(x, state, failure)
          /\ c = [s \in Slots |-> IF a[s] = "STARTED" THEN outcome ELSE a[s]]
          /\ state \in Stored => x.state = "RUNNING" /\ x.live
    BY <1>5 DEF Ended
  <2>2. /\ y.state = state /\ y.origin = x.origin /\ y.sources = {}
        /\ ~y.question /\ y.evidence = x.evidence
        /\ y.claims <=> state = "PUBLISHED"
        /\ y.live = x.live
        /\ y.kept <=> state \in Stored
        /\ y.deduped = x.deduped
    <3>1. y = FinishedRow(x, state, failure)
      BY <2>1
    <3> QED
      BY <3>1, FinishedRowFields
  <2>3. state \notin Active /\ state # "absent" /\ state # "RUNNING" /\ state # "RESERVED"
    BY DEF Terminal, Stored, Refused, Active
  <2>4. \A s \in Slots :
           /\ c[s] # "none" <=> a[s] # "none"
           /\ c[s] # "STARTED"
    BY <2>1 DEF Outcomes
  <2>5. x.state \in Active /\ v.state = "reserved" /\ x.evidence /\ x.state # "absent"
    BY <1>5 DEF Ended, RowOK, Active
  <2>6. /\ w.state = IF v.exposed THEN "settled" ELSE "released"
        /\ w.exposed = v.exposed
        /\ v.exposed => b <= w.settled \/ w.settled = RequestMax
        /\ d = b
    BY <1>5, <2>5 DEF Ended
  <2> QED
    BY <2>2, <2>3, <2>4, <2>5, <2>6, <2>1 DEF RowOK
<1>6. CASE Cleared(x, v, a, b, y, w, c, d)
  BY <1>6 DEF Cleared, RowOK, Active, Terminal, Stored, Refused
<1>7. CASE Deleted(x, v, a, b, y, w, c, d)
  BY <1>7, IdleRows DEF Deleted, RowOK, Active, Stored
<1> QED
  BY <1>1, <1>2, <1>3, <1>4, <1>5, <1>6, <1>7 DEF Changed

LEMMA RowsStayOK ==
    ASSUME AnswersInv, [Next]_vars
    PROVE  RowsOK'
<1>1. TypeOK /\ TypeOK' /\ RowsOK /\ \A q \in Requests : RowChanged(q)
  BY StepChanges DEF AnswersInv
<1>2. ASSUME NEW r \in Requests
      PROVE  RowOK(request'[r], reservation'[r], attempts'[r], billed'[r])
  <2>1. /\ request[r] \in Request /\ request'[r] \in Request
        /\ reservation[r] \in Reservation /\ reservation'[r] \in Reservation
        /\ attempts[r] \in [Slots -> {"none", "STARTED"} \cup Outcomes]
        /\ attempts'[r] \in [Slots -> {"none", "STARTED"} \cup Outcomes]
        /\ billed[r] \in Nat /\ billed'[r] \in Nat
    BY <1>1 DEF TypeOK
  <2>2. RowOK(request[r], reservation[r], attempts[r], billed[r])
    BY <1>1 DEF RowsOK
  <2> QED
    BY <1>1, <2>1, <2>2, RowStaysOK DEF RowChanged
<1> QED
  BY <1>2 DEF RowsOK, RowOK

\* Only the owner changes consent and materials, and no permission comes back.
Fading ==
    /\ consent.epoch <= consent'.epoch
    /\ consent'.epoch = consent.epoch => consent' = consent
    /\ consent'.granted => consent'.epoch > 0
    /\ \A m \in Materials :
           current'[m] = 0 \/ (current[m] # 0 /\ current[m] <= current'[m])

LEMMA PermissionsFade ==
    ASSUME AnswersInv, [Next]_vars
    PROVE  Fading
<1>1. /\ consent.epoch \in Nat
      /\ \A m \in Materials : current[m] \in Nat
      /\ consent.granted => consent.epoch > 0
  BY AnswersConstantsOK DEF AnswersInv, TypeOK, Revisions, PermissionOK
<1>2. CASE UNCHANGED <<consent, current>>
  BY <1>1, <1>2 DEF Fading
<1>3. ASSUME NEW config \in Configs, Grant(config) PROVE Fading
  <2>1. consent'.epoch = consent.epoch + 1 /\ current' = current
    BY <1>3 DEF Grant
  <2> QED
    BY <1>1, <2>1 DEF Fading
<1>4. ASSUME Revoke PROVE Fading
  <2>1. consent'.epoch = consent.epoch + 1 /\ current' = current
    BY <1>4 DEF Revoke, AnswersInv, TypeOK
  <2> QED
    BY <1>1, <2>1 DEF Fading
<1>5. ASSUME NEW m \in Materials, EditMaterial(m) \/ DeleteMaterial(m) PROVE Fading
  <2>1. consent' = consent /\ \A n \in Materials \ {m} : current'[n] = current[n]
    BY <1>5 DEF EditMaterial, DeleteMaterial, AnswersInv, TypeOK
  <2>2. current'[m] = 0 \/ (current[m] # 0 /\ current'[m] = current[m] + 1)
    BY <1>5, <1>1 DEF EditMaterial, DeleteMaterial, AnswersInv, TypeOK
  <2> QED
    BY <1>1, <2>1, <2>2 DEF Fading
<1>6. CASE UNCHANGED vars
  BY <1>2, <1>6 DEF vars
<1>7. ASSUME NEW r \in Requests, NEW config \in Configs, NEW m \in Materials,
             NEW history \in SUBSET Requests, Generate(r, config, m, history)
      PROVE  Fading
  BY <1>2, <1>7 DEF Generate
<1>8. ASSUME NEW s \in Slots, Worker(s) PROVE Fading
  BY <1>2, <1>8 DEF Worker, Start, Call, Complete, CompleteTooLate, Abandon
<1>9. ASSUME NEW r \in Requests, NEW config, Visit(r, config) PROVE Fading
  BY <1>2, <1>9 DEF Visit, End, ClearContent, DeleteReceipt
<1>10. ASSUME NEW r \in Requests, Clock(r) PROVE Fading
  BY <1>2, <1>10 DEF Clock, ReservationLapses, RequestLapses, AnswerLapses, ReceiptLapses,
                     UsageAges
<1> QED
  BY <1>3, <1>4, <1>5, <1>6, <1>7, <1>8, <1>9, <1>10 DEF Next, Owner

LEMMA PermissionStaysOK ==
    ASSUME AnswersInv, [Next]_vars
    PROVE  PermissionOK'
<1>1. TypeOK /\ RowsOK /\ TypeOK' /\ Fading /\ \A q \in Requests : RowChanged(q)
  BY StepChanges, PermissionsFade DEF AnswersInv
<1>2. ASSUME NEW r \in Requests, request'[r].state # "absent"
      PROVE  /\ request'[r].origin.epoch <= consent'.epoch
             /\ \/ current'[request'[r].origin.material] = 0
                \/ request'[r].origin.revision <= current'[request'[r].origin.material]
  <2> DEFINE x == request[r]
             y == request'[r]
  <2>1. /\ consent.epoch \in Nat /\ consent'.epoch \in Nat
        /\ \A m \in Materials : current[m] \in Nat /\ current'[m] \in Nat
    BY <1>1, AnswersConstantsOK DEF TypeOK, Revisions
  <2>2. CASE Created(x, reservation[r], attempts[r], billed[r],
                     y, reservation'[r], attempts'[r], billed'[r])
    <3>1. y.origin \in Origin /\ y.origin.epoch = consent.epoch
          /\ y.origin.revision = current[y.origin.material]
      BY <2>2 DEF Created
    <3>2. y.origin.material \in Materials
      BY <3>1 DEF Origin
    <3> QED
      BY <1>1, <2>1, <3>1, <3>2 DEF Fading
  <2>3. CASE x.state # "absent" /\ y.origin = x.origin
    <3>1. x.origin \in Origin
      BY <1>1, <2>3 DEF RowsOK, RowOK
    <3>2. x.origin.material \in Materials /\ x.origin.epoch \in Nat /\ x.origin.revision \in Nat
      BY <3>1 DEF Origin
    <3>3. /\ x.origin.epoch <= consent.epoch
          /\ current[x.origin.material] = 0 \/ x.origin.revision <= current[x.origin.material]
      BY <2>3 DEF AnswersInv, PermissionOK
    <3> QED
      BY <1>1, <2>1, <2>3, <3>2, <3>3 DEF Fading
  <2>4. \/ Created(x, reservation[r], attempts[r], billed[r],
                   y, reservation'[r], attempts'[r], billed'[r])
        \/ x.state # "absent" /\ y.origin = x.origin
    <3>1. x \in Request
      BY <1>1 DEF TypeOK
    <3>2. ASSUME NEW state \in Terminal, NEW failure \in Reasons \cup {None},
                 y = FinishedRow(x, state, failure)
          PROVE  y.origin = x.origin
      BY <3>1, <3>2, FinishedRowFields
    <3>3. "absent" \notin Active /\ "absent" \notin Terminal
      BY DEF Active, Terminal, Stored, Refused
    <3> QED
      BY <1>1, <1>2, <3>2, <3>3, IdleRows
      DEF RowChanged, Changed, Timed, SameRequest, Begun, Billed, Ended, Cleared, Deleted
  <2> QED
    BY <2>2, <2>3, <2>4
<1> QED
  BY <1>1, <1>2 DEF PermissionOK, Fading

LEMMA SlotsStayOK ==
    ASSUME AnswersInv, [Next]_vars
    PROVE  SlotsOK'
<1>1. /\ TypeOK /\ RowsOK /\ SlotsOK /\ TypeOK' /\ RowsOK'
      /\ \A q \in Requests : RowChanged(q)
  BY StepChanges, RowsStayOK DEF AnswersInv
<1>2. ASSUME NEW s \in Slots, slot'[s] = slot[s] PROVE SlotOK(s)'
  <2> DEFINE r == slot[s].request
             x == request[r]
             y == request'[r]
             v == reservation[r]
             w == reservation'[r]
             a == attempts[r]
             c == attempts'[r]
  <2>1. SUFFICES ASSUME slot[s].step # "idle", c[s] # "none"
                 PROVE  /\ billed'[r] = IF slot[s].step = "calling" THEN 0 ELSE slot[s].bill
                        /\ y.state = "RUNNING" \/ w.settled = RequestMax
    BY <1>1, <1>2 DEF SlotsOK, SlotOK
  <2>2. r \in Requests
    BY <1>1, <2>1 DEF SlotsOK, SlotOK
  <2>3. RowOK(x, v, a, billed[r]) /\ RowOK(y, w, c, billed'[r])
    BY <1>1, <2>2 DEF RowsOK, RowOK
  <2>4. a \in [Slots -> {"none", "STARTED"} \cup Outcomes] /\ x \in Request /\ v \in Reservation
    BY <1>1, <2>2 DEF TypeOK
  <2>5. a[s] # "none" =>
          /\ billed[r] = IF slot[s].step = "calling" THEN 0 ELSE slot[s].bill
          /\ x.state = "RUNNING" \/ v.settled = RequestMax
    BY <1>1, <2>1 DEF SlotsOK, SlotOK
  <2>6. Changed(r, x, v, a, billed[r], y, w, c, billed'[r])
    BY <1>1, <2>2 DEF RowChanged
  <2> HIDE DEF r, x, y, v, w, a, c
  <2>7. CASE Timed(x, v, a, billed[r], y, w, c, billed'[r])
    BY <2>1, <2>5, <2>7 DEF Timed, SameRequest, SameReservation
  <2>8. CASE Created(x, v, a, billed[r], y, w, c, billed'[r])
    BY <2>1, <2>3, <2>8 DEF Created, RowOK
  <2>9. CASE Begun(r, x, v, a, billed[r], y, w, c, billed'[r])
    <3>1. PICK t \in Slots : c = [a EXCEPT ![t] = "STARTED"] /\ slot'[t] # slot[t]
      BY <2>9 DEF Begun
    <3>2. a[s] # "none"
      BY <1>2, <2>1, <2>4, <3>1
    <3> QED
      BY <2>3, <2>9, <3>2 DEF Begun, RowOK
  <2>10. CASE Billed(x, v, a, billed[r], y, w, c, billed'[r])
    BY <1>2, <2>1, <2>3, <2>10 DEF Billed, RowOK
  <2>11. CASE Ended(r, x, v, a, billed[r], y, w, c, billed'[r])
    <3>1. a[s] # "none"
      <4>1. PICK outcome \in Outcomes :
              c = [t \in Slots |-> IF a[t] = "STARTED" THEN outcome ELSE a[t]]
        BY <2>11 DEF Ended
      <4> QED
        BY <2>1, <4>1
    <3>2. v.state = "reserved" /\ v.exposed
      BY <2>3, <2>11, <3>1 DEF Ended, RowOK
    <3>3. w.settled = RequestMax \/ \E t \in Slots : a[t] # "none" /\ slot'[t] # slot[t]
      BY <2>11, <3>2 DEF Ended
    <3>4. w.settled = RequestMax
      BY <1>2, <2>3, <3>1, <3>3 DEF RowOK
    <3> QED
      BY <2>5, <2>11, <3>1, <3>4 DEF Ended
  <2>12. CASE Cleared(x, v, a, billed[r], y, w, c, billed'[r])
    BY <2>1, <2>5, <2>12 DEF Cleared
  <2>13. CASE Deleted(x, v, a, billed[r], y, w, c, billed'[r])
    BY <2>1, <2>13 DEF Deleted
  <2> QED
    BY <2>6, <2>7, <2>8, <2>9, <2>10, <2>11, <2>12, <2>13 DEF Changed
<1>3. ASSUME NEW s \in Slots, slot'[s].step = "idle" PROVE SlotOK(s)'
  BY <1>3 DEF SlotOK
<1>4. ASSUME NEW s \in Slots, NEW r \in Requests, NEW config \in Configs, Start(s, r, config)
      PROVE  SlotsOK'
  <2> DEFINE work == [IdleSlot EXCEPT !.step = "calling", !.request = r, !.config = config]
  <2>1. work.step = "calling" /\ work.request = r /\ work.config = config
    BY IdleRows DEF Slot
  <2>2. slot' = [slot EXCEPT ![s] = work] /\ billed' = billed /\ request[r].state = "RESERVED"
    BY <1>4 DEF Start
  <2> HIDE DEF work
  <2>3. slot'[s] = work /\ \A t \in Slots \ {s} : slot'[t] = slot[t]
    BY <1>1, <2>2 DEF TypeOK
  <2>4. request'[r].state = "RUNNING"
    <3>1. request[r] \in Request /\ request' = [request EXCEPT ![r].state = "RUNNING"]
      BY <1>1, <1>4 DEF Start, TypeOK
    <3>2. request'[r] = [request[r] EXCEPT !.state = "RUNNING"]
      BY <1>1, <3>1 DEF TypeOK
    <3> QED
      BY <3>1, <3>2 DEF Request
  <2>5. billed'[r] = 0
    <3>1. RowOK(request[r], reservation[r], attempts[r], billed[r]) /\ billed[r] \in Nat
      BY <1>1 DEF RowsOK, TypeOK
    <3>2. ~(billed[r] > 0)
      BY <2>2, <3>1 DEF RowOK
    <3> QED
      BY <2>2, <3>1, <3>2
  <2>6. SlotOK(s)'
    BY <2>1, <2>3, <2>4, <2>5 DEF SlotOK
  <2> QED
    BY <1>2, <2>3, <2>6 DEF SlotsOK
<1>5. ASSUME NEW s \in Slots, NEW bill \in Bills, Call(s, bill) PROVE SlotsOK'
  <2> DEFINE r == slot[s].request
             work == [slot[s] EXCEPT !.step = "returned", !.bill = bill]
  <2>1. r \in Requests /\ slot[s] \in Slot /\ bill \in Nat /\ slot[s].step = "calling"
    BY <1>1, <1>5, AnswersConstantsOK DEF SlotsOK, SlotOK, Call, TypeOK
  <2>2. work.step = "returned" /\ work.bill = bill /\ work.request = r
        /\ work.config = slot[s].config
    BY <2>1 DEF Slot
  <2>3. slot' = [slot EXCEPT ![s] = work] /\ UNCHANGED rows
    BY <1>5 DEF Call
  <2>4. attempts[r][s] # "none" => billed'[r] = billed[r] + bill
    BY <1>1, <1>5, <2>1 DEF Call, TypeOK
  <2> HIDE DEF work
  <2>5. slot'[s] = work /\ \A t \in Slots \ {s} : slot'[t] = slot[t]
    BY <1>1, <2>3 DEF TypeOK
  <2>6. SlotOK(s)
    BY <1>1 DEF SlotsOK
  <2>7. SlotOK(s)'
    BY <2>1, <2>2, <2>3, <2>4, <2>5, <2>6 DEF SlotOK, rows
  <2> QED
    BY <1>2, <2>5, <2>7 DEF SlotsOK
<1>6. ASSUME NEW s \in Slots, slot' = [slot EXCEPT ![s] = IdleSlot] PROVE SlotsOK'
  BY <1>1, <1>2, <1>3, <1>6, FreedSlot DEF SlotsOK
<1>7. CASE slot' = slot
  BY <1>2, <1>7 DEF SlotsOK
<1>8. ASSUME NEW s \in Slots, Worker(s) PROVE SlotsOK'
  BY <1>4, <1>5, <1>6, <1>8 DEF Worker, Complete, CompleteTooLate, Abandon
<1>9. ASSUME Owner PROVE slot' = slot
  BY <1>9 DEF Owner, Grant, Revoke, EditMaterial, DeleteMaterial, Generate
<1>10. ASSUME NEW r \in Requests, NEW config, Visit(r, config) PROVE slot' = slot
  BY <1>10 DEF Visit, End, ClearContent, DeleteReceipt
<1>11. ASSUME NEW r \in Requests, Clock(r) PROVE slot' = slot
  BY <1>11 DEF Clock, ReservationLapses, RequestLapses, AnswerLapses, ReceiptLapses, UsageAges
<1> QED
  BY <1>7, <1>8, <1>9, <1>10, <1>11 DEF Next, vars

LEMMA InitInv ==
    ASSUME Init
    PROVE  AnswersInv
<1>1. TypeOK
  BY IdleRows, AnswersConstantsOK DEF Init, TypeOK, Revisions
<1>2. RowsOK
  BY IdleRows DEF Init, RowsOK, RowOK, Active, Stored
<1>3. SlotsOK
  BY IdleRows DEF Init, SlotsOK, SlotOK
<1>4. PermissionOK
  BY IdleRows DEF Init, PermissionOK
<1> QED
  BY <1>1, <1>2, <1>3, <1>4 DEF AnswersInv

(* In every state the rows of a request agree, a call in a worker knows what *)
(* was charged, and no request is of a later consent or revision than exist. *)
THEOREM Invariance == Spec => []AnswersInv
<1>1. Init => AnswersInv
  BY InitInv
<1>2. AnswersInv /\ [Next]_vars => AnswersInv'
  BY StepChanges, RowsStayOK, SlotsStayOK, PermissionStaysOK DEF AnswersInv
<1> QED
  BY <1>1, <1>2, PTL DEF Spec

-----------------------------------------------------------------------------
(* What follows in every state *)

(* Rows, slots and bills keep their types, and no reservation is settled    *)
(* above its maximum.                                                       *)
THEOREM TypeCorrect == Spec => []TypeOK
<1>1. AnswersInv => TypeOK
  BY DEF AnswersInv
<1> QED
  BY <1>1, Invariance, PTL

(* A request makes one call at most, and it is on record and exposed.      *)
THEOREM CallsOnce == Spec => []OneRecordedCall
<1>1. AnswersInv => OneRecordedCall
  BY DEF AnswersInv, RowsOK, RowOK, OneRecordedCall
<1> QED
  BY <1>1, Invariance, PTL

(* The ledger covers what the provider charged, up to what was reserved.   *)
THEOREM BillsAreCovered == Spec => []LedgerCoversBills
<1>1. ASSUME AnswersInv PROVE LedgerCoversBills
  <2>1. ASSUME NEW r \in Requests
        PROVE  CASE reservation[r].state = "reserved" ->
                        billed[r] > 0 => reservation[r].exposed
                 [] reservation[r].state = "settled" ->
                        billed[r] <= reservation[r].settled
                        \/ reservation[r].settled = RequestMax
                 [] OTHER -> billed[r] = 0
    <3>1. RowOK(request[r], reservation[r], attempts[r], billed[r]) /\ billed[r] \in Nat
      BY <1>1 DEF AnswersInv, RowsOK, TypeOK
    <3>2. CASE reservation[r].state = "reserved"
      BY <3>1, <3>2 DEF RowOK
    <3>3. CASE reservation[r].state = "settled"
      BY <3>1, <3>3 DEF RowOK
    <3>4. CASE reservation[r].state \notin {"reserved", "settled"}
      <4>1. ~(billed[r] > 0)
        BY <3>1, <3>4 DEF RowOK
      <4>2. billed[r] = 0
        BY <3>1, <4>1
      <4> QED
        BY <3>4, <4>2
    <3> QED
      BY <3>2, <3>3, <3>4
  <2> QED
    BY <2>1 DEF LedgerCoversBills
<1> QED
  BY <1>1, Invariance, PTL

(* A request and its reservation end together.                             *)
THEOREM EndsTogether == Spec => []ClosedTogether
<1>1. AnswersInv => ClosedTogether
  BY DEF AnswersInv, RowsOK, RowOK, ClosedTogether
<1> QED
  BY <1>1, Invariance, PTL

(* No question and no unpublished claims stay in a row that has ended.     *)
THEOREM LeavesNothing == Spec => []NothingLeftBehind
<1>1. AnswersInv => NothingLeftBehind
  BY DEF AnswersInv, RowsOK, RowOK, NothingLeftBehind
<1> QED
  BY <1>1, Invariance, PTL

(* An answer that is shown has its claims and its citations.               *)
THEOREM ShowsComplete == Spec => []ShownIsComplete
<1>1. ASSUME AnswersInv PROVE ShownIsComplete
  <2>1. ASSUME NEW r \in Requests, NEW config \in Configs, Report(r, config) = "PUBLISHED"
        PROVE  request[r].claims /\ request[r].evidence
    <3>1. request[r].state = "PUBLISHED" /\ request[r].evidence
      BY <2>1 DEF Report, Stored
    <3> QED
      BY <1>1, <3>1 DEF AnswersInv, RowsOK, RowOK
  <2> QED
    BY <2>1 DEF ShownIsComplete
<1> QED
  BY <1>1, Invariance, PTL

(* No row keeps private text longer, and none loses it earlier, than its   *)
(* state has use for it.                                                   *)
THEOREM KeepsWhatItShows == Spec => []ContentMatchesState
<1>1. NothingLeftBehind /\ ShownIsComplete => ContentMatchesState
  BY DEF ContentMatchesState
<1> QED
  BY <1>1, LeavesNothing, ShowsComplete, PTL

-----------------------------------------------------------------------------
(* What follows for every step *)

(* Only a running request whose consent and evidence stand is published.   *)
THEOREM PublishesPermitted == Spec => PublishesOnlyPermitted
<1> DEFINE A == \A r \in Requests :
           request[r].state # "PUBLISHED" /\ request'[r].state = "PUBLISHED" =>
               /\ consent.granted
               /\ consent.epoch = request[r].origin.epoch
               /\ consent.config = request[r].origin.config
               /\ current[request[r].origin.material] = request[r].origin.revision
               /\ request[r].live
<1>1. ASSUME AnswersInv, [Next]_vars PROVE A
  <2>1. SUFFICES ASSUME NEW r \in Requests,
                        request[r].state # "PUBLISHED", request'[r].state = "PUBLISHED"
                 PROVE  /\ consent.granted
                        /\ consent.epoch = request[r].origin.epoch
                        /\ consent.config = request[r].origin.config
                        /\ current[request[r].origin.material] = request[r].origin.revision
                        /\ request[r].live
    OBVIOUS
  <2>2. RowChanged(r) /\ request[r] \in Request
    BY <1>1, StepChanges DEF AnswersInv, TypeOK
  <2>3. Ended(r, request[r], reservation[r], attempts[r], billed[r],
              request'[r], reservation'[r], attempts'[r], billed'[r])
    BY <2>1, <2>2, IdleRows
    DEF RowChanged, Changed, Timed, SameRequest, Created, Begun, Billed, Cleared, Deleted
  <2>4. PICK state \in Terminal, failure \in Reasons \cup {None} :
          /\ request'[r] = FinishedRow(request[r], state, failure)
          /\ state \in Stored =>
                 /\ request[r].live
                 /\ \E config \in Configs : Consented(request[r].origin, config)
                 /\ EvidenceStands(r)
    BY <2>3 DEF Ended
  <2>5. state = "PUBLISHED"
    BY <2>1, <2>2, <2>4, FinishedRowFields
  <2> QED
    BY <2>4, <2>5 DEF Stored, Consented, EvidenceStands, RevisionStands
<1>2. AnswersInv /\ [Next]_vars => [A]_vars
  BY <1>1
<1> QED
  BY <1>2, Invariance, PTL DEF Spec, PublishesOnlyPermitted

(* Everything a call sends is of the present consent and revision.         *)
THEOREM SendsPermitted == Spec => SendsOnlyPermitted
<1> DEFINE A == \A r \in Requests :
           request[r].state = "RESERVED" /\ request'[r].state = "RUNNING" =>
               \A origin \in request[r].sources :
                   /\ current[origin.material] = origin.revision
                   /\ consent.granted /\ consent.epoch = origin.epoch
                   /\ consent.config = origin.config
<1>1. ASSUME AnswersInv, [Next]_vars PROVE A
  <2>1. SUFFICES ASSUME NEW r \in Requests,
                        request[r].state = "RESERVED", request'[r].state = "RUNNING",
                        NEW origin \in request[r].sources
                 PROVE  /\ current[origin.material] = origin.revision
                        /\ consent.granted /\ consent.epoch = origin.epoch
                        /\ consent.config = origin.config
    OBVIOUS
  <2>2. RowChanged(r) /\ request[r] \in Request
    BY <1>1, StepChanges DEF AnswersInv, TypeOK
  <2>3. ASSUME NEW state \in Terminal, NEW failure \in Reasons \cup {None},
               request'[r] = FinishedRow(request[r], state, failure)
        PROVE  FALSE
    <3>1. request'[r].state = state
      BY <2>2, <2>3, FinishedRowFields
    <3> QED
      BY <2>1, <3>1 DEF Terminal, Stored, Refused
  <2>4. Begun(r, request[r], reservation[r], attempts[r], billed[r],
              request'[r], reservation'[r], attempts'[r], billed'[r])
    BY <2>1, <2>2, <2>3, IdleRows
    DEF RowChanged, Changed, Timed, SameRequest, Created, Billed, Ended, Cleared, Deleted
  <2>5. (\E config \in Configs : Consented(request[r].origin, config)) /\ EvidenceStands(r)
    BY <2>4 DEF Begun
  <2>6. origin = request[r].origin
    BY <1>1, <2>1 DEF AnswersInv, RowsOK, RowOK
  <2> QED
    BY <2>5, <2>6 DEF Consented, EvidenceStands, RevisionStands
<1>2. AnswersInv /\ [Next]_vars => [A]_vars
  BY <1>1
<1> QED
  BY <1>2, Invariance, PTL DEF Spec, SendsOnlyPermitted

-----------------------------------------------------------------------------
(* What read() refuses once it refuses for good *)

Cleaned(r) == request[r].state \in Stored /\ ~request[r].evidence

Outdated(r) ==
    request[r].state \in Stored \cup Active /\ request[r].evidence /\ ~RevisionStands(r)

Refuses(r, config) ==
    /\ request[r].state # "absent"
    /\ \/ Cleaned(r)
       \/ ~Consented(request[r].origin, config)
       \/ Overdue(r)
       \/ Outdated(r)
       \/ request[r].state \in Refused

LEMMA RefusedReports ==
    ASSUME NEW r, NEW config
    PROVE  Report(r, config) \in Refused <=> Refuses(r, config)
BY DEF Report, Refuses, Cleaned, Outdated, Refused, Stored, Active

LEMMA RefusedReportsNext ==
    ASSUME NEW r, NEW config
    PROVE  Report(r, config)' \in Refused <=> Refuses(r, config)'
BY DEF Report, Refuses, Cleaned, Outdated, Refused, Stored, Active

LEMMA RefusalStays ==
    ASSUME AnswersInv, [Next]_vars, NEW r \in Requests, NEW config,
           Refuses(r, config), request'[r].state # "absent"
    PROVE  Refuses(r, config)'
<1> DEFINE x == request[r]
           y == request'[r]
<1>1. /\ RowChanged(r) /\ Fading /\ x \in Request
      /\ RowOK(x, reservation[r], attempts[r], billed[r])
  BY StepChanges, PermissionsFade DEF AnswersInv, TypeOK, RowsOK
<1>2. x.state # "absent" /\ x.origin \in Origin
  BY <1>1 DEF Refuses, RowOK
<1>3. ASSUME NEW state \in Terminal, NEW failure \in Reasons \cup {None},
             y = FinishedRow(x, state, failure)
      PROVE  y.state = state /\ y.origin = x.origin /\ y.evidence = x.evidence
  BY <1>1, <1>3, FinishedRowFields
<1>4. "absent" \notin Active /\ "absent" \notin Terminal
  BY DEF Active, Terminal, Stored, Refused
<1>5. y.origin = x.origin
  BY <1>1, <1>2, <1>3, <1>4, IdleRows
  DEF RowChanged, Changed, Timed, SameRequest, Created, Begun, Billed, Ended, Cleared, Deleted
<1>6. ~Consented(request[r].origin, config) => ~Consented(request[r].origin, config)'
  <2>1. x.origin.epoch <= consent.epoch /\ x.origin.epoch \in Nat
        /\ consent.epoch \in Nat /\ consent'.epoch \in Nat
    BY <1>2, AnswersConstantsOK, StepChanges DEF AnswersInv, TypeOK, PermissionOK, Origin
  <2> QED
    BY <1>1, <1>5, <2>1 DEF Consented, Fading
<1>7. ~RevisionStands(r) => ~RevisionStands(r)'
  <2>1. x.origin.material \in Materials /\ x.origin.revision \in Nat \ {0}
        /\ current[x.origin.material] \in Nat /\ current'[x.origin.material] \in Nat
        /\ (current[x.origin.material] = 0 \/ x.origin.revision <= current[x.origin.material])
    BY <1>2, AnswersConstantsOK, StepChanges
    DEF AnswersInv, TypeOK, PermissionOK, Origin, Revisions
  <2> QED
    BY <1>1, <1>5, <2>1 DEF RevisionStands, Fading
<1>8. \/ /\ y.state = x.state \/ (x.state = "RESERVED" /\ y.state = "RUNNING")
         /\ y.evidence => x.evidence
         /\ x.state \in Active => y.evidence = x.evidence
         /\ y.live => x.live
         /\ y.kept => x.kept
      \/ /\ x.state \in Active /\ y.state \in Terminal
         /\ y.state \in Stored => x.live /\ RevisionStands(r)
  <2>1. CASE Ended(r, x, reservation[r], attempts[r], billed[r],
                   y, reservation'[r], attempts'[r], billed'[r])
    <3>1. PICK state \in Terminal, failure \in Reasons \cup {None} :
            /\ y = FinishedRow(x, state, failure)
            /\ state \in Stored => x.live /\ EvidenceStands(r)
      BY <2>1 DEF Ended
    <3>2. x.state \in Active
      BY <2>1 DEF Ended
    <3>3. y.state = state
      BY <1>3, <3>1
    <3> QED
      BY <3>1, <3>2, <3>3 DEF EvidenceStands
  <2>2. CASE ~Ended(r, x, reservation[r], attempts[r], billed[r],
                    y, reservation'[r], attempts'[r], billed'[r])
    BY <1>1, <1>2, <2>2, IdleRows
    DEF RowChanged, Changed, Timed, SameRequest, Created, Begun, Billed, Cleared, Deleted,
        Active, Terminal, Stored, Refused
  <2> QED
    BY <2>1, <2>2
<1>9. CASE ~Consented(x.origin, config)
  BY <1>6, <1>9 DEF Refuses
<1>10. CASE Cleaned(r)
  BY <1>8, <1>10 DEF Refuses, Cleaned, Active, Stored
<1>11. CASE Overdue(r)
  BY <1>8, <1>11 DEF Refuses, Overdue, Active, Terminal, Stored, Refused
<1>12. CASE Outdated(r)
  BY <1>7, <1>8, <1>12, <1>1 DEF Refuses, Outdated, Cleaned, Active, Terminal, Stored, Refused, Request
<1>13. CASE x.state \in Refused
  BY <1>8, <1>13 DEF Refuses, Active, Stored, Refused
<1> QED
  BY <1>9, <1>10, <1>11, <1>12, <1>13 DEF Refuses

(* What has once been reported as failed, expired or invalidated is never  *)
(* shown as an answer again.                                               *)
THEOREM StaysRefused == Spec => NeverShownAgain
<1> DEFINE A == \A r \in Requests, config \in Configs :
           Report(r, config) \in Refused => Report(r, config)' \in Refused \cup {"absent"}
<1>1. ASSUME AnswersInv, [Next]_vars PROVE A
  <2>1. ASSUME NEW r \in Requests, NEW config \in Configs, Report(r, config) \in Refused
        PROVE  Report(r, config)' \in Refused \cup {"absent"}
    <3>1. CASE request'[r].state = "absent"
      BY <3>1 DEF Report
    <3>2. CASE request'[r].state # "absent"
      BY <1>1, <2>1, <3>2, RefusedReports, RefusedReportsNext, RefusalStays
    <3> QED
      BY <3>1, <3>2
  <2> QED
    BY <2>1
<1>2. AnswersInv /\ [Next]_vars => [A]_vars
  BY <1>1
<1> QED
  BY <1>2, Invariance, PTL DEF Spec, NeverShownAgain

-----------------------------------------------------------------------------
(* Answers implements AnswerPromise *)

\* What a step may do to one request of the promise.
Stays(r) == Status(r)' = Status(r) /\ Charge(r)' = Charge(r)

Fades(r) == Status(r) = "answered" /\ Status(r)' = "closed" /\ Charge(r)' = Charge(r)

Advances(r) ==
    \/ /\ Status(r) = "none" /\ Status(r)' = "open" /\ Charge(r)' = RequestMax
    \/ /\ Status(r) = "open" /\ Status(r)' = "called" /\ Charge(r)' = Charge(r)
    \/ /\ Status(r) = "open" /\ Status(r)' = "closed" /\ Charge(r)' = 0
    \/ /\ Status(r) = "called" /\ Status(r)' \in {"answered", "closed"}
       /\ Charge(r)' \in 0..RequestMax
    \/ /\ Status(r) = "closed" /\ Status(r)' = "none" /\ Charge(r)' = 0

LEMMA TerminalStatus ==
    ASSUME NEW r, request[r].state \in Terminal
    PROVE  Status(r) = IF Refuses(r, request[r].origin.config) THEN "closed" ELSE "answered"
<1>1. Report(r, request[r].origin.config) \in Terminal
  BY DEF Report, Terminal, Stored, Refused, Active
<1>2. Report(r, request[r].origin.config) \in Stored
      <=> Report(r, request[r].origin.config) \notin Refused
  BY <1>1 DEF Terminal, Stored, Refused
<1>3. request[r].state \notin {"absent", "RESERVED", "RUNNING"}
  BY DEF Terminal, Stored, Refused
<1> QED
  BY <1>2, <1>3, RefusedReports DEF Status

LEMMA TerminalStatusNext ==
    ASSUME NEW r, request'[r].state \in Terminal
    PROVE  Status(r)' = IF Refuses(r, request[r].origin.config)' THEN "closed" ELSE "answered"
<1>1. Report(r, request[r].origin.config)' \in Terminal
  BY DEF Report, Terminal, Stored, Refused, Active
<1>2. Report(r, request[r].origin.config)' \in Stored
      <=> Report(r, request[r].origin.config)' \notin Refused
  BY <1>1 DEF Terminal, Stored, Refused
<1>3. Report(r, request[r].origin.config)' \in Refused
      <=> Refuses(r, request[r].origin.config)'
  BY DEF Report, Refuses, Cleaned, Outdated, Refused, Stored, Active
<1>4. request'[r].state \notin {"absent", "RESERVED", "RUNNING"}
  BY DEF Terminal, Stored, Refused
<1> QED
  BY <1>2, <1>3, <1>4 DEF Status

\* A request whose state a step leaves alone stays or fades.
LEMMA SameStateFades ==
    ASSUME AnswersInv, [Next]_vars, NEW r \in Requests, request'[r].state = request[r].state
    PROVE  Stays(r) \/ Fades(r)
<1> DEFINE x == request[r]
           y == request'[r]
<1>1. /\ TypeOK /\ RowChanged(r) /\ x \in Request
      /\ RowOK(x, reservation[r], attempts[r], billed[r])
  BY StepChanges DEF AnswersInv, TypeOK, RowsOK
<1>2. ASSUME NEW state \in Terminal, NEW failure \in Reasons \cup {None},
             y = FinishedRow(x, state, failure)
      PROVE  y.state \in Terminal
  BY <1>1, <1>2, FinishedRowFields
<1>3. Active \cap Terminal = {} /\ "absent" \notin Terminal
  BY DEF Active, Terminal, Stored, Refused
<1>4. y.origin = x.origin /\ SameReservation(reservation[r], reservation'[r])
  BY <1>1, <1>2, <1>3, IdleRows
  DEF RowChanged, Changed, Timed, SameRequest, Created, Begun, Billed, Ended, Cleared, Deleted,
      SameReservation
<1>5. Charge(r)' = Charge(r)
  BY <1>4 DEF Charge, SameReservation
<1>6. CASE x.state \in Terminal
  <2>1. \A config : Refuses(r, config) => Refuses(r, config)'
    BY <1>3, <1>6, RefusalStays
  <2>2. Refuses(r, request[r].origin.config) => Refuses(r, request[r].origin.config)'
    BY <1>4, <2>1 DEF Refuses, Consented
  <2> QED
    BY <1>5, <1>6, <2>2, TerminalStatus, TerminalStatusNext DEF Stays, Fades
<1>7. CASE x.state \in Active \cup {"absent"}
  BY <1>5, <1>7 DEF Active, Status, Stays
<1>8. x.state \in Terminal \cup Active \cup {"absent"}
  BY <1>1 DEF Request
<1> QED
  BY <1>6, <1>7, <1>8

\* A request whose state a step changes advances.
LEMMA NewStateAdvances ==
    ASSUME AnswersInv, [Next]_vars, NEW r \in Requests, request'[r].state # request[r].state
    PROVE  Advances(r)
<1> DEFINE x == request[r]
           y == request'[r]
           v == reservation[r]
           w == reservation'[r]
<1>1. /\ TypeOK /\ TypeOK' /\ RowChanged(r) /\ x \in Request
      /\ RowOK(x, v, attempts[r], billed[r])
      /\ RowOK(y, w, attempts'[r], billed'[r])
  BY StepChanges, RowsStayOK DEF AnswersInv, TypeOK, RowsOK, RowOK
<1>2. Active \cap Terminal = {} /\ "absent" \notin Terminal \cup Active
  BY DEF Active, Terminal, Stored, Refused
<1>3. CASE Created(x, v, attempts[r], billed[r], y, w, attempts'[r], billed'[r])
  BY <1>3 DEF Created, Advances, Status, Charge
<1>4. CASE Begun(r, x, v, attempts[r], billed[r], y, w, attempts'[r], billed'[r])
  BY <1>4 DEF Begun, Advances, Status, Charge
<1>5. CASE Ended(r, x, v, attempts[r], billed[r], y, w, attempts'[r], billed'[r])
  <2>1. PICK state \in Terminal, failure \in Reasons \cup {None} :
          /\ y = FinishedRow(x, state, failure)
          /\ state \in Stored => x.state = "RUNNING"
    BY <1>5 DEF Ended
  <2>2. y.state = state
    BY <1>1, <2>1, FinishedRowFields
  <2>3. Status(r)' = IF Refuses(r, request[r].origin.config)' THEN "closed" ELSE "answered"
    BY <2>2, TerminalStatusNext
  <2>4. x.state \in Active /\ v.state = "reserved"
    BY <1>1, <1>5 DEF Ended, RowOK
  <2>5. w.state = IF v.exposed THEN "settled" ELSE "released"
    BY <1>5, <2>4 DEF Ended
  <2>6. w.settled \in 0..RequestMax
    BY <1>1, AnswersConstantsOK DEF TypeOK, Reservation
  <2>7. CASE x.state = "RESERVED"
    <3>1. y.state \in Refused
      BY <2>1, <2>2, <2>7 DEF Terminal
    <3>2. Refuses(r, request[r].origin.config)'
      BY <3>1, <2>2, <1>2 DEF Refuses
    <3>3. Charge(r)' = 0
      BY <1>1, <2>5, <2>7 DEF RowOK, Charge
    <3> QED
      BY <2>3, <2>7, <3>2, <3>3 DEF Advances, Status
  <2>8. CASE x.state = "RUNNING"
    <3>1. Charge(r)' \in 0..RequestMax
      BY <1>1, <2>5, <2>6, <2>8 DEF RowOK, Charge
    <3> QED
      BY <2>3, <2>8, <3>1 DEF Advances, Status
  <2> QED
    BY <2>4, <2>7, <2>8 DEF Active
<1>6. CASE Deleted(x, v, attempts[r], billed[r], y, w, attempts'[r], billed'[r])
  <2>1. x.state \in Terminal /\ ~x.deduped
    BY <1>6 DEF Deleted
  <2>2. ~x.kept /\ x.state # "absent"
    BY <1>1, <1>2, <2>1 DEF RowOK
  <2>3. Refuses(r, request[r].origin.config)
    BY <2>1, <2>2 DEF Refuses, Overdue, Terminal
  <2>4. Status(r) = "closed"
    BY <2>1, <2>3, TerminalStatus
  <2>5. y.state = "absent" /\ w.state = "absent"
    BY <1>6, IdleRows DEF Deleted
  <2> QED
    BY <2>4, <2>5 DEF Advances, Status, Charge
<1> QED
  BY <1>1, <1>3, <1>4, <1>5, <1>6
  DEF RowChanged, Changed, Timed, SameRequest, Billed, Cleared

\* A step changes the state of one request at most, and then nothing else.
LEMMA OneAtATime ==
    ASSUME AnswersInv, [Next]_vars
    PROVE  \/ \A q \in Requests : request'[q].state = request[q].state
           \/ \E r \in Requests : \A q \in Requests \ {r} : Stays(q)
<1> DEFINE Alone(r) == /\ UNCHANGED <<consent, current>>
                       /\ \A q \in Requests \ {r} :
                              request'[q] = request[q] /\ reservation'[q] = reservation[q]
           Same == \A q \in Requests : request'[q].state = request[q].state
<1>1. TypeOK
  BY DEF AnswersInv
<1>2. ASSUME NEW r \in Requests, Alone(r)
      PROVE  \A q \in Requests \ {r} : Stays(q)
  BY <1>2 DEF Stays, Status, Charge, Report, Consented, Overdue, RevisionStands
<1>3. CASE request' = request
  BY <1>3
<1>4. ASSUME NEW r \in Requests, NEW config, NEW m \in Materials, NEW history \in SUBSET Requests,
             Generate(r, config, m, history)
      PROVE  Alone(r)
  BY <1>1, <1>4 DEF Generate, TypeOK
<1>5. ASSUME NEW s \in Slots, NEW r \in Requests, NEW config, Start(s, r, config)
      PROVE  Alone(r)
  BY <1>1, <1>5 DEF Start, TypeOK
<1>6. ASSUME NEW s \in Slots, NEW result, Complete(s, result)
      PROVE  slot[s].request \in Requests /\ Alone(slot[s].request)
  <2>1. slot[s].request \in Requests
    BY <1>6 DEF Complete, AnswersInv, SlotsOK, SlotOK
  <2> QED
    BY <1>1, <1>6, <2>1 DEF Complete, Finish, Settle, TypeOK
<1>7. ASSUME NEW r \in Requests, NEW config, End(r, config)
      PROVE  Alone(r)
  BY <1>1, <1>7 DEF End, Finish, Settle, TypeOK
<1>8. ASSUME NEW r \in Requests, DeleteReceipt(r)
      PROVE  Alone(r)
  BY <1>1, <1>8 DEF DeleteReceipt, TypeOK
<1>9. ASSUME NEW r \in Requests, NEW config, ClearContent(r, config) PROVE Same
  <2>1. \E failure : request'[r] = [request[r] EXCEPT
           !.question = FALSE, !.claims = FALSE, !.evidence = FALSE, !.failure = failure]
    BY <1>1, <1>9 DEF ClearContent, TypeOK
  <2>2. \A q \in Requests \ {r} : request'[q] = request[q]
    BY <1>1, <1>9 DEF ClearContent, TypeOK
  <2>3. request[r] \in Request
    BY <1>1 DEF TypeOK
  <2>4. request'[r].state = request[r].state
    BY <2>1, <2>3 DEF Request
  <2> QED
    BY <2>2, <2>4
<1>10. ASSUME NEW r \in Requests, Clock(r) PROVE Same
  <2>1. request[r] \in Request
    BY <1>1 DEF TypeOK
  <2>2. CASE request' = request
    BY <2>2
  <2>3. CASE RequestLapses(r)
    <3>1. request' = [request EXCEPT ![r] = [request[r] EXCEPT !.live = FALSE]]
      BY <2>3, <1>1 DEF RequestLapses, TypeOK
    <3> QED
      BY <1>1, <2>1, <3>1 DEF TypeOK, Request
  <2>4. CASE AnswerLapses(r)
    <3>1. request' = [request EXCEPT ![r] = [request[r] EXCEPT !.kept = FALSE]]
      BY <2>4, <1>1 DEF AnswerLapses, TypeOK
    <3> QED
      BY <1>1, <2>1, <3>1 DEF TypeOK, Request
  <2>5. CASE ReceiptLapses(r)
    <3>1. request' = [request EXCEPT ![r] = [request[r] EXCEPT !.deduped = FALSE]]
      BY <2>5, <1>1 DEF ReceiptLapses, TypeOK
    <3> QED
      BY <1>1, <2>1, <3>1 DEF TypeOK, Request
  <2> QED
    BY <1>10, <2>2, <2>3, <2>4, <2>5 DEF Clock, ReservationLapses, UsageAges
<1>11. ASSUME Owner PROVE Same \/ \E r \in Requests : Alone(r)
  BY <1>4, <1>11 DEF Owner, Grant, Revoke, EditMaterial, DeleteMaterial, rows
<1>12. ASSUME NEW s \in Slots, Worker(s) PROVE Same \/ \E r \in Requests : Alone(r)
  <2>1. ASSUME (\E bill \in Bills : Call(s, bill)) \/ CompleteTooLate(s) \/ Abandon(s)
        PROVE  request' = request
    BY <2>1 DEF Call, CompleteTooLate, Abandon, rows
  <2> HIDE DEF Alone
  <2> QED
    BY <1>5, <1>6, <1>12, <2>1 DEF Worker
<1>13. ASSUME NEW r \in Requests, NEW config, Visit(r, config) PROVE Same \/ Alone(r)
  BY <1>7, <1>8, <1>9, <1>13 DEF Visit
<1> HIDE DEF Alone, Same
<1>14. Same \/ \E r \in Requests : Alone(r)
  <2>1. CASE UNCHANGED vars
    BY <2>1 DEF vars, rows, Same
  <2> QED
    BY <1>10, <1>11, <1>12, <1>13, <2>1 DEF Next
<1> QED
  BY <1>2, <1>14 DEF Same

LEMMA InitKeepsThePromise ==
    ASSUME Init
    PROVE  Promise!PromiseInit
BY IdleRows DEF Init, Promise!PromiseInit, Status, Charge

LEMMA StepKeepsThePromise ==
    ASSUME AnswersInv, [Next]_vars
    PROVE  [Promise!PromiseNext]_(Promise!promiseVars)
<1> DEFINE status == [r \in Requests |-> Status(r)]
           charge == [r \in Requests |-> Charge(r)]
<1>1. CASE \A q \in Requests : Stays(q) \/ Fades(q)
  <2> DEFINE withdrawn == {q \in Requests : ~Stays(q)}
  <2>1. \A q \in withdrawn : status[q] = "answered"
    BY <1>1 DEF Fades
  <2>2. status' = [r \in Requests |-> IF r \in withdrawn THEN "closed" ELSE status[r]]
    BY <1>1 DEF Stays, Fades
  <2>3. charge' = charge
    BY <1>1 DEF Stays, Fades
  <2>4. Promise!Withdraw(withdrawn)
    BY <2>1, <2>2, <2>3 DEF Promise!Withdraw
  <2> QED
    BY <2>4 DEF Promise!PromiseNext
<1>2. ASSUME NEW r \in Requests, Advances(r), \A q \in Requests \ {r} : Stays(q)
      PROVE  Promise!PromiseNext
  <2>1. status' = [status EXCEPT ![r] = Status(r)']
    BY <1>2 DEF Stays
  <2>2. charge' = [charge EXCEPT ![r] = Charge(r)']
    BY <1>2 DEF Stays
  <2>3. status[r] = Status(r) /\ charge[r] = Charge(r)
    OBVIOUS
  <2>4. Charge(r)' = Charge(r) => charge' = charge
    BY <2>2
  <2>5. \/ Promise!Admit(r)
        \/ Promise!Call(r)
        \/ Promise!Refuse(r)
        \/ \E outcome \in {"answered", "closed"}, cost \in 0..RequestMax :
               Promise!Resolve(r, outcome, cost)
        \/ Promise!Forget(r)
    BY <1>2, <2>1, <2>2, <2>3, <2>4
    DEF Advances, Promise!Admit, Promise!Call, Promise!Refuse, Promise!Resolve, Promise!Forget
  <2> QED
    BY <2>5 DEF Promise!PromiseNext
<1>3. CASE \A q \in Requests : request'[q].state = request[q].state
  BY <1>1, <1>3, SameStateFades
<1>4. ASSUME NEW r \in Requests, \A q \in Requests \ {r} : Stays(q)
      PROVE  [Promise!PromiseNext]_(Promise!promiseVars)
  <2>1. CASE request'[r].state = request[r].state
    <3>1. \A q \in Requests : Stays(q) \/ Fades(q)
      BY <1>4, <2>1, SameStateFades
    <3> QED
      BY <1>1, <3>1
  <2>2. CASE request'[r].state # request[r].state
    BY <1>2, <1>4, <2>2, NewStateAdvances
  <2> QED
    BY <2>1, <2>2
<1> QED
  BY <1>3, <1>4, OneAtATime

(* Every behaviour of the requests is one that the promise allows.         *)
THEOREM Implements == Spec => KeepsThePromise
<1>1. Init => Promise!PromiseInit
  BY InitKeepsThePromise
<1>2. AnswersInv /\ [Next]_vars => [Promise!PromiseNext]_(Promise!promiseVars)
  BY StepKeepsThePromise
<1> QED
  BY <1>1, <1>2, Invariance, PTL DEF Spec, KeepsThePromise, Promise!PromiseSpec
=============================================================================

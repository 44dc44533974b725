---------------------------- MODULE AnswerPanel ----------------------------
(***************************************************************************)
(* The panel in which a user asks about one document: the consent it shows *)
(* and asks for, the questions it sends, the answers it reads again on     *)
(* focus and follows over server-sent events.  Calls may fail before or    *)
(* after the API serves them, and other tabs of the owner change the       *)
(* consent.  Of the API it has what a browser can tell: Answers has the    *)
(* rest.  The panel is rendered, and its effects run, after every update.  *)
(***************************************************************************)
EXTENDS Naturals, Sequences, FiniteSets

CONSTANTS
    Request,      \* request ids, drawn with crypto.randomUUID()
    Policy,       \* fingerprints of answer policies
    StreamReads,  \* reads of one stream: take(60) and the one of its guard
    MaxActs,      \* bound: acts of users and deployments
    MaxLosses,    \* bound: calls that fail on the way
    None,         \* undefined
    Unserved,     \* a call the API has not served
    Refused       \* an error answer

ASSUME AnswerPanelAssumption ==
    /\ StreamReads \in Nat \ {0}
    /\ MaxActs \in Nat
    /\ MaxLosses \in Nat
    /\ Policy # {}
    /\ None # Unserved /\ None # Refused /\ Unserved # Refused
    /\ {None, Unserved, Refused} \cap (Nat \cup Request \cup Policy) = {}

VARIABLES
    consent,    \* usage_answer_consents of the owner
    policy,     \* the policy the API is configured with
    admitted,   \* answer_requests
    page,       \* the panel
    adrift,     \* calls that no part of the panel waits for any more
    learned,    \* the newest consent epoch the panel was told; no code has it
    questions,  \* questions asked in the form; no code has it
    acts,       \* acts so far
    losses      \* failures so far

server == <<consent, policy, admitted>>
vars == <<server, page, adrift, learned, questions, acts, losses>>

-----------------------------------------------------------------------------
(* The API *)

Epoch == 0..MaxActs

\* "RUNNING" stands for all that isPending() tells, "FAILED" for every end
\* without an answer that the panel treats alike.
Reports == {"RUNNING", "PUBLISHED", "FAILED", "INVALIDATED"}

Row == [epoch: Epoch, policy: Policy, state: Reports]

Configuration == [epoch: Epoch, policy: Policy, consented: BOOLEAN]

(* configuration(): the epoch, and whether what was granted is the policy  *)
(* of today.                                                               *)
ConfigurationNow ==
    [epoch |-> consent.epoch, policy |-> policy,
     consented |-> consent.granted /\ consent.policy = policy]

(* grant() wants the policy and the epoch that the user was shown.         *)
MayGrant(wanted) == wanted.policy = policy /\ wanted.epoch = consent.epoch

Granted(wanted) ==
    IF consent.granted /\ consent.policy = wanted.policy THEN consent
    ELSE [granted |-> TRUE, epoch |-> consent.epoch + 1, policy |-> wanted.policy]

(* revoke() wants the epoch; what is revoked already stays as it is.       *)
Revoked == IF ~consent.granted THEN consent
           ELSE [consent EXCEPT !.granted = FALSE, !.epoch = @ + 1]

UnderConsent(row) ==
    /\ consent.granted
    /\ consent.epoch = row.epoch
    /\ consent.policy = row.policy
    /\ policy = row.policy

(* generate() of a new request needs the consent of today and a history of *)
(* published answers under the same consent.                               *)
MayGenerate(request) ==
    /\ ConfigurationNow.consented
    /\ \A h \in request.history :
           /\ admitted[h] # None
           /\ admitted[h].state = "PUBLISHED"
           /\ UnderConsent(admitted[h])

(* read() hides what the consent of today does not cover.                  *)
Report(id) == IF UnderConsent(admitted[id]) THEN admitted[id].state ELSE "INVALIDATED"

-----------------------------------------------------------------------------
(* The state of the panel *)

Sent == {None, Unserved, Refused} \cup Epoch   \* a call: the epoch is its good answer

Question == [id: Request, history: SUBSET Request]
Approval == [epoch: Epoch, policy: Policy]

(* A call on its own: what it wants, and the question that it sends or     *)
(* that is sent after it.  "granted" is the good answer to a grant.        *)
Call ==
    [kind: {"grant"}, wanted: Approval, request: Question \cup {None}]
    \cup [kind: {"granted", "generate"}, wanted: {None}, request: Question]
    \cup [kind: {"revoke"}, wanted: Epoch, request: {None}]

Turn == [request: Question, accepted: BOOLEAN]
Stream == [left: 0..StreamReads, event: Reports \cup {None}]

ASSUME NoneIsNoRecord ==
    {None, Unserved, Refused} \cap
        (Reports \cup Row \cup Configuration \cup Question \cup Approval \cup Stream) = {}

(* A query of readAnswer(): reconnect is the button that waits for it.     *)
Result ==
    [data: Reports \cup {None}, failed: BOOLEAN,
     fetch: Reports \cup {None, Unserved}, reconnect: BOOLEAN]

NoResult == [data |-> None, failed |-> FALSE, fetch |-> None, reconnect |-> FALSE]

ConfigurationQuery ==
    [data: Configuration \cup {None}, failed: BOOLEAN,
     fetch: Configuration \cup {None, Unserved}]

Submission ==
    [state: {"idle", "granting", "checking", "generating", "failed"},
     request: Question \cup {None}, call: Sent,
     wanted: Approval \cup {None}]   \* the body of the grant

Revocation ==
    [state: {"closed", "open", "pending", "failed"}, epoch: Epoch \cup {None}, call: Sent]

Page ==
    [config: ConfigurationQuery,
     turns: Seq(Turn),
     results: [Request -> Result],    \* under the epoch of config.data
     submit: Submission,
     approval: Approval \cup {None},  \* consentRequest
     revoke: Revocation,
     seen: Epoch \cup {None},         \* previousConsentEpoch
     stream: Stream \cup {None},      \* of the latest turn
     lost: Request \cup {None}]       \* failedRequest

Idle == [state |-> "idle", request |-> None, call |-> None, wanted |-> None]
Closed == [state |-> "closed", epoch |-> None, call |-> None]

FirstPolicy == CHOOSE p \in Policy : TRUE

Init ==
    /\ consent = [granted |-> FALSE, epoch |-> 0, policy |-> None]
    /\ policy = FirstPolicy
    /\ admitted = [id \in Request |-> None]
    /\ page = [config |-> [data |-> None, failed |-> FALSE, fetch |-> Unserved],
               turns |-> <<>>, results |-> [id \in Request |-> NoResult],
               submit |-> Idle, approval |-> None, revoke |-> Closed, seen |-> None,
               stream |-> None, lost |-> None]
    /\ adrift = {}
    /\ learned = 0
    /\ questions = 0
    /\ acts = 0
    /\ losses = 0

-----------------------------------------------------------------------------
(* What the panel derives from its state *)

Ids(p) == {p.turns[i].request.id : i \in DOMAIN p.turns}
Latest(p) == p.turns[Len(p.turns)]
LatestResult(p) == p.results[Latest(p).request.id]

Consented(p) == ~p.config.failed /\ p.config.data # None /\ p.config.data.consented
Submitting(p) == p.submit.state \in {"granting", "checking", "generating"}

(* An answer the panel shows in a turn.                                    *)
Shows(p, id) ==
    /\ id \in Ids(p)
    /\ Consented(p)
    /\ ~p.results[id].failed
    /\ p.results[id].data = "PUBLISHED"

Waiting(p) ==
    /\ p.turns # <<>>
    /\ Latest(p).accepted
    /\ ~LatestResult(p).failed
    /\ Consented(p) => LatestResult(p).data \in {None, "RUNNING"}

(* The effect of useAnswerEvents is enabled.                               *)
Following(p) ==
    /\ p.turns # <<>>
    /\ Latest(p).accepted
    /\ Consented(p)
    /\ LatestResult(p).data = "RUNNING"
    /\ ~LatestResult(p).failed

Disconnected(p) == Following(p) /\ p.lost = Latest(p).request.id

Reads(p, id) ==
    /\ Consented(p)
    /\ \E i \in DOMAIN p.turns : p.turns[i].request.id = id /\ p.turns[i].accepted

MayAsk(p) ==
    /\ p.config.data # None /\ ~p.config.failed /\ p.config.fetch = None
    /\ ~Submitting(p) /\ ~Waiting(p)
    /\ p.turns # <<>> => Latest(p).accepted
    /\ \A id \in Ids(p) : ~p.results[id].failed
    /\ p.revoke.state # "pending"

MayRepeat(p) ==
    /\ p.submit.state = "failed"
    /\ p.turns # <<>> /\ ~Latest(p).accepted
    /\ ~p.config.failed /\ p.config.data # None

MayReread(p, id) ==
    id \in Ids(p) /\ p.results[id].failed /\ p.results[id].fetch = None /\ Consented(p)

MayReconnect(p) == Disconnected(p) /\ LatestResult(p).fetch = None
MayRecheck(p) == p.config.failed /\ p.config.fetch = None
MayStartOver(p) == p.turns # <<>> /\ ~Submitting(p) /\ ~Waiting(p)

-----------------------------------------------------------------------------
(* Rendering *)

SameEpoch(p) ==
    /\ page.config.data # None /\ p.config.data # None
    /\ page.config.data.epoch = p.config.data.epoch

(* The effect on the configuration: a conversation ends with its consent.  *)
EndConversation(p) ==
    LET epoch == p.config.data.epoch
    IN  IF p.config.data = None \/ p.config.failed THEN p
        ELSE IF p.seen \notin {None, epoch} /\ ~p.config.data.consented
        THEN [p EXCEPT !.turns = <<>>, !.seen = epoch]
        ELSE [p EXCEPT !.seen = epoch]

\* One key for a request, whatever the epoch.
KeyOfRequest(p, id) == IF id \in Ids(p) THEN p.results[id] ELSE NoResult

(* answerResultKey(): the queries of another epoch are other queries, and  *)
(* a query of no turn is left behind.                                      *)
Keyed(p, id) == IF id \in Ids(p) /\ SameEpoch(p) THEN p.results[id] ELSE NoResult

(* A query that becomes enabled, or is new, is fetched.                    *)
FetchEnabled(p) ==
    [p EXCEPT !.results = [id \in Request |->
        IF Reads(p, id) /\ ~(Reads(page, id) /\ SameEpoch(p)) /\ Keyed(p, id).fetch = None
        THEN [Keyed(p, id) EXCEPT !.fetch = Unserved]
        ELSE Keyed(p, id)]]

(* The effect of useAnswerEvents: a stream follows the latest turn of this *)
(* epoch while its answer is pending; again is the reconnect button.       *)
Follow(p, again) ==
    LET same == /\ Following(page) /\ SameEpoch(p)
                /\ Latest(page).request.id = Latest(p).request.id
    IN  IF ~Following(p) THEN [p EXCEPT !.stream = None]
        ELSE IF same /\ ~again THEN p
        ELSE [p EXCEPT !.stream = [left |-> StreamReads, event |-> None], !.lost = None]

RenderAfter(p, again) ==
    \E next \in {p} :
    \E conversed \in {EndConversation(next)} :
    \E fetching \in {FetchEnabled(conversed)} :
        page' = Follow(fetching, again)

Render(p) == RenderAfter(p, FALSE)

Invalidated(p) == [p EXCEPT !.config.fetch = Unserved]

Max(a, b) == IF a > b THEN a ELSE b

-----------------------------------------------------------------------------
(* The user of the panel *)

Act == acts < MaxActs /\ acts' = acts + 1

Published(p) ==
    {i \in DOMAIN p.turns : LET result == p.results[p.turns[i].request.id]
                            IN  result.data = "PUBLISHED" /\ ~result.failed}

LastThree(places) == {i \in places : Cardinality({j \in places : j > i}) < 3}

History(p) == {p.turns[i].request.id : i \in LastThree(Published(p))}

(* submit: the first question of a consent grants it, for what the panel   *)
(* shows; a grant without a good answer is repeated as it was.             *)
Attempt(p, request) ==
    LET wanted == IF p.approval # None THEN p.approval
                  ELSE [epoch |-> p.config.data.epoch, policy |-> p.config.data.policy]
        submit(state, body) ==
            [state |-> state, request |-> request, call |-> Unserved, wanted |-> body]
    IN  IF Consented(p) /\ p.approval = None
        THEN [p EXCEPT !.submit = submit("generating", None)]
        ELSE [p EXCEPT !.submit = submit("granting", wanted), !.approval = wanted]

(* An id that no call, no turn and no row has.                             *)
Drawn == {id \in Request :
    \/ admitted[id] # None
    \/ id \in Ids(page)
    \/ page.submit.request # None /\ page.submit.request.id = id
    \/ \E c \in adrift : c.request # None /\ c.request.id = id}

RandomUUID == CHOOSE id \in Request : id \notin Drawn

(* The form.                                                               *)
Ask ==
    LET request == [id |-> RandomUUID, history |-> History(page)]
        turn == [request |-> request, accepted |-> FALSE]
    IN  /\ MayAsk(page)
        /\ Drawn # Request
        /\ Act
        /\ questions' = questions + 1
        /\ Render(Attempt([page EXCEPT !.turns = Append(@, turn)], request))
        /\ UNCHANGED <<server, adrift, learned, losses>>

\* A question is repeated under a new id.
RepeatedAnew(p) ==
    IF Drawn = Request THEN Latest(p).request ELSE [Latest(p).request EXCEPT !.id = RandomUUID]

(* "Check the same request again" sends it as it was.                      *)
Repeated(p) == Latest(p).request

Repeat ==
    /\ MayRepeat(page)
    /\ Act
    /\ Render(Attempt(page, Repeated(page)))
    /\ UNCHANGED <<server, adrift, learned, questions, losses>>

OnlyPage == UNCHANGED <<server, adrift, learned, questions, losses>>

(* "New conversation".                                                     *)
StartOver ==
    /\ MayStartOver(page)
    /\ Act
    /\ Render(Invalidated([page EXCEPT !.turns = <<>>, !.approval = None, !.submit = Idle]))
    /\ OnlyPage

Recheck ==
    /\ MayRecheck(page)
    /\ Act
    /\ Render(Invalidated(page))
    /\ OnlyPage

Reread(id) ==
    /\ MayReread(page, id)
    /\ Act
    /\ Render([page EXCEPT !.results[id].fetch = Unserved])
    /\ OnlyPage

(* The notice that the connection is lost first reads the answer.          *)
Reconnect ==
    /\ MayReconnect(page)
    /\ Act
    /\ Render([page EXCEPT !.results[Latest(page).request.id] =
                   [@ EXCEPT !.fetch = Unserved, !.reconnect = TRUE]])
    /\ OnlyPage

(* The window gains focus: what is enabled and not under way is fetched.   *)
Focus ==
    /\ Act
    /\ Render([page EXCEPT
           !.config.fetch = IF @ = None THEN Unserved ELSE @,
           !.results = [id \in Request |->
               IF Reads(page, id) /\ page.results[id].fetch = None
               THEN [page.results[id] EXCEPT !.fetch = Unserved] ELSE page.results[id]]])
    /\ OnlyPage

(* The dialog that confirms a revocation.                                  *)
OpenRevoke ==
    /\ Consented(page) /\ page.revoke.state = "closed"
    /\ Act
    /\ Render([page EXCEPT !.revoke = [Closed EXCEPT !.state = "open"]])
    /\ OnlyPage

CancelRevoke ==
    /\ page.revoke.state \in {"open", "failed"}
    /\ Render([page EXCEPT !.revoke = Closed])
    /\ UNCHANGED acts /\ OnlyPage

ConfirmRevoke ==
    /\ page.revoke.state \in {"open", "failed"}
    /\ page.config.data # None
    /\ Act
    /\ Render([page EXCEPT !.revoke =
           [state |-> "pending", call |-> Unserved,
            epoch |-> IF @.epoch = None THEN page.config.data.epoch ELSE @.epoch]])
    /\ OnlyPage

-----------------------------------------------------------------------------
(* The API serves, at any moment of a call *)

Serving == UNCHANGED <<policy, adrift, learned, questions, acts, losses>>

ServeConfiguration ==
    /\ page.config.fetch = Unserved
    /\ page' = [page EXCEPT !.config.fetch = ConfigurationNow]
    /\ Serving /\ UNCHANGED <<consent, admitted>>

ServeRead(id) ==
    /\ page.results[id].fetch = Unserved
    /\ page' = [page EXCEPT !.results[id].fetch = Report(id)]
    /\ Serving /\ UNCHANGED <<consent, admitted>>

GrantFor(wanted) ==
    consent' = IF MayGrant(wanted) THEN Granted(wanted) ELSE consent

RevokeFor(epoch) ==
    consent' = IF epoch = consent.epoch THEN Revoked ELSE consent

NewRow == [epoch |-> consent.epoch, policy |-> policy, state |-> "RUNNING"]

(* A request id that is known is not admitted again.                       *)
GenerateFor(request) ==
    admitted' = IF admitted[request.id] = None /\ MayGenerate(request)
                THEN [admitted EXCEPT ![request.id] = NewRow] ELSE admitted

ServeGrant ==
    /\ page.submit.state = "granting" /\ page.submit.call = Unserved
    /\ GrantFor(page.submit.wanted)
    /\ page' = [page EXCEPT !.submit.call =
                    IF MayGrant(page.submit.wanted) THEN consent'.epoch ELSE Refused]
    /\ Serving /\ UNCHANGED admitted

ServeGenerate ==
    LET request == page.submit.request
    IN  /\ page.submit.state = "generating" /\ page.submit.call = Unserved
        /\ GenerateFor(request)
        /\ page' = [page EXCEPT !.submit.call =
                        IF admitted'[request.id] # None THEN consent.epoch ELSE Refused]
        /\ Serving /\ UNCHANGED consent

ServeRevoke ==
    /\ page.revoke.state = "pending" /\ page.revoke.call = Unserved
    /\ RevokeFor(page.revoke.epoch)
    /\ page' = [page EXCEPT !.revoke.call =
                    IF page.revoke.epoch = consent.epoch THEN consent'.epoch ELSE Refused]
    /\ Serving /\ UNCHANGED admitted

On(kind, wanted, request) == [kind |-> kind, wanted |-> wanted, request |-> request]

(* A call that nobody waits for is served after all, or never.             *)
ServeAdrift(c) ==
    /\ c.kind # "granted"
    /\ adrift' = (adrift \ {c}) \cup
           (IF c.kind = "grant" /\ c.request # None /\ MayGrant(c.wanted)
            THEN {On("granted", None, c.request)} ELSE {})
    /\ IF c.kind = "grant" THEN GrantFor(c.wanted) ELSE
       IF c.kind = "revoke" THEN RevokeFor(c.wanted) ELSE UNCHANGED consent
    /\ IF c.kind = "generate" THEN GenerateFor(c.request) ELSE UNCHANGED admitted
    /\ UNCHANGED <<policy, page, learned, questions, acts, losses>>

(* The guard of a stream and its timer read the answer.                    *)
ServeEvent ==
    LET id == Latest(page).request.id
    IN  /\ page.stream # None /\ page.stream.event = None /\ page.stream.left > 0
        /\ page' = [page EXCEPT !.stream =
                        [left |-> @.left - 1, event |-> Report(id)]]
        /\ Serving /\ UNCHANGED <<consent, admitted>>

-----------------------------------------------------------------------------
(* Answers arrive *)

Arriving == UNCHANGED <<server, adrift, questions, acts, losses>>

\* It waits for a configuration that says so.
CheckedIfConsented(p) ==
    IF p.submit.state = "checking" /\ Consented(p)
    THEN [p EXCEPT !.submit.state = "generating", !.submit.call = Unserved] ELSE p

(* The submission waits for the configuration that its grant invalidated.  *)
Checked(p) ==
    IF p.submit.state = "checking"
    THEN [p EXCEPT !.submit.state = "generating", !.submit.call = Unserved] ELSE p

ConfigurationArrives ==
    LET config == page.config.fetch
    IN  /\ config \notin {None, Unserved}
        /\ Render(Checked([page EXCEPT
               !.config = [data |-> config, failed |-> FALSE, fetch |-> None]]))
        /\ learned' = Max(learned, config.epoch)
        /\ Arriving

ReadArrives(id) ==
    LET r == page.results[id]
    IN  /\ r.fetch \notin {None, Unserved}
        /\ RenderAfter([page EXCEPT !.results[id] = [NoResult EXCEPT !.data = r.fetch]],
                       r.reconnect /\ r.fetch = "RUNNING")
        /\ learned' = learned
        /\ Arriving

\* The call of a submission is over.
Without(submit, state) == [submit EXCEPT !.state = state, !.call = None, !.wanted = None]

(* A good answer to the grant invalidates the configuration; a bad one     *)
(* ends the submission.                                                    *)
AfterGrant(p) ==
    IF p.submit.call = Refused
    THEN [p EXCEPT !.submit = Without(@, "failed")]
    ELSE Invalidated([p EXCEPT !.submit = Without(@, "checking"), !.approval = None])

GrantArrives ==
    /\ page.submit.state = "granting" /\ page.submit.call # Unserved
    /\ Render(AfterGrant(page))
    /\ learned' = IF page.submit.call = Refused THEN learned ELSE Max(learned, page.submit.call)
    /\ Arriving

(* generate() answered: the turn that asked is accepted if it is there.    *)
AfterGenerate(p) ==
    IF p.submit.call = Refused
    THEN [p EXCEPT !.submit = Without(@, "failed")]
    ELSE [p EXCEPT !.submit = Idle,
             !.turns = [i \in DOMAIN p.turns |->
                 IF p.turns[i].request.id = p.submit.request.id
                 THEN [p.turns[i] EXCEPT !.accepted = TRUE] ELSE p.turns[i]]]

GenerateArrives ==
    /\ page.submit.state = "generating" /\ page.submit.call # Unserved
    /\ Render(AfterGenerate(page))
    /\ learned' = learned
    /\ Arriving

(* What a submission goes on to do when the panel stops observing it.      *)
Unobserved(submit) ==
    IF submit.state = "granting"
    THEN IF submit.call = Unserved THEN {On("grant", submit.wanted, submit.request)}
         ELSE IF submit.call = Refused THEN {} ELSE {On("granted", None, submit.request)}
    ELSE IF submit.state = "checking" \/ (submit.state = "generating" /\ submit.call = Unserved)
    THEN {On("generate", None, submit.request)} ELSE {}

(* After its own revocation the panel drops the conversation and what it   *)
(* has read, and stops observing the submission.                           *)
AfterRevoke(p) ==
    Invalidated([p EXCEPT !.revoke = Closed, !.turns = <<>>, !.submit = Idle,
                          !.results = [id \in Request |-> NoResult]])

RevokeArrives ==
    LET answer == page.revoke.call
    IN  /\ page.revoke.state = "pending" /\ answer # Unserved
        /\ Render(IF answer = Refused
                  THEN [page EXCEPT !.revoke = [@ EXCEPT !.state = "failed", !.call = None]]
                  ELSE AfterRevoke(page))
        /\ adrift' = IF answer = Refused THEN adrift
                     ELSE adrift \cup Unobserved(page.submit)
        /\ learned' = IF answer = Refused THEN learned ELSE Max(learned, answer)
        /\ UNCHANGED <<server, questions, acts, losses>>

(* A good answer to a grant that nobody observes: the question is sent.    *)
GrantedAdrift(c) ==
    /\ c.kind = "granted"
    /\ adrift' = (adrift \ {c}) \cup {On("generate", None, c.request)}
    /\ Render(Invalidated([page EXCEPT !.approval = None]))
    /\ UNCHANGED <<server, learned, questions, acts, losses>>

(* An event replaces what is cached; the last one ends the stream.         *)
EventArrives ==
    LET id == Latest(page).request.id
    IN  /\ page.stream # None /\ page.stream.event # None
        /\ Render([page EXCEPT
               !.results[id].data = page.stream.event, !.results[id].failed = FALSE,
               !.stream.event = None])
        /\ learned' = learned
        /\ Arriving

-----------------------------------------------------------------------------
(* Calls fail *)

Fail == losses < MaxLosses /\ losses' = losses + 1
        /\ UNCHANGED <<server, learned, questions, acts>>

ConfigurationFails ==
    /\ page.config.fetch # None
    /\ Fail
    /\ Render(Checked([page EXCEPT !.config = [@ EXCEPT !.failed = TRUE, !.fetch = None]]))
    /\ UNCHANGED adrift

ReadFails(id) ==
    /\ page.results[id].fetch # None
    /\ Fail
    /\ Render([page EXCEPT !.results[id] =
           [@ EXCEPT !.failed = TRUE, !.fetch = None, !.reconnect = FALSE]])
    /\ UNCHANGED adrift

(* The API may yet serve a call that failed for the panel.                 *)
Failed(submit) ==
    IF submit.state = "granting" THEN On("grant", submit.wanted, None)
    ELSE On("generate", None, submit.request)

SubmitFails ==
    /\ page.submit.state \in {"granting", "generating"}
    /\ Fail
    /\ adrift' = IF page.submit.call # Unserved THEN adrift
                 ELSE adrift \cup {Failed(page.submit)}
    /\ Render([page EXCEPT !.submit = Without(@, "failed")])

RevokeFails ==
    /\ page.revoke.state = "pending"
    /\ Fail
    /\ adrift' = IF page.revoke.call # Unserved THEN adrift
                 ELSE adrift \cup {On("revoke", page.revoke.epoch, None)}
    /\ Render([page EXCEPT !.revoke = [@ EXCEPT !.state = "failed", !.call = None]])

\* The panel is not told that its stream ended.
StreamForgotten(p) == [p EXCEPT !.stream = None]

(* A stream that ends before its answer does leaves a notice.              *)
StreamLost(p) == [p EXCEPT !.stream = None, !.lost = Latest(p).request.id]

StreamBreaks ==
    /\ page.stream # None
    /\ Fail
    /\ Render(StreamLost(page))
    /\ UNCHANGED adrift

(* The API ends a stream after its last read.                              *)
StreamEnds ==
    /\ page.stream # None /\ page.stream.event = None /\ page.stream.left = 0
    /\ Render(StreamLost(page))
    /\ learned' = learned
    /\ Arriving

-----------------------------------------------------------------------------
(* The rest of the system *)

(* A worker ends the request, or its source is edited or its answer ages.  *)
Progress(id, state) ==
    /\ admitted[id] # None
    /\ \/ admitted[id].state = "RUNNING" /\ state \in {"PUBLISHED", "FAILED"}
       \/ admitted[id].state = "PUBLISHED" /\ state = "INVALIDATED"
    /\ admitted' = [admitted EXCEPT ![id].state = state]
    /\ UNCHANGED <<consent, policy, page, adrift, learned, questions, acts, losses>>

(* Another tab, or another deployment.                                     *)
Elsewhere ==
    /\ Act
    /\ \/ /\ consent' = Granted([epoch |-> consent.epoch, policy |-> policy])
          /\ consent' # consent
          /\ UNCHANGED policy
       \/ /\ consent' = Revoked
          /\ consent' # consent
          /\ UNCHANGED policy
       \/ /\ policy' \in Policy \ {policy}
          /\ UNCHANGED consent
    /\ UNCHANGED <<admitted, page, adrift, learned, questions, losses>>

-----------------------------------------------------------------------------

Users ==
    \/ Ask \/ \E id \in Request : Reread(id)
    \/ Repeat \/ StartOver \/ Recheck \/ Reconnect \/ Focus
    \/ OpenRevoke \/ CancelRevoke \/ ConfirmRevoke
    \/ Elsewhere

Serves ==
    \/ ServeConfiguration \/ ServeGrant \/ ServeGenerate \/ ServeRevoke \/ ServeEvent
    \/ \E id \in Request : ServeRead(id)

Arrives ==
    \/ ConfigurationArrives \/ GrantArrives \/ GenerateArrives \/ RevokeArrives
    \/ EventArrives \/ StreamEnds
    \/ \E id \in Request : ReadArrives(id)

Fails ==
    \/ ConfigurationFails \/ SubmitFails \/ RevokeFails \/ StreamBreaks
    \/ \E id \in Request : ReadFails(id)

Next ==
    \/ Users \/ Serves \/ Arrives \/ Fails
    \/ \E c \in adrift : ServeAdrift(c) \/ GrantedAdrift(c)
    \/ \E id \in Request, state \in Reports : Progress(id, state)

(* A call the panel waits for is served and answered, or fails.  Users and *)
(* workers may stop at any point.                                          *)
Fairness == WF_vars(Serves \/ Arrives)

Spec == Init /\ [][Next]_vars /\ Fairness

-----------------------------------------------------------------------------
(* Properties *)

(* Types, and what the parts of the panel have to do with each other: a    *)
(* stream is open only while the latest answer is pending, a call that the *)
(* panel waits for is always under way, and only the latest turn may be    *)
(* without its acceptance.                                                 *)
TypeOK ==
    /\ consent \in [granted: BOOLEAN, epoch: Epoch, policy: Policy \cup {None}]
    /\ policy \in Policy
    /\ admitted \in [Request -> Row \cup {None}]
    /\ page \in Page
    /\ learned \in Epoch /\ questions \in Nat /\ acts \in 0..MaxActs /\ losses \in 0..MaxLosses
    /\ page.stream # None => Following(page)
    /\ page.submit.state = "checking" => page.config.fetch # None
    /\ page.submit.state \in {"granting", "generating"} => page.submit.call # None
    /\ \A i \in DOMAIN page.turns :
           i < Len(page.turns) => page.turns[i].accepted

(* An answer that the panel shows was asked for under a consent no older   *)
(* than any it has been told of: neither a late answer, nor a late event,  *)
(* nor a revocation and a new consent in another tab brings one back       *)
(* (answer-panel.tsx:137-152, use-answer-events.ts:55-59).  Only while the *)
(* panel reads again what its own approval has changed are the answers     *)
(* before that approval still on the screen (answer-panel.tsx:113-116).    *)
ShownUnderItsConsent ==
    \A id \in Request :
        Shows(page, id) /\ page.submit.state # "checking" => admitted[id].epoch >= learned

(* No question leaves before the owner's consent is stored, nor while the  *)
(* fate of an approval is open: "승인은 생성보다 먼저 저장하고 실패하면     *)
(* 생성 POST를 보내지 않는다" (ADR-0008:40; answer-panel.tsx:120-127).      *)
ApprovalBeforeSending ==
    /\ page.submit.state = "generating" => consent.epoch > 0 /\ page.approval = None
    /\ (\E c \in adrift : c.kind = "generate") => consent.epoch > 0

(* Consent is asked first and honoured to the end.                         *)
ConsentIsKept == ShownUnderItsConsent /\ ApprovalBeforeSending

(* However often a question is repeated, it is admitted at most once: only *)
(* the form starts a new request (ADR-0006:82).                            *)
OneAdmissionPerQuestion ==
    Cardinality({id \in Request : admitted[id] # None}) <= questions

Quiet ==
    /\ page.config.fetch = None /\ ~Submitting(page) /\ page.revoke.state # "pending"
    /\ page.stream = None
    /\ \A id \in Request : page.results[id].fetch = None

Offers ==
    \/ MayAsk(page) \/ MayRepeat(page) \/ MayReconnect(page) \/ MayRecheck(page)
    \/ MayStartOver(page) \/ \E id \in Request : MayReread(page, id)

(* The panel's parts agree, and when nothing is under way there is a       *)
(* control that leads on, except when the policy has changed under an      *)
(* accepted question (see ApprovalIsOffered).                              *)
NeverStuck ==
    TypeOK /\ (Quiet /\ ~Offers => ~Consented(page) /\ Waiting(page))

(* A panel that is loaded and not consented offers to ask and so to        *)
(* consent: "각 기능의 첫 실행 버튼이 승인을 겸한다" (ADR-0008:40).         *)
ApprovalIsOffered ==
    Quiet /\ ~page.config.failed /\ ~Consented(page) /\ page.submit.state = "idle"
        => MayAsk(page) \/ MayStartOver(page)

(* A panel that waits for an answer, its consent standing, shows the end   *)
(* of it or says that it has lost the connection.                          *)
WaitingEnds ==
    (Waiting(page) /\ Consented(page)) ~>
        (~Waiting(page) \/ Disconnected(page) \/ ~Consented(page))

(* A submission ends, whatever else invalidates its configuration.         *)
SubmissionsEnd == Submitting(page) ~> ~Submitting(page)

(* Nothing the panel shows as being under way is waited for in vain.       *)
WaitsEnd == WaitingEnds /\ SubmissionsEnd

=============================================================================

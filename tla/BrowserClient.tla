---------------------------- MODULE BrowserClient ----------------------------
(***************************************************************************)
(* The transport of the browser and the boundary around its screens, over  *)
(* the API of Sessions: one page sends requests, renews the login once for *)
(* all that were refused, and logs out, while answers arrive in any order  *)
(* or not at all.  Other tabs share its cookies and coordinate nothing.    *)
(***************************************************************************)
EXTENDS Sessions

CONSTANTS
    Req,           \* requests of the screens that may be under way at once
    MaxRefreshes,  \* bound on the renewals started by one page
    MaxActs        \* bound on what users do, here and in other tabs

ASSUME BrowserClientAssumption ==
    /\ MaxRefreshes \in Nat /\ MaxActs \in Nat
    /\ Cardinality(State) >= 1 /\ Cardinality(Login) >= 1 /\ Cardinality(Token) >= 1

VARIABLES
    jar,        \* cookies of the browser
    drawn,      \* number of CSRF bindings drawn so far
    page,       \* what AuthBoundary shows, and whether private answers are cached
    client,     \* state shared by the requests of createBrowserApiClient
    refreshes,  \* renewals, in the order they were started; the last is lastRefresh
    requests,   \* requests of the screens
    logout,     \* the logout of this page
    elsewhere,  \* calls that other tabs wait for
    acts        \* what users did so far: how often, how many logouts, whether only
                \* here; unheard: an answer to a renewal was lost

browserVars == <<jar, drawn, page, client, refreshes, requests, logout, elsewhere, acts>>
vars == <<sessionsVars, browserVars>>

Kind == {"me", "read", "write", "once"}
Private == {"me", "read"}          \* cached by the query client
Mutation == {"write", "once"}      \* sent with a CSRF token
Replayable == {"me", "read", "write"}

Jar == [access: Token \cup {None}, refresh: Token \cup {None},
        binding: Nat, csrf: Nat, login: State \cup {None}]

(* signal numbers the AbortController a request was tied to, version the   *)
(* renewals started before it was sent, epoch (which no code has) the      *)
(* logouts begun before it was started.                                    *)
Requests ==
    [kind: Kind,
     stage: {"idle", "csrf", "waiting", "sent", "recovering", "resent", "done"},
     signal: Nat, version: Nat, header: Nat, epoch: Nat,
     status: {"none", "ok", "denied", "forbidden"}]

Idle(stage) == [kind |-> "read", stage |-> stage, signal |-> 0, version |-> 0,
                header |-> 0, epoch |-> 0, status |-> "none"]

NewClient == [csrf |-> None, refreshing |-> FALSE, version |-> 0, signingOut |-> FALSE,
              generation |-> 1, cut |-> FALSE, ended |-> FALSE]
NewPage == [open |-> TRUE, session |-> "checking", cached |-> FALSE]
NoRefresh == [stage |-> "none", header |-> 0, signal |-> 0, call |-> None]
NoLogout == [stage |-> "none", header |-> 0, call |-> None]

FirstToken == CHOOSE t \in Token : TRUE
FirstLogin == CHOOSE l \in Login : TRUE
FirstState == CHOOSE s \in State : TRUE

(* The user has logged in and the page has been loaded; it may know that   *)
(* already.                                                                *)
BrowserInit ==
    /\ row = [token |-> FirstToken, until |-> FirstLogin]
    /\ tokens = [t \in Token |->
           IF t = FirstToken
           THEN [login |-> FirstLogin, until |-> FirstLogin, parent |-> None,
                 state |-> FirstState]
           ELSE None]
    /\ stale = {} /\ lapsed = {} /\ ended = {}
    /\ oauth = [s \in State |-> IF s = FirstState THEN "used" ELSE "unused"]
    /\ calls = [c \in Call |-> None]
    /\ jar = [access |-> FirstToken, refresh |-> FirstToken, binding |-> 1, csrf |-> 1,
              login |-> None]
    /\ drawn = 1
    /\ page \in {NewPage, [open |-> TRUE, session |-> "ready", cached |-> TRUE]}
    /\ client = NewClient
    /\ refreshes = [v \in 1..MaxRefreshes |-> NoRefresh]
    /\ requests = [r \in Req |-> Idle("idle")]
    /\ logout = NoLogout
    /\ elsewhere = {}
    /\ acts = [count |-> 0, logouts |-> 0, alone |-> TRUE, unheard |-> FALSE]

-----------------------------------------------------------------------------

(* What the API answers to a request sent with these cookies: the CSRF     *)
(* middleware comes before the guard of the access token.                  *)
Allowed(header, cookies) ==
    header # 0 /\ header = cookies.csrf /\ header = cookies.binding
Status(q, cookies) ==
    IF q.kind \in Mutation /\ ~Allowed(q.header, cookies) THEN "forbidden"
    ELSE IF cookies.access \notin {None} \cup stale THEN "ok" ELSE "denied"

Resting(q) == q.stage \in {"idle", "done"}
OnWire(q) == q.stage \in {"sent", "resent"}

\* The controller of a failed logout is forgotten with it.
AbortedNow(signal) == client.cut

(* An AbortController that was replaced after a failed logout stays aborted. *)
Aborted(signal) == signal # client.generation \/ client.cut

(* privateRequests.abort(): what is on the wire fails at once, what waits  *)
(* fails when it goes on.                                                  *)
Cut(queue) == [r \in Req |-> IF OnWire(queue[r]) THEN Idle("idle") ELSE queue[r]]

Sent(q, cookies) ==
    [q EXCEPT !.stage = "sent", !.version = client.version, !.status = Status(q, cookies)]

(* sendProtected: nothing is sent during a logout, and nothing before a    *)
(* renewal under way has ended.                                            *)
Dispatch(q) ==
    IF client.signingOut THEN Idle("idle")
    ELSE LET tied == [q EXCEPT !.signal = client.generation]
         IN  IF client.refreshing
             THEN [tied EXCEPT !.stage = "waiting", !.version = client.version]
             ELSE Sent(tied, jar)

(* csrfRequest: one bootstrap for everybody who needs a token.             *)
AskCsrf(state) ==
    IF state.csrf # None THEN state
    ELSE [state EXCEPT !.csrf =
              IF jar.binding # 0 THEN [binding |-> jar.binding, new |-> FALSE]
                                 ELSE [binding |-> drawn + 1, new |-> TRUE]]
Drawn == IF client.csrf = None /\ jar.binding = 0 THEN drawn + 1 ELSE drawn

(* A request starts: AuthBoundary shows the screens only once the session  *)
(* is known, and a mutation is refused during a logout.                    *)
MayStart(kind) == ~client.ended /\ ~client.signingOut

Start(r, kind) ==
    LET q == [Idle("csrf") EXCEPT !.kind = kind, !.signal = client.generation,
                                  !.epoch = acts.logouts]
    IN  /\ page.open /\ kind # "me" => page.session = "ready"
        /\ Resting(requests[r]) /\ acts.count < MaxActs
        /\ MayStart(kind)
        /\ acts' = [acts EXCEPT !.count = @ + 1]
        /\ IF kind \in Mutation
           THEN /\ requests' = [requests EXCEPT ![r] = q]
                /\ client' = AskCsrf(client)
                /\ drawn' = Drawn
           ELSE /\ requests' = [requests EXCEPT ![r] = Dispatch(q)]
                /\ UNCHANGED <<client, drawn>>
        /\ UNCHANGED <<sessionsVars, jar, page, refreshes, logout, elsewhere>>

-----------------------------------------------------------------------------

FailRefresh(v) == [refreshes EXCEPT ![v] = [NoRefresh EXCEPT !.stage = "failed"]]

AwaitsToken(v) == refreshes[v].stage = "csrf"
TokenAwaited == {v \in 1..MaxRefreshes : AwaitsToken(v)}

(* The token arrives: everyone who waited for it goes on, unless aborted   *)
(* meanwhile.  A renewal that was aborted fails, and those behind it.      *)
CsrfArrives ==
    /\ client.csrf # None
    /\ LET token == client.csrf.binding
           dropped == {v \in TokenAwaited : Aborted(refreshes[v].signal)}
       IN  /\ jar' = [jar EXCEPT !.csrf = token,
                                 !.binding = IF client.csrf.new THEN token ELSE @]
           /\ requests' = [r \in Req |->
                  LET q == requests[r]
                  IN  CASE q.stage = "csrf" ->
                             IF Aborted(q.signal) THEN Idle("idle")
                             ELSE LET d == Dispatch([q EXCEPT !.header = token])
                                  IN  IF d.stage = "sent" THEN Sent(d, jar') ELSE d
                        [] q.stage \in {"waiting", "recovering"} /\ q.version \in dropped ->
                             Idle("idle")
                        [] OTHER -> q]
           /\ refreshes' = [v \in DOMAIN refreshes |->
                  CASE v \in dropped -> [NoRefresh EXCEPT !.stage = "failed"]
                    [] v \in TokenAwaited \ dropped ->
                           [refreshes[v] EXCEPT !.stage = "ready", !.header = token]
                    [] OTHER -> refreshes[v]]
           /\ client' = [client EXCEPT !.csrf = None,
                                       !.refreshing = @ /\ dropped = {}]
           /\ logout' = IF logout.stage = "csrf"
                        THEN [logout EXCEPT !.stage = "ready", !.header = token]
                        ELSE logout
    /\ UNCHANGED <<sessionsVars, drawn, page, elsewhere, acts>>

(* A failed logout lets the page go on with a new controller.              *)
Resume(state) ==
    [state EXCEPT !.signingOut = FALSE, !.generation = @ + 1, !.cut = FALSE]

(* The bootstrap fails, and with it everybody who waited.                  *)
CsrfFails ==
    /\ client.csrf # None
    /\ requests' = [r \in Req |->
           IF \/ requests[r].stage = "csrf"
              \/ requests[r].stage \in {"waiting", "recovering"}
                     /\ requests[r].version \in TokenAwaited
           THEN Idle("idle") ELSE requests[r]]
    /\ refreshes' = [v \in DOMAIN refreshes |->
           IF AwaitsToken(v) THEN [NoRefresh EXCEPT !.stage = "failed"] ELSE refreshes[v]]
    /\ LET idle == [client EXCEPT !.csrf = None, !.refreshing = @ /\ TokenAwaited = {}]
       IN  IF logout.stage = "csrf"
           THEN client' = Resume(idle) /\ logout' = NoLogout
           ELSE client' = idle /\ UNCHANGED logout
    /\ UNCHANGED <<sessionsVars, jar, drawn, page, elsewhere, acts>>

-----------------------------------------------------------------------------

\* Whoever is refused renews.
StartsAlways(version) == TRUE

(* The first 401 since the last renewal starts one.  A 401 to a request    *)
(* sent before it shares it, also when it has ended.                       *)
StartsRefresh(version) == client.version = 0 \/ version = client.version

Recover(r) ==
    LET q == requests[r]
        v == client.version + 1
    IN  IF StartsRefresh(q.version)
        THEN /\ client.version < MaxRefreshes
             /\ client' = [AskCsrf(client) EXCEPT !.version = v, !.refreshing = TRUE]
             /\ drawn' = Drawn
             /\ refreshes' = [u \in DOMAIN refreshes |->
                    IF u = v
                    THEN [NoRefresh EXCEPT !.stage = "csrf", !.signal = client.generation]
                    ELSE IF refreshes[u].stage \in {"ok", "failed"} THEN NoRefresh
                    ELSE refreshes[u]]
             /\ requests' = [requests EXCEPT ![r].stage = "recovering", ![r].version = v,
                                             ![r].status = "none"]
        ELSE /\ requests' = [requests EXCEPT ![r] =
                    CASE refreshes[client.version].stage = "ok" ->
                             [q EXCEPT !.stage = "resent", !.status = Status(q, jar)]
                      [] refreshes[client.version].stage = "failed" -> Idle("idle")
                      [] OTHER -> [q EXCEPT !.stage = "recovering", !.status = "none",
                                            !.version = client.version]]
             /\ UNCHANGED <<client, drawn, refreshes>>

(* endAuthentication: everything under way is aborted, for good.           *)
End(state) == [state EXCEPT !.ended = TRUE, !.cut = TRUE]

Succeeds(r) ==
    LET q == requests[r]
    IN  /\ requests' = [requests EXCEPT ![r] = Idle("done")]
        /\ page' = [page EXCEPT !.cached = @ \/ q.kind \in Private,
                                !.session = IF q.kind = "me" THEN "ready" ELSE @]
        /\ UNCHANGED <<client, drawn, refreshes>>

(* A failed check of the session blocks the screens when access was        *)
(* refused or nothing was shown yet; otherwise what is shown stays.        *)
Fails(r, refused) ==
    LET q == requests[r]
    IN  /\ requests' = [requests EXCEPT ![r] = Idle("idle")]
        /\ page' = IF q.kind = "me" /\ (refused \/ page.session = "checking")
                   THEN [page EXCEPT !.session = "refused"] ELSE page
        /\ UNCHANGED <<client, drawn, refreshes>>

(* The answer to a request arrives.                                        *)
RequestArrives(r) ==
    LET q == requests[r]
    IN  /\ OnWire(q)
        /\ CASE q.status = "ok" -> Succeeds(r)
             [] q.status = "forbidden" -> Fails(r, TRUE)
             [] q.status = "denied" /\ q.stage = "sent" ->
                    IF q.kind \in Replayable THEN Recover(r) /\ UNCHANGED page
                                             ELSE Fails(r, TRUE)
             [] q.status = "denied" /\ q.stage = "resent" ->
                    /\ client' = End(client)
                    /\ requests' = Cut(requests)
                    /\ UNCHANGED <<page, drawn, refreshes>>
        /\ UNCHANGED <<sessionsVars, jar, logout, elsewhere, acts>>

RequestLost(r) ==
    /\ OnWire(requests[r])
    /\ Fails(r, FALSE)
    /\ UNCHANGED <<sessionsVars, jar, logout, elsewhere, acts>>

-----------------------------------------------------------------------------

CanCall == \E c \in Call : calls[c] = None
NextCall == CHOOSE c \in Call : calls[c] = None

SendCall(c, op, header) ==
    Arrive(c, [op |-> op, token |-> jar.refresh, allowed |-> Allowed(header, jar)])

SendRefresh(v) ==
    LET c == NextCall IN
    /\ CanCall
    /\ refreshes[v].stage = "ready"
    /\ SendCall(c, "refresh", refreshes[v].header)
    /\ refreshes' = [refreshes EXCEPT ![v].stage = "sent", ![v].call = c]
    /\ UNCHANGED <<database, stale, lapsed, jar, drawn, page, client, requests, logout,
                   elsewhere, acts>>

WaitsFor(q, v) == q.stage \in {"waiting", "recovering"} /\ q.version = v

GoesOn(q, cookies) ==
    IF Aborted(q.signal) THEN Idle("idle")
    ELSE IF q.stage = "waiting" THEN Sent(q, cookies)
    ELSE [q EXCEPT !.stage = "resent", !.status = Status(q, cookies)]

\* The flag is reset where a renewal succeeds.
StaysBusy(state) == state

(* .finally: a renewal is over however it ends.                            *)
Quiet(state) == [state EXCEPT !.refreshing = FALSE]

EndsLogin(status) == status = "denied"

(* The answer to a renewal: those who waited go on with the new cookies.   *)
(* A 401 ends the page's login, any other failure only theirs.             *)
RefreshArrives(v) ==
    LET c == refreshes[v].call
        reply == calls[c].reply
        released(cookies, good) == [r \in Req |->
            IF WaitsFor(requests[r], v)
            THEN IF good THEN GoesOn(requests[r], cookies) ELSE Idle("idle")
            ELSE requests[r]]
    IN  /\ refreshes[v].stage = "sent"
        /\ Leave(c)
        /\ CASE reply.status = "ok" ->
                  /\ jar' = [jar EXCEPT !.access = reply.token, !.refresh = reply.token]
                  /\ client' = Quiet(client)
                  /\ requests' = released(jar', TRUE)
                  /\ refreshes' = [refreshes EXCEPT ![v] = [NoRefresh EXCEPT !.stage = "ok"]]
             [] EndsLogin(reply.status) ->
                  /\ client' = End(Quiet(client))
                  /\ requests' = Cut(released(jar, FALSE))
                  /\ refreshes' = FailRefresh(v)
                  /\ UNCHANGED jar
             [] OTHER ->
                  /\ client' = Quiet(client)
                  /\ requests' = released(jar, FALSE)
                  /\ refreshes' = FailRefresh(v)
                  /\ UNCHANGED jar
        /\ UNCHANGED <<drawn, page, logout, elsewhere, acts>>

(* The connection is lost; the API may have served the call, or will.      *)
RefreshLost(v) ==
    /\ refreshes[v].stage = "sent"
    /\ client' = Quiet(client)
    /\ requests' = [r \in Req |->
           IF WaitsFor(requests[r], v) THEN Idle("idle") ELSE requests[r]]
    /\ refreshes' = FailRefresh(v)
    /\ acts' = [acts EXCEPT !.unheard = TRUE]
    /\ UNCHANGED <<sessionsVars, jar, drawn, page, logout, elsewhere>>

-----------------------------------------------------------------------------

(* Everything else is blocked before the token is asked for: a mutation    *)
(* that came later would bring the deleted CSRF cookie back.               *)
Blocks(state) == [state EXCEPT !.signingOut = TRUE, !.cut = TRUE]

ClickLogout ==
    /\ page.open /\ page.session = "ready"
    /\ logout.stage = "none" /\ acts.count < MaxActs
    /\ ~client.ended /\ ~client.signingOut
    /\ client' = AskCsrf(Blocks(client))
    /\ drawn' = Drawn
    /\ requests' = Cut(requests)
    /\ logout' = [NoLogout EXCEPT !.stage = "csrf"]
    /\ acts' = [acts EXCEPT !.count = @ + 1, !.logouts = @ + 1]
    /\ UNCHANGED <<sessionsVars, jar, page, refreshes, elsewhere>>

\* The logout does not wait.
LeavesAtOnce == TRUE

(* The cookies of a renewal must not arrive after their deletion.          *)
LeavesAfterRefresh == ~client.refreshing

SendLogout ==
    LET c == NextCall IN
    /\ CanCall
    /\ logout.stage = "ready"
    /\ LeavesAfterRefresh
    /\ SendCall(c, "logout", logout.header)
    /\ logout' = [logout EXCEPT !.stage = "sent", !.call = c]
    /\ UNCHANGED <<database, stale, lapsed, jar, drawn, page, client, refreshes, requests,
                   elsewhere, acts>>

LoggedOut(cookies) ==
    [cookies EXCEPT !.access = None, !.refresh = None, !.binding = 0, !.csrf = 0]

(* After a 204 the cache is cleared and the page left for good; otherwise  *)
(* the user may go on and try again.                                       *)
LogoutArrives ==
    /\ logout.stage = "sent"
    /\ Leave(logout.call)
    /\ IF calls[logout.call].reply.status = "ok"
       THEN /\ jar' = LoggedOut(jar)
            /\ logout' = [NoLogout EXCEPT !.stage = "done"]
            /\ page' = [page EXCEPT !.open = FALSE, !.cached = FALSE]
            /\ UNCHANGED client
       ELSE /\ client' = Resume(client)
            /\ logout' = NoLogout
            /\ UNCHANGED <<jar, page>>
    /\ UNCHANGED <<drawn, refreshes, requests, elsewhere, acts>>

LogoutLost ==
    /\ logout.stage = "sent"
    /\ client' = Resume(client)
    /\ logout' = NoLogout
    /\ UNCHANGED <<sessionsVars, jar, drawn, page, refreshes, requests, elsewhere, acts>>

(* The boundary learns that the login has ended.                           *)
Redirect ==
    /\ client.ended /\ page.open
    /\ page' = [page EXCEPT !.open = FALSE, !.cached = FALSE]
    /\ UNCHANGED <<sessionsVars, jar, drawn, client, refreshes, requests, logout, elsewhere,
                   acts>>

-----------------------------------------------------------------------------

Elsewhere ==
    /\ acts.count < MaxActs
    /\ acts' = [acts EXCEPT !.count = @ + 1, !.alone = FALSE]

(* Another tab renews the login or logs out, with a CSRF token of its own. *)
OtherTab(op) ==
    LET c == NextCall IN
    /\ CanCall /\ Elsewhere
    /\ SendCall(c, op, jar.binding)
    /\ elsewhere' = elsewhere \cup {c}
    /\ UNCHANGED <<database, stale, lapsed, jar, drawn, page, client, refreshes, requests,
                   logout>>

(* The login page, here or in another tab: on to Google, with a cookie     *)
(* that binds the state to this browser.                                   *)
GoToGoogle(s) ==
    /\ Elsewhere
    /\ BeginLogin(s)
    /\ jar' = [jar EXCEPT !.login = s]
    /\ UNCHANGED <<row, tokens, stale, lapsed, ended, calls, drawn, page, client, refreshes,
                   requests, logout, elsewhere>>

(* Google sends the browser back, as often as the user follows the link.   *)
FollowCallback(s) ==
    LET c == NextCall IN
    /\ CanCall /\ Elsewhere
    /\ oauth[s] # "unused"
    /\ Arrive(c, [op |-> "callback", state |-> s, binding |-> jar.login])
    /\ elsewhere' = elsewhere \cup {c}
    /\ UNCHANGED <<database, stale, lapsed, jar, drawn, page, client, refreshes, requests,
                   logout>>

(* The cookies a served call sets.                                         *)
SetCookies(c) ==
    LET reply == calls[c].reply
        new == [jar EXCEPT !.access = reply.token, !.refresh = reply.token]
    IN  CASE Asks(c, "callback") /\ reply.status = "ok" ->
               [new EXCEPT !.login = None, !.binding = drawn + 1, !.csrf = drawn + 1]
          [] Asks(c, "callback") /\ reply.status # "ok" -> [jar EXCEPT !.login = None]
          [] Asks(c, "refresh") /\ reply.status = "ok" -> new
          [] Asks(c, "logout") /\ reply.status = "ok" -> LoggedOut(jar)
          [] OTHER -> jar

AnswerElsewhere(c) ==
    /\ c \in elsewhere
    /\ Leave(c)
    /\ jar' = SetCookies(c)
    /\ drawn' = IF Asks(c, "callback") THEN drawn + 1 ELSE drawn
    /\ elsewhere' = elsewhere \ {c}
    /\ UNCHANGED <<page, client, refreshes, requests, logout, acts>>

(* Nobody waits for the answer any more.                                   *)
Drop(c) ==
    /\ c \notin elsewhere \cup {logout.call} \cup {refreshes[v].call : v \in DOMAIN refreshes}
    /\ Leave(c)
    /\ UNCHANGED browserVars

(* The user comes back to the page from the login page.                    *)
Reopen ==
    /\ Elsewhere
    /\ ~page.open /\ jar.access # None
    /\ page' = NewPage
    /\ client' = NewClient
    /\ refreshes' = [v \in 1..MaxRefreshes |-> NoRefresh]
    /\ requests' = [r \in Req |-> Idle("idle")]
    /\ logout' = NoLogout
    /\ UNCHANGED <<sessionsVars, jar, drawn, elsewhere>>

(* An access token outlives the requests that were resent with it, and     *)
(* those still under way from before it came.                              *)
AccessRunsOut ==
    /\ jar.access # None
    /\ \A r \in Req :
           /\ requests[r].stage \notin {"recovering", "resent"}
           /\ requests[r].stage = "sent" => requests[r].version = client.version
    /\ AccessExpires(jar.access)
    /\ UNCHANGED browserVars

-----------------------------------------------------------------------------

CsrfSettles == CsrfArrives \/ CsrfFails
RequestSettles(r) == RequestArrives(r) \/ RequestLost(r)
RefreshSettles ==
    \E v \in 1..MaxRefreshes : SendRefresh(v) \/ RefreshArrives(v) \/ RefreshLost(v)
LogoutSettles == SendLogout \/ LogoutArrives \/ LogoutLost
CallSettles(c) == (Serve(c) /\ UNCHANGED browserVars) \/ AnswerElsewhere(c) \/ Drop(c)

BrowserNext ==
    \/ \E r \in Req : RequestSettles(r) \/ \E kind \in Kind : Start(r, kind)
    \/ CsrfSettles \/ RefreshSettles
    \/ ClickLogout \/ LogoutSettles \/ Redirect \/ Reopen
    \/ \E c \in Call : CallSettles(c)
    \/ \E op \in {"refresh", "logout"} : OtherTab(op)
    \/ \E s \in State :
           \/ GoToGoogle(s) \/ FollowCallback(s)
           \/ StateExpires(s) /\ UNCHANGED browserVars
    \/ AccessRunsOut
    \/ \E l \in Login : LoginLapses(l) /\ UNCHANGED browserVars

(* The network and the API answer or fail every call in the end, and the   *)
(* page goes on when it can.                                               *)
Fairness ==
    /\ WF_vars(CsrfSettles) /\ WF_vars(RefreshSettles) /\ WF_vars(LogoutSettles)
    /\ \A r \in Req : WF_vars(RequestSettles(r))
    /\ \A c \in Call : WF_vars(CallSettles(c))

BrowserSpec == BrowserInit /\ [][BrowserNext]_vars /\ Fairness

-----------------------------------------------------------------------------

(* The transport's state, the cookies and the counters have their types.   *)
BrowserTypeOK ==
    /\ jar \in Jar /\ drawn \in Nat
    /\ page \in [open: BOOLEAN, session: {"checking", "ready", "refused"}, cached: BOOLEAN]
    /\ client \in [csrf: [binding: Nat, new: BOOLEAN] \cup {None}, refreshing: BOOLEAN,
                   version: 0..MaxRefreshes, signingOut: BOOLEAN, generation: Nat,
                   cut: BOOLEAN, ended: BOOLEAN]
    /\ refreshes \in [1..MaxRefreshes ->
           [stage: {"none", "csrf", "ready", "sent", "ok", "failed"}, header: Nat,
            signal: Nat, call: Call \cup {None}]]
    /\ requests \in [Req -> Requests]
    /\ logout \in [stage: {"none", "csrf", "ready", "sent", "done"}, header: Nat,
                   call: Call \cup {None}]
    /\ elsewhere \subseteq Call
    /\ acts \in [count: 0..MaxActs, logouts: Nat, alone: BOOLEAN, unheard: BOOLEAN]
    /\ client.refreshing <=> \E v \in 1..MaxRefreshes :
           refreshes[v].stage \in {"csrf", "ready", "sent"}

\* What waits still, but will fail when it goes on.
Cancelled(q) == ~OnWire(q) /\ Aborted(q.signal)

(* Of a page's renewals only the last can be under way, and every request  *)
(* that waits, or that was refused and recovers, waits for it: none waits  *)
(* for a renewal that is over, and none has started another beside it.     *)
OneRenewalAtATime ==
    /\ \A v \in 1..MaxRefreshes :
           refreshes[v].stage \in {"csrf", "ready", "sent"} => v = client.version
    /\ \A r \in Req :
           requests[r].stage \in {"waiting", "recovering"} =>
               requests[r].version = client.version /\ client.refreshing

(* When the logout is on the wire, no answer of this page that sets        *)
(* cookies is: none can arrive after their deletion.  No request of a      *)
(* screen is on the wire beside it either, and none can still be sent.     *)
LogoutTravelsAlone ==
    logout.stage = "sent" =>
        /\ client.csrf = None
        /\ \A v \in 1..MaxRefreshes : refreshes[v].stage \notin {"csrf", "ready", "sent"}
        /\ \A r \in Req : Resting(requests[r]) \/ Cancelled(requests[r])

(* After a logout that no other tab disturbed, the browser has none of its *)
(* cookies and the API no session.                                         *)
SignedOut ==
    logout.stage = "done" /\ acts.alone =>
        /\ jar.access = None /\ jar.refresh = None /\ jar.binding = 0 /\ jar.csrf = 0
        /\ row = None \/ row.until \in lapsed

(* A page that has been left, after its logout or because authentication   *)
(* ended, caches nothing private, and no request of its screens is on the  *)
(* wire or can still be sent.  Of renewals nothing is said.                *)
LeftPageHoldsNothing ==
    ~page.open =>
        /\ ~page.cached
        /\ \A r \in Req : Resting(requests[r]) \/ Cancelled(requests[r])

(* A logout that no other tab disturbs leaves nothing of its login behind  *)
(* in the browser, and the page's transport is in a consistent state all   *)
(* the way, with other tabs as well.                                       *)
SignOutIsClean ==
    BrowserTypeOK /\ OneRenewalAtATime /\ LogoutTravelsAlone /\ SignedOut /\ LeftPageHoldsNothing

(* Alone, a page is sent to the login page only when its session is gone,  *)
(* a login has lapsed, or the answer to a renewal was lost.                *)
NotThrownOut ==
    client.ended /\ acts.alone => row = None \/ lapsed # {} \/ acts.unheard

(* Nothing that was started before a logout is sent or delivered after it  *)
(* began, also when that logout fails and the page goes on; nothing at all *)
(* is once authentication has ended.                                       *)
NothingOutlivesLogout ==
    [][\A r \in Req :
          /\ requests'[r] # requests[r] /\ ~Resting(requests[r])
          /\ OnWire(requests'[r]) \/ requests'[r].stage = "done"
          => requests[r].epoch = acts.logouts /\ ~client.ended
      ]_vars

(* Once users stop acting, every request, renewal and logout comes to an   *)
(* end: none of them waits for another that waits for it.                  *)
EverythingSettles ==
    <>[](/\ \A r \in Req : Resting(requests[r])
         /\ client.csrf = None /\ ~client.refreshing
         /\ logout.stage \in {"none", "done"})
=============================================================================

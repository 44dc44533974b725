------------------------------ MODULE Sessions ------------------------------
(***************************************************************************)
(* How the API keeps the login of one account: a single row with the hash  *)
(* of the current refresh token, rotated by compare-and-set, and the OAuth *)
(* states that a callback from Google uses up.  Anybody may call, with any *)
(* token ever issued and any state, as often as they like.                 *)
(***************************************************************************)
EXTENDS Naturals, FiniteSets

CONSTANTS
    Token,  \* pairs of an access and a refresh token
    Login,  \* completed logins; each fixes when its refresh tokens expire
    State,  \* OAuth states with their bindings
    Call,   \* calls being served
    None

ASSUME SessionsAssumption == None \notin Token \cup Login \cup State

VARIABLES
    row,     \* auth_refresh_tokens of the account
    tokens,  \* what is signed into each issued token
    stale,   \* tokens whose access token has expired (15 minutes)
    lapsed,  \* logins whose refresh tokens have expired (7 days)
    ended,   \* logins that were logged out; no code has it
    oauth,   \* auth_oauth_states
    calls    \* calls being served, and answers that have not arrived

sessionsVars == <<row, tokens, stale, lapsed, ended, oauth, calls>>
database == <<row, tokens, ended, oauth>>

(* until is the expiry in the refresh token.  login, parent and state,     *)
(* which no code has, say which login it goes back to, which token it was  *)
(* rotated from, and which OAuth state began that login.                   *)
Claims == [login: Login, until: Login, parent: Token \cup {None}, state: State]


Request ==
    [op: {"refresh", "logout"}, token: Token \cup {None}, allowed: BOOLEAN]
        \cup [op: {"callback"}, state: State, binding: State \cup {None}]

Reply == [status: {"ok", "denied", "forbidden", "unavailable"}, token: Token \cup {None}]

Served == [request: Request, step: {"arrived", "vouched", "answered"}, reply: Reply]

ASSUME NoneIsNoRecord == None \notin Claims \cup Served

SessionsInit ==
    /\ row = None
    /\ tokens = [t \in Token |-> None]
    /\ stale = {}
    /\ lapsed = {}
    /\ ended = {}
    /\ oauth = [s \in State |-> "unused"]
    /\ calls = [c \in Call |-> None]

-----------------------------------------------------------------------------

At(c, step) == calls[c] # None /\ calls[c].step = step
Asks(c, op) == calls[c].request.op = op

Issued == {t \in Token : tokens[t] # None}
Logins == {tokens[t].login : t \in Issued}
Fresh == CHOOSE t \in Token : t \notin Issued
HasFresh == \E t \in Token : t \notin Issued
NextLogin == CHOOSE l \in Login : l \notin Logins
HasLogin == \E l \in Login : l \notin Logins

\* The signature, the use and the expiry of a presented refresh token.
Verifies(t) == t \in Issued /\ tokens[t].until \notin lapsed

(* The middleware has seen the CSRF token and the origin of a POST.        *)
Arrive(c, request) ==
    /\ calls[c] = None
    /\ calls' = [calls EXCEPT ![c] =
           [request |-> request, step |-> "arrived",
            reply |-> [status |-> "ok", token |-> None]]]

Answer(c, status, token) ==
    calls' = [calls EXCEPT ![c].step = "answered",
                           ![c].reply = [status |-> status, token |-> token]]

(* The caller has the answer, or is gone.                                  *)
Leave(c) ==
    /\ At(c, "answered")
    /\ calls' = [calls EXCEPT ![c] = None]
    /\ UNCHANGED <<database, stale, lapsed>>

Forbid(c) ==
    /\ At(c, "arrived") /\ ~Asks(c, "callback") /\ ~calls[c].request.allowed
    /\ Answer(c, "forbidden", None)
    /\ UNCHANGED <<database, stale, lapsed>>

(* The database cannot be reached, or Google does not vouch for the user.  *)
Fail(c) ==
    /\ At(c, "arrived") \/ At(c, "vouched")
    /\ Answer(c, "unavailable", None)
    /\ UNCHANGED <<database, stale, lapsed>>

-----------------------------------------------------------------------------

Issue(t, login, until, parent, state) ==
    tokens' = [tokens EXCEPT ![t] =
        [login |-> login, until |-> until, parent |-> parent, state |-> state]]

\* Any verified token may be rotated while the account is logged in.
StillLoggedIn(t) == Verifies(t) /\ row # None /\ row.until = tokens[t].until

(* Only the stored token is rotated: two calls with one token cannot both  *)
(* be served.                                                              *)
Rotates(t) ==
    /\ Verifies(t)
    /\ row # None /\ row.token = t /\ row.until = tokens[t].until

(* A rotated token expires when the one before it would have.              *)
Inherited(t) == tokens[t].until

(* RefreshTokenGuard, and a single conditional update.                     *)
ServeRefresh(c) ==
    LET t == calls[c].request.token
    IN  /\ At(c, "arrived") /\ Asks(c, "refresh") /\ calls[c].request.allowed
        /\ HasFresh
        /\ IF Rotates(t)
           THEN /\ row' = [row EXCEPT !.token = Fresh]
                /\ Issue(Fresh, tokens[t].login, Inherited(t), t, tokens[t].state)
                /\ Answer(c, "ok", Fresh)
           ELSE /\ Answer(c, "denied", None)
                /\ UNCHANGED <<row, tokens>>
        /\ UNCHANGED <<stale, lapsed, ended, oauth>>

\* The presented token must be the stored one.
RevokesStored(t) == Verifies(t) /\ row # None /\ row.token = t

(* A token that still verifies ends the login, also one that has been      *)
(* rotated meanwhile.                                                      *)
Revokes(t) == Verifies(t)

(* A logout always succeeds; without a valid token it changes nothing.     *)
ServeLogout(c) ==
    LET t == calls[c].request.token
    IN  /\ At(c, "arrived") /\ Asks(c, "logout") /\ calls[c].request.allowed
        /\ row' = IF Revokes(t) THEN None ELSE row
        /\ ended' = ended \cup
               (IF Verifies(t) THEN {tokens[t].login} ELSE {}) \cup
               (IF Revokes(t) /\ row # None THEN {tokens[row.token].login} ELSE {})
        /\ Answer(c, "ok", None)
        /\ UNCHANGED <<tokens, stale, lapsed, oauth>>

-----------------------------------------------------------------------------

(* A state for five minutes, bound to a cookie.                            *)
BeginLogin(s) ==
    /\ oauth[s] = "unused"
    /\ oauth' = [oauth EXCEPT ![s] = "open"]

StateExpires(s) ==
    /\ oauth[s] = "open"
    /\ oauth' = [oauth EXCEPT ![s] = "expired"]
    /\ UNCHANGED <<row, tokens, stale, lapsed, ended, calls>>

(* The state is deleted if it is open and bound to the caller's cookie.    *)
Consumes(c) ==
    LET request == calls[c].request
    IN  /\ oauth[request.state] = "open" /\ request.binding = request.state
        /\ oauth' = [oauth EXCEPT ![request.state] = "used"]

(* GoogleCallbackGuard: only then is Google asked who the user is.         *)
ConsumeState(c) ==
    /\ At(c, "arrived") /\ Asks(c, "callback")
    /\ Consumes(c)
    /\ calls' = [calls EXCEPT ![c].step = "vouched"]
    /\ UNCHANGED <<row, tokens, stale, lapsed, ended>>

RefuseState(c) ==
    LET request == calls[c].request
    IN  /\ At(c, "arrived") /\ Asks(c, "callback")
        /\ oauth[request.state] # "open" \/ request.binding # request.state
        /\ Answer(c, "denied", None)
        /\ UNCHANGED <<database, stale, lapsed>>

(* One transaction: the account is found or made, its row replaced.        *)
CompleteLogin(c) ==
    /\ At(c, "vouched")
    /\ HasFresh /\ HasLogin
    /\ row' = [token |-> Fresh, until |-> NextLogin]
    /\ Issue(Fresh, NextLogin, NextLogin, None, calls[c].request.state)
    /\ Answer(c, "ok", Fresh)
    /\ UNCHANGED <<stale, lapsed, ended, oauth>>

AccessExpires(t) ==
    /\ t \in Issued \ stale
    /\ stale' = stale \cup {t}
    /\ UNCHANGED <<database, lapsed, calls>>

LoginLapses(l) ==
    /\ l \in Logins \ lapsed
    /\ lapsed' = lapsed \cup {l}
    /\ UNCHANGED <<database, stale, calls>>

-----------------------------------------------------------------------------

Serve(c) ==
    \/ Forbid(c) \/ Fail(c)
    \/ ServeRefresh(c) \/ ServeLogout(c)
    \/ ConsumeState(c) \/ RefuseState(c) \/ CompleteLogin(c)

SessionsNext ==
    \/ \E c \in Call : Serve(c) \/ Leave(c)
    \/ \E c \in Call, request \in Request :
           Arrive(c, request) /\ UNCHANGED <<database, stale, lapsed>>
    \/ \E s \in State :
           \/ StateExpires(s)
           \/ BeginLogin(s) /\ UNCHANGED <<row, tokens, stale, lapsed, ended, calls>>
    \/ \E t \in Token : AccessExpires(t)
    \/ \E l \in Login : LoginLapses(l)

SessionsSpec == SessionsInit /\ [][SessionsNext]_sessionsVars

-----------------------------------------------------------------------------

(* Rows, claims, states and calls hold what their columns and types allow, *)
(* and the row expires when its token says.                                *)
SessionsTypeOK ==
    /\ row \in [token: Token, until: Login] \cup {None}
    /\ tokens \in [Token -> Claims \cup {None}]
    /\ row # None => row.token \in Issued /\ tokens[row.token].until = row.until
    /\ stale \subseteq Token
    /\ lapsed \subseteq Login
    /\ ended \subseteq Login
    /\ oauth \in [State -> {"unused", "open", "expired", "used"}]
    /\ calls \in [Call -> Served \cup {None}]

(* One refresh token is exchanged for at most one other, however many      *)
(* calls present it at the same time.                                      *)
RotatedOnce ==
    \A t, u \in Issued :
        tokens[t].parent # None /\ tokens[t].parent = tokens[u].parent => t = u

(* Once a logout was served, no token of that login opens a session again: *)
(* a rotation that raced with it does not survive it, whichever came       *)
(* first.                                                                  *)
LogoutEndsLogin ==
    row # None => tokens[row.token].login \notin ended

(* One OAuth state leads to at most one login, also when its callback is   *)
(* called twice.                                                           *)
StateSignsInOnce ==
    \A t, u \in Issued :
        /\ tokens[t].parent = None /\ tokens[u].parent = None
        /\ tokens[t].state = tokens[u].state
        => t = u

(* Neither a refresh token nor an OAuth state opens two sessions.          *)
CredentialsWorkOnce == SessionsTypeOK /\ RotatedOnce /\ StateSignsInOnce

(* A login gives tokens for its seven days and not for longer, however     *)
(* often they are rotated.                                                 *)
LapsedLoginIsOver ==
    [][\A t \in Token :
          tokens[t] = None /\ tokens'[t] # None => tokens'[t].login \notin lapsed
      ]_sessionsVars
=============================================================================

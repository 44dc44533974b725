------------------------- MODULE BrowserClientProofs -------------------------
(* What holds of the logins of an account for any number of callers,       *)
(* tokens, logins and OAuth states, and of the browser that is one of      *)
(* those callers: whatever its page and its other tabs do, in any order of *)
(* answers, for any bound on renewals and on what users do.                *)
EXTENDS BrowserClient, FiniteSetTheorems, TLAPS

(* Tokens expire with their login and come from tokens issued before.      *)
Descends ==
    \A t \in Issued :
        /\ tokens[t].until = tokens[t].login
        /\ tokens[t].parent # None => tokens[t].parent \in Issued

(* The stored token has not been rotated.                                  *)
RowIsNewest ==
    row # None => \A t \in Issued : tokens[t].parent # row.token

(* Only what was a login can be over.                                      *)
OverWereLogins == ended \subseteq Logins /\ lapsed \subseteq Logins

(* A state that let a callback through is used up: by that callback alone, *)
(* or by the one login it led to.                                          *)
StatesUsedUp ==
    /\ \A t \in Issued : oauth[tokens[t].state] = "used"
    /\ \A c \in Call : At(c, "vouched") =>
           /\ Asks(c, "callback")
           /\ oauth[calls[c].request.state] = "used"
           /\ \A t \in Issued : tokens[t].state # calls[c].request.state
           /\ \A d \in Call : At(d, "vouched") /\ d # c =>
                  calls[d].request.state # calls[c].request.state

SessionsInv ==
    /\ SessionsTypeOK /\ Descends /\ RowIsNewest /\ OverWereLogins /\ StatesUsedUp
    /\ LogoutEndsLogin /\ RotatedOnce /\ StateSignsInOnce

LEMMA InitOK == SessionsInit => SessionsInv
  BY DEF SessionsInit, SessionsInv, SessionsTypeOK, Descends, RowIsNewest, OverWereLogins,
         StatesUsedUp, LogoutEndsLogin, RotatedOnce, StateSignsInOnce, Issued, Logins, At

-----------------------------------------------------------------------------
(* The kinds of steps *)

\* A call is added, answered or forgotten; none is vouched for that was not.
CallsKept ==
    /\ calls' \in [Call -> Served \cup {None}]
    /\ \A c \in Call : At(c, "vouched")' =>
           At(c, "vouched") /\ calls'[c].request = calls[c].request

\* No token is issued, no session opened or closed.
Unmoved ==
    /\ UNCHANGED <<row, tokens, ended>>
    /\ stale' \subseteq Token
    /\ lapsed' \subseteq Login /\ lapsed' \subseteq lapsed \cup Logins
    /\ oauth' \in [State -> {"unused", "open", "expired", "used"}]
    /\ \A s \in State : oauth[s] = "used" => oauth'[s] = "used"
    /\ CallsKept

Rotation ==
    /\ HasFresh
    /\ \E t \in Issued :
           /\ Rotates(t)
           /\ row' = [row EXCEPT !.token = Fresh]
           /\ Issue(Fresh, tokens[t].login, tokens[t].until, t, tokens[t].state)
    /\ UNCHANGED <<stale, lapsed, ended, oauth>>
    /\ CallsKept

Closing ==
    /\ row' = None
    /\ ended' \subseteq ended \cup Logins
    /\ UNCHANGED <<tokens, stale, lapsed, oauth>>
    /\ CallsKept

Consuming ==
    \E c \in Call :
        /\ At(c, "arrived") /\ Asks(c, "callback") /\ Consumes(c)
        /\ calls' = [calls EXCEPT ![c].step = "vouched"]
        /\ UNCHANGED <<row, tokens, stale, lapsed, ended>>

Opening ==
    \E c \in Call :
        /\ At(c, "vouched")
        /\ HasFresh /\ HasLogin
        /\ row' = [token |-> Fresh, until |-> NextLogin]
        /\ Issue(Fresh, NextLogin, NextLogin, None, calls[c].request.state)
        /\ Answer(c, "ok", Fresh)
        /\ UNCHANGED <<stale, lapsed, ended, oauth>>

\* Answering a call keeps the others.
LEMMA AnswerKeepsCalls ==
  ASSUME SessionsTypeOK, NEW c \in Call, calls[c] # None,
         NEW status \in {"ok", "denied", "forbidden", "unavailable"},
         NEW t \in Token \cup {None}, Answer(c, status, t)
  PROVE  CallsKept /\ ~At(c, "vouched")'
  BY DEF Served, SessionsTypeOK, Answer, CallsKept, At, Reply

LEMMA FreshOK == HasFresh => Fresh \in Token /\ Fresh \notin Issued
  BY DEF HasFresh, Fresh

LEMMA LoginOK == HasLogin => NextLogin \in Login /\ NextLogin \notin Logins
  BY DEF HasLogin, NextLogin

LEMMA ServeKinds ==
  ASSUME SessionsInv, NEW c \in Call, Serve(c)
  PROVE  Unmoved \/ Rotation \/ Closing \/ Consuming \/ Opening
  <1> USE DEF SessionsInv
  <1>t. stale \subseteq Token /\ lapsed \subseteq Login
        /\ oauth \in [State -> {"unused", "open", "expired", "used"}]
    BY DEF SessionsTypeOK
  <1>c. ASSUME At(c, "arrived") \/ At(c, "vouched") PROVE calls[c] # None
    BY <1>c DEF At
  <1>1. CASE Forbid(c)
    <2>1. CallsKept
      BY <1>1, <1>c, AnswerKeepsCalls DEF Forbid
    <2>2. QED
      BY <1>1, <1>t, <2>1 DEF Forbid, Unmoved, database
  <1>2. CASE Fail(c)
    <2>1. CallsKept
      BY <1>2, <1>c, AnswerKeepsCalls DEF Fail
    <2>2. QED
      BY <1>2, <1>t, <2>1 DEF Fail, Unmoved, database
  <1>3. CASE ServeRefresh(c)
    <2> DEFINE t == calls[c].request.token
    <2>0. At(c, "arrived") /\ HasFresh /\ UNCHANGED <<stale, lapsed, ended, oauth>>
      BY <1>3 DEF ServeRefresh
    <2>1. CASE Rotates(t)
      <3>1. /\ row' = [row EXCEPT !.token = Fresh]
            /\ Issue(Fresh, tokens[t].login, tokens[t].until, t, tokens[t].state)
            /\ Answer(c, "ok", Fresh)
        BY <1>3, <2>1 DEF ServeRefresh, Inherited
      <3>2. CallsKept
        BY <2>0, <3>1, <1>c, AnswerKeepsCalls, FreshOK
      <3>3. t \in Issued
        BY <2>1 DEF Rotates, Verifies
      <3>4. QED
        BY <2>0, <2>1, <3>1, <3>2, <3>3 DEF Rotation
    <2>2. CASE ~Rotates(t)
      <3>1. Answer(c, "denied", None) /\ UNCHANGED <<row, tokens>>
        BY <1>3, <2>2 DEF ServeRefresh
      <3>2. CallsKept
        BY <2>0, <3>1, <1>c, AnswerKeepsCalls
      <3>3. QED
        BY <1>t, <2>0, <3>1, <3>2 DEF Unmoved
    <2>3. QED
      BY <2>1, <2>2
  <1>4. CASE ServeLogout(c)
    <2> DEFINE t == calls[c].request.token
    <2>1. CallsKept
      BY <1>4, <1>c, AnswerKeepsCalls DEF ServeLogout
    <2>2. CASE Verifies(t)
      <3>1. tokens[t].login \in Logins
        BY <2>2 DEF Verifies, Logins
      <3>2. row # None => tokens[row.token].login \in Logins
        BY DEF SessionsTypeOK, Logins
      <3>3. QED
        BY <1>4, <2>1, <2>2, <3>1, <3>2 DEF ServeLogout, Revokes, Closing
    <2>3. CASE ~Verifies(t)
      BY <1>4, <1>t, <2>1, <2>3 DEF ServeLogout, Revokes, Unmoved
    <2>4. QED
      BY <2>2, <2>3
  <1>5. CASE ConsumeState(c)
    BY <1>5 DEF ConsumeState, Consuming
  <1>6. CASE RefuseState(c)
    <2>1. CallsKept
      BY <1>6, <1>c, AnswerKeepsCalls DEF RefuseState
    <2>2. QED
      BY <1>6, <1>t, <2>1 DEF RefuseState, Unmoved, database
  <1>7. CASE CompleteLogin(c)
    BY <1>7 DEF CompleteLogin, Opening
  <1>8. QED
    BY <1>1, <1>2, <1>3, <1>4, <1>5, <1>6, <1>7 DEF Serve

LEMMA StepKinds ==
  ASSUME SessionsInv, [SessionsNext]_sessionsVars
  PROVE  Unmoved \/ Rotation \/ Closing \/ Consuming \/ Opening
  <1>t. /\ stale \subseteq Token /\ lapsed \subseteq Login
        /\ oauth \in [State -> {"unused", "open", "expired", "used"}]
        /\ calls \in [Call -> Served \cup {None}]
    BY DEF SessionsInv, SessionsTypeOK
  <1>u. calls' = calls => CallsKept
    BY <1>t DEF CallsKept, At
  <1>1. CASE UNCHANGED sessionsVars
    BY <1>1, <1>t, <1>u DEF sessionsVars, Unmoved
  <1>2. ASSUME NEW c \in Call, Serve(c)
        PROVE  Unmoved \/ Rotation \/ Closing \/ Consuming \/ Opening
    BY <1>2, ServeKinds
  <1>3. ASSUME NEW c \in Call, Leave(c) PROVE Unmoved
    <2>1. CallsKept
      BY <1>3, <1>t DEF Leave, CallsKept, At
    <2>2. QED
      BY <1>3, <1>t, <2>1 DEF Leave, Unmoved, database
  <1>4. ASSUME NEW c \in Call, NEW request \in Request, Arrive(c, request),
               UNCHANGED <<database, stale, lapsed>>
        PROVE  Unmoved
    <2>1. [request |-> request, step |-> "arrived", reply |-> [status |-> "ok", token |-> None]]
          \in Served
      BY DEF Served, Reply
    <2>2. CallsKept
      BY <1>4, <1>t, <2>1 DEF Arrive, CallsKept, At
    <2>3. QED
      BY <1>4, <1>t, <2>2 DEF Unmoved, database
  <1>5. ASSUME NEW s \in State,
               \/ StateExpires(s)
               \/ BeginLogin(s) /\ UNCHANGED <<row, tokens, stale, lapsed, ended, calls>>
        PROVE  Unmoved
    BY <1>5, <1>t, <1>u DEF StateExpires, BeginLogin, Unmoved
  <1>6. ASSUME NEW t \in Token, AccessExpires(t) PROVE Unmoved
    BY <1>6, <1>t, <1>u DEF AccessExpires, Unmoved, database
  <1>7. ASSUME NEW l \in Login, LoginLapses(l) PROVE Unmoved
    BY <1>7, <1>t, <1>u DEF LoginLapses, Unmoved, database
  <1>8. QED
    BY <1>1, <1>2, <1>3, <1>4, <1>5, <1>6, <1>7 DEF SessionsNext

-----------------------------------------------------------------------------
(* Each kind preserves the invariant *)

LEMMA UnmovedKeeps == ASSUME SessionsInv, Unmoved PROVE SessionsInv'
  <1> USE DEF SessionsInv
  <1>1. Issued' = Issued /\ Logins' = Logins
    BY DEF Unmoved, Issued, Logins
  <1>2. SessionsTypeOK'
    BY <1>1 DEF Unmoved, CallsKept, SessionsTypeOK
  <1>3. /\ Descends' /\ RowIsNewest' /\ LogoutEndsLogin' /\ RotatedOnce'
        /\ StateSignsInOnce'
    BY <1>1 DEF Unmoved, Descends, RowIsNewest, LogoutEndsLogin, RotatedOnce, StateSignsInOnce
  <1>4. OverWereLogins'
    BY <1>1 DEF Unmoved, OverWereLogins
  <1>5. StatesUsedUp'
    <2>1. \A t \in Issued : tokens[t].state \in State
      BY DEF SessionsTypeOK, Claims, Issued
    <2>2. \A c \in Call : At(c, "vouched") => calls[c].request.state \in State
      BY DEF Served, StatesUsedUp, Asks, SessionsTypeOK, Request, At
    <2>3. \A t \in Issued' : oauth'[tokens'[t].state] = "used"
      BY <1>1, <2>1 DEF Unmoved, StatesUsedUp
    <2>4. ASSUME NEW c \in Call, At(c, "vouched")'
          PROVE  /\ Asks(c, "callback")'
                 /\ oauth'[calls'[c].request.state] = "used"
                 /\ \A t \in Issued' : tokens'[t].state # calls'[c].request.state
                 /\ \A d \in Call : At(d, "vouched")' /\ d # c =>
                        calls'[d].request.state # calls'[c].request.state
      BY <1>1, <2>2, <2>4 DEF Unmoved, CallsKept, StatesUsedUp, Asks
    <2>5. QED
      BY <2>3, <2>4 DEF StatesUsedUp
  <1>6. QED
    BY <1>2, <1>3, <1>4, <1>5

LEMMA ClosingKeeps == ASSUME SessionsInv, Closing PROVE SessionsInv'
  <1> USE DEF SessionsInv
  <1>1. Issued' = Issued /\ Logins' = Logins
    BY DEF Closing, Issued, Logins
  <1>2. Logins \subseteq Login
    BY DEF Logins, Issued, SessionsTypeOK, Claims
  <1>3. SessionsTypeOK'
    BY <1>1, <1>2 DEF Closing, CallsKept, SessionsTypeOK
  <1>4. /\ Descends' /\ RowIsNewest' /\ LogoutEndsLogin' /\ RotatedOnce'
        /\ StateSignsInOnce' /\ OverWereLogins'
    BY <1>1 DEF Closing, Descends, RowIsNewest, LogoutEndsLogin, RotatedOnce,
                StateSignsInOnce, OverWereLogins
  <1>5. StatesUsedUp'
    BY <1>1 DEF Closing, CallsKept, StatesUsedUp, Asks
  <1>6. QED
    BY <1>3, <1>4, <1>5

\* A token that is issued joins those that were, and changes none of them.
LEMMA IssueAdds ==
  ASSUME SessionsInv, HasFresh, NEW login \in Login, NEW until \in Login,
         NEW parent \in Token \cup {None}, NEW state \in State,
         Issue(Fresh, login, until, parent, state)
  PROVE  /\ Issued' = Issued \cup {Fresh}
         /\ \A t \in Issued : tokens'[t] = tokens[t]
         /\ tokens'[Fresh] = [login |-> login, until |-> until, parent |-> parent,
                              state |-> state]
         /\ tokens' \in [Token -> Claims \cup {None}]
         /\ Logins' = Logins \cup {login}
  <1>1. tokens \in [Token -> Claims \cup {None}]
    BY DEF SessionsInv, SessionsTypeOK
  <1>2. [login |-> login, until |-> until, parent |-> parent, state |-> state] \in Claims
    BY DEF Claims
  <1>3. None \notin Claims
    BY NoneIsNoRecord
  <1>4. tokens' = [tokens EXCEPT ![Fresh] =
            [login |-> login, until |-> until, parent |-> parent, state |-> state]]
    BY DEF Issue
  <1>5. Issued' = Issued \cup {Fresh} /\ \A t \in Issued : tokens'[t] = tokens[t]
    BY <1>1, <1>2, <1>3, <1>4, FreshOK DEF Issued
  <1>6. QED
    BY <1>1, <1>2, <1>4, <1>5, FreshOK DEF Logins

LEMMA RotationKeeps == ASSUME SessionsInv, Rotation PROVE SessionsInv'
  <1> USE DEF SessionsInv
  <1>1. PICK t \in Issued :
            /\ Rotates(t)
            /\ row' = [row EXCEPT !.token = Fresh]
            /\ Issue(Fresh, tokens[t].login, tokens[t].until, t, tokens[t].state)
    BY DEF Rotation
  <1>2. /\ HasFresh /\ CallsKept /\ UNCHANGED <<stale, lapsed, ended, oauth>>
        /\ Fresh \in Token /\ Fresh \notin Issued
    BY FreshOK DEF Rotation
  <1>3. /\ t \in Token /\ t # None /\ t # Fresh
        /\ tokens[t].login \in Login /\ tokens[t].until \in Login
        /\ tokens[t].state \in State
    BY <1>2, SessionsAssumption DEF SessionsTypeOK, Claims, Issued
  <1>4. /\ Issued' = Issued \cup {Fresh}
        /\ \A u \in Issued : tokens'[u] = tokens[u]
        /\ tokens'[Fresh] = [login |-> tokens[t].login, until |-> tokens[t].until,
                             parent |-> t, state |-> tokens[t].state]
        /\ tokens' \in [Token -> Claims \cup {None}]
        /\ Logins' = Logins \cup {tokens[t].login}
    BY <1>1, <1>2, <1>3, IssueAdds
  <1>5. row # None /\ row.token = t /\ row.until = tokens[t].until
    BY <1>1 DEF Rotates
  <1>6. row \in [token: Token, until: Login]
    BY <1>5 DEF SessionsTypeOK
  <1>7. row' \in [token: Token, until: Login] /\ row'.token = Fresh /\ row'.until = row.until
    BY <1>1, <1>2, <1>6
  <1>8. SessionsTypeOK'
    BY <1>2, <1>4, <1>5, <1>7 DEF SessionsTypeOK, CallsKept
  <1>9. Descends'
    BY <1>3, <1>4 DEF Descends
  <1>10. RowIsNewest'
    <2>1. \A u \in Issued : tokens[u].parent # None => tokens[u].parent # Fresh
      BY <1>2 DEF Descends
    <2>2. Fresh # None
      BY <1>2, SessionsAssumption
    <2>3. QED
      BY <1>3, <1>4, <1>7, <2>1, <2>2 DEF RowIsNewest
  <1>11. OverWereLogins'
    BY <1>2, <1>4 DEF OverWereLogins
  <1>12. LogoutEndsLogin'
    BY <1>2, <1>4, <1>5, <1>7 DEF LogoutEndsLogin
  <1>13. RotatedOnce'
    BY <1>4, <1>5 DEF RotatedOnce, RowIsNewest
  <1>14. StateSignsInOnce'
    BY <1>3, <1>4 DEF StateSignsInOnce
  <1>15. StatesUsedUp'
    BY <1>2, <1>4 DEF StatesUsedUp, CallsKept, Asks
  <1>16. QED
    BY <1>8, <1>9, <1>10, <1>11, <1>12, <1>13, <1>14, <1>15

LEMMA ConsumingKeeps == ASSUME SessionsInv, Consuming PROVE SessionsInv'
  <1> USE DEF SessionsInv
  <1>1. PICK c \in Call :
            /\ At(c, "arrived") /\ Asks(c, "callback") /\ Consumes(c)
            /\ calls' = [calls EXCEPT ![c].step = "vouched"]
            /\ UNCHANGED <<row, tokens, stale, lapsed, ended>>
    BY DEF Consuming
  <1>2. Issued' = Issued /\ Logins' = Logins
    BY <1>1 DEF Issued, Logins
  <1> DEFINE s == calls[c].request.state
  <1>3. calls[c] # None /\ calls[c].request \in Request /\ calls[c].request.op = "callback"
    BY <1>1 DEF Served, At, Asks, SessionsTypeOK
  <1>4. s \in State /\ oauth[s] = "open" /\ oauth' = [oauth EXCEPT ![s] = "used"]
    BY <1>1, <1>3 DEF Consumes, Request
  <1>5. /\ calls' \in [Call -> Served \cup {None}]
        /\ calls'[c].request = calls[c].request
        /\ \A d \in Call \ {c} : calls'[d] = calls[d]
    BY <1>1, <1>3 DEF Served, SessionsTypeOK
  <1>6. SessionsTypeOK'
    BY <1>1, <1>2, <1>4, <1>5 DEF SessionsTypeOK
  <1>7. /\ Descends' /\ RowIsNewest' /\ LogoutEndsLogin' /\ RotatedOnce'
        /\ StateSignsInOnce' /\ OverWereLogins'
    BY <1>1, <1>2 DEF Descends, RowIsNewest, LogoutEndsLogin, RotatedOnce,
                      StateSignsInOnce, OverWereLogins
  <1>8. StatesUsedUp'
    <2>1. \A t \in Issued : oauth[tokens[t].state] = "used" /\ tokens[t].state \in State
      BY DEF StatesUsedUp, SessionsTypeOK, Claims, Issued
    <2>2. \A d \in Call : At(d, "vouched") =>
              /\ oauth[calls[d].request.state] = "used"
              /\ calls[d].request.state \in State
      BY DEF Served, StatesUsedUp, Asks, SessionsTypeOK, Request, At
    <2>3. oauth'[s] = "used" /\ \A z \in State \ {s} : oauth'[z] = oauth[z]
      BY <1>4 DEF SessionsTypeOK
    <2>4. \A t \in Issued' : oauth'[tokens'[t].state] = "used" /\ tokens'[t].state # s
      BY <1>1, <1>2, <1>4, <2>1, <2>3
    <2>5. \A d \in Call : At(d, "vouched") => d # c /\ calls[d].request.state # s
      BY <1>1, <1>4, <2>2 DEF At
    <2>6. ASSUME NEW d \in Call, At(d, "vouched")'
          PROVE  /\ Asks(d, "callback")'
                 /\ oauth'[calls'[d].request.state] = "used"
                 /\ \A t \in Issued' : tokens'[t].state # calls'[d].request.state
                 /\ \A e \in Call : At(e, "vouched")' /\ e # d =>
                        calls'[e].request.state # calls'[d].request.state
      <3>1. CASE d = c
        BY <1>3, <1>5, <2>3, <2>4, <2>5, <3>1 DEF Asks, At
      <3>2. CASE d # c
        <4>1. calls'[d] = calls[d] /\ At(d, "vouched")
          BY <1>5, <2>6, <3>2 DEF At
        <4>2. oauth'[calls'[d].request.state] = "used"
          BY <2>2, <2>3, <4>1
        <4>3. \A e \in Call : At(e, "vouched")' /\ e # d =>
                  calls'[e].request.state # calls'[d].request.state
          BY <1>5, <2>5, <4>1 DEF At, StatesUsedUp
        <4>4. QED
          BY <1>1, <1>2, <4>1, <4>2, <4>3 DEF StatesUsedUp, Asks
      <3>3. QED
        BY <3>1, <3>2
    <2>7. QED
      BY <2>4, <2>6 DEF StatesUsedUp
  <1>9. QED
    BY <1>6, <1>7, <1>8

LEMMA OpeningKeeps == ASSUME SessionsInv, Opening PROVE SessionsInv'
  <1> USE DEF SessionsInv
  <1>1. PICK c \in Call :
            /\ At(c, "vouched")
            /\ HasFresh /\ HasLogin
            /\ row' = [token |-> Fresh, until |-> NextLogin]
            /\ Issue(Fresh, NextLogin, NextLogin, None, calls[c].request.state)
            /\ Answer(c, "ok", Fresh)
            /\ UNCHANGED <<stale, lapsed, ended, oauth>>
    BY DEF Opening
  <1> DEFINE s == calls[c].request.state
  <1>2. /\ Fresh \in Token /\ Fresh \notin Issued
        /\ NextLogin \in Login /\ NextLogin \notin Logins
    BY <1>1, FreshOK, LoginOK
  <1>3. s \in State /\ oauth[s] = "used" /\ \A t \in Issued : tokens[t].state # s
    BY <1>1 DEF Served, StatesUsedUp, Asks, SessionsTypeOK, Request, At
  <1>4. /\ Issued' = Issued \cup {Fresh}
        /\ \A u \in Issued : tokens'[u] = tokens[u]
        /\ tokens'[Fresh] = [login |-> NextLogin, until |-> NextLogin, parent |-> None,
                             state |-> s]
        /\ tokens' \in [Token -> Claims \cup {None}]
        /\ Logins' = Logins \cup {NextLogin}
    BY <1>1, <1>2, <1>3, IssueAdds
  <1>5. CallsKept /\ ~At(c, "vouched")'
    BY <1>1, <1>2, AnswerKeepsCalls DEF At
  <1>6. row' \in [token: Token, until: Login] /\ row'.token = Fresh /\ row'.until = NextLogin
    BY <1>1, <1>2
  <1>7. SessionsTypeOK'
    BY <1>1, <1>4, <1>5, <1>6 DEF SessionsTypeOK, CallsKept
  <1>8. Descends'
    BY <1>4 DEF Descends
  <1>9. RowIsNewest'
    <2>1. \A u \in Issued : tokens[u].parent # None => tokens[u].parent # Fresh
      BY <1>2 DEF Descends
    <2>2. Fresh # None
      BY <1>2, SessionsAssumption
    <2>3. QED
      BY <1>4, <1>6, <2>1, <2>2 DEF RowIsNewest
  <1>10. OverWereLogins'
    BY <1>1, <1>4 DEF OverWereLogins
  <1>11. LogoutEndsLogin'
    BY <1>1, <1>2, <1>4, <1>6 DEF LogoutEndsLogin, OverWereLogins
  <1>12. RotatedOnce'
    BY <1>4 DEF RotatedOnce
  <1>13. StateSignsInOnce'
    BY <1>3, <1>4 DEF StateSignsInOnce
  <1>14. StatesUsedUp'
    <2>1. \A t \in Issued' : oauth'[tokens'[t].state] = "used"
      BY <1>1, <1>3, <1>4 DEF StatesUsedUp
    <2>2. \A d \in Call : At(d, "vouched")' => d # c /\ calls[d].request.state # s
      BY <1>1, <1>5 DEF CallsKept, StatesUsedUp
    <2>3. QED
      BY <1>1, <1>4, <1>5, <2>1, <2>2 DEF StatesUsedUp, CallsKept, Asks
  <1>15. QED
    BY <1>7, <1>8, <1>9, <1>10, <1>11, <1>12, <1>13, <1>14

LEMMA StepKeeps == SessionsInv /\ [SessionsNext]_sessionsVars => SessionsInv'
  BY StepKinds, UnmovedKeeps, RotationKeeps, ClosingKeeps, ConsumingKeeps, OpeningKeeps

THEOREM Invariance == SessionsSpec => []SessionsInv
  BY InitOK, StepKeeps, PTL DEF SessionsSpec

-----------------------------------------------------------------------------
(* What the API promises *)

(* The row, the tokens and the calls keep their types, and the row expires *)
(* with its token.                                                         *)
THEOREM TypeCorrect == SessionsSpec => []SessionsTypeOK
  BY Invariance, PTL DEF SessionsInv

(* However many calls present one refresh token, one of them is given the  *)
(* next.                                                                   *)
THEOREM OneRotation == SessionsSpec => []RotatedOnce
  BY Invariance, PTL DEF SessionsInv

(* A login that was logged out stays so, whatever was being rotated.       *)
THEOREM LogoutIsFinal == SessionsSpec => []LogoutEndsLogin
  BY Invariance, PTL DEF SessionsInv

(* However often a callback is called, its state leads to one login.       *)
THEOREM OneLoginPerState == SessionsSpec => []StateSignsInOnce
  BY Invariance, PTL DEF SessionsInv

(* Neither a refresh token nor an OAuth state is good for two sessions.    *)
THEOREM CredentialsAreSpent == SessionsSpec => []CredentialsWorkOnce
  <1>1. SessionsTypeOK /\ RotatedOnce /\ StateSignsInOnce => CredentialsWorkOnce
    BY DEF CredentialsWorkOnce
  <1>2. QED
    BY <1>1, TypeCorrect, OneRotation, OneLoginPerState, PTL

(* Rotation does not prolong a login: after its seven days no token of it  *)
(* is issued.                                                              *)
THEOREM LoginsLapse == SessionsSpec => LapsedLoginIsOver
  <1>1. ASSUME SessionsInv, [SessionsNext]_sessionsVars, NEW t \in Token,
               tokens[t] = None, tokens'[t] # None
        PROVE  tokens'[t].login \notin lapsed
    <2>1. Unmoved \/ Rotation \/ Closing \/ Consuming \/ Opening
      BY <1>1, StepKinds
    <2>2. Rotation \/ Opening
      BY <1>1, <2>1 DEF Unmoved, Closing, Consuming
    <2>3. CASE Rotation
      <3>1. PICK u \in Issued :
                /\ Rotates(u)
                /\ Issue(Fresh, tokens[u].login, tokens[u].until, u, tokens[u].state)
        BY <2>3 DEF Rotation
      <3>2. tokens[u].login \notin lapsed
        BY <1>1, <3>1 DEF Rotates, Verifies, SessionsInv, Descends
      <3>3. tokens'[t].login = tokens[u].login
        BY <1>1, <3>1 DEF Issue, SessionsInv, SessionsTypeOK
      <3>4. QED
        BY <3>2, <3>3
    <2>4. CASE Opening
      <3>1. PICK c \in Call :
                HasLogin /\ Issue(Fresh, NextLogin, NextLogin, None, calls[c].request.state)
        BY <2>4 DEF Opening
      <3>2. tokens'[t].login = NextLogin
        BY <1>1, <3>1 DEF Issue, SessionsInv, SessionsTypeOK
      <3>3. QED
        BY <1>1, <3>1, <3>2, LoginOK DEF SessionsInv, OverWereLogins
    <2>5. QED
      BY <2>2, <2>3, <2>4
  <1>2. SessionsInv /\ [SessionsNext]_sessionsVars =>
            [\A t \in Token :
                tokens[t] = None /\ tokens'[t] # None => tokens'[t].login \notin lapsed
            ]_sessionsVars
    BY <1>1
  <1>3. QED
    BY <1>2, Invariance, PTL DEF SessionsSpec, LapsedLoginIsOver

-----------------------------------------------------------------------------
(* The transport of one page *)

\* The types of one browser's records.
Clients ==
    [csrf: [binding: Nat, new: BOOLEAN] \cup {None}, refreshing: BOOLEAN,
     version: 0..MaxRefreshes, signingOut: BOOLEAN, generation: Nat,
     cut: BOOLEAN, ended: BOOLEAN]
Renewals ==
    [stage: {"none", "csrf", "ready", "sent", "ok", "failed"}, header: Nat,
     signal: Nat, call: Call \cup {None}]
Logouts ==
    [stage: {"none", "csrf", "ready", "sent", "done"}, header: Nat, call: Call \cup {None}]
Pages == [open: BOOLEAN, session: {"checking", "ready", "refused"}, cached: BOOLEAN]
Acts == [count: 0..MaxActs, logouts: Nat, alone: BOOLEAN, unheard: BOOLEAN]

Underway(renewal) == renewal.stage \in {"csrf", "ready", "sent"}

(* Only the last renewal can be under way.                                 *)
LatestOnly == \A v \in 1..MaxRefreshes : Underway(refreshes[v]) => v = client.version

Alive(signal, state) == signal = state.generation /\ ~state.cut

(* A request on the wire is tied to the controller in force; one that is   *)
(* tied to it is of this side of the last logout and of the end; and the   *)
(* renewal that a refused request would start is not under way already.    *)
RequestOK(q, state, logouts) ==
    /\ q.signal <= state.generation /\ q.version <= state.version
    /\ OnWire(q) => Alive(q.signal, state) /\ q.status # "none"
    /\ ~Resting(q) /\ Alive(q.signal, state) => ~state.ended /\ q.epoch = logouts
    /\ q.stage = "sent" /\ q.version = state.version => ~state.refreshing
RequestsOK == \A r \in Req : RequestOK(requests[r], client, acts.logouts)

(* The controller is aborted by a logout and by the end, and a logout that *)
(* is under way, or done, keeps it so.                                     *)
Cutting ==
    /\ client.cut => client.signingOut \/ client.ended
    /\ client.signingOut => client.cut
    /\ client.signingOut <=> logout.stage # "none"

(* What a logout waited for does not come back.                            *)
LogoutQuiet ==
    /\ logout.stage \in {"ready", "sent", "done"} => client.csrf = None
    /\ logout.stage \in {"sent", "done"} => ~client.refreshing

(* A page is left after a logout or at the end, and caches nothing then.   *)
LeftFor == ~page.open => ~page.cached /\ (client.ended \/ logout.stage = "done")

TransportInv ==
    BrowserTypeOK /\ LatestOnly /\ RequestsOK /\ Cutting /\ LogoutQuiet /\ LeftFor

LEMMA TransportTypes ==
  BrowserTypeOK <=>
    /\ jar \in Jar /\ drawn \in Nat
    /\ page \in Pages
    /\ client \in Clients
    /\ refreshes \in [1..MaxRefreshes -> Renewals]
    /\ requests \in [Req -> Requests]
    /\ logout \in Logouts
    /\ elsewhere \subseteq Call
    /\ acts \in Acts
    /\ client.refreshing <=> \E v \in 1..MaxRefreshes : Underway(refreshes[v])
  BY DEF BrowserTypeOK, Pages, Clients, Renewals, Logouts, Acts, Underway

LEMMA Bounds == MaxRefreshes \in Nat /\ MaxActs \in Nat
  BY BrowserClientAssumption

LEMMA IdleOK ==
  ASSUME NEW stage \in {"idle", "done"}, NEW state \in Clients, NEW logouts
  PROVE  Idle(stage) \in Requests /\ RequestOK(Idle(stage), state, logouts)
  <1>1. state.generation \in Nat /\ state.version \in Nat
    BY Bounds DEF Clients
  <1>2. QED
    BY <1>1 DEF Idle, Requests, Kind, RequestOK, Resting, OnWire

LEMMA SentOK ==
  ASSUME NEW q \in Requests, NEW cookies, NEW state, NEW logouts,
         client.version \in Nat, state.version = client.version, state.generation \in Nat,
         Alive(q.signal, state), ~state.ended, q.epoch = logouts, ~state.refreshing
  PROVE  /\ Sent(q, cookies) \in Requests
         /\ RequestOK(Sent(q, cookies), state, logouts)
  <1> DEFINE s == Sent(q, cookies)
  <1>1. Status(q, cookies) \in {"forbidden", "ok", "denied"}
    BY DEF Status
  <1>2. /\ s \in Requests /\ s.stage = "sent" /\ s.signal = q.signal /\ s.epoch = q.epoch
        /\ s.version = client.version /\ s.status # "none"
    BY <1>1 DEF Sent, Requests
  <1>3. QED
    BY <1>2 DEF RequestOK, Alive

LEMMA ResentOK ==
  ASSUME NEW q \in Requests, NEW cookies, NEW state, NEW logouts, state.generation \in Nat,
         Alive(q.signal, state), ~state.ended, q.epoch = logouts, q.version <= state.version
  PROVE  LET s == [q EXCEPT !.stage = "resent", !.status = Status(q, cookies)]
         IN  s \in Requests /\ RequestOK(s, state, logouts)
  <1> DEFINE s == [q EXCEPT !.stage = "resent", !.status = Status(q, cookies)]
  <1>1. Status(q, cookies) \in {"forbidden", "ok", "denied"}
    BY DEF Status
  <1>2. /\ s \in Requests /\ s.stage = "resent" /\ s.signal = q.signal /\ s.epoch = q.epoch
        /\ s.version = q.version /\ s.status # "none"
    BY <1>1 DEF Requests
  <1>3. QED
    BY <1>2 DEF RequestOK, Alive

\* What sendProtected does with a request that may be sent.
LEMMA DispatchOK ==
  ASSUME TransportInv, NEW q \in Requests, ~client.ended, q.epoch = acts.logouts
  PROVE  /\ Dispatch(q) \in Requests
         /\ RequestOK(Dispatch(q), client, acts.logouts)
         /\ Dispatch(q).stage \in {"idle", "waiting", "sent"}
         /\ Dispatch(q).stage = "sent" =>
                /\ ~client.refreshing /\ Alive(Dispatch(q).signal, client)
                /\ Dispatch(q).epoch = acts.logouts
  <1>1. client \in Clients /\ client.generation \in Nat /\ client.version \in Nat
    BY TransportTypes, Bounds DEF TransportInv, Clients
  <1>2. CASE client.signingOut
    BY <1>1, <1>2, IdleOK DEF Dispatch, Idle
  <1>3. CASE ~client.signingOut
    <2> DEFINE tied == [q EXCEPT !.signal = client.generation]
    <2>1. tied \in Requests /\ Alive(tied.signal, client) /\ tied.epoch = acts.logouts
      BY <1>1, <1>3 DEF Requests, TransportInv, Cutting, Alive
    <2>2. CASE client.refreshing
      <3>1. Dispatch(q) = [tied EXCEPT !.stage = "waiting", !.version = client.version]
        BY <1>3, <2>2 DEF Dispatch
      <3>2. /\ Dispatch(q) \in Requests /\ Dispatch(q).stage = "waiting"
            /\ Dispatch(q).signal = tied.signal /\ Dispatch(q).epoch = tied.epoch
            /\ Dispatch(q).version = client.version
        BY <1>1, <2>1, <3>1 DEF Requests
      <3>3. QED
        BY <1>1, <2>1, <3>2 DEF RequestOK, Alive, OnWire
    <2>3. CASE ~client.refreshing
      <3>1. Dispatch(q) = Sent(tied, jar)
        BY <1>3, <2>3 DEF Dispatch
      <3>2. Sent(tied, jar) \in Requests /\ RequestOK(Sent(tied, jar), client, acts.logouts)
        BY <1>1, <2>1, <2>3, SentOK
      <3>3. Sent(tied, jar).stage = "sent" /\ Sent(tied, jar).signal = tied.signal
            /\ Sent(tied, jar).epoch = tied.epoch
        BY <2>1 DEF Sent, Requests
      <3>4. QED
        BY <2>1, <2>3, <3>1, <3>2, <3>3
    <2>4. QED
      BY <2>2, <2>3
  <1>4. QED
    BY <1>2, <1>3

LEMMA AskCsrfOK ==
  ASSUME NEW state \in Clients, jar \in Jar, drawn \in Nat
  PROVE  /\ AskCsrf(state) \in Clients
         /\ AskCsrf(state) = [state EXCEPT !.csrf = AskCsrf(state).csrf]
         /\ Drawn \in Nat
  <1> DEFINE new == IF jar.binding # 0 THEN [binding |-> jar.binding, new |-> FALSE]
                                       ELSE [binding |-> drawn + 1, new |-> TRUE]
  <1>1. new \in [binding: Nat, new: BOOLEAN]
    BY DEF Jar
  <1>2. CASE state.csrf # None
    BY <1>2 DEF AskCsrf, Clients, Drawn
  <1>3. CASE state.csrf = None
    <2>1. AskCsrf(state) = [state EXCEPT !.csrf = new]
      BY <1>3 DEF AskCsrf
    <2> HIDE DEF new
    <2>2. QED
      BY <1>1, <2>1 DEF Clients, Drawn
  <1>4. QED
    BY <1>2, <1>3

\* What another controller in force leaves alone.
LEMMA RequestKept ==
  ASSUME NEW q, NEW s, NEW t, NEW logouts, RequestOK(q, s, logouts),
         t.generation = s.generation, t.cut = s.cut, t.ended = s.ended,
         t.version = s.version, t.refreshing => s.refreshing
  PROVE  RequestOK(q, t, logouts)
  BY DEF RequestOK, Alive

LEMMA TransportInit == BrowserInit => TransportInv
  <1> SUFFICES ASSUME BrowserInit PROVE TransportInv
    OBVIOUS
  <1>1. Token # {} /\ State # {}
    BY FS_EmptySet, BrowserClientAssumption
  <1>2. FirstToken \in Token
    BY <1>1 DEF FirstToken
  <1>3. /\ jar \in Jar /\ drawn \in Nat /\ page \in Pages /\ elsewhere \subseteq Call
        /\ logout \in Logouts /\ acts \in Acts
    <2>1. jar \in Jar /\ drawn \in Nat /\ elsewhere \subseteq Call
      BY <1>2 DEF BrowserInit, Jar
    <2>2. page \in Pages
      <3>1. /\ NewPage \in Pages
            /\ [open |-> TRUE, session |-> "ready", cached |-> TRUE] \in Pages
        BY DEF NewPage, Pages
      <3>2. QED
        BY <3>1 DEF BrowserInit
    <2>5. logout \in Logouts
      BY DEF BrowserInit, NoLogout, Logouts
    <2>3. acts \in Acts
      BY Bounds DEF BrowserInit, Acts
    <2>4. QED
      BY <2>1, <2>2, <2>3, <2>5
  <1>4. client \in Clients /\ client.generation \in Nat
    BY Bounds DEF BrowserInit, NewClient, Clients
  <1>5. refreshes \in [1..MaxRefreshes -> Renewals]
        /\ \A v \in 1..MaxRefreshes : ~Underway(refreshes[v])
    BY DEF BrowserInit, NoRefresh, Renewals, Underway
  <1>6. requests \in [Req -> Requests] /\ RequestsOK
    BY <1>4, IdleOK DEF BrowserInit, RequestsOK
  <1>7. client.refreshing = FALSE
    BY DEF BrowserInit, NewClient
  <1>8. BrowserTypeOK
    BY <1>3, <1>4, <1>5, <1>6, <1>7, TransportTypes
  <1>9. LatestOnly /\ Cutting /\ LogoutQuiet /\ LeftFor
    BY <1>5 DEF BrowserInit, NewClient, NoLogout, NewPage, LatestOnly, Cutting, LogoutQuiet,
                LeftFor
  <1>10. QED
    BY <1>6, <1>8, <1>9 DEF TransportInv

\* Other tabs, the API and the clock change cookies and calls only.
LEMMA AloofKeeps ==
  ASSUME TransportInv, UNCHANGED <<page, client, refreshes, requests, logout>>,
         jar' \in Jar, drawn' \in Nat, elsewhere' \subseteq Call,
         acts' \in Acts, acts'.logouts = acts.logouts
  PROVE  TransportInv'
  <1>1. BrowserTypeOK'
    BY TransportTypes DEF TransportInv, BrowserTypeOK, Acts
  <1>2. LatestOnly' /\ RequestsOK' /\ Cutting' /\ LogoutQuiet' /\ LeftFor'
    BY DEF TransportInv, LatestOnly, RequestsOK, Cutting, LogoutQuiet, LeftFor
  <1>3. QED
    BY <1>1, <1>2 DEF TransportInv

LEMMA StartKeeps ==
  ASSUME TransportInv, NEW r \in Req, NEW kind \in Kind, Start(r, kind)
  PROVE  TransportInv'
  <1> DEFINE q == [Idle("csrf") EXCEPT !.kind = kind, !.signal = client.generation,
                                       !.epoch = acts.logouts]
  <1>t. /\ jar \in Jar /\ drawn \in Nat /\ page \in Pages /\ client \in Clients
        /\ refreshes \in [1..MaxRefreshes -> Renewals] /\ requests \in [Req -> Requests]
        /\ logout \in Logouts /\ elsewhere \subseteq Call /\ acts \in Acts
        /\ client.refreshing <=> \E v \in 1..MaxRefreshes : Underway(refreshes[v])
    BY TransportTypes DEF TransportInv
  <1>1. /\ ~client.ended /\ ~client.signingOut /\ ~client.cut
        /\ logout.stage = "none" /\ acts.count < MaxActs
        /\ acts' = [acts EXCEPT !.count = @ + 1]
        /\ UNCHANGED <<sessionsVars, jar, page, refreshes, logout, elsewhere>>
    BY DEF Start, MayStart, TransportInv, Cutting
  <1>2. acts' \in Acts /\ acts'.logouts = acts.logouts
    BY <1>1, <1>t, Bounds DEF Acts
  <1>3. /\ q \in Requests /\ q.stage = "csrf" /\ q.signal = client.generation
        /\ q.epoch = acts.logouts /\ q.version = 0
    BY <1>t DEF Idle, Requests, Clients, Acts
  <1>4. /\ client' \in Clients /\ client' = [client EXCEPT !.csrf = client'.csrf]
        /\ drawn' \in Nat
        /\ requests' \in [Req -> Requests]
        /\ \A u \in Req : requests'[u] = requests[u]
               \/ RequestOK(requests'[u], client, acts.logouts)
    <2>1. CASE kind \in Mutation
      <3>1. requests' = [requests EXCEPT ![r] = q] /\ client' = AskCsrf(client)
            /\ drawn' = Drawn
        BY <2>1 DEF Start
      <3>2. RequestOK(q, client, acts.logouts)
        BY <1>1, <1>3, <1>t, Bounds DEF RequestOK, OnWire, Clients
      <3> HIDE DEF q
      <3>3. QED
        BY <1>3, <1>t, <3>1, <3>2, AskCsrfOK
    <2>2. CASE kind \notin Mutation
      <3>1. requests' = [requests EXCEPT ![r] = Dispatch(q)] /\ UNCHANGED <<client, drawn>>
        BY <2>2 DEF Start
      <3> HIDE DEF q
      <3>2. Dispatch(q) \in Requests /\ RequestOK(Dispatch(q), client, acts.logouts)
        BY <1>1, <1>3, DispatchOK
      <3>3. QED
        BY <1>t, <3>1, <3>2 DEF Clients
    <2>3. QED
      BY <2>1, <2>2
  <1>5. /\ client'.refreshing = client.refreshing /\ client'.version = client.version
        /\ client'.signingOut = client.signingOut /\ client'.generation = client.generation
        /\ client'.cut = client.cut /\ client'.ended = client.ended
    BY <1>4, <1>t DEF Clients
  <1>6. BrowserTypeOK'
    BY <1>1, <1>2, <1>4, <1>5, <1>t DEF BrowserTypeOK, Pages, Clients, Renewals, Logouts,
                                      Acts, Underway
  <1>7. RequestsOK'
    BY <1>2, <1>4, <1>5, RequestKept DEF RequestsOK, TransportInv
  <1>8. LatestOnly' /\ Cutting' /\ LogoutQuiet' /\ LeftFor'
    BY <1>1, <1>5 DEF TransportInv, LatestOnly, Cutting, LogoutQuiet, LeftFor
  <1>9. QED
    BY <1>6, <1>7, <1>8 DEF TransportInv

LEMMA CsrfArrivesKeeps == ASSUME TransportInv, CsrfArrives PROVE TransportInv'
  <1> DEFINE token == client.csrf.binding
             dropped == {v \in TokenAwaited : Aborted(refreshes[v].signal)}
  <1>t. /\ jar \in Jar /\ drawn \in Nat /\ page \in Pages /\ client \in Clients
        /\ refreshes \in [1..MaxRefreshes -> Renewals] /\ requests \in [Req -> Requests]
        /\ logout \in Logouts /\ elsewhere \subseteq Call /\ acts \in Acts
        /\ client.refreshing <=> \E v \in 1..MaxRefreshes : Underway(refreshes[v])
    BY TransportTypes DEF TransportInv
  <1>1. /\ client.csrf # None
        /\ jar' = [jar EXCEPT !.csrf = token,
                              !.binding = IF client.csrf.new THEN token ELSE @]
        /\ requests' = [r \in Req |->
               LET q == requests[r]
               IN  CASE q.stage = "csrf" ->
                          IF Aborted(q.signal) THEN Idle("idle")
                          ELSE LET d == Dispatch([q EXCEPT !.header = token])
                               IN  IF d.stage = "sent" THEN Sent(d, jar') ELSE d
                     [] q.stage \in {"waiting", "recovering"} /\ q.version \in dropped ->
                          Idle("idle")
                     [] OTHER -> q]
        /\ refreshes' = [v \in DOMAIN refreshes |->
               CASE v \in dropped -> [NoRefresh EXCEPT !.stage = "failed"]
                 [] v \in TokenAwaited \ dropped ->
                        [refreshes[v] EXCEPT !.stage = "ready", !.header = token]
                 [] OTHER -> refreshes[v]]
        /\ client' = [client EXCEPT !.csrf = None,
                                    !.refreshing = @ /\ dropped = {}]
        /\ logout' = IF logout.stage = "csrf"
                     THEN [logout EXCEPT !.stage = "ready", !.header = token]
                     ELSE logout
        /\ UNCHANGED <<sessionsVars, drawn, page, elsewhere, acts>>
    BY DEF CsrfArrives
  <1>2. token \in Nat
    BY <1>1, <1>t DEF Clients
  <1>3. dropped \subseteq 1..MaxRefreshes /\ dropped \subseteq {client.version}
    BY DEF TokenAwaited, AwaitsToken, TransportInv, LatestOnly, Underway
  <1>4. jar' \in Jar /\ logout' \in Logouts
    BY <1>1, <1>2, <1>t DEF Jar, Logouts
  <1>5. /\ client' \in Clients /\ client'.csrf = None
        /\ client'.refreshing = (client.refreshing /\ dropped = {})
        /\ client'.version = client.version
        /\ client'.signingOut = client.signingOut /\ client'.generation = client.generation
        /\ client'.cut = client.cut /\ client'.ended = client.ended
        /\ client.generation \in Nat
    BY <1>1, <1>t DEF Clients
  <1>6. /\ refreshes' \in [1..MaxRefreshes -> Renewals]
        /\ \A v \in 1..MaxRefreshes :
               Underway(refreshes'[v]) <=> Underway(refreshes[v]) /\ v \notin dropped
    <2> HIDE DEF dropped
    <2>1. ASSUME NEW v \in 1..MaxRefreshes
          PROVE  /\ refreshes'[v] \in Renewals
                 /\ Underway(refreshes'[v]) <=> Underway(refreshes[v]) /\ v \notin dropped
      <3>1. refreshes[v] \in Renewals
        BY <1>t
      <3>2. CASE v \in dropped
        BY <1>1, <1>t, <3>2 DEF NoRefresh, Renewals, Underway
      <3>3. CASE v \in TokenAwaited \ dropped
        <4>1. refreshes'[v] = [refreshes[v] EXCEPT !.stage = "ready", !.header = token]
          BY <1>1, <1>t, <3>3
        <4>2. refreshes[v].stage = "csrf"
          BY <3>3 DEF TokenAwaited, AwaitsToken
        <4>3. QED
          BY <1>2, <3>1, <3>3, <4>1, <4>2 DEF Renewals, Underway
      <3>4. CASE v \notin TokenAwaited /\ v \notin dropped
        BY <1>1, <1>t, <3>4
      <3>5. QED
        BY <3>2, <3>3, <3>4
    <2>2. refreshes' = [v \in 1..MaxRefreshes |-> refreshes'[v]]
      BY <1>1, <1>t
    <2>3. QED
      BY <2>1, <2>2
  <1>7. ASSUME NEW r \in Req
        PROVE  requests'[r] \in Requests /\ RequestOK(requests'[r], client', acts.logouts)
    <2> DEFINE q == requests[r]
               d == Dispatch([q EXCEPT !.header = token])
    <2> HIDE DEF dropped, token
    <2>1. q \in Requests /\ RequestOK(q, client, acts.logouts)
      BY <1>t DEF TransportInv, RequestsOK
    <2>2. RequestOK(q, client', acts.logouts)
      BY <1>5, <2>1, RequestKept
    <2>3. CASE q.stage = "csrf" /\ ~Aborted(q.signal)
      <3>1. requests'[r] = IF d.stage = "sent" THEN Sent(d, jar') ELSE d
        BY <1>1, <2>3
      <3>2. /\ [q EXCEPT !.header = token] \in Requests /\ ~client.ended
            /\ [q EXCEPT !.header = token].epoch = acts.logouts
        BY <1>2, <2>1, <2>3 DEF Requests, RequestOK, Resting, Alive, Aborted
      <3>3. /\ d \in Requests /\ RequestOK(d, client, acts.logouts)
            /\ d.stage = "sent" => /\ ~client.refreshing /\ Alive(d.signal, client)
                                   /\ d.epoch = acts.logouts
        BY <3>2, DispatchOK
      <3>4. CASE d.stage = "sent"
        <4>1. /\ client.version \in Nat /\ client'.generation \in Nat
              /\ client'.version = client.version
              /\ Alive(d.signal, client') /\ ~client'.ended /\ ~client'.refreshing
          BY <1>5, <1>t, <3>2, <3>3, <3>4, Bounds DEF Clients, Alive
        <4>2. QED
          BY <3>1, <3>3, <3>4, <4>1, SentOK
      <3>5. CASE d.stage # "sent"
        BY <1>5, <3>1, <3>3, <3>5, RequestKept
      <3>6. QED
        BY <3>4, <3>5
    <2>4. CASE ~(q.stage = "csrf" /\ ~Aborted(q.signal))
      <3>1. requests'[r] = Idle("idle") \/ requests'[r] = q
        BY <1>1, <2>4
      <3>2. QED
        BY <1>5, <2>1, <2>2, <3>1, IdleOK
    <2>5. QED
      BY <2>3, <2>4
  <1>8. BrowserTypeOK'
    <2>1. requests' \in [Req -> Requests]
      BY <1>1, <1>7
    <2>2. client'.refreshing <=> \E v \in 1..MaxRefreshes : Underway(refreshes'[v])
      <3> HIDE DEF dropped
      <3>1. CASE dropped = {}
        BY <1>5, <1>6, <1>t, <3>1
      <3>2. CASE dropped # {}
        BY <1>3, <1>5, <1>6, <3>2 DEF TransportInv, LatestOnly
      <3>3. QED
        BY <3>1, <3>2
    <2>3. QED
      BY <1>1, <1>4, <1>5, <1>6, <1>t, <2>1, <2>2 DEF BrowserTypeOK, Pages, Clients,
         Renewals, Logouts, Acts, Underway
  <1>9. RequestsOK'
    BY <1>1, <1>7 DEF RequestsOK
  <1>10. LatestOnly' /\ Cutting' /\ LogoutQuiet' /\ LeftFor'
    BY <1>1, <1>4, <1>5, <1>6, <1>t
       DEF TransportInv, LatestOnly, Cutting, LogoutQuiet, LeftFor, Logouts
  <1>11. QED
    BY <1>8, <1>9, <1>10 DEF TransportInv

\* The requests and the renewals change; the rest is the controller's.
LEMMA TransportMoves ==
  ASSUME TransportInv, jar' \in Jar, drawn' \in Nat, elsewhere' \subseteq Call,
         page' \in Pages, acts' \in Acts, logout' \in Logouts, client' \in Clients,
         refreshes' \in [1..MaxRefreshes -> Renewals],
         requests' \in [Req -> Requests], RequestsOK',
         \A v \in 1..MaxRefreshes : Underway(refreshes'[v]) => v = client'.version,
         client'.refreshing <=> \E v \in 1..MaxRefreshes : Underway(refreshes'[v]),
         Cutting', LogoutQuiet', LeftFor'
  PROVE  TransportInv'
  <1>1. BrowserTypeOK'
    BY DEF BrowserTypeOK, Pages, Clients, Renewals, Logouts, Acts, Underway
  <1>2. QED
    BY <1>1 DEF TransportInv, LatestOnly

LEMMA ResumeOK ==
  ASSUME NEW state \in Clients
  PROVE  /\ Resume(state) \in Clients
         /\ Resume(state).csrf = state.csrf /\ Resume(state).refreshing = state.refreshing
         /\ Resume(state).version = state.version /\ Resume(state).signingOut = FALSE
         /\ Resume(state).generation = state.generation + 1
         /\ Resume(state).cut = FALSE /\ Resume(state).ended = state.ended
  <1> DEFINE next == state.generation + 1
  <1>1. next \in Nat
    BY DEF Clients
  <1>2. Resume(state) = [state EXCEPT !.signingOut = FALSE, !.generation = next, !.cut = FALSE]
    BY DEF Resume, Clients
  <1> HIDE DEF next
  <1>3. /\ Resume(state) \in Clients
        /\ Resume(state).csrf = state.csrf /\ Resume(state).refreshing = state.refreshing
        /\ Resume(state).version = state.version /\ Resume(state).signingOut = FALSE
        /\ Resume(state).generation = next
        /\ Resume(state).cut = FALSE /\ Resume(state).ended = state.ended
    BY <1>1, <1>2 DEF Clients
  <1>4. QED
    BY <1>3 DEF next

\* A request of before is not alive again under a new controller.
LEMMA RequestParted ==
  ASSUME NEW q \in Requests, NEW s \in Clients, NEW t \in Clients, NEW logouts,
         RequestOK(q, s, logouts), s.cut, t.generation = s.generation + 1,
         t.version = s.version, t.refreshing => s.refreshing
  PROVE  RequestOK(q, t, logouts)
  <1>1. q.signal \in Nat /\ s.generation \in Nat /\ t.generation \in Nat
    BY DEF Requests, Clients
  <1>2. q.signal <= s.generation /\ ~OnWire(q)
    BY DEF RequestOK, Alive
  <1>3. q.signal <= t.generation /\ ~Alive(q.signal, t)
    BY <1>1, <1>2 DEF Alive
  <1>4. q.stage # "sent"
    BY <1>2 DEF OnWire
  <1>5. QED
    BY <1>2, <1>3, <1>4 DEF RequestOK

LEMMA CsrfFailsKeeps == ASSUME TransportInv, CsrfFails PROVE TransportInv'
  <1>t. /\ jar \in Jar /\ drawn \in Nat /\ page \in Pages /\ client \in Clients
        /\ refreshes \in [1..MaxRefreshes -> Renewals] /\ requests \in [Req -> Requests]
        /\ logout \in Logouts /\ elsewhere \subseteq Call /\ acts \in Acts
        /\ client.refreshing <=> \E v \in 1..MaxRefreshes : Underway(refreshes[v])
    BY TransportTypes DEF TransportInv
  <1> DEFINE idle == [client EXCEPT !.csrf = None, !.refreshing = @ /\ TokenAwaited = {}]
  <1>1. /\ requests' \in [Req -> Requests \cup {Idle("idle")}]
        /\ \A r \in Req : requests'[r] = requests[r] \/ requests'[r] = Idle("idle")
        /\ refreshes' = [v \in DOMAIN refreshes |->
               IF AwaitsToken(v) THEN [NoRefresh EXCEPT !.stage = "failed"] ELSE refreshes[v]]
        /\ UNCHANGED <<sessionsVars, jar, drawn, page, elsewhere, acts>>
    BY <1>t DEF CsrfFails
  <1>2. TokenAwaited \subseteq 1..MaxRefreshes /\ TokenAwaited \subseteq {client.version}
    BY DEF TokenAwaited, AwaitsToken, TransportInv, LatestOnly, Underway
  <1>3. /\ idle \in Clients /\ idle.csrf = None
        /\ idle.refreshing = (client.refreshing /\ TokenAwaited = {})
        /\ idle.version = client.version
        /\ idle.signingOut = client.signingOut /\ idle.generation = client.generation
        /\ idle.cut = client.cut /\ idle.ended = client.ended
        /\ client.generation \in Nat
    BY <1>t DEF Clients
  <1>4. /\ refreshes' \in [1..MaxRefreshes -> Renewals]
        /\ \A v \in 1..MaxRefreshes :
               Underway(refreshes'[v]) <=> Underway(refreshes[v]) /\ v \notin TokenAwaited
    <2>1. [NoRefresh EXCEPT !.stage = "failed"] \in Renewals
          /\ ~Underway([NoRefresh EXCEPT !.stage = "failed"])
      BY DEF NoRefresh, Renewals, Underway
    <2>2. QED
      BY <1>1, <1>t, <2>1 DEF TokenAwaited, AwaitsToken
  <1>5. (\E v \in 1..MaxRefreshes : Underway(refreshes'[v]))
            <=> (client.refreshing /\ TokenAwaited = {})
    <2>1. CASE TokenAwaited = {}
      BY <1>4, <1>t, <2>1
    <2>2. CASE TokenAwaited # {}
      BY <1>2, <1>4, <2>2 DEF TransportInv, LatestOnly
    <2>3. QED
      BY <2>1, <2>2
  <1>6. requests' \in [Req -> Requests]
    <2>1. Idle("idle") \in Requests
      BY DEF Idle, Requests, Kind
    <2>2. QED
      BY <1>1, <2>1
  <1>7. CASE logout.stage = "csrf"
    <2>1. client' = Resume(idle) /\ logout' = NoLogout
      BY <1>7 DEF CsrfFails
    <2> HIDE DEF idle
    <2>2. /\ client' \in Clients /\ client'.csrf = None /\ client'.refreshing = idle.refreshing
          /\ client'.version = client.version /\ client'.signingOut = FALSE
          /\ client'.generation = client.generation + 1
          /\ client'.cut = FALSE /\ client'.ended = client.ended
      BY <1>3, <2>1, ResumeOK
    <2>3. logout' \in Logouts /\ logout'.stage = "none"
      BY <2>1 DEF NoLogout, Logouts
    <2>4. RequestsOK'
      <3>1. client.cut
        BY <1>7 DEF TransportInv, Cutting
      <3>2. ASSUME NEW q \in Requests, RequestOK(q, client, acts.logouts)
            PROVE  RequestOK(q, client', acts.logouts)
        <4>1. client'.refreshing => client.refreshing
          BY <1>3, <2>2
        <4>2. QED
          BY <1>3, <1>t, <2>2, <3>1, <3>2, <4>1, RequestParted
      <3>3. RequestOK(Idle("idle"), client', acts.logouts)
        BY <1>3, <2>2, IdleOK
      <3>4. QED
        BY <1>1, <1>t, <3>2, <3>3 DEF TransportInv, RequestsOK
    <2>5. Cutting' /\ LogoutQuiet' /\ LeftFor'
      BY <1>1, <1>7, <2>2, <2>3 DEF TransportInv, Cutting, LogoutQuiet, LeftFor
    <2>6. \A v \in 1..MaxRefreshes : Underway(refreshes'[v]) => v = client'.version
      BY <1>4, <2>2 DEF TransportInv, LatestOnly
    <2>7. QED
      BY <1>1, <1>3, <1>4, <1>5, <1>6, <1>t, <2>2, <2>3, <2>4, <2>5, <2>6, TransportMoves
  <1>8. CASE logout.stage # "csrf"
    <2>1. client' = idle /\ logout' = logout
      BY <1>8 DEF CsrfFails
    <2> HIDE DEF idle
    <2>2. RequestsOK'
      <3>1. idle.refreshing => client.refreshing
        BY <1>3
      <3>2. \A q : RequestOK(q, client, acts.logouts) => RequestOK(q, idle, acts.logouts)
        BY <1>3, <3>1, RequestKept
      <3>3. RequestOK(Idle("idle"), idle, acts.logouts)
        BY <1>3, IdleOK
      <3>4. QED
        BY <1>1, <2>1, <3>2, <3>3 DEF TransportInv, RequestsOK
    <2>3. Cutting' /\ LogoutQuiet' /\ LeftFor'
      BY <1>1, <1>3, <2>1 DEF TransportInv, Cutting, LogoutQuiet, LeftFor
    <2>4. \A v \in 1..MaxRefreshes : Underway(refreshes'[v]) => v = client'.version
      BY <1>3, <1>4, <2>1 DEF TransportInv, LatestOnly
    <2>5. QED
      BY <1>1, <1>3, <1>4, <1>5, <1>6, <1>t, <2>1, <2>2, <2>3, <2>4, TransportMoves
  <1>9. QED
    BY <1>7, <1>8

\* End and Cut: nothing is on the wire afterwards.
LEMMA EndOK ==
  ASSUME NEW state \in Clients, NEW queue \in [Req -> Requests], NEW logouts,
         \A r \in Req : /\ queue[r].signal <= state.generation
                         /\ queue[r].version <= state.version
  PROVE  /\ End(state) \in Clients
         /\ End(state) = [state EXCEPT !.ended = TRUE, !.cut = TRUE]
         /\ Cut(queue) \in [Req -> Requests]
         /\ \A r \in Req : RequestOK(Cut(queue)[r], End(state), logouts)
  <1>1. /\ End(state) \in Clients /\ End(state).cut = TRUE
        /\ End(state).generation = state.generation /\ state.generation \in Nat
        /\ End(state).version = state.version
        /\ End(state) = [state EXCEPT !.ended = TRUE, !.cut = TRUE]
    BY DEF End, Clients
  <1>2. ASSUME NEW r \in Req
        PROVE  /\ Cut(queue)[r] \in Requests
               /\ RequestOK(Cut(queue)[r], End(state), logouts)
    <2>1. CASE OnWire(queue[r])
      BY <1>1, <2>1, IdleOK DEF Cut
    <2>2. CASE ~OnWire(queue[r])
      BY <1>1, <2>2 DEF Cut, RequestOK, Alive, OnWire
    <2>3. QED
      BY <2>1, <2>2
  <1>3. Cut(queue) \in [Req -> Requests]
    BY <1>2 DEF Cut
  <1>4. QED
    BY <1>1, <1>2, <1>3

LEMMA SucceedsKeeps ==
  ASSUME TransportInv, NEW r \in Req, OnWire(requests[r]), Succeeds(r),
         UNCHANGED <<sessionsVars, jar, logout, elsewhere, acts>>
  PROVE  TransportInv'
  <1>t. /\ jar \in Jar /\ drawn \in Nat /\ page \in Pages /\ client \in Clients
        /\ refreshes \in [1..MaxRefreshes -> Renewals] /\ requests \in [Req -> Requests]
        /\ logout \in Logouts /\ elsewhere \subseteq Call /\ acts \in Acts
        /\ client.refreshing <=> \E v \in 1..MaxRefreshes : Underway(refreshes[v])
    BY TransportTypes DEF TransportInv
  <1> DEFINE q == requests[r]
  <1>1. /\ requests' = [requests EXCEPT ![r] = Idle("done")]
        /\ page' = [page EXCEPT !.cached = @ \/ q.kind \in Private,
                                !.session = IF q.kind = "me" THEN "ready" ELSE @]
        /\ UNCHANGED <<client, drawn, refreshes>>
    BY DEF Succeeds
  <1>2. ~client.ended /\ ~client.cut
    BY DEF TransportInv, RequestsOK, RequestOK, Alive, Resting, OnWire
  <1>3. page' \in Pages /\ page'.open = page.open
    BY <1>1, <1>t DEF Pages
  <1>4. page.open
    BY <1>2 DEF TransportInv, LeftFor, Cutting
  <1>5. requests' \in [Req -> Requests] /\ RequestsOK'
    BY <1>1, <1>t, IdleOK DEF TransportInv, RequestsOK
  <1>6. Cutting' /\ LogoutQuiet' /\ LeftFor'
    BY <1>1, <1>3, <1>4 DEF TransportInv, Cutting, LogoutQuiet, LeftFor
  <1>7. QED
    BY <1>1, <1>3, <1>5, <1>6, <1>t, TransportMoves DEF TransportInv, LatestOnly

LEMMA FailsKeeps ==
  ASSUME TransportInv, NEW r \in Req, NEW refused, Fails(r, refused),
         UNCHANGED <<sessionsVars, jar, logout, elsewhere, acts>>
  PROVE  TransportInv'
  <1>t. /\ jar \in Jar /\ drawn \in Nat /\ page \in Pages /\ client \in Clients
        /\ refreshes \in [1..MaxRefreshes -> Renewals] /\ requests \in [Req -> Requests]
        /\ logout \in Logouts /\ elsewhere \subseteq Call /\ acts \in Acts
        /\ client.refreshing <=> \E v \in 1..MaxRefreshes : Underway(refreshes[v])
    BY TransportTypes DEF TransportInv
  <1>1. /\ requests' = [requests EXCEPT ![r] = Idle("idle")]
        /\ page' = page \/ page' = [page EXCEPT !.session = "refused"]
        /\ UNCHANGED <<client, drawn, refreshes>>
    BY DEF Fails
  <1>2. page' \in Pages /\ page'.open = page.open /\ page'.cached = page.cached
    BY <1>1, <1>t DEF Pages
  <1>3. requests' \in [Req -> Requests] /\ RequestsOK'
    BY <1>1, <1>t, IdleOK DEF TransportInv, RequestsOK
  <1>4. Cutting' /\ LogoutQuiet' /\ LeftFor'
    BY <1>1, <1>2 DEF TransportInv, Cutting, LogoutQuiet, LeftFor
  <1>5. QED
    BY <1>1, <1>2, <1>3, <1>4, <1>t, TransportMoves DEF TransportInv, LatestOnly

\* A refused request starts a renewal, or joins the last one.
LEMMA RecoverKeeps ==
  ASSUME TransportInv, NEW r \in Req, requests[r].stage = "sent", Recover(r),
         UNCHANGED <<sessionsVars, jar, page, logout, elsewhere, acts>>
  PROVE  TransportInv'
  <1>t. /\ jar \in Jar /\ drawn \in Nat /\ page \in Pages /\ client \in Clients
        /\ refreshes \in [1..MaxRefreshes -> Renewals] /\ requests \in [Req -> Requests]
        /\ logout \in Logouts /\ elsewhere \subseteq Call /\ acts \in Acts
        /\ client.refreshing <=> \E v \in 1..MaxRefreshes : Underway(refreshes[v])
    BY TransportTypes DEF TransportInv
  <1> DEFINE q == requests[r]
             v == client.version + 1
  <1>1. /\ q \in Requests /\ RequestOK(q, client, acts.logouts)
        /\ Alive(q.signal, client) /\ ~client.ended /\ q.epoch = acts.logouts
        /\ q.signal = client.generation /\ ~client.cut
    BY <1>t DEF TransportInv, RequestsOK, RequestOK, OnWire, Resting, Alive
  <1>2. ~client.signingOut /\ logout.stage = "none"
    BY <1>1 DEF TransportInv, Cutting
  <1>3. client.version \in 0..MaxRefreshes /\ client.generation \in Nat
        /\ client.version \in Nat
    BY <1>t, Bounds DEF Clients
  <1>4. CASE StartsRefresh(q.version)
    <2>1. /\ client.version < MaxRefreshes
          /\ client' = [AskCsrf(client) EXCEPT !.version = v, !.refreshing = TRUE]
          /\ drawn' = Drawn
          /\ refreshes' = [u \in DOMAIN refreshes |->
                 IF u = v
                 THEN [NoRefresh EXCEPT !.stage = "csrf", !.signal = client.generation]
                 ELSE IF refreshes[u].stage \in {"ok", "failed"} THEN NoRefresh
                 ELSE refreshes[u]]
          /\ requests' = [requests EXCEPT ![r].stage = "recovering", ![r].version = v,
                                          ![r].status = "none"]
      BY <1>4 DEF Recover
    <2>2. ~client.refreshing
      <3>1. CASE client.version = 0
        BY <1>t, <3>1, Bounds DEF TransportInv, LatestOnly
      <3>2. CASE q.version = client.version
        BY <1>1, <3>2 DEF RequestOK
      <3>3. QED
        BY <1>4, <3>1, <3>2 DEF StartsRefresh
    <2>3. v \in 1..MaxRefreshes /\ v \in Nat /\ v > client.version
      BY <1>3, <2>1, Bounds
    <2> HIDE DEF v
    <2>4. AskCsrf(client) \in Clients /\ drawn' \in Nat
          /\ AskCsrf(client) = [client EXCEPT !.csrf = AskCsrf(client).csrf]
      BY <1>t, <2>1, AskCsrfOK
    <2>5. /\ client' \in Clients /\ client'.refreshing = TRUE /\ client'.version = v
          /\ client'.generation = client.generation /\ client'.cut = client.cut
          /\ client'.ended = client.ended /\ client'.signingOut = client.signingOut
      <3>1. v \in 0..MaxRefreshes
        BY <2>3
      <3>2. QED
        BY <1>t, <2>1, <2>4, <3>1 DEF Clients
    <2>6. /\ refreshes' \in [1..MaxRefreshes -> Renewals]
          /\ \A u \in 1..MaxRefreshes : Underway(refreshes'[u]) <=> u = v
      <3>1. [NoRefresh EXCEPT !.stage = "csrf", !.signal = client.generation] \in Renewals
            /\ Underway([NoRefresh EXCEPT !.stage = "csrf", !.signal = client.generation])
            /\ NoRefresh \in Renewals /\ ~Underway(NoRefresh)
        BY <1>3 DEF NoRefresh, Renewals, Underway
      <3>2. \A u \in 1..MaxRefreshes : ~Underway(refreshes[u])
        BY <1>t, <2>2
      <3>3. QED
        BY <1>t, <2>1, <2>3, <3>1, <3>2
    <2>7. requests' \in [Req -> Requests] /\ RequestsOK'
      <3>1. /\ requests'[r] \in Requests /\ requests'[r].stage = "recovering"
            /\ requests'[r].version = v /\ requests'[r].signal = q.signal
            /\ requests'[r].epoch = q.epoch
        BY <1>1, <1>t, <2>1, <2>3 DEF Requests
      <3>2. RequestOK(requests'[r], client', acts.logouts)
        BY <1>1, <1>3, <2>3, <2>5, <3>1 DEF RequestOK, Alive, OnWire
      <3>3. ASSUME NEW u \in Req \ {r} PROVE RequestOK(requests[u], client', acts.logouts)
        <4>1. /\ RequestOK(requests[u], client, acts.logouts)
              /\ requests[u].version \in Nat
          BY <1>t DEF TransportInv, RequestsOK, Requests
        <4>2. requests[u].version < v
          BY <1>3, <2>3, <4>1 DEF RequestOK
        <4>3. QED
          BY <1>3, <2>3, <2>5, <4>1, <4>2 DEF RequestOK, Alive
      <3>4. QED
        BY <1>t, <2>1, <3>1, <3>2, <3>3 DEF RequestsOK
    <2>8. Cutting' /\ LogoutQuiet' /\ LeftFor'
      BY <1>2, <2>5 DEF TransportInv, Cutting, LogoutQuiet, LeftFor
    <2>9. QED
      BY <1>t, <2>3, <2>4, <2>5, <2>6, <2>7, <2>8, TransportMoves
  <1>5. CASE ~StartsRefresh(q.version)
    <2> DEFINE next ==
          CASE refreshes[client.version].stage = "ok" ->
                   [q EXCEPT !.stage = "resent", !.status = Status(q, jar)]
            [] refreshes[client.version].stage = "failed" -> Idle("idle")
            [] OTHER -> [q EXCEPT !.stage = "recovering", !.status = "none",
                                  !.version = client.version]
    <2>1. requests' = [requests EXCEPT ![r] = next] /\ UNCHANGED <<client, drawn, refreshes>>
      BY <1>5 DEF Recover
    <2>2. next \in Requests /\ RequestOK(next, client, acts.logouts)
      <3>1. CASE next = [q EXCEPT !.stage = "resent", !.status = Status(q, jar)]
        <4> HIDE DEF next
        <4>1. q.version <= client.version
          BY <1>1 DEF RequestOK
        <4>2. QED
          BY <1>1, <1>3, <3>1, <4>1, ResentOK
      <3>2. CASE next = Idle("idle")
        BY <1>t, <3>2, IdleOK
      <3>3. CASE next = [q EXCEPT !.stage = "recovering", !.status = "none",
                                  !.version = client.version]
        <4> HIDE DEF next
        <4>1. /\ next \in Requests /\ next.stage = "recovering" /\ next.signal = q.signal
              /\ next.version = client.version /\ next.epoch = q.epoch
          BY <1>1, <1>3, <3>3 DEF Requests
        <4>2. QED
          BY <1>1, <1>3, <4>1 DEF RequestOK, OnWire
      <3>4. QED
        BY <3>1, <3>2, <3>3
    <2> HIDE DEF next
    <2>3. requests' \in [Req -> Requests] /\ RequestsOK'
      BY <1>t, <2>1, <2>2 DEF TransportInv, RequestsOK
    <2>4. Cutting' /\ LogoutQuiet' /\ LeftFor'
      BY <2>1 DEF TransportInv, Cutting, LogoutQuiet, LeftFor
    <2>5. QED
      BY <1>t, <2>1, <2>3, <2>4, TransportMoves DEF TransportInv, LatestOnly
  <1>6. QED
    BY <1>4, <1>5

LEMMA Arrivals ==
  ASSUME TransportInv, NEW r \in Req, RequestArrives(r)
  PROVE  /\ OnWire(requests[r]) /\ UNCHANGED <<sessionsVars, jar, logout, elsewhere, acts>>
         /\ \/ requests[r].status = "ok" /\ Succeeds(r)
            \/ requests[r].status = "forbidden" /\ Fails(r, TRUE)
            \/ /\ requests[r].status = "denied" /\ requests[r].stage = "sent"
               /\ (Recover(r) /\ UNCHANGED page) \/ Fails(r, TRUE)
            \/ /\ requests[r].status = "denied" /\ requests[r].stage = "resent"
               /\ client' = End(client) /\ requests' = Cut(requests)
               /\ UNCHANGED <<page, drawn, refreshes>>
  <1>1. OnWire(requests[r])
    BY DEF RequestArrives
  <1>2. /\ requests[r].status \in {"ok", "denied", "forbidden"}
        /\ requests[r].stage \in {"sent", "resent"}
    BY <1>1, TransportTypes DEF TransportInv, RequestsOK, RequestOK, OnWire, Requests
  <1>3. QED
    BY <1>1, <1>2 DEF RequestArrives

LEMMA RequestArrivesKeeps ==
  ASSUME TransportInv, NEW r \in Req, RequestArrives(r)
  PROVE  TransportInv'
  <1> DEFINE q == requests[r]
  <1>1. OnWire(q) /\ UNCHANGED <<sessionsVars, jar, logout, elsewhere, acts>>
    BY DEF RequestArrives
  <1>5. CASE q.status = "denied" /\ q.stage = "resent"
    <2>t. /\ jar \in Jar /\ drawn \in Nat /\ page \in Pages /\ client \in Clients
          /\ refreshes \in [1..MaxRefreshes -> Renewals] /\ requests \in [Req -> Requests]
          /\ logout \in Logouts /\ elsewhere \subseteq Call /\ acts \in Acts
          /\ client.refreshing <=> \E v \in 1..MaxRefreshes : Underway(refreshes[v])
      BY TransportTypes DEF TransportInv
    <2>1. /\ client' = End(client) /\ requests' = Cut(requests)
          /\ UNCHANGED <<page, drawn, refreshes>>
      BY <1>5 DEF RequestArrives
    <2>2. \A u \in Req : /\ requests[u].signal <= client.generation
                         /\ requests[u].version <= client.version
      BY DEF TransportInv, RequestsOK, RequestOK
    <2>3. /\ client' \in Clients /\ requests' \in [Req -> Requests]
          /\ client' = [client EXCEPT !.ended = TRUE, !.cut = TRUE]
          /\ \A u \in Req : RequestOK(requests'[u], client', acts.logouts)
      BY <2>1, <2>2, <2>t, EndOK
    <2>4. /\ client'.ended /\ client'.cut /\ client'.signingOut = client.signingOut
          /\ client'.version = client.version /\ client'.refreshing = client.refreshing
          /\ client'.csrf = client.csrf
      BY <2>3, <2>t DEF Clients
    <2>5. RequestsOK'
      BY <1>1, <2>3 DEF RequestsOK
    <2>6. Cutting' /\ LogoutQuiet' /\ LeftFor'
      BY <1>1, <2>1, <2>4 DEF TransportInv, Cutting, LogoutQuiet, LeftFor
    <2>7. QED
      BY <1>1, <2>1, <2>3, <2>4, <2>5, <2>6, <2>t, TransportMoves DEF TransportInv, LatestOnly
  <1>6. QED
    BY <1>1, <1>5, Arrivals, SucceedsKeeps, FailsKeeps, RecoverKeeps

LEMMA RequestLostKeeps ==
  ASSUME TransportInv, NEW r \in Req, RequestLost(r) PROVE TransportInv'
  BY FailsKeeps DEF RequestLost

LEMMA NextCallOK == CanCall => NextCall \in Call /\ calls[NextCall] = None
  BY DEF CanCall, NextCall

LEMMA SendRefreshKeeps ==
  ASSUME TransportInv, NEW v \in 1..MaxRefreshes, SendRefresh(v)
  PROVE  TransportInv'
  <1>t. /\ jar \in Jar /\ drawn \in Nat /\ page \in Pages /\ client \in Clients
        /\ refreshes \in [1..MaxRefreshes -> Renewals] /\ requests \in [Req -> Requests]
        /\ logout \in Logouts /\ elsewhere \subseteq Call /\ acts \in Acts
        /\ client.refreshing <=> \E u \in 1..MaxRefreshes : Underway(refreshes[u])
    BY TransportTypes DEF TransportInv
  <1>1. /\ refreshes[v].stage = "ready" /\ NextCall \in Call
        /\ refreshes' = [refreshes EXCEPT ![v].stage = "sent", ![v].call = NextCall]
        /\ UNCHANGED <<jar, drawn, page, client, requests, logout, elsewhere, acts>>
    BY NextCallOK DEF SendRefresh
  <1>2. /\ refreshes' \in [1..MaxRefreshes -> Renewals]
        /\ \A u \in 1..MaxRefreshes : Underway(refreshes'[u]) <=> Underway(refreshes[u])
    <2>1. refreshes'[v] \in Renewals /\ refreshes'[v].stage = "sent"
      BY <1>1, <1>t DEF Renewals
    <2>2. QED
      BY <1>1, <1>t, <2>1 DEF Underway
  <1>3. RequestsOK' /\ Cutting' /\ LogoutQuiet' /\ LeftFor'
    BY <1>1 DEF TransportInv, RequestsOK, Cutting, LogoutQuiet, LeftFor
  <1>4. QED
    BY <1>1, <1>2, <1>3, <1>t, TransportMoves DEF TransportInv, LatestOnly

\* A renewal ends, well or not: the controller is free and the rest goes on.
LEMMA RenewalEnds ==
  ASSUME TransportInv, NEW v \in 1..MaxRefreshes, refreshes[v].stage = "sent",
         NEW stage \in {"ok", "failed"},
         refreshes' = [refreshes EXCEPT ![v] = [NoRefresh EXCEPT !.stage = stage]]
  PROVE  /\ v = client.version
         /\ refreshes' \in [1..MaxRefreshes -> Renewals]
         /\ \A u \in 1..MaxRefreshes : ~Underway(refreshes'[u])
  <1>1. refreshes \in [1..MaxRefreshes -> Renewals]
    BY TransportTypes DEF TransportInv
  <1>2. /\ [NoRefresh EXCEPT !.stage = stage] \in Renewals
        /\ ~Underway([NoRefresh EXCEPT !.stage = stage])
    BY DEF NoRefresh, Renewals, Underway
  <1>3. v = client.version /\ \A u \in 1..MaxRefreshes : Underway(refreshes[u]) => u = v
    BY DEF TransportInv, LatestOnly, Underway
  <1>4. QED
    BY <1>1, <1>2, <1>3

\* Those who waited for a renewal that came back go on if they may.
LEMMA GoesOnOK ==
  ASSUME TransportInv, NEW q \in Requests, NEW cookies, NEW state \in Clients,
         RequestOK(q, client, acts.logouts), q.stage \in {"waiting", "recovering"},
         state = Quiet(client)
  PROVE  /\ GoesOn(q, cookies) \in Requests
         /\ RequestOK(GoesOn(q, cookies), state, acts.logouts)
  <1>1. /\ client \in Clients /\ client.version \in Nat /\ client.generation \in Nat
        /\ state.version = client.version /\ state.generation = client.generation
        /\ state.cut = client.cut /\ state.ended = client.ended /\ state.refreshing = FALSE
    BY TransportTypes, Bounds DEF TransportInv, Clients, Quiet
  <1>2. CASE Aborted(q.signal)
    BY <1>2, IdleOK DEF GoesOn
  <1>3. CASE ~Aborted(q.signal)
    <2>1. /\ Alive(q.signal, state) /\ ~state.ended /\ q.epoch = acts.logouts
          /\ q.version <= state.version
      BY <1>1, <1>3 DEF Aborted, Alive, RequestOK, Resting
    <2>2. CASE q.stage = "waiting"
      <3>1. GoesOn(q, cookies) = Sent(q, cookies)
        BY <1>3, <2>2 DEF GoesOn
      <3>2. QED
        BY <1>1, <2>1, <3>1, SentOK
    <2>3. CASE q.stage = "recovering"
      <3> DEFINE s == [q EXCEPT !.stage = "resent", !.status = Status(q, cookies)]
      <3>1. GoesOn(q, cookies) = s
        BY <1>3, <2>3 DEF GoesOn
      <3>2. s \in Requests /\ RequestOK(s, state, acts.logouts)
        BY <1>1, <2>1, ResentOK
      <3> HIDE DEF s
      <3>3. QED
        BY <3>1, <3>2
    <2>4. QED
      BY <2>2, <2>3
  <1>4. QED
    BY <1>2, <1>3

LEMMA QuietOK ==
  ASSUME NEW state \in Clients
  PROVE  /\ Quiet(state) \in Clients /\ Quiet(state).refreshing = FALSE
         /\ Quiet(state).csrf = state.csrf /\ Quiet(state).version = state.version
         /\ Quiet(state).generation = state.generation /\ Quiet(state).cut = state.cut
         /\ Quiet(state).ended = state.ended /\ Quiet(state).signingOut = state.signingOut
  BY DEF Quiet, Clients

LEMMA RefreshArrivesKeeps ==
  ASSUME TransportInv, NEW v \in 1..MaxRefreshes, RefreshArrives(v),
         calls[refreshes[v].call].reply \in Reply
  PROVE  TransportInv'
  <1>t. /\ jar \in Jar /\ drawn \in Nat /\ page \in Pages /\ client \in Clients
        /\ refreshes \in [1..MaxRefreshes -> Renewals] /\ requests \in [Req -> Requests]
        /\ logout \in Logouts /\ elsewhere \subseteq Call /\ acts \in Acts
        /\ client.refreshing <=> \E u \in 1..MaxRefreshes : Underway(refreshes[u])
    BY TransportTypes DEF TransportInv
  <1> DEFINE reply == calls[refreshes[v].call].reply
             released(cookies, good) == [r \in Req |->
                 IF WaitsFor(requests[r], v)
                 THEN IF good THEN GoesOn(requests[r], cookies) ELSE Idle("idle")
                 ELSE requests[r]]
  <1>1. refreshes[v].stage = "sent" /\ UNCHANGED <<drawn, page, logout, elsewhere, acts>>
    BY DEF RefreshArrives
  <1>2. /\ Quiet(client) \in Clients /\ Quiet(client).refreshing = FALSE
        /\ Quiet(client).csrf = client.csrf /\ Quiet(client).version = client.version
        /\ Quiet(client).generation = client.generation /\ Quiet(client).cut = client.cut
        /\ Quiet(client).ended = client.ended
        /\ Quiet(client).signingOut = client.signingOut
    BY <1>t, QuietOK
  <1>3. ASSUME NEW r \in Req
        PROVE  requests[r] \in Requests /\ RequestOK(requests[r], client, acts.logouts)
               /\ RequestOK(requests[r], Quiet(client), acts.logouts)
    BY <1>t, <1>2, RequestKept DEF TransportInv, RequestsOK
  <1>4. ASSUME NEW cookies, NEW good \in BOOLEAN
        PROVE  /\ released(cookies, good) \in [Req -> Requests]
               /\ \A r \in Req : RequestOK(released(cookies, good)[r], Quiet(client), acts.logouts)
    <2>1. ASSUME NEW r \in Req
          PROVE  /\ released(cookies, good)[r] \in Requests
                 /\ RequestOK(released(cookies, good)[r], Quiet(client), acts.logouts)
      <3>1. CASE WaitsFor(requests[r], v) /\ good
        <4>1. requests[r].stage \in {"waiting", "recovering"}
          BY <3>1 DEF WaitsFor
        <4>2. released(cookies, good)[r] = GoesOn(requests[r], cookies)
          BY <3>1
        <4>3. QED
          BY <1>2, <1>3, <4>1, <4>2, GoesOnOK
      <3>2. CASE WaitsFor(requests[r], v) /\ ~good
        BY <1>2, <3>2, IdleOK
      <3>3. CASE ~WaitsFor(requests[r], v)
        BY <1>3, <3>3
      <3>4. QED
        BY <3>1, <3>2, <3>3
    <2>2. QED
      BY <2>1
  <1>5. CASE reply.status = "ok"
    <2>1. /\ jar' = [jar EXCEPT !.access = reply.token, !.refresh = reply.token]
          /\ client' = Quiet(client)
          /\ requests' = released(jar', TRUE)
          /\ refreshes' = [refreshes EXCEPT ![v] = [NoRefresh EXCEPT !.stage = "ok"]]
      BY <1>5 DEF RefreshArrives, EndsLogin
    <2> HIDE DEF released
    <2>2. jar' \in Jar
      BY <1>t, <2>1 DEF Jar, Reply
    <2>3. /\ refreshes' \in [1..MaxRefreshes -> Renewals]
          /\ \A u \in 1..MaxRefreshes : ~Underway(refreshes'[u])
      BY <1>1, <2>1, RenewalEnds
    <2>4. requests' \in [Req -> Requests] /\ RequestsOK'
      BY <1>1, <1>4, <2>1 DEF RequestsOK
    <2>5. Cutting' /\ LogoutQuiet' /\ LeftFor'
      BY <1>1, <1>2, <2>1 DEF TransportInv, Cutting, LogoutQuiet, LeftFor
    <2>6. QED
      BY <1>1, <1>2, <1>t, <2>1, <2>2, <2>3, <2>4, <2>5, TransportMoves
  <1>6. CASE reply.status # "ok" /\ EndsLogin(reply.status)
    <2>1. /\ client' = End(Quiet(client))
          /\ requests' = Cut(released(jar, FALSE))
          /\ refreshes' = FailRefresh(v)
          /\ UNCHANGED jar
      BY <1>6 DEF RefreshArrives
    <2> HIDE DEF released
    <2>2. /\ refreshes' \in [1..MaxRefreshes -> Renewals]
          /\ \A u \in 1..MaxRefreshes : ~Underway(refreshes'[u])
      BY <1>1, <2>1, RenewalEnds DEF FailRefresh
    <2>3. \A r \in Req : /\ released(jar, FALSE)[r].signal <= Quiet(client).generation
                         /\ released(jar, FALSE)[r].version <= Quiet(client).version
      BY <1>4 DEF RequestOK
    <2>4. /\ client' \in Clients /\ requests' \in [Req -> Requests]
          /\ client' = [Quiet(client) EXCEPT !.ended = TRUE, !.cut = TRUE]
          /\ \A r \in Req : RequestOK(requests'[r], client', acts.logouts)
      BY <1>2, <1>4, <2>1, <2>3, EndOK
    <2>5. /\ client'.ended /\ client'.cut /\ client'.signingOut = client.signingOut
          /\ client'.version = client.version /\ client'.refreshing = FALSE
          /\ client'.csrf = client.csrf
      BY <1>2, <2>4 DEF Clients
    <2>6. RequestsOK'
      BY <1>1, <2>4 DEF RequestsOK
    <2>7. Cutting' /\ LogoutQuiet' /\ LeftFor'
      BY <1>1, <2>5 DEF TransportInv, Cutting, LogoutQuiet, LeftFor
    <2>8. QED
      BY <1>1, <1>t, <2>1, <2>2, <2>4, <2>5, <2>6, <2>7, TransportMoves
  <1>7. CASE reply.status # "ok" /\ ~EndsLogin(reply.status)
    <2>1. /\ client' = Quiet(client)
          /\ requests' = released(jar, FALSE)
          /\ refreshes' = FailRefresh(v)
          /\ UNCHANGED jar
      BY <1>7 DEF RefreshArrives
    <2> HIDE DEF released
    <2>2. /\ refreshes' \in [1..MaxRefreshes -> Renewals]
          /\ \A u \in 1..MaxRefreshes : ~Underway(refreshes'[u])
      BY <1>1, <2>1, RenewalEnds DEF FailRefresh
    <2>3. requests' \in [Req -> Requests] /\ RequestsOK'
      BY <1>1, <1>4, <2>1 DEF RequestsOK
    <2>4. Cutting' /\ LogoutQuiet' /\ LeftFor'
      BY <1>1, <1>2, <2>1 DEF TransportInv, Cutting, LogoutQuiet, LeftFor
    <2>5. QED
      BY <1>1, <1>2, <1>t, <2>1, <2>2, <2>3, <2>4, TransportMoves
  <1>8. QED
    BY <1>5, <1>6, <1>7

LEMMA RefreshLostKeeps ==
  ASSUME TransportInv, NEW v \in 1..MaxRefreshes, RefreshLost(v) PROVE TransportInv'
  <1>t. /\ jar \in Jar /\ drawn \in Nat /\ page \in Pages /\ client \in Clients
        /\ refreshes \in [1..MaxRefreshes -> Renewals] /\ requests \in [Req -> Requests]
        /\ logout \in Logouts /\ elsewhere \subseteq Call /\ acts \in Acts
        /\ client.refreshing <=> \E u \in 1..MaxRefreshes : Underway(refreshes[u])
    BY TransportTypes DEF TransportInv
  <1>1. /\ refreshes[v].stage = "sent" /\ client' = Quiet(client)
        /\ requests' = [r \in Req |->
               IF WaitsFor(requests[r], v) THEN Idle("idle") ELSE requests[r]]
        /\ refreshes' = FailRefresh(v)
        /\ acts' = [acts EXCEPT !.unheard = TRUE]
        /\ UNCHANGED <<jar, drawn, page, logout, elsewhere>>
    BY DEF RefreshLost
  <1>2. /\ client' \in Clients /\ client'.refreshing = FALSE
        /\ client'.csrf = client.csrf /\ client'.version = client.version
        /\ client'.generation = client.generation /\ client'.cut = client.cut
        /\ client'.ended = client.ended /\ client'.signingOut = client.signingOut
    BY <1>t, <1>1, QuietOK
  <1>3. acts' \in Acts /\ acts'.logouts = acts.logouts
    BY <1>1, <1>t DEF Acts
  <1>4. /\ refreshes' \in [1..MaxRefreshes -> Renewals]
        /\ \A u \in 1..MaxRefreshes : ~Underway(refreshes'[u])
    BY <1>1, RenewalEnds DEF FailRefresh
  <1>5. requests' \in [Req -> Requests] /\ RequestsOK'
    <2>1. \A r \in Req : RequestOK(requests[r], client', acts.logouts)
      BY <1>2, RequestKept DEF TransportInv, RequestsOK
    <2>2. QED
      BY <1>1, <1>2, <1>3, <1>t, <2>1, IdleOK DEF RequestsOK
  <1>6. Cutting' /\ LogoutQuiet' /\ LeftFor'
    BY <1>1, <1>2 DEF TransportInv, Cutting, LogoutQuiet, LeftFor
  <1>7. QED
    BY <1>1, <1>2, <1>3, <1>4, <1>5, <1>6, <1>t, TransportMoves

LEMMA ClickLogoutKeeps == ASSUME TransportInv, ClickLogout PROVE TransportInv'
  <1>t. /\ jar \in Jar /\ drawn \in Nat /\ page \in Pages /\ client \in Clients
        /\ refreshes \in [1..MaxRefreshes -> Renewals] /\ requests \in [Req -> Requests]
        /\ logout \in Logouts /\ elsewhere \subseteq Call /\ acts \in Acts
        /\ client.refreshing <=> \E u \in 1..MaxRefreshes : Underway(refreshes[u])
    BY TransportTypes DEF TransportInv
  <1>1. /\ page.open /\ acts.count < MaxActs /\ ~client.ended
        /\ client' = AskCsrf(Blocks(client)) /\ drawn' = Drawn
        /\ requests' = Cut(requests)
        /\ logout' = [NoLogout EXCEPT !.stage = "csrf"]
        /\ acts' = [acts EXCEPT !.count = @ + 1, !.logouts = @ + 1]
        /\ UNCHANGED <<jar, page, refreshes, elsewhere>>
    BY DEF ClickLogout
  <1>2. /\ Blocks(client) \in Clients /\ Blocks(client).refreshing = client.refreshing
        /\ Blocks(client).version = client.version /\ Blocks(client).signingOut = TRUE
        /\ Blocks(client).generation = client.generation /\ Blocks(client).cut = TRUE
    BY <1>t DEF Blocks, Clients
  <1>3. /\ client' \in Clients /\ drawn' \in Nat
        /\ client' = [Blocks(client) EXCEPT !.csrf = client'.csrf]
    BY <1>1, <1>2, <1>t, AskCsrfOK
  <1>4. /\ client'.refreshing = client.refreshing /\ client'.version = client.version
        /\ client'.generation = client.generation /\ client'.cut = TRUE
        /\ client'.signingOut = TRUE
    BY <1>2, <1>3 DEF Clients
  <1>5. acts' \in Acts
    <2>1. acts.count + 1 \in 0..MaxActs /\ acts.logouts + 1 \in Nat
      BY <1>1, <1>t, Bounds DEF Acts
    <2>2. acts' = [acts EXCEPT !.count = acts.count + 1, !.logouts = acts.logouts + 1]
      BY <1>1, <1>t DEF Acts
    <2>3. QED
      BY <1>t, <2>1, <2>2 DEF Acts
  <1>6. logout' \in Logouts /\ logout'.stage = "csrf"
    BY <1>1 DEF NoLogout, Logouts
  <1>7. requests' \in [Req -> Requests] /\ RequestsOK'
    <2>1. ASSUME NEW r \in Req
          PROVE  requests'[r] \in Requests /\ RequestOK(requests'[r], client', acts'.logouts)
      <3>1. requests[r] \in Requests /\ RequestOK(requests[r], client, acts.logouts)
        BY <1>t DEF TransportInv, RequestsOK
      <3>2. CASE OnWire(requests[r])
        BY <1>1, <1>3, <3>2, IdleOK DEF Cut
      <3>3. CASE ~OnWire(requests[r])
        BY <1>1, <1>4, <3>1, <3>3 DEF Cut, RequestOK, Alive, OnWire
      <3>4. QED
        BY <3>2, <3>3
    <2>2. QED
      BY <1>1, <2>1 DEF Cut, RequestsOK
  <1>8. Cutting' /\ LogoutQuiet' /\ LeftFor'
    BY <1>1, <1>4, <1>6 DEF Cutting, LogoutQuiet, LeftFor
  <1>9. QED
    BY <1>1, <1>3, <1>4, <1>5, <1>6, <1>7, <1>8, <1>t, TransportMoves
       DEF TransportInv, LatestOnly

LEMMA SendLogoutKeeps == ASSUME TransportInv, SendLogout PROVE TransportInv'
  <1>t. /\ jar \in Jar /\ drawn \in Nat /\ page \in Pages /\ client \in Clients
        /\ refreshes \in [1..MaxRefreshes -> Renewals] /\ requests \in [Req -> Requests]
        /\ logout \in Logouts /\ elsewhere \subseteq Call /\ acts \in Acts
        /\ client.refreshing <=> \E u \in 1..MaxRefreshes : Underway(refreshes[u])
    BY TransportTypes DEF TransportInv
  <1>1. /\ logout.stage = "ready" /\ ~client.refreshing /\ NextCall \in Call
        /\ logout' = [logout EXCEPT !.stage = "sent", !.call = NextCall]
        /\ UNCHANGED <<jar, drawn, page, client, refreshes, requests, elsewhere, acts>>
    BY NextCallOK DEF SendLogout, LeavesAfterRefresh
  <1>2. logout' \in Logouts /\ logout'.stage = "sent"
    BY <1>1, <1>t DEF Logouts
  <1>3. RequestsOK' /\ Cutting' /\ LogoutQuiet' /\ LeftFor'
    BY <1>1, <1>2 DEF TransportInv, RequestsOK, Cutting, LogoutQuiet, LeftFor
  <1>4. QED
    BY <1>1, <1>2, <1>3, <1>t, TransportMoves DEF TransportInv, LatestOnly

\* A logout that failed: the page goes on with a new controller.
LEMMA ResumeKeeps ==
  ASSUME TransportInv, logout.stage = "sent", client' = Resume(client), logout' = NoLogout,
         UNCHANGED <<jar, drawn, page, refreshes, requests, elsewhere, acts>>
  PROVE  TransportInv'
  <1>t. /\ jar \in Jar /\ drawn \in Nat /\ page \in Pages /\ client \in Clients
        /\ refreshes \in [1..MaxRefreshes -> Renewals] /\ requests \in [Req -> Requests]
        /\ logout \in Logouts /\ elsewhere \subseteq Call /\ acts \in Acts
        /\ client.refreshing <=> \E u \in 1..MaxRefreshes : Underway(refreshes[u])
    BY TransportTypes DEF TransportInv
  <1>1. /\ client' \in Clients /\ client'.csrf = client.csrf
        /\ client'.refreshing = client.refreshing
        /\ client'.version = client.version /\ client'.signingOut = FALSE
        /\ client'.generation = client.generation + 1
        /\ client'.cut = FALSE /\ client'.ended = client.ended
    BY <1>t, ResumeOK
  <1>2. logout' \in Logouts /\ logout'.stage = "none"
    BY DEF NoLogout, Logouts
  <1>3. client.cut
    BY DEF TransportInv, Cutting
  <1>4. RequestsOK'
    BY <1>1, <1>3, <1>t, RequestParted DEF TransportInv, RequestsOK
  <1>5. Cutting' /\ LogoutQuiet' /\ LeftFor'
    BY <1>1, <1>2 DEF TransportInv, Cutting, LogoutQuiet, LeftFor
  <1>6. QED
    BY <1>1, <1>2, <1>4, <1>5, <1>t, TransportMoves DEF TransportInv, LatestOnly

LEMMA LogoutArrivesKeeps == ASSUME TransportInv, LogoutArrives PROVE TransportInv'
  <1>t. /\ jar \in Jar /\ drawn \in Nat /\ page \in Pages /\ client \in Clients
        /\ refreshes \in [1..MaxRefreshes -> Renewals] /\ requests \in [Req -> Requests]
        /\ logout \in Logouts /\ elsewhere \subseteq Call /\ acts \in Acts
        /\ client.refreshing <=> \E u \in 1..MaxRefreshes : Underway(refreshes[u])
    BY TransportTypes DEF TransportInv
  <1>1. logout.stage = "sent" /\ UNCHANGED <<drawn, refreshes, requests, elsewhere, acts>>
    BY DEF LogoutArrives
  <1>2. CASE calls[logout.call].reply.status = "ok"
    <2>1. /\ jar' = LoggedOut(jar) /\ logout' = [NoLogout EXCEPT !.stage = "done"]
          /\ page' = [page EXCEPT !.open = FALSE, !.cached = FALSE]
          /\ UNCHANGED client
      BY <1>2 DEF LogoutArrives
    <2>2. jar' \in Jar
      BY <1>t, <2>1 DEF LoggedOut, Jar
    <2>3. logout' \in Logouts /\ logout'.stage = "done"
      BY <2>1 DEF NoLogout, Logouts
    <2>4. page' \in Pages /\ ~page'.cached
      BY <1>t, <2>1 DEF Pages
    <2>5. RequestsOK' /\ Cutting' /\ LogoutQuiet' /\ LeftFor'
      BY <1>1, <2>1, <2>3, <2>4
         DEF TransportInv, RequestsOK, Cutting, LogoutQuiet, LeftFor
    <2>6. QED
      BY <1>1, <1>t, <2>1, <2>2, <2>3, <2>4, <2>5, TransportMoves DEF TransportInv, LatestOnly
  <1>3. CASE calls[logout.call].reply.status # "ok"
    BY <1>1, <1>3, ResumeKeeps DEF LogoutArrives
  <1>4. QED
    BY <1>2, <1>3

LEMMA LogoutLostKeeps == ASSUME TransportInv, LogoutLost PROVE TransportInv'
  BY ResumeKeeps DEF LogoutLost

LEMMA RedirectKeeps == ASSUME TransportInv, Redirect PROVE TransportInv'
  <1>1. /\ client.ended /\ page' = [page EXCEPT !.open = FALSE, !.cached = FALSE]
        /\ UNCHANGED <<jar, drawn, client, refreshes, requests, logout, elsewhere, acts>>
    BY DEF Redirect
  <1>2. page' \in Pages /\ ~page'.cached
    BY <1>1, TransportTypes DEF TransportInv, Pages
  <1>3. RequestsOK' /\ Cutting' /\ LogoutQuiet' /\ LeftFor'
    BY <1>1, <1>2 DEF TransportInv, RequestsOK, Cutting, LogoutQuiet, LeftFor
  <1>4. QED
    BY <1>1, <1>2, <1>3, TransportTypes, TransportMoves DEF TransportInv, LatestOnly

LEMMA ElsewhereOK ==
  ASSUME TransportInv, Elsewhere
  PROVE  acts' \in Acts /\ acts'.logouts = acts.logouts /\ acts'.alone = FALSE
  <1>1. acts \in Acts /\ acts.count < MaxActs /\ acts.count + 1 \in 0..MaxActs
    BY TransportTypes, Bounds DEF TransportInv, Elsewhere, Acts
  <1>2. acts' = [acts EXCEPT !.count = acts.count + 1, !.alone = FALSE]
    BY <1>1 DEF Elsewhere, Acts
  <1>3. QED
    BY <1>1, <1>2 DEF Acts

LEMMA ReopenKeeps == ASSUME TransportInv, Reopen PROVE TransportInv'
  <1>1. /\ page' = NewPage /\ client' = NewClient /\ logout' = NoLogout
        /\ refreshes' = [v \in 1..MaxRefreshes |-> NoRefresh]
        /\ requests' = [r \in Req |-> Idle("idle")]
        /\ UNCHANGED <<jar, drawn, elsewhere>>
    BY DEF Reopen
  <1>2. page' \in Pages /\ logout' \in Logouts /\ page'.open /\ logout'.stage = "none"
    <2>1. page' \in Pages /\ page'.open
      BY <1>1 DEF NewPage, Pages
    <2>2. logout' \in Logouts /\ logout'.stage = "none"
      BY <1>1 DEF NoLogout, Logouts
    <2>3. QED
      BY <2>1, <2>2
  <1>3. client' \in Clients /\ ~client'.refreshing /\ ~client'.cut /\ ~client'.signingOut
    BY <1>1, Bounds DEF NewClient, Clients
  <1>4. refreshes' \in [1..MaxRefreshes -> Renewals]
        /\ \A v \in 1..MaxRefreshes : ~Underway(refreshes'[v])
    BY <1>1 DEF NoRefresh, Renewals, Underway
  <1>5. requests' \in [Req -> Requests] /\ RequestsOK'
    BY <1>1, <1>3, IdleOK DEF RequestsOK
  <1>6. acts' \in Acts
    BY ElsewhereOK DEF Reopen
  <1>7. Cutting' /\ LogoutQuiet' /\ LeftFor'
    BY <1>2, <1>3 DEF Cutting, LogoutQuiet, LeftFor
  <1>8. QED
    BY <1>1, <1>2, <1>3, <1>4, <1>5, <1>6, <1>7, TransportTypes, TransportMoves DEF TransportInv

-----------------------------------------------------------------------------
(* The calls the browser waits for *)

(* Nobody else hears the answer to a call of the page, and no call that is *)
(* waited for is forgotten.                                                *)
Waiters ==
    /\ \A v \in 1..MaxRefreshes :
           /\ refreshes[v].stage # "sent" => refreshes[v].call = None
           /\ refreshes[v].stage = "sent" =>
                  /\ refreshes[v].call \in Call \ elsewhere
                  /\ calls[refreshes[v].call] # None
                  /\ Asks(refreshes[v].call, "refresh")
    /\ logout.stage # "sent" => logout.call = None
    /\ logout.stage = "sent" =>
           /\ logout.call \in Call \ elsewhere
           /\ calls[logout.call] # None
           /\ Asks(logout.call, "logout")
    /\ \A c \in elsewhere : calls[c] # None

BrowserInv == SessionsInv /\ TransportInv /\ Waiters

LEMMA WaitersInit == BrowserInit => Waiters
  BY DEF BrowserInit, Waiters, NoRefresh, NoLogout

\* A call that is still waited for is kept, and no other is waited for.
LEMMA WaitersMove ==
  ASSUME Waiters, elsewhere \subseteq Call, elsewhere' \subseteq elsewhere,
         \A v \in 1..MaxRefreshes :
             \/ refreshes'[v] = refreshes[v]
             \/ refreshes'[v].stage # "sent" /\ refreshes'[v].call = None,
         logout' = logout \/ (logout'.stage # "sent" /\ logout'.call = None),
         \A d \in Call :
             \/ calls[d] # None => calls'[d] # None /\ calls'[d].request = calls[d].request
             \/ /\ d \notin elsewhere'
                /\ ~(logout'.stage = "sent" /\ logout'.call = d)
                /\ \A v \in 1..MaxRefreshes :
                       ~(refreshes'[v].stage = "sent" /\ refreshes'[v].call = d)
  PROVE  Waiters'
  <1>1. ASSUME NEW v \in 1..MaxRefreshes
        PROVE  /\ refreshes'[v].stage # "sent" => refreshes'[v].call = None
               /\ refreshes'[v].stage = "sent" =>
                      /\ refreshes'[v].call \in Call \ elsewhere'
                      /\ calls'[refreshes'[v].call] # None
                      /\ Asks(refreshes[v].call, "refresh")'
    BY DEF Waiters, Asks
  <1>2. /\ logout'.stage # "sent" => logout'.call = None
        /\ logout'.stage = "sent" =>
               /\ logout'.call \in Call \ elsewhere'
               /\ calls'[logout'.call] # None
               /\ Asks(logout.call, "logout")'
    BY DEF Waiters, Asks
  <1>3. \A c \in elsewhere' : calls'[c] # None
    BY DEF Waiters
  <1>4. QED
    BY <1>1, <1>2, <1>3 DEF Waiters

\* What becomes of a call that is served, and of the others.
LEMMA AnswerServes ==
  ASSUME SessionsTypeOK, NEW c \in Call, calls[c] # None,
         NEW status \in {"ok", "denied", "forbidden", "unavailable"},
         NEW t \in Token \cup {None}, Answer(c, status, t)
  PROVE  /\ calls'[c] \in Served /\ calls'[c] # None
         /\ calls'[c].request = calls[c].request
         /\ calls'[c].step = "answered" /\ calls'[c].reply = [status |-> status, token |-> t]
         /\ \A d \in Call \ {c} : calls'[d] = calls[d]
  <1>1. calls[c] \in Served
    BY DEF SessionsTypeOK
  <1>2. calls'[c] = [calls[c] EXCEPT !.step = "answered",
                                     !.reply = [status |-> status, token |-> t]]
        /\ \A d \in Call \ {c} : calls'[d] = calls[d]
    BY DEF SessionsTypeOK, Answer
  <1> DEFINE reply == [status |-> status, token |-> t]
  <1>5. reply \in Reply
    BY DEF Reply
  <1> HIDE DEF reply
  <1>3. /\ calls'[c] \in Served
        /\ calls'[c].request = calls[c].request
        /\ calls'[c].step = "answered" /\ calls'[c].reply = reply
    BY <1>1, <1>2, <1>5 DEF Served, reply
  <1>4. QED
    BY <1>2, <1>3, NoneIsNoRecord DEF reply

LEMMA ServeServes ==
  ASSUME SessionsInv, NEW c \in Call, Serve(c)
  PROVE  \A d \in Call :
            calls[d] # None => calls'[d] # None /\ calls'[d].request = calls[d].request
  <1>1. SessionsTypeOK
    BY DEF SessionsInv
  <1>2. calls[c] # None
    BY DEF Serve, Forbid, Fail, ServeRefresh, ServeLogout, ConsumeState, RefuseState,
           CompleteLogin, At
  <1>3. CASE ConsumeState(c)
    <2>1. calls' = [calls EXCEPT ![c].step = "vouched"] /\ calls[c] \in Served
      BY <1>1, <1>2, <1>3 DEF ConsumeState, SessionsTypeOK
    <2>2. calls'[c] = [calls[c] EXCEPT !.step = "vouched"]
          /\ \A d \in Call \ {c} : calls'[d] = calls[d]
      BY <1>1, <2>1 DEF SessionsTypeOK
    <2>3. calls'[c] \in Served /\ calls'[c].request = calls[c].request
      BY <2>1, <2>2 DEF Served
    <2>4. QED
      BY <2>2, <2>3, NoneIsNoRecord
  <1>4. CASE ~ConsumeState(c)
    <2>1. PICK status \in {"ok", "denied", "forbidden", "unavailable"}, t \in Token \cup {None} :
              Answer(c, status, t)
      BY <1>4, FreshOK DEF Serve, Forbid, Fail, ServeRefresh, ServeLogout, RefuseState,
         CompleteLogin
    <2>2. QED
      BY <1>1, <1>2, <2>1, AnswerServes
  <1>5. QED
    BY <1>3, <1>4

\* A new call joins those that are waited for.
LEMMA ArriveOK ==
  ASSUME SessionsTypeOK, NEW c \in Call, NEW request \in Request, Arrive(c, request)
  PROVE  /\ calls'[c] \in Served /\ calls'[c] # None /\ calls[c] = None
         /\ calls'[c].request = request /\ calls'[c].step = "arrived"
         /\ \A d \in Call \ {c} : calls'[d] = calls[d]
  <1> DEFINE new == [request |-> request, step |-> "arrived",
                     reply |-> [status |-> "ok", token |-> None]]
  <1>1. new \in Served
    BY DEF Served, Reply
  <1>2. calls[c] = None /\ calls' = [calls EXCEPT ![c] = new]
    BY DEF Arrive
  <1>3. QED
    BY <1>1, <1>2, NoneIsNoRecord DEF SessionsTypeOK

LEMMA LeaveOK ==
  ASSUME SessionsTypeOK, NEW c \in Call, Leave(c)
  PROVE  /\ calls[c] # None /\ calls[c] \in Served /\ calls[c].step = "answered"
         /\ calls'[c] = None /\ \A d \in Call \ {c} : calls'[d] = calls[d]
  BY DEF SessionsTypeOK, Leave, At

LEMMA SendCallOK ==
  ASSUME SessionsTypeOK, TransportInv, NEW op \in {"refresh", "logout"}, NEW header,
         NEW c \in Call, SendCall(c, op, header)
  PROVE  /\ [op |-> op, token |-> jar.refresh, allowed |-> Allowed(header, jar)] \in Request
         /\ calls'[c] \in Served /\ calls'[c] # None /\ calls[c] = None
         /\ calls'[c].request = [op |-> op, token |-> jar.refresh,
                                 allowed |-> Allowed(header, jar)]
         /\ calls'[c].step = "arrived" /\ Asks(c, op)'
         /\ \A d \in Call \ {c} : calls'[d] = calls[d]
  <1>1. jar \in Jar
    BY TransportTypes DEF TransportInv
  <1>2. [op |-> op, token |-> jar.refresh, allowed |-> Allowed(header, jar)] \in Request
    BY <1>1 DEF Jar, Request, Allowed
  <1>3. QED
    BY <1>2, ArriveOK DEF SendCall, Asks

LEMMA FollowCallbackOK ==
  ASSUME SessionsTypeOK, TransportInv, NEW s \in State, NEW c \in Call,
         Arrive(c, [op |-> "callback", state |-> s, binding |-> jar.login])
  PROVE  /\ [op |-> "callback", state |-> s, binding |-> jar.login] \in Request
         /\ calls'[c] # None /\ calls[c] = None
         /\ \A d \in Call \ {c} : calls'[d] = calls[d]
  <1>1. jar \in Jar
    BY TransportTypes DEF TransportInv
  <1>2. [op |-> "callback", state |-> s, binding |-> jar.login] \in Request
    BY <1>1 DEF Jar, Request
  <1>3. QED
    BY <1>2, ArriveOK

\* The page changes nothing of the API by itself.
Inside ==
    \/ \E r \in Req : RequestSettles(r) \/ \E kind \in Kind : Start(r, kind)
    \/ CsrfSettles \/ \E v \in 1..MaxRefreshes : RefreshLost(v)
    \/ ClickLogout \/ LogoutLost \/ Redirect \/ Reopen

\* The steps in which the browser and the API meet, or the API is alone.
LEMMA Disjuncts ==
  ASSUME BrowserNext
  PROVE  \/ Inside
         \/ \E v \in 1..MaxRefreshes : SendRefresh(v) \/ RefreshArrives(v)
         \/ SendLogout \/ LogoutArrives
         \/ \E c \in Call : \/ Serve(c) /\ UNCHANGED browserVars
                            \/ AnswerElsewhere(c) \/ Drop(c)
         \/ \E op \in {"refresh", "logout"} : OtherTab(op)
         \/ \E s \in State : \/ GoToGoogle(s) \/ FollowCallback(s)
                             \/ StateExpires(s) /\ UNCHANGED browserVars
         \/ AccessRunsOut
         \/ \E l \in Login : LoginLapses(l) /\ UNCHANGED browserVars
  BY DEF BrowserNext, Inside, CsrfSettles, RequestSettles, RefreshSettles, LogoutSettles,
         CallSettles

LEMMA InsideServesNobody == Inside => UNCHANGED sessionsVars
  BY DEF Inside, RequestSettles, CsrfSettles, RequestArrives, RequestLost, Start, CsrfArrives,
         CsrfFails, RefreshLost, ClickLogout, LogoutLost, Redirect, Reopen, sessionsVars

\* The call of a renewal that arrives is the page's own.
LEMMA RefreshCall ==
  ASSUME BrowserInv, NEW v \in 1..MaxRefreshes, refreshes[v].stage = "sent"
  PROVE  /\ refreshes[v].call \in Call \ elsewhere
         /\ calls[refreshes[v].call] # None /\ calls[refreshes[v].call] \in Served
         /\ Asks(refreshes[v].call, "refresh")
         /\ v = client.version
         /\ ~(logout.stage = "sent" /\ logout.call = refreshes[v].call)
  BY DEF BrowserInv, Waiters, TransportInv, LatestOnly, Underway, SessionsInv,
         SessionsTypeOK, Asks

LEMMA LogoutCall ==
  ASSUME BrowserInv, logout.stage = "sent"
  PROVE  /\ logout.call \in Call \ elsewhere
         /\ calls[logout.call] # None /\ calls[logout.call] \in Served
         /\ Asks(logout.call, "logout")
         /\ \A v \in 1..MaxRefreshes :
                ~(refreshes[v].stage = "sent" /\ refreshes[v].call = logout.call)
  BY DEF BrowserInv, Waiters, SessionsInv, SessionsTypeOK, Asks

\* Whatever the browser does is a step of the API, or none.
LEMMA BrowserIsACaller ==
  ASSUME BrowserInv, BrowserNext
  PROVE  [SessionsNext]_sessionsVars
  <1> SUFFICES ASSUME ~UNCHANGED sessionsVars PROVE SessionsNext
    OBVIOUS
  <1>1. SessionsTypeOK /\ TransportInv /\ elsewhere \subseteq Call /\ jar \in Jar
    BY TransportTypes DEF BrowserInv, SessionsInv, TransportInv
  <1>2. ASSUME NEW v \in 1..MaxRefreshes, SendRefresh(v) PROVE SessionsNext
    BY <1>1, <1>2, NextCallOK, SendCallOK DEF SendRefresh, SendCall, SessionsNext
  <1>3. ASSUME NEW v \in 1..MaxRefreshes, RefreshArrives(v) PROVE SessionsNext
    BY <1>3, RefreshCall DEF RefreshArrives, SessionsNext
  <1>4. CASE SendLogout
    BY <1>1, <1>4, NextCallOK, SendCallOK DEF SendLogout, SendCall, SessionsNext
  <1>5. CASE LogoutArrives
    BY <1>5, LogoutCall DEF LogoutArrives, SessionsNext
  <1>6. ASSUME NEW c \in Call, Serve(c) \/ AnswerElsewhere(c) \/ Drop(c) PROVE SessionsNext
    BY <1>6 DEF AnswerElsewhere, Drop, SessionsNext
  <1>7. ASSUME NEW op \in {"refresh", "logout"}, OtherTab(op) PROVE SessionsNext
    BY <1>1, <1>7, NextCallOK, SendCallOK DEF OtherTab, SendCall, SessionsNext
  <1>8. ASSUME NEW s \in State, GoToGoogle(s) \/ FollowCallback(s) \/ StateExpires(s)
        PROVE  SessionsNext
    <2>1. CASE GoToGoogle(s)
      BY <2>1 DEF GoToGoogle, SessionsNext
    <2>2. CASE FollowCallback(s)
      BY <1>1, <2>2, NextCallOK, FollowCallbackOK DEF FollowCallback, SessionsNext
    <2>3. CASE StateExpires(s)
      BY <2>3 DEF SessionsNext
    <2>4. QED
      BY <1>8, <2>1, <2>2, <2>3
  <1>9. CASE AccessRunsOut
    BY <1>1, <1>9 DEF AccessRunsOut, Jar, SessionsNext
  <1>10. ASSUME NEW l \in Login, LoginLapses(l) PROVE SessionsNext
    BY <1>10 DEF SessionsNext
  <1>11. QED
    BY <1>2, <1>3, <1>4, <1>5, <1>6, <1>7, <1>8, <1>9, <1>10, Disjuncts, InsideServesNobody

LEMMA InsideKeepsWaiters == ASSUME BrowserInv, Inside PROVE Waiters'
  <1>t. /\ Waiters /\ calls' = calls /\ elsewhere \subseteq Call
        /\ refreshes \in [1..MaxRefreshes -> Renewals]
    BY InsideServesNobody, TransportTypes DEF sessionsVars, BrowserInv, TransportInv
  <1>0. NoRefresh.stage = "none" /\ NoRefresh.call = None
        /\ [NoRefresh EXCEPT !.stage = "failed"].stage = "failed"
        /\ [NoRefresh EXCEPT !.stage = "failed"].call = None
        /\ NoLogout.stage = "none" /\ NoLogout.call = None
    BY DEF NoRefresh, NoLogout
  <1>1. ASSUME NEW r \in Req, RequestSettles(r) PROVE Waiters'
    <2>1. UNCHANGED <<logout, elsewhere>>
      BY <1>1 DEF RequestSettles, RequestArrives, RequestLost
    <2>2. \/ refreshes' = refreshes
          \/ Recover(r)
      BY <1>1, Arrivals DEF BrowserInv, RequestSettles, RequestLost, Succeeds, Fails
    <2>3. ASSUME NEW v \in 1..MaxRefreshes, Recover(r)
          PROVE  \/ refreshes'[v] = refreshes[v]
                 \/ refreshes'[v].stage # "sent" /\ refreshes'[v].call = None
      <3>1. LET new == [NoRefresh EXCEPT !.stage = "csrf", !.signal = client.generation]
            IN  new.stage = "csrf" /\ new.call = None
        BY DEF NoRefresh
      <3>2. CASE StartsRefresh(requests[r].version)
        <4>1. refreshes' = [u \in DOMAIN refreshes |->
                 IF u = client.version + 1
                 THEN [NoRefresh EXCEPT !.stage = "csrf", !.signal = client.generation]
                 ELSE IF refreshes[u].stage \in {"ok", "failed"} THEN NoRefresh
                 ELSE refreshes[u]]
          BY <2>3, <3>2 DEF Recover
        <4>2. QED
          BY <1>0, <1>t, <3>1, <4>1
      <3>3. CASE ~StartsRefresh(requests[r].version)
        BY <2>3, <3>3 DEF Recover
      <3>4. QED
        BY <3>2, <3>3
    <2>4. QED
      BY <1>t, <2>1, <2>2, <2>3, WaitersMove
  <1>2. ASSUME NEW r \in Req, NEW kind \in Kind, Start(r, kind) PROVE Waiters'
    BY <1>2, <1>t, WaitersMove DEF Start
  <1>3. CASE CsrfArrives
    <2>1. ASSUME NEW v \in 1..MaxRefreshes
          PROVE  \/ refreshes'[v] = refreshes[v]
                 \/ refreshes'[v].stage # "sent" /\ refreshes'[v].call = None
      <3> DEFINE token == client.csrf.binding
                 dropped == {u \in TokenAwaited : Aborted(refreshes[u].signal)}
      <3>1. refreshes' = [u \in DOMAIN refreshes |->
               CASE u \in dropped -> [NoRefresh EXCEPT !.stage = "failed"]
                 [] u \in TokenAwaited \ dropped ->
                        [refreshes[u] EXCEPT !.stage = "ready", !.header = token]
                 [] OTHER -> refreshes[u]]
        BY <1>3 DEF CsrfArrives
      <3> HIDE DEF dropped, token
      <3>2. CASE v \in TokenAwaited /\ v \notin dropped
        <4>1. refreshes[v].stage = "csrf" /\ refreshes[v] \in Renewals
              /\ refreshes[v].call = None
          BY <1>t, <3>2 DEF TokenAwaited, AwaitsToken, Waiters
        <4>2. refreshes'[v] = [refreshes[v] EXCEPT !.stage = "ready", !.header = token]
          BY <1>t, <3>1, <3>2
        <4>3. QED
          BY <4>1, <4>2 DEF Renewals
      <3>3. CASE v \in dropped
        BY <1>0, <1>t, <3>1, <3>3
      <3>4. CASE v \notin TokenAwaited /\ v \notin dropped
        BY <1>t, <3>1, <3>4
      <3>5. QED
        BY <3>2, <3>3, <3>4
    <2>2. logout' = logout \/ (logout'.stage # "sent" /\ logout'.call = None)
      <3>1. CASE logout.stage = "csrf"
        <4>1. logout.call = None /\ logout \in Logouts
          BY <1>t, <3>1, TransportTypes DEF Waiters, BrowserInv, TransportInv
        <4>2. logout' = [logout EXCEPT !.stage = "ready", !.header = client.csrf.binding]
          BY <1>3, <3>1 DEF CsrfArrives
        <4>3. QED
          BY <4>1, <4>2 DEF Logouts
      <3>2. CASE logout.stage # "csrf"
        BY <1>3, <3>2 DEF CsrfArrives
      <3>3. QED
        BY <3>1, <3>2
    <2>3. elsewhere' = elsewhere
      BY <1>3 DEF CsrfArrives
    <2>4. QED
      BY <1>t, <2>1, <2>2, <2>3, WaitersMove
  <1>4. CASE CsrfFails
    <2>1. ASSUME NEW v \in 1..MaxRefreshes
          PROVE  \/ refreshes'[v] = refreshes[v]
                 \/ refreshes'[v].stage # "sent" /\ refreshes'[v].call = None
      BY <1>0, <1>4, <1>t DEF CsrfFails
    <2>2. logout' = logout \/ (logout'.stage # "sent" /\ logout'.call = None)
      BY <1>0, <1>4 DEF CsrfFails
    <2>3. elsewhere' = elsewhere
      BY <1>4 DEF CsrfFails
    <2>4. QED
      BY <1>t, <2>1, <2>2, <2>3, WaitersMove
  <1>5. ASSUME NEW v \in 1..MaxRefreshes, RefreshLost(v) PROVE Waiters'
    <2>1. ASSUME NEW u \in 1..MaxRefreshes
          PROVE  \/ refreshes'[u] = refreshes[u]
                 \/ refreshes'[u].stage # "sent" /\ refreshes'[u].call = None
      BY <1>0, <1>5, <1>t DEF RefreshLost, FailRefresh
    <2>2. QED
      BY <1>5, <1>t, <2>1, WaitersMove DEF RefreshLost
  <1>6. CASE ClickLogout
    <2>1. logout'.stage # "sent" /\ logout'.call = None
      BY <1>6 DEF ClickLogout, NoLogout
    <2>2. QED
      BY <1>6, <1>t, <2>1, WaitersMove DEF ClickLogout
  <1>7. CASE LogoutLost
    BY <1>0, <1>7, <1>t, WaitersMove DEF LogoutLost
  <1>8. CASE Redirect
    BY <1>8, <1>t, WaitersMove DEF Redirect
  <1>9. CASE Reopen
    <2>1. \A v \in 1..MaxRefreshes : refreshes'[v] = NoRefresh
      BY <1>9 DEF Reopen
    <2>2. logout' = NoLogout /\ elsewhere' = elsewhere
      BY <1>9 DEF Reopen
    <2>3. QED
      BY <1>0, <1>t, <2>1, <2>2, WaitersMove
  <1>10. QED
    BY <1>1, <1>2, <1>3, <1>4, <1>5, <1>6, <1>7, <1>8, <1>9 DEF Inside, CsrfSettles

LEMMA WaitersKept == ASSUME BrowserInv, [BrowserNext]_vars PROVE Waiters'
  <1>t. /\ Waiters /\ elsewhere \subseteq Call /\ SessionsTypeOK /\ TransportInv
        /\ refreshes \in [1..MaxRefreshes -> Renewals] /\ logout \in Logouts
    BY TransportTypes DEF BrowserInv, TransportInv, SessionsInv
  <1>0. CASE UNCHANGED vars
    BY <1>0, <1>t, WaitersMove DEF vars, sessionsVars, browserVars
  <1>1. CASE Inside
    BY <1>1, InsideKeepsWaiters
  <1>2. ASSUME NEW v \in 1..MaxRefreshes, SendRefresh(v) PROVE Waiters'
    <2>1. PICK c \in Call : c = NextCall /\ SendCall(c, "refresh", refreshes[v].header)
      BY <1>2, NextCallOK DEF SendRefresh
    <2>2. /\ calls[c] = None /\ calls'[c] # None /\ Asks(c, "refresh")'
          /\ \A d \in Call \ {c} : calls'[d] = calls[d]
      BY <1>t, <2>1, SendCallOK
    <2>3. /\ refreshes[v].stage = "ready"
          /\ refreshes' = [refreshes EXCEPT ![v].stage = "sent", ![v].call = c]
          /\ UNCHANGED <<logout, elsewhere>>
      BY <1>2, <2>1 DEF SendRefresh
    <2>4. refreshes'[v].call = c /\ refreshes'[v].stage = "sent"
      BY <1>t, <2>3 DEF Renewals
    <2>5. \A u \in (1..MaxRefreshes) \ {v} : refreshes'[u] = refreshes[u]
      BY <1>t, <2>3
    <2>6. c \notin elsewhere
      BY <1>t, <2>2 DEF Waiters
    <2>7. QED
      BY <1>t, <2>1, <2>2, <2>3, <2>4, <2>5, <2>6 DEF Waiters, Asks
  <1>3. ASSUME NEW v \in 1..MaxRefreshes, RefreshArrives(v) PROVE Waiters'
    <2> DEFINE c == refreshes[v].call
    <2>1. refreshes[v].stage = "sent" /\ Leave(c) /\ UNCHANGED <<logout, elsewhere>>
      BY <1>3 DEF RefreshArrives
    <2>2. c \in Call \ elsewhere /\ ~(logout.stage = "sent" /\ logout.call = c)
          /\ v = client.version
      BY <2>1, RefreshCall
    <2>3. \A d \in Call \ {c} : calls'[d] = calls[d]
      BY <1>t, <2>1, <2>2, LeaveOK
    <2>4. \E stage \in {"ok", "failed"} :
              refreshes' = [refreshes EXCEPT ![v] = [NoRefresh EXCEPT !.stage = stage]]
      BY <1>3 DEF RefreshArrives, FailRefresh
    <2>5. refreshes'[v].stage # "sent" /\ refreshes'[v].call = None
          /\ \A u \in (1..MaxRefreshes) \ {v} :
                 refreshes'[u] = refreshes[u] /\ refreshes[u].stage # "sent"
      BY <1>t, <2>2, <2>4 DEF NoRefresh, TransportInv, LatestOnly, Underway
    <2>6. QED
      BY <1>t, <2>1, <2>2, <2>3, <2>5, WaitersMove
  <1>4. CASE SendLogout
    <2>1. PICK c \in Call : c = NextCall /\ SendCall(c, "logout", logout.header)
      BY <1>4, NextCallOK DEF SendLogout
    <2>2. /\ calls[c] = None /\ calls'[c] # None /\ Asks(c, "logout")'
          /\ \A d \in Call \ {c} : calls'[d] = calls[d]
      BY <1>t, <2>1, SendCallOK
    <2>3. /\ logout' = [logout EXCEPT !.stage = "sent", !.call = c]
          /\ UNCHANGED <<refreshes, elsewhere>>
      BY <1>4, <2>1 DEF SendLogout
    <2>4. logout'.call = c /\ logout'.stage = "sent"
      BY <1>t, <2>3 DEF Logouts
    <2>5. c \notin elsewhere
      BY <1>t, <2>2 DEF Waiters
    <2>6. QED
      BY <1>t, <2>1, <2>2, <2>3, <2>4, <2>5 DEF Waiters, Asks
  <1>5. CASE LogoutArrives
    <2> DEFINE c == logout.call
    <2>1. logout.stage = "sent" /\ Leave(c) /\ UNCHANGED <<refreshes, elsewhere>>
      BY <1>5 DEF LogoutArrives
    <2>2. /\ c \in Call \ elsewhere
          /\ \A v \in 1..MaxRefreshes : ~(refreshes[v].stage = "sent" /\ refreshes[v].call = c)
      BY <2>1, LogoutCall
    <2>3. \A d \in Call \ {c} : calls'[d] = calls[d]
      BY <1>t, <2>1, <2>2, LeaveOK
    <2>4. logout'.stage # "sent" /\ logout'.call = None
      BY <1>5 DEF LogoutArrives, NoLogout
    <2>5. QED
      BY <1>t, <2>1, <2>2, <2>3, <2>4, WaitersMove
  <1>6. ASSUME NEW c \in Call, Serve(c), UNCHANGED browserVars PROVE Waiters'
    BY <1>6, <1>t, ServeServes, WaitersMove DEF browserVars, BrowserInv
  <1>7. ASSUME NEW c \in Call, AnswerElsewhere(c) PROVE Waiters'
    <2>1. /\ c \in elsewhere /\ Leave(c) /\ elsewhere' = elsewhere \ {c}
          /\ UNCHANGED <<refreshes, logout>>
      BY <1>7 DEF AnswerElsewhere
    <2>2. \A d \in Call \ {c} : calls'[d] = calls[d]
      BY <1>t, <2>1, LeaveOK
    <2>3. /\ ~(logout.stage = "sent" /\ logout.call = c)
          /\ \A v \in 1..MaxRefreshes : ~(refreshes[v].stage = "sent" /\ refreshes[v].call = c)
      BY <1>t, <2>1 DEF Waiters
    <2>4. QED
      BY <1>t, <2>1, <2>2, <2>3, WaitersMove
  <1>8. ASSUME NEW c \in Call, Drop(c) PROVE Waiters'
    <2>1. /\ c \notin elsewhere /\ c # logout.call
          /\ \A v \in 1..MaxRefreshes : c # refreshes[v].call
          /\ Leave(c) /\ UNCHANGED browserVars
      BY <1>8, <1>t DEF Drop
    <2>2. \A d \in Call \ {c} : calls'[d] = calls[d]
      BY <1>t, <2>1, LeaveOK
    <2>3. QED
      BY <1>t, <2>1, <2>2, WaitersMove DEF browserVars
  <1>9. ASSUME NEW c \in Call, calls[c] = None, calls'[c] # None,
               \A d \in Call \ {c} : calls'[d] = calls[d],
               elsewhere' = elsewhere \cup {c}, UNCHANGED <<refreshes, logout>>
        PROVE  Waiters'
    <2>1. /\ \A v \in 1..MaxRefreshes : refreshes[v].stage = "sent" => refreshes[v].call # c
          /\ logout.stage = "sent" => logout.call # c
      BY <1>9, <1>t DEF Waiters
    <2>2. QED
      BY <1>9, <1>t, <2>1 DEF Waiters, Asks
  <1>10. ASSUME NEW op \in {"refresh", "logout"}, OtherTab(op) PROVE Waiters'
    BY <1>10, <1>9, <1>t, NextCallOK, SendCallOK DEF OtherTab
  <1>11. ASSUME NEW s \in State, FollowCallback(s) PROVE Waiters'
    BY <1>11, <1>9, <1>t, NextCallOK, FollowCallbackOK DEF FollowCallback
  <1>12. ASSUME NEW s \in State, GoToGoogle(s) PROVE Waiters'
    BY <1>12, <1>t, WaitersMove DEF GoToGoogle
  <1>13. ASSUME NEW s \in State, StateExpires(s), UNCHANGED browserVars PROVE Waiters'
    BY <1>13, <1>t, WaitersMove DEF StateExpires, browserVars
  <1>14. CASE AccessRunsOut
    BY <1>14, <1>t, WaitersMove DEF AccessRunsOut, AccessExpires, browserVars
  <1>15. ASSUME NEW l \in Login, LoginLapses(l), UNCHANGED browserVars PROVE Waiters'
    BY <1>15, <1>t, WaitersMove DEF LoginLapses, browserVars
  <1>16. QED
    BY <1>0, <1>1, <1>2, <1>3, <1>4, <1>5, <1>6, <1>7, <1>8, <1>10, <1>11, <1>12, <1>13,
       <1>14, <1>15, Disjuncts

LEMMA TransportKept == ASSUME BrowserInv, [BrowserNext]_vars PROVE TransportInv'
  <1>t. /\ jar \in Jar /\ drawn \in Nat /\ elsewhere \subseteq Call /\ acts \in Acts
        /\ SessionsTypeOK /\ TransportInv
    BY TransportTypes DEF BrowserInv, TransportInv, SessionsInv
  <1>0. CASE UNCHANGED browserVars
    BY <1>0, <1>t, AloofKeeps DEF browserVars
  <1>1. CASE Inside
    BY <1>1, <1>t, RequestArrivesKeeps, RequestLostKeeps, StartKeeps, CsrfArrivesKeeps,
       CsrfFailsKeeps, RefreshLostKeeps, ClickLogoutKeeps, LogoutLostKeeps, RedirectKeeps,
       ReopenKeeps DEF Inside, RequestSettles, CsrfSettles
  <1>2. ASSUME NEW v \in 1..MaxRefreshes, SendRefresh(v) PROVE TransportInv'
    BY <1>2, <1>t, SendRefreshKeeps
  <1>3. ASSUME NEW v \in 1..MaxRefreshes, RefreshArrives(v) PROVE TransportInv'
    <2>1. refreshes[v].stage = "sent"
      BY <1>3 DEF RefreshArrives
    <2>2. calls[refreshes[v].call].reply \in Reply
      BY <2>1, RefreshCall DEF Served
    <2>3. QED
      BY <1>3, <1>t, <2>2, RefreshArrivesKeeps
  <1>4. CASE SendLogout
    BY <1>4, <1>t, SendLogoutKeeps
  <1>5. CASE LogoutArrives
    BY <1>5, <1>t, LogoutArrivesKeeps
  <1>6. ASSUME NEW c \in Call, AnswerElsewhere(c) PROVE TransportInv'
    <2>1. /\ jar' = SetCookies(c) /\ drawn' \in {drawn, drawn + 1} /\ elsewhere' \subseteq Call
          /\ UNCHANGED <<page, client, refreshes, requests, logout, acts>> /\ Leave(c)
      BY <1>6, <1>t DEF AnswerElsewhere
    <2>2. calls[c].reply.token \in Token \cup {None}
      BY <1>t, <2>1, LeaveOK DEF Served, Reply
    <2>3. jar' \in Jar
      <3> DEFINE new == [jar EXCEPT !.access = calls[c].reply.token,
                                    !.refresh = calls[c].reply.token]
      <3>1. new \in Jar /\ [jar EXCEPT !.login = None] \in Jar /\ LoggedOut(jar) \in Jar
        BY <1>t, <2>2 DEF Jar, LoggedOut
      <3>2. [new EXCEPT !.login = None, !.binding = drawn + 1, !.csrf = drawn + 1] \in Jar
        <4>1. drawn + 1 \in Nat
          BY <1>t
        <4> HIDE DEF new
        <4>2. QED
          BY <3>1, <4>1 DEF Jar
      <3>3. QED
        BY <1>t, <2>1, <3>1, <3>2 DEF SetCookies
    <2>4. QED
      BY <1>t, <2>1, <2>3, AloofKeeps
  <1>7. ASSUME NEW op \in {"refresh", "logout"}, OtherTab(op) PROVE TransportInv'
    BY <1>7, <1>t, NextCallOK, ElsewhereOK, AloofKeeps DEF OtherTab
  <1>8. ASSUME NEW s \in State, FollowCallback(s) PROVE TransportInv'
    BY <1>8, <1>t, NextCallOK, ElsewhereOK, AloofKeeps DEF FollowCallback
  <1>9. ASSUME NEW s \in State, GoToGoogle(s) PROVE TransportInv'
    <2>1. jar' \in Jar
      BY <1>9, <1>t DEF GoToGoogle, Jar
    <2>2. QED
      BY <1>9, <1>t, <2>1, ElsewhereOK, AloofKeeps DEF GoToGoogle
  <1>10. QED
    BY <1>0, <1>1, <1>2, <1>3, <1>4, <1>5, <1>6, <1>7, <1>8, <1>9, Disjuncts
       DEF vars, Drop, AccessRunsOut

LEMMA BrowserInitOK == BrowserInit => BrowserInv
  <1> SUFFICES ASSUME BrowserInit PROVE BrowserInv
    OBVIOUS
  <1>1. FirstToken \in Token /\ FirstLogin \in Login /\ FirstState \in State
    BY FS_EmptySet, BrowserClientAssumption DEF FirstToken, FirstLogin, FirstState
  <1> DEFINE first == [login |-> FirstLogin, until |-> FirstLogin, parent |-> None,
                       state |-> FirstState]
  <1>2. first \in Claims /\ first # None
    BY <1>1, NoneIsNoRecord DEF Claims
  <1>3. /\ tokens = [t \in Token |-> IF t = FirstToken THEN first ELSE None]
        /\ row = [token |-> FirstToken, until |-> FirstLogin]
        /\ stale = {} /\ lapsed = {} /\ ended = {}
        /\ oauth = [s \in State |-> IF s = FirstState THEN "used" ELSE "unused"]
        /\ calls = [c \in Call |-> None]
    BY DEF BrowserInit
  <1>4. Issued = {FirstToken} /\ tokens[FirstToken] = first
    BY <1>1, <1>2, <1>3 DEF Issued
  <1>5. SessionsTypeOK
    BY <1>1, <1>2, <1>3, <1>4 DEF SessionsTypeOK
  <1>6. /\ Descends /\ RowIsNewest /\ OverWereLogins /\ StatesUsedUp
        /\ LogoutEndsLogin /\ RotatedOnce /\ StateSignsInOnce
    <2>1. FirstToken # None
      BY <1>1, SessionsAssumption
    <2>2. QED
      BY <1>1, <1>3, <1>4, <2>1 DEF Descends, RowIsNewest, OverWereLogins, StatesUsedUp,
         LogoutEndsLogin, RotatedOnce, StateSignsInOnce, At
  <1>7. QED
    BY <1>5, <1>6, TransportInit, WaitersInit DEF BrowserInv, SessionsInv

LEMMA BrowserStep == BrowserInv /\ [BrowserNext]_vars => BrowserInv'
  <1>1. ASSUME BrowserInv, [BrowserNext]_vars PROVE BrowserInv'
    <2>1. [SessionsNext]_sessionsVars
      BY <1>1, BrowserIsACaller DEF vars
    <2>2. QED
      BY <1>1, <2>1, StepKeeps, TransportKept, WaitersKept DEF BrowserInv
  <1>2. QED
    BY <1>1

THEOREM BrowserInvariance == BrowserSpec => []BrowserInv
  BY BrowserInitOK, BrowserStep, PTL DEF BrowserSpec

-----------------------------------------------------------------------------
(* Who waits, waits for the renewal under way *)

Awaiting(q) == q.stage \in {"waiting", "recovering"}

\* Every request that waits has joined the last renewal, which is under way.
Joined ==
    \A r \in Req : Awaiting(requests[r]) =>
        requests[r].version = client.version /\ client.refreshing

\* A renewal that awaits its token is tied to the controller in force: it is
\* dropped only together with those who wait.
TokenTied ==
    \A v \in 1..MaxRefreshes : AwaitsToken(v) =>
        refreshes[v].signal = client.generation

\* What became of the last renewal is kept for those who are refused late.
LastKept == client.version # 0 => refreshes[client.version].stage # "none"

Sharing == Joined /\ TokenTied /\ LastKept

LEMMA SharingInit == BrowserInit => Sharing
  BY DEF BrowserInit, NewClient, NoRefresh, Idle, Sharing, Joined, TokenTied, LastKept,
         Awaiting, AwaitsToken

LEMMA SharingStays ==
  ASSUME Sharing, client'.version = client.version, client'.generation = client.generation,
         client'.refreshing = client.refreshing, UNCHANGED refreshes,
         \A r \in Req : Awaiting(requests'[r]) =>
             \/ requests'[r] = requests[r]
             \/ requests'[r].version = client.version /\ client.refreshing
  PROVE  Sharing'
  BY DEF Sharing, Joined, TokenTied, LastKept, AwaitsToken

LEMMA SharingEnds ==
  ASSUME \A v \in 1..MaxRefreshes : ~Underway(refreshes'[v]),
         \A r \in Req : ~Awaiting(requests'[r]),
         client'.version # 0 => refreshes'[client'.version].stage # "none"
  PROVE  Sharing'
  BY DEF Sharing, Joined, TokenTied, LastKept, AwaitsToken, Underway

LEMMA IdleRests == ~Awaiting(Idle("idle")) /\ ~Awaiting(Idle("done"))
  BY DEF Idle, Awaiting

LEMMA DispatchJoins ==
  ASSUME NEW q \in Requests, Awaiting(Dispatch(q))
  PROVE  Dispatch(q).version = client.version /\ client.refreshing
  <1> DEFINE tied == [q EXCEPT !.signal = client.generation]
  <1>1. ~client.signingOut
    BY IdleRests DEF Dispatch
  <1>2. Sent(tied, jar).stage = "sent"
    BY DEF Sent, Requests
  <1>3. client.refreshing
    BY <1>1, <1>2 DEF Dispatch, Awaiting
  <1>4. Dispatch(q) = [tied EXCEPT !.stage = "waiting", !.version = client.version]
    BY <1>1, <1>3 DEF Dispatch
  <1>5. QED
    BY <1>3, <1>4 DEF Requests

LEMMA GoesOnLeaves == ASSUME NEW q \in Requests, NEW cookies PROVE ~Awaiting(GoesOn(q, cookies))
  <1>1. Sent(q, cookies).stage = "sent"
    BY DEF Sent, Requests
  <1>2. [q EXCEPT !.stage = "resent", !.status = Status(q, cookies)].stage = "resent"
    BY DEF Requests
  <1>3. QED
    BY <1>1, <1>2, IdleRests DEF GoesOn, Awaiting

LEMMA StartShares ==
  ASSUME TransportInv, Sharing, NEW r \in Req, NEW kind \in Kind, Start(r, kind)
  PROVE  Sharing'
  <1> DEFINE q == [Idle("csrf") EXCEPT !.kind = kind, !.signal = client.generation,
                                       !.epoch = acts.logouts]
  <1>t. /\ jar \in Jar /\ drawn \in Nat /\ client \in Clients /\ acts \in Acts
        /\ requests \in [Req -> Requests]
    BY TransportTypes DEF TransportInv
  <1>1. q \in Requests /\ q.stage = "csrf"
    BY <1>t DEF Idle, Requests, Clients, Acts
  <1>2. UNCHANGED refreshes
    BY DEF Start
  <1>3. CASE kind \in Mutation
    <2>1. requests' = [requests EXCEPT ![r] = q] /\ client' = AskCsrf(client)
      BY <1>3 DEF Start
    <2> HIDE DEF q
    <2>2. /\ client' \in Clients /\ client' = [client EXCEPT !.csrf = client'.csrf]
          /\ client.csrf # None => client' = client
      BY <1>t, <2>1, AskCsrfOK DEF AskCsrf
    <2>3. /\ client'.version = client.version /\ client'.generation = client.generation
          /\ client'.refreshing = client.refreshing
      BY <1>t, <2>2 DEF Clients
    <2>4. \A u \in Req : Awaiting(requests'[u]) => requests'[u] = requests[u]
      BY <1>1, <1>t, <2>1 DEF Awaiting
    <2>5. QED
      BY <1>2, <2>2, <2>3, <2>4, SharingStays
  <1>4. CASE kind \notin Mutation
    <2>1. requests' = [requests EXCEPT ![r] = Dispatch(q)] /\ UNCHANGED client
      BY <1>4 DEF Start
    <2> HIDE DEF q
    <2>2. \A u \in Req : Awaiting(requests'[u]) =>
             \/ requests'[u] = requests[u]
             \/ requests'[u].version = client.version /\ client.refreshing
      BY <1>1, <1>t, <2>1, DispatchJoins
    <2>3. QED
      BY <1>2, <2>1, <2>2, SharingStays
  <1>5. QED
    BY <1>3, <1>4

LEMMA CsrfArrivesShares == ASSUME TransportInv, Sharing, CsrfArrives PROVE Sharing'
  <1> DEFINE token == client.csrf.binding
             dropped == {v \in TokenAwaited : Aborted(refreshes[v].signal)}
  <1>t. /\ client \in Clients /\ requests \in [Req -> Requests]
        /\ refreshes \in [1..MaxRefreshes -> Renewals]
    BY TransportTypes DEF TransportInv
  <1>1. /\ client.csrf # None
        /\ requests' = [r \in Req |->
               LET q == requests[r]
               IN  CASE q.stage = "csrf" ->
                          IF Aborted(q.signal) THEN Idle("idle")
                          ELSE LET d == Dispatch([q EXCEPT !.header = token])
                               IN  IF d.stage = "sent" THEN Sent(d, jar') ELSE d
                     [] q.stage \in {"waiting", "recovering"} /\ q.version \in dropped ->
                          Idle("idle")
                     [] OTHER -> q]
        /\ refreshes' = [v \in DOMAIN refreshes |->
               CASE v \in dropped -> [NoRefresh EXCEPT !.stage = "failed"]
                 [] v \in TokenAwaited \ dropped ->
                        [refreshes[v] EXCEPT !.stage = "ready", !.header = token]
                 [] OTHER -> refreshes[v]]
        /\ client' = [client EXCEPT !.csrf = None,
                                    !.refreshing = @ /\ dropped = {}]
    BY DEF CsrfArrives
  <1>2. /\ client'.refreshing = (client.refreshing /\ dropped = {})
        /\ client'.version = client.version /\ client.version \in 0..MaxRefreshes
        /\ token \in Nat
    BY <1>1, <1>t DEF Clients
  <1>3. \A v \in 1..MaxRefreshes :
            /\ refreshes'[v].stage = IF v \in dropped THEN "failed"
                                     ELSE IF AwaitsToken(v) THEN "ready"
                                     ELSE refreshes[v].stage
    <2> SUFFICES ASSUME NEW v \in 1..MaxRefreshes
                 PROVE  refreshes'[v].stage = IF v \in dropped THEN "failed"
                                              ELSE IF AwaitsToken(v) THEN "ready"
                                              ELSE refreshes[v].stage
      OBVIOUS
    <2> HIDE DEF dropped, token
    <2>1. refreshes[v] \in Renewals /\ (v \in TokenAwaited <=> AwaitsToken(v))
      BY <1>t DEF TokenAwaited
    <2>2. CASE v \in dropped
      BY <1>1, <1>t, <2>2 DEF NoRefresh
    <2>3. CASE v \notin dropped /\ AwaitsToken(v)
      <3>1. refreshes'[v] = [refreshes[v] EXCEPT !.stage = "ready", !.header = token]
        BY <1>1, <1>t, <2>1, <2>3
      <3>2. QED
        BY <2>1, <2>3, <3>1 DEF Renewals
    <2>4. CASE v \notin dropped /\ ~AwaitsToken(v)
      BY <1>1, <1>t, <2>1, <2>4
    <2>5. QED
      BY <2>2, <2>3, <2>4
  <1>4. TokenTied' /\ LastKept'
    <2>1. ASSUME NEW v \in 1..MaxRefreshes
          PROVE  /\ refreshes'[v].stage # "csrf"
                 /\ refreshes[v].stage # "none" => refreshes'[v].stage # "none"
      <3>1. v \in dropped => AwaitsToken(v)
        BY DEF TokenAwaited
      <3> HIDE DEF dropped
      <3>2. QED
        BY <1>3, <3>1 DEF AwaitsToken
    <2>2. QED
      BY <1>2, <2>1 DEF Sharing, TokenTied, LastKept, AwaitsToken
  <1>5. dropped # {} => client.cut /\ client.version \in dropped
    BY DEF TokenAwaited, Sharing, TokenTied, Aborted, TransportInv, LatestOnly, Underway,
           AwaitsToken
  <1>6. ASSUME NEW r \in Req, Awaiting(requests'[r])
        PROVE  requests'[r].version = client'.version /\ client'.refreshing
    <2> DEFINE q == requests[r]
               d == Dispatch([q EXCEPT !.header = token])
    <2>1. q \in Requests /\ [q EXCEPT !.header = token] \in Requests
      BY <1>2, <1>t DEF Requests
    <2>2. CASE q.stage = "csrf"
      <3>1. CASE Aborted(q.signal)
        BY <1>1, <1>6, <2>2, <3>1, IdleRests
      <3>2. CASE ~Aborted(q.signal)
        <4>1. dropped = {}
          BY <1>5, <3>2 DEF Aborted
        <4>2. requests'[r] = IF d.stage = "sent" THEN Sent(d, jar') ELSE d
          BY <1>1, <2>2, <3>2
        <4> HIDE DEF dropped, token
        <4>3. d.stage = "sent" => ~Awaiting(Sent(d, jar'))
          <5>1. d.stage = "sent" => d \in Requests
            <6>1. /\ ~client.ended /\ [q EXCEPT !.header = token].epoch = acts.logouts
              BY <2>1, <2>2, <3>2 DEF TransportInv, RequestsOK, RequestOK, Resting, Alive,
                 Aborted, Requests
            <6>2. QED
              BY <2>1, <6>1, DispatchOK
          <5>2. QED
            BY <5>1 DEF Sent, Requests, Awaiting
        <4>4. d.stage # "sent" /\ requests'[r] = d
          BY <1>6, <4>2, <4>3
        <4>5. d.version = client.version /\ client.refreshing
          BY <1>6, <2>1, <4>4, DispatchJoins
        <4>6. QED
          BY <1>2, <4>1, <4>4, <4>5
      <3>3. QED
        BY <3>1, <3>2
    <2>3. CASE Awaiting(q)
      <3>1. q.version = client.version /\ client.refreshing
        BY <2>3 DEF Sharing, Joined
      <3>2. dropped = {}
        <4> SUFFICES ASSUME dropped # {} PROVE FALSE
          OBVIOUS
        <4>1. q.version \in dropped /\ q.stage \in {"waiting", "recovering"}
          BY <1>5, <2>3, <3>1 DEF Awaiting
        <4> HIDE DEF dropped, token
        <4>2. requests'[r] = Idle("idle")
          BY <1>1, <4>1
        <4>3. QED
          BY <1>6, <4>2, IdleRests
      <3> HIDE DEF dropped, token
      <3>3. requests'[r] = q
        BY <1>1, <2>3, <3>2 DEF Awaiting
      <3>4. QED
        BY <1>2, <3>1, <3>2, <3>3
    <2>4. CASE q.stage # "csrf" /\ ~Awaiting(q)
      <3> HIDE DEF dropped, token
      <3>1. requests'[r] = q
        BY <1>1, <2>4 DEF Awaiting
      <3>2. QED
        BY <1>6, <2>4, <3>1
    <2>5. QED
      BY <2>2, <2>3, <2>4
  <1>7. Joined'
    BY <1>6 DEF Joined
  <1>8. QED
    BY <1>4, <1>7 DEF Sharing

LEMMA CsrfFailsShares == ASSUME TransportInv, Sharing, CsrfFails PROVE Sharing'
  <1> DEFINE idle == [client EXCEPT !.csrf = None, !.refreshing = @ /\ TokenAwaited = {}]
  <1>t. /\ client \in Clients /\ requests \in [Req -> Requests]
        /\ refreshes \in [1..MaxRefreshes -> Renewals]
        /\ client.refreshing <=> \E v \in 1..MaxRefreshes : Underway(refreshes[v])
    BY TransportTypes DEF TransportInv
  <1>1. /\ refreshes' = [v \in DOMAIN refreshes |->
               IF AwaitsToken(v) THEN [NoRefresh EXCEPT !.stage = "failed"] ELSE refreshes[v]]
        /\ client' = Resume(idle) \/ client' = idle
        /\ requests' = [r \in Req |->
               IF \/ requests[r].stage = "csrf"
                  \/ requests[r].stage \in {"waiting", "recovering"}
                         /\ requests[r].version \in TokenAwaited
               THEN Idle("idle") ELSE requests[r]]
    BY DEF CsrfFails
  <1>2. /\ client'.version = client.version /\ client.version \in 0..MaxRefreshes
        /\ client'.refreshing = (client.refreshing /\ TokenAwaited = {})
    <2>1. /\ idle \in Clients /\ idle.version = client.version
          /\ idle.refreshing = (client.refreshing /\ TokenAwaited = {})
      BY <1>t DEF Clients
    <2> HIDE DEF idle
    <2>2. QED
      BY <1>1, <1>t, <2>1, ResumeOK DEF Clients
  <1>3. \A v \in 1..MaxRefreshes :
            refreshes'[v].stage = IF AwaitsToken(v) THEN "failed" ELSE refreshes[v].stage
    BY <1>1, <1>t DEF NoRefresh
  <1>4. TokenTied' /\ LastKept'
    BY <1>2, <1>3 DEF Sharing, TokenTied, LastKept, AwaitsToken
  <1>5. TokenAwaited # {} => client.version \in TokenAwaited
    BY DEF TokenAwaited, AwaitsToken, TransportInv, LatestOnly, Underway
  <1>6. ASSUME NEW r \in Req, Awaiting(requests'[r])
        PROVE  requests'[r].version = client'.version /\ client'.refreshing
    <2>1. requests'[r] = requests[r]
      BY <1>1, <1>6, IdleRests
    <2>2. requests[r].version = client.version /\ client.refreshing
      BY <1>6, <2>1 DEF Sharing, Joined
    <2>3. requests[r].version \notin TokenAwaited
      <3>1. requests[r].version \in TokenAwaited => requests'[r] = Idle("idle")
        BY <1>1, <1>6, <2>1 DEF Awaiting
      <3>2. QED
        BY <1>6, <3>1, IdleRests
    <2>4. QED
      BY <1>2, <1>5, <2>1, <2>2, <2>3
  <1>7. Joined'
    BY <1>6 DEF Joined
  <1>8. QED
    BY <1>4, <1>7 DEF Sharing

LEMMA RecoverShares ==
  ASSUME TransportInv, Sharing, NEW r \in Req, requests[r].stage = "sent", Recover(r)
  PROVE  Sharing'
  <1> DEFINE q == requests[r]
             v == client.version + 1
  <1>t. /\ jar \in Jar /\ drawn \in Nat /\ client \in Clients
        /\ refreshes \in [1..MaxRefreshes -> Renewals] /\ requests \in [Req -> Requests]
        /\ client.refreshing <=> \E u \in 1..MaxRefreshes : Underway(refreshes[u])
    BY TransportTypes DEF TransportInv
  <1>1. q \in Requests /\ RequestOK(q, client, acts.logouts)
    BY <1>t DEF TransportInv, RequestsOK
  <1>2. client.version \in 0..MaxRefreshes /\ client.version \in Nat
        /\ client.generation \in Nat
    BY <1>t, Bounds DEF Clients
  <1>3. CASE StartsRefresh(q.version)
    <2>1. /\ client.version < MaxRefreshes
          /\ client' = [AskCsrf(client) EXCEPT !.version = v, !.refreshing = TRUE]
          /\ refreshes' = [u \in DOMAIN refreshes |->
                 IF u = v
                 THEN [NoRefresh EXCEPT !.stage = "csrf", !.signal = client.generation]
                 ELSE IF refreshes[u].stage \in {"ok", "failed"} THEN NoRefresh
                 ELSE refreshes[u]]
          /\ requests' = [requests EXCEPT ![r].stage = "recovering", ![r].version = v,
                                          ![r].status = "none"]
      BY <1>3 DEF Recover
    <2>2. ~client.refreshing
      <3>1. CASE client.version = 0
        BY <1>t, <3>1, Bounds DEF TransportInv, LatestOnly
      <3>2. CASE q.version = client.version
        BY <1>1, <3>2 DEF RequestOK
      <3>3. QED
        BY <1>3, <3>1, <3>2 DEF StartsRefresh
    <2>3. v \in 1..MaxRefreshes /\ v \in 0..MaxRefreshes
      BY <1>2, <2>1, Bounds
    <2> HIDE DEF v
    <2>4. /\ AskCsrf(client) \in Clients
          /\ AskCsrf(client) = [client EXCEPT !.csrf = AskCsrf(client).csrf]
      BY <1>t, AskCsrfOK
    <2>5. /\ client'.refreshing = TRUE /\ client'.version = v
          /\ client'.generation = client.generation
      BY <1>t, <2>1, <2>3, <2>4 DEF Clients
    <2>6. \A u \in 1..MaxRefreshes :
              refreshes'[u].stage = "csrf" => refreshes'[u].signal = client.generation
      <3>1. \A u \in 1..MaxRefreshes : ~Underway(refreshes[u])
        BY <1>t, <2>2
      <3>2. [NoRefresh EXCEPT !.stage = "csrf", !.signal = client.generation].signal
                = client.generation
            /\ NoRefresh.stage # "csrf"
        BY DEF NoRefresh
      <3>3. QED
        BY <1>t, <2>1, <3>1, <3>2 DEF Underway
    <2>7. refreshes'[v].stage = "csrf"
      BY <1>t, <2>1, <2>3 DEF NoRefresh
    <2>8. \A u \in Req : Awaiting(requests'[u]) => u = r
      <3>1. \A u \in Req : ~Awaiting(requests[u])
        BY <2>2 DEF Sharing, Joined
      <3>2. QED
        BY <1>t, <2>1, <3>1
    <2>9. requests'[r].version = v
      BY <1>1, <1>t, <2>1 DEF Requests
    <2>10. QED
      BY <2>5, <2>6, <2>7, <2>8, <2>9 DEF Sharing, Joined, TokenTied, LastKept, AwaitsToken
  <1>4. CASE ~StartsRefresh(q.version)
    <2> DEFINE next ==
          CASE refreshes[client.version].stage = "ok" ->
                   [q EXCEPT !.stage = "resent", !.status = Status(q, jar)]
            [] refreshes[client.version].stage = "failed" -> Idle("idle")
            [] OTHER -> [q EXCEPT !.stage = "recovering", !.status = "none",
                                  !.version = client.version]
    <2>1. requests' = [requests EXCEPT ![r] = next] /\ UNCHANGED <<client, refreshes>>
      BY <1>4 DEF Recover
    <2>2. Awaiting(next) => next.version = client.version /\ client.refreshing
      <3> SUFFICES ASSUME Awaiting(next)
                   PROVE  next.version = client.version /\ client.refreshing
        OBVIOUS
      <3>1. [q EXCEPT !.stage = "resent", !.status = Status(q, jar)].stage = "resent"
        BY <1>1 DEF Requests
      <3>2. refreshes[client.version].stage \notin {"ok", "failed"}
        BY <3>1, IdleRests DEF Awaiting
      <3>3. next = [q EXCEPT !.stage = "recovering", !.status = "none",
                             !.version = client.version]
        BY <3>2
      <3> HIDE DEF next
      <3>4. next.version = client.version
        BY <1>1, <3>3 DEF Requests
      <3>5. client.version \in 1..MaxRefreshes
        BY <1>2, <1>4 DEF StartsRefresh
      <3>6. Underway(refreshes[client.version])
        BY <1>t, <3>2, <3>5 DEF Sharing, LastKept, Renewals, Underway
      <3>7. QED
        BY <1>t, <3>4, <3>5, <3>6
    <2> HIDE DEF next
    <2>3. \A u \in Req : Awaiting(requests'[u]) =>
             \/ requests'[u] = requests[u]
             \/ requests'[u].version = client.version /\ client.refreshing
      BY <1>t, <2>1, <2>2
    <2>4. QED
      BY <2>1, <2>3, SharingStays
  <1>5. QED
    BY <1>3, <1>4

\* A renewal that is over lets everybody go who waited for it.
LEMMA RenewalOver ==
  ASSUME TransportInv, Sharing, NEW v \in 1..MaxRefreshes, refreshes[v].stage = "sent",
         NEW stage \in {"ok", "failed"},
         refreshes' = [refreshes EXCEPT ![v] = [NoRefresh EXCEPT !.stage = stage]],
         client'.version = client.version,
         \A r \in Req : Awaiting(requests'[r]) =>
             requests'[r] = requests[r] /\ ~WaitsFor(requests[r], v)
  PROVE  Sharing'
  <1>1. v = client.version /\ \A u \in 1..MaxRefreshes : ~Underway(refreshes'[u])
    BY RenewalEnds
  <1>2. \A r \in Req : ~Awaiting(requests'[r])
    BY <1>1 DEF Sharing, Joined, WaitsFor, Awaiting
  <1>3. refreshes'[v].stage = stage
    BY TransportTypes DEF TransportInv, NoRefresh
  <1>4. QED
    BY <1>1, <1>2, <1>3, SharingEnds

LEMMA RefreshArrivesShares ==
  ASSUME TransportInv, Sharing, NEW v \in 1..MaxRefreshes, RefreshArrives(v)
  PROVE  Sharing'
  <1> DEFINE released(cookies, good) == [r \in Req |->
                 IF WaitsFor(requests[r], v)
                 THEN IF good THEN GoesOn(requests[r], cookies) ELSE Idle("idle")
                 ELSE requests[r]]
  <1>t. client \in Clients /\ requests \in [Req -> Requests]
    BY TransportTypes DEF TransportInv
  <1>1. refreshes[v].stage = "sent"
    BY DEF RefreshArrives
  <1>2. /\ Quiet(client) \in Clients /\ Quiet(client).version = client.version
        /\ End(Quiet(client)).version = client.version
    BY <1>t, QuietOK DEF End, Clients
  <1>3. \E stage \in {"ok", "failed"} :
            refreshes' = [refreshes EXCEPT ![v] = [NoRefresh EXCEPT !.stage = stage]]
    BY DEF RefreshArrives, FailRefresh
  <1>4. client'.version = client.version
    BY <1>2 DEF RefreshArrives
  <1>5. ASSUME NEW cookies, NEW good \in BOOLEAN, NEW r \in Req,
               Awaiting(released(cookies, good)[r])
        PROVE  released(cookies, good)[r] = requests[r] /\ ~WaitsFor(requests[r], v)
    BY <1>5, <1>t, IdleRests, GoesOnLeaves
  <1>6. \/ requests' = released(jar', TRUE)
        \/ requests' = Cut(released(jar, FALSE))
        \/ requests' = released(jar, FALSE)
    BY DEF RefreshArrives
  <1> HIDE DEF released
  <1>7. \A r \in Req : Awaiting(requests'[r]) =>
            requests'[r] = requests[r] /\ ~WaitsFor(requests[r], v)
    BY <1>5, <1>6, IdleRests DEF Cut
  <1>8. QED
    BY <1>1, <1>3, <1>4, <1>7, RenewalOver

LEMMA RefreshLostShares ==
  ASSUME TransportInv, Sharing, NEW v \in 1..MaxRefreshes, RefreshLost(v)
  PROVE  Sharing'
  <1>1. client'.version = client.version
    BY TransportTypes, QuietOK DEF TransportInv, RefreshLost
  <1>2. \A r \in Req : Awaiting(requests'[r]) =>
            requests'[r] = requests[r] /\ ~WaitsFor(requests[r], v)
    BY IdleRests DEF RefreshLost
  <1>3. refreshes[v].stage = "sent" /\ refreshes' = FailRefresh(v)
    BY DEF RefreshLost
  <1>4. QED
    BY <1>1, <1>2, <1>3, RenewalOver DEF FailRefresh

\* What the answer to a request changes besides a renewal.
LEMMA RequestSettlesShares ==
  ASSUME TransportInv, Sharing, NEW r \in Req, RequestSettles(r)
  PROVE  Sharing'
  <1>t. client \in Clients /\ requests \in [Req -> Requests]
    BY TransportTypes DEF TransportInv
  <1>1. CASE Succeeds(r) \/ \E refused \in BOOLEAN : Fails(r, refused)
    <2>1. \A u \in Req : Awaiting(requests'[u]) => requests'[u] = requests[u]
      BY <1>1, <1>t, IdleRests DEF Succeeds, Fails
    <2>2. UNCHANGED <<client, refreshes>>
      BY <1>1 DEF Succeeds, Fails
    <2>3. QED
      BY <2>1, <2>2, SharingStays
  <1>2. CASE client' = End(client) /\ requests' = Cut(requests) /\ UNCHANGED refreshes
    <2>1. /\ client'.version = client.version /\ client'.generation = client.generation
          /\ client'.refreshing = client.refreshing /\ client'.csrf = client.csrf
      BY <1>2, <1>t DEF End, Clients
    <2>2. \A u \in Req : Awaiting(requests'[u]) => requests'[u] = requests[u]
      BY <1>2, IdleRests DEF Cut
    <2>3. QED
      BY <1>2, <2>1, <2>2, SharingStays
  <1>3. CASE requests[r].stage = "sent" /\ Recover(r)
    BY <1>3, RecoverShares
  <1>4. QED
    <2>1. CASE RequestLost(r)
      BY <1>1, <2>1 DEF RequestLost
    <2>2. CASE RequestArrives(r)
      BY <1>1, <1>2, <1>3, <2>2, Arrivals
    <2>3. QED
      BY <2>1, <2>2 DEF RequestSettles

LEMMA ClickLogoutShares == ASSUME TransportInv, Sharing, ClickLogout PROVE Sharing'
  <1>t. jar \in Jar /\ drawn \in Nat /\ client \in Clients
    BY TransportTypes DEF TransportInv
  <1>1. /\ client' = AskCsrf(Blocks(client)) /\ requests' = Cut(requests)
        /\ UNCHANGED refreshes
    BY DEF ClickLogout
  <1>2. /\ Blocks(client) \in Clients /\ Blocks(client).refreshing = client.refreshing
        /\ Blocks(client).version = client.version /\ Blocks(client).csrf = client.csrf
        /\ Blocks(client).generation = client.generation
    BY <1>t DEF Blocks, Clients
  <1>3. /\ client' \in Clients
        /\ client' = [Blocks(client) EXCEPT !.csrf = client'.csrf]
    BY <1>1, <1>2, <1>t, AskCsrfOK
  <1>4. /\ client'.version = client.version /\ client'.generation = client.generation
        /\ client'.refreshing = client.refreshing
    BY <1>2, <1>3 DEF Clients
  <1>5. \A u \in Req : Awaiting(requests'[u]) => requests'[u] = requests[u]
    BY <1>1, IdleRests DEF Cut
  <1>6. QED
    BY <1>1, <1>4, <1>5, SharingStays

\* A logout leaves when no renewal is under way, and then nobody waits.
LEMMA LogoutShares ==
  ASSUME TransportInv, Sharing, logout.stage = "sent", UNCHANGED <<refreshes, requests>>,
         client' = client \/ client' = Resume(client)
  PROVE  Sharing'
  <1>t. /\ client \in Clients
        /\ client.refreshing <=> \E v \in 1..MaxRefreshes : Underway(refreshes[v])
    BY TransportTypes DEF TransportInv
  <1>1. ~client.refreshing /\ client'.version = client.version
    BY <1>t, ResumeOK DEF TransportInv, LogoutQuiet
  <1>2. QED
    BY <1>1, <1>t, SharingEnds DEF Sharing, Joined, LastKept

LEMMA SendRefreshShares ==
  ASSUME TransportInv, Sharing, NEW v \in 1..MaxRefreshes, SendRefresh(v)
  PROVE  Sharing'
  <1>1. /\ refreshes[v].stage = "ready" /\ UNCHANGED <<client, requests>>
        /\ refreshes' = [refreshes EXCEPT ![v].stage = "sent", ![v].call = NextCall]
    BY DEF SendRefresh
  <1>2. refreshes \in [1..MaxRefreshes -> Renewals]
    BY TransportTypes DEF TransportInv
  <1>3. /\ refreshes'[v].stage = "sent"
        /\ \A u \in 1..MaxRefreshes : u # v => refreshes'[u] = refreshes[u]
    BY <1>1, <1>2 DEF Renewals
  <1>4. client.version \in 0..MaxRefreshes
    BY TransportTypes DEF TransportInv, Clients
  <1>5. TokenTied'
    BY <1>1, <1>3 DEF Sharing, TokenTied, AwaitsToken
  <1>6. LastKept'
    <2>1. client.version # 0 => client.version \in 1..MaxRefreshes
      BY <1>4, Bounds
    <2>2. QED
      BY <1>1, <1>3, <2>1 DEF Sharing, LastKept
  <1>7. Joined'
    BY <1>1 DEF Sharing, Joined
  <1>8. QED
    BY <1>5, <1>6, <1>7 DEF Sharing

LEMMA SharingKept == ASSUME BrowserInv, Sharing, [BrowserNext]_vars PROVE Sharing'
  <1>t. TransportInv
    BY DEF BrowserInv
  <1>1. ASSUME NEW r \in Req, RequestSettles(r) PROVE Sharing'
    BY <1>1, <1>t, RequestSettlesShares
  <1>2. ASSUME NEW r \in Req, NEW kind \in Kind, Start(r, kind) PROVE Sharing'
    BY <1>2, <1>t, StartShares
  <1>3. CASE CsrfArrives \/ CsrfFails
    BY <1>3, <1>t, CsrfArrivesShares, CsrfFailsShares
  <1>4. ASSUME NEW v \in 1..MaxRefreshes,
               SendRefresh(v) \/ RefreshArrives(v) \/ RefreshLost(v)
        PROVE  Sharing'
    BY <1>4, <1>t, SendRefreshShares, RefreshArrivesShares, RefreshLostShares
  <1>5. CASE ClickLogout
    BY <1>5, <1>t, ClickLogoutShares
  <1>6. CASE LogoutArrives \/ LogoutLost
    BY <1>6, <1>t, LogoutShares DEF LogoutArrives, LogoutLost
  <1>7. CASE Reopen
    <2>1. /\ client' = NewClient /\ refreshes' = [v \in 1..MaxRefreshes |-> NoRefresh]
          /\ requests' = [r \in Req |-> Idle("idle")]
      BY <1>7 DEF Reopen
    <2>2. QED
      BY <2>1, IdleRests, SharingEnds DEF NewClient, NoRefresh, Underway
  <1>8. CASE UNCHANGED <<client, refreshes, requests>>
    BY <1>8, SharingStays
  <1>9. QED
    <2>1. CASE BrowserNext
      <3>1. CASE Inside
        BY <1>1, <1>2, <1>3, <1>4, <1>5, <1>6, <1>7, <1>8, <3>1
           DEF Inside, CsrfSettles, Redirect
      <3>2. CASE ~Inside
        BY <1>4, <1>6, <1>8, <2>1, <3>2, Disjuncts
           DEF SendLogout, AnswerElsewhere, Drop, OtherTab, GoToGoogle, FollowCallback,
               AccessRunsOut, browserVars
      <3>3. QED
        BY <3>1, <3>2
    <2>2. CASE UNCHANGED vars
      BY <1>8, <2>2 DEF vars, browserVars
    <2>3. QED
      BY <2>1, <2>2

(* Who waits, waits for the renewal under way, however tokens, answers,     *)
(* failures and logouts interleave.                                        *)
THEOREM SharingInvariance == BrowserSpec => [](BrowserInv /\ Sharing)
  <1>1. BrowserInit => BrowserInv /\ Sharing
    BY BrowserInitOK, SharingInit
  <1>2. BrowserInv /\ Sharing /\ [BrowserNext]_vars => (BrowserInv /\ Sharing)'
    BY BrowserStep, SharingKept
  <1>3. QED
    BY <1>1, <1>2, PTL DEF BrowserSpec

-----------------------------------------------------------------------------
(* What the transport promises *)

(* Cookies, page, renewals, requests and logout keep their types, and the  *)
(* flag of a renewal tells whether one is under way, in every order of     *)
(* answers.                                                                *)
THEOREM BrowserTypes == BrowserSpec => []BrowserTypeOK
  <1>1. BrowserInv => BrowserTypeOK
    BY DEF BrowserInv, TransportInv
  <1>2. QED
    BY <1>1, BrowserInvariance, PTL

(* However many requests are refused, and however late they learn of it,   *)
(* only the last renewal is under way, and it is the one that every        *)
(* waiting request waits for.                                              *)
THEOREM RenewsOnce == BrowserSpec => []OneRenewalAtATime
  <1>1. BrowserInv /\ Sharing => OneRenewalAtATime
    BY DEF BrowserInv, TransportInv, LatestOnly, Underway, Sharing, Joined, Awaiting,
           OneRenewalAtATime
  <1>2. QED
    BY <1>1, SharingInvariance, PTL

\* Under an aborted controller nothing of before can still be sent.
LEMMA NothingGoesOut ==
  ASSUME BrowserInv, client.cut \/ client.ended, NEW r \in Req
  PROVE  Resting(requests[r]) \/ Cancelled(requests[r])
  <1>1. RequestOK(requests[r], client, acts.logouts)
    BY DEF BrowserInv, TransportInv, RequestsOK
  <1>2. Alive(requests[r].signal, client) <=> ~Aborted(requests[r].signal)
    BY DEF Alive, Aborted
  <1>3. ~Resting(requests[r]) => ~Alive(requests[r].signal, client)
    BY <1>1 DEF RequestOK, Alive
  <1>4. QED
    BY <1>1, <1>2, <1>3 DEF RequestOK, Cancelled

(* No answer that sets cookies can overtake the answer to the logout: none *)
(* of this page is on its way when the logout is.  Neither is a request of *)
(* its screens, and those that still wait can no longer be sent.           *)
THEOREM LogoutIsAlone == BrowserSpec => []LogoutTravelsAlone
  <1>1. ASSUME BrowserInv PROVE LogoutTravelsAlone
    <2>1. logout.stage = "sent" => client.cut
      BY <1>1 DEF BrowserInv, TransportInv, Cutting
    <2>2. logout.stage = "sent" =>
              \A r \in Req : Resting(requests[r]) \/ Cancelled(requests[r])
      BY <1>1, <2>1, NothingGoesOut
    <2>3. logout.stage = "sent" =>
              /\ client.csrf = None
              /\ \A v \in 1..MaxRefreshes : ~Underway(refreshes[v])
      BY <1>1, TransportTypes DEF BrowserInv, TransportInv, LogoutQuiet
    <2>4. QED
      BY <2>2, <2>3 DEF LogoutTravelsAlone, Underway
  <1>2. BrowserInv => LogoutTravelsAlone
    BY <1>1
  <1>3. QED
    BY <1>2, BrowserInvariance, PTL

(* What arrives after a page was left does not fill its cache again, and   *)
(* none of its requests is on the wire or can still be sent.               *)
THEOREM LeftPagesAreEmpty == BrowserSpec => []LeftPageHoldsNothing
  <1>1. ASSUME BrowserInv PROVE LeftPageHoldsNothing
    <2>1. ~page.open => ~page.cached /\ (client.cut \/ client.ended)
      BY <1>1 DEF BrowserInv, TransportInv, LeftFor, Cutting
    <2>2. QED
      BY <1>1, <2>1, NothingGoesOut DEF LeftPageHoldsNothing
  <1>2. BrowserInv => LeftPageHoldsNothing
    BY <1>1
  <1>3. QED
    BY <1>2, BrowserInvariance, PTL

(* Refresh tokens and OAuth states stay good for one session when they are *)
(* presented by several tabs of one browser.                               *)
THEOREM BrowserSpendsOnce == BrowserSpec => []CredentialsWorkOnce
  <1>1. BrowserInv => CredentialsWorkOnce
    BY DEF BrowserInv, SessionsInv, CredentialsWorkOnce
  <1>2. QED
    BY <1>1, BrowserInvariance, PTL

(* A login that any tab has logged out is not revived by a renewal of      *)
(* another.                                                                *)
THEOREM BrowserLogoutIsFinal == BrowserSpec => []LogoutEndsLogin
  <1>1. BrowserInv => LogoutEndsLogin
    BY DEF BrowserInv, SessionsInv
  <1>2. QED
    BY <1>1, BrowserInvariance, PTL

\* A request that goes out or ends well has a controller that lives.
LEMMA OnlyTheLivingGoOn ==
  ASSUME BrowserInv, BrowserNext, NEW r \in Req,
         requests'[r] # requests[r], ~Resting(requests[r]),
         OnWire(requests'[r]) \/ requests'[r].stage = "done"
  PROVE  Alive(requests[r].signal, client)
  <1>t. /\ TransportInv /\ requests \in [Req -> Requests]
    BY TransportTypes DEF BrowserInv, TransportInv
  <1>0. \A s : Alive(s, client) <=> ~Aborted(s)
    BY DEF Alive, Aborted
  <1>i. ~OnWire(Idle("idle")) /\ Idle("idle").stage # "done"
    BY DEF Idle, OnWire
  <1>w. OnWire(requests[r]) => Alive(requests[r].signal, client)
    BY <1>t DEF TransportInv, RequestsOK, RequestOK
  <1>1. ASSUME NEW u \in Req, RequestSettles(u) PROVE Alive(requests[r].signal, client)
    <2>1. CASE u = r
      BY <1>1, <1>w, <2>1 DEF RequestSettles, RequestArrives, RequestLost
    <2>2. CASE u # r
      <3>1. requests' = Cut(requests) \/ requests'[r] = requests[r]
        <4>1. CASE RequestLost(u)
          BY <1>t, <2>2, <4>1 DEF RequestLost, Fails
        <4>2. CASE RequestArrives(u)
          BY <1>t, <2>2, <4>2, Arrivals DEF Succeeds, Fails, Recover
        <4>3. QED
          BY <1>1, <4>1, <4>2 DEF RequestSettles
      <3>2. QED
        BY <1>i, <1>w, <3>1 DEF Cut
    <2>3. QED
      BY <2>1, <2>2
  <1>2. ASSUME NEW u \in Req, NEW kind \in Kind, Start(u, kind)
        PROVE  Alive(requests[r].signal, client)
    BY <1>2, <1>t DEF Start
  <1>3. CASE CsrfArrives
    BY <1>3, <1>0, <1>i DEF CsrfArrives
  <1>4. CASE CsrfFails
    BY <1>4, <1>i DEF CsrfFails
  <1>5. ASSUME NEW v \in 1..MaxRefreshes, RefreshArrives(v)
        PROVE  Alive(requests[r].signal, client)
    <2>1. CASE Aborted(requests[r].signal)
      <3>1. \A cookies : GoesOn(requests[r], cookies) = Idle("idle")
        BY <2>1 DEF GoesOn
      <3>2. requests'[r] \in {requests[r], Idle("idle")}
        <4>1. \/ \E cookies : requests'[r] = IF WaitsFor(requests[r], v)
                                             THEN GoesOn(requests[r], cookies)
                                             ELSE requests[r]
              \/ requests'[r] \in {requests[r], Idle("idle")}
          BY <1>5 DEF RefreshArrives, Cut
        <4>2. QED
          BY <3>1, <4>1
      <3>3. QED
        BY <1>i, <3>2
    <2>2. QED
      BY <1>0, <2>1
  <1>6. ASSUME NEW v \in 1..MaxRefreshes, RefreshLost(v)
        PROVE  Alive(requests[r].signal, client)
    BY <1>6, <1>i DEF RefreshLost
  <1>7. CASE ClickLogout
    BY <1>7, <1>i DEF ClickLogout, Cut
  <1>8. CASE Reopen
    BY <1>8, <1>i DEF Reopen
  <1>9. CASE UNCHANGED requests
    BY <1>9
  <1>10. \/ \E u \in Req : RequestSettles(u) \/ \E kind \in Kind : Start(u, kind)
         \/ CsrfArrives \/ CsrfFails
         \/ \E v \in 1..MaxRefreshes : RefreshArrives(v) \/ RefreshLost(v)
         \/ ClickLogout \/ Reopen
         \/ UNCHANGED requests
    BY Disjuncts DEF Inside, CsrfSettles, LogoutLost, Redirect, SendRefresh, SendLogout,
       LogoutArrives, AnswerElsewhere, Drop, OtherTab, GoToGoogle, FollowCallback,
       AccessRunsOut, browserVars
  <1>11. QED
    BY <1>1, <1>2, <1>3, <1>4, <1>5, <1>6, <1>7, <1>8, <1>9, <1>10

(* A request of before a logout is neither sent nor delivered once it has  *)
(* begun, also when it waited for a token or a renewal meanwhile, or the   *)
(* logout failed; and none is once authentication has ended.               *)
THEOREM LogoutCutsEverything == BrowserSpec => NothingOutlivesLogout
  <1>1. ASSUME BrowserInv, [BrowserNext]_vars, NEW r \in Req,
               requests'[r] # requests[r], ~Resting(requests[r]),
               OnWire(requests'[r]) \/ requests'[r].stage = "done"
        PROVE  requests[r].epoch = acts.logouts /\ ~client.ended
    <2>1. BrowserNext
      BY <1>1 DEF vars, browserVars
    <2>2. Alive(requests[r].signal, client)
      BY <1>1, <2>1, OnlyTheLivingGoOn
    <2>3. QED
      BY <1>1, <2>2 DEF BrowserInv, TransportInv, RequestsOK, RequestOK
  <1>2. BrowserInv /\ [BrowserNext]_vars =>
            [\A r \in Req :
                /\ requests'[r] # requests[r] /\ ~Resting(requests[r])
                /\ OnWire(requests'[r]) \/ requests'[r].stage = "done"
                => requests[r].epoch = acts.logouts /\ ~client.ended]_vars
    BY <1>1
  <1>3. QED
    BY <1>2, BrowserInvariance, PTL DEF BrowserSpec, NothingOutlivesLogout

-----------------------------------------------------------------------------
(* A page that has the browser to itself *)

GoodRenewal(c) == At(c, "answered") /\ Asks(c, "refresh") /\ calls[c].reply.status = "ok"
GoodLogout(c) == At(c, "answered") /\ Asks(c, "logout") /\ calls[c].reply.status = "ok"

\* The account has no session that still counts.
Over == row = None \/ row.until \in lapsed

(* A renewal hands out an issued token; only those expire.                 *)
TokensReal ==
    /\ \A c \in Call : GoodRenewal(c) => calls[c].reply.token \in Issued
    /\ stale \subseteq Issued

(* As long as nobody acts elsewhere there is the one login the page began  *)
(* with, every call presents a token of it, and a logout that was served   *)
(* has ended it.                                                           *)
AloneOK == acts.alone =>
    /\ elsewhere = {}
    /\ \A t \in Issued : tokens[t].login = FirstLogin
    /\ \A c \in Call : calls[c] # None =>
           /\ Asks(c, "refresh") \/ Asks(c, "logout")
           /\ calls[c].request.token \in Issued
    /\ logout.stage # "done" => jar.refresh \in Issued /\ jar.access = jar.refresh
    /\ \A c \in Call : GoodLogout(c) => Over

AloneInv == TokensReal /\ AloneOK /\ SignedOut

LEMMA AloneInit == BrowserInit => AloneInv
  <1> SUFFICES ASSUME BrowserInit PROVE AloneInv
    OBVIOUS
  <1>1. FirstToken \in Token /\ FirstLogin \in Login /\ FirstState \in State
    BY FS_EmptySet, BrowserClientAssumption DEF FirstToken, FirstLogin, FirstState
  <1> DEFINE first == [login |-> FirstLogin, until |-> FirstLogin, parent |-> None,
                       state |-> FirstState]
  <1>2. first \in Claims /\ first # None /\ first.login = FirstLogin
    BY <1>1, NoneIsNoRecord DEF Claims
  <1>3. /\ tokens = [t \in Token |-> IF t = FirstToken THEN first ELSE None]
        /\ stale = {} /\ calls = [c \in Call |-> None]
        /\ jar.refresh = FirstToken /\ jar.access = FirstToken
        /\ elsewhere = {} /\ logout.stage = "none"
    BY DEF BrowserInit, NoLogout
  <1>4. Issued = {FirstToken} /\ tokens[FirstToken] = first
    BY <1>1, <1>2, <1>3 DEF Issued
  <1>5. QED
    BY <1>2, <1>3, <1>4 DEF AloneInv, TokensReal, AloneOK, SignedOut, GoodRenewal, GoodLogout, At

\* Once somebody acted elsewhere the page is not alone any more.
LEMMA AloneSteps ==
  ASSUME BrowserInv, BrowserNext, acts'.alone
  PROVE  /\ acts.alone /\ (acts.unheard => acts'.unheard)
         /\ \/ \E r \in Req : RequestSettles(r) \/ \E kind \in Kind : Start(r, kind)
            \/ CsrfArrives \/ CsrfFails
            \/ \E v \in 1..MaxRefreshes : RefreshLost(v)
            \/ ClickLogout \/ LogoutLost \/ Redirect
            \/ \E v \in 1..MaxRefreshes : SendRefresh(v) \/ RefreshArrives(v)
            \/ SendLogout \/ LogoutArrives
            \/ \E c \in Call : \/ Serve(c) /\ UNCHANGED browserVars
                               \/ AnswerElsewhere(c) \/ Drop(c)
            \/ \E s \in State : StateExpires(s) /\ UNCHANGED browserVars
            \/ AccessRunsOut
            \/ \E l \in Login : LoginLapses(l) /\ UNCHANGED browserVars
  <1>1. TransportInv /\ acts \in Acts
    BY TransportTypes DEF BrowserInv, TransportInv
  <1>2. /\ \A op \in {"refresh", "logout"} : ~OtherTab(op)
        /\ \A s \in State : ~GoToGoogle(s) /\ ~FollowCallback(s)
        /\ ~Reopen
    BY <1>1, ElsewhereOK DEF OtherTab, GoToGoogle, FollowCallback, Reopen
  <1>3. \A new : \/ acts' = acts
                 \/ acts' = [acts EXCEPT !.count = new]
                 \/ acts' = [acts EXCEPT !.unheard = TRUE]
                 \/ \E n : acts' = [acts EXCEPT !.count = new, !.logouts = n]
        => acts.alone /\ (acts.unheard => acts'.unheard)
    BY <1>1 DEF Acts
  <1>4. CASE Inside
    <2>1. \/ acts' = acts
          \/ acts' = [acts EXCEPT !.count = acts.count + 1]
          \/ acts' = [acts EXCEPT !.unheard = TRUE]
          \/ acts' = [acts EXCEPT !.count = acts.count + 1, !.logouts = acts.logouts + 1]
      BY <1>1, <1>2, <1>4, Arrivals
         DEF Inside, RequestSettles, RequestLost, Start, CsrfSettles, CsrfArrives, CsrfFails,
             RefreshLost, ClickLogout, LogoutLost, Redirect, Acts
    <2>2. QED
      BY <1>2, <1>3, <1>4, <2>1 DEF Inside, CsrfSettles
  <1>5. CASE ~Inside
    <2>1. acts' = acts
      BY <1>2, <1>5, Disjuncts DEF SendRefresh, RefreshArrives, SendLogout, LogoutArrives,
         AnswerElsewhere, Drop, AccessRunsOut, browserVars
    <2>2. QED
      BY <1>2, <1>5, <2>1, Disjuncts
  <1>6. QED
    BY <1>4, <1>5

\* How the API serves a renewal or a logout.
LEMMA ServeOutcomes ==
  ASSUME SessionsInv, NEW c \in Call, Serve(c), ~Asks(c, "callback")
  PROVE  /\ At(c, "arrived") /\ At(c, "answered")' /\ calls'[c].request = calls[c].request
         /\ \A d \in Call \ {c} : calls'[d] = calls[d]
         /\ UNCHANGED <<stale, lapsed>>
         /\ \/ /\ calls'[c].reply.status \in {"forbidden", "unavailable"}
               /\ UNCHANGED <<row, tokens>>
            \/ /\ Asks(c, "refresh") /\ HasFresh /\ Rotates(calls[c].request.token)
               /\ row' = [row EXCEPT !.token = Fresh]
               /\ LET t == calls[c].request.token
                  IN  Issue(Fresh, tokens[t].login, tokens[t].until, t, tokens[t].state)
               /\ calls'[c].reply = [status |-> "ok", token |-> Fresh]
            \/ /\ Asks(c, "refresh") /\ ~Rotates(calls[c].request.token)
               /\ calls'[c].reply.status = "denied" /\ UNCHANGED <<row, tokens>>
            \/ /\ Asks(c, "logout") /\ calls'[c].reply.status = "ok" /\ UNCHANGED tokens
               /\ row' = IF Verifies(calls[c].request.token) THEN None ELSE row
  <1>t. SessionsTypeOK /\ StatesUsedUp
    BY DEF SessionsInv
  <1>1. ~At(c, "vouched")
    BY <1>t DEF StatesUsedUp
  <1>2. At(c, "arrived") /\ calls[c] # None
    BY <1>1 DEF Serve, Forbid, Fail, ServeRefresh, ServeLogout, ConsumeState, RefuseState,
                CompleteLogin, At
  <1>3. ASSUME NEW status \in {"ok", "denied", "forbidden", "unavailable"},
               NEW t \in Token \cup {None}, Answer(c, status, t)
        PROVE  /\ At(c, "answered")' /\ calls'[c].request = calls[c].request
               /\ calls'[c].reply = [status |-> status, token |-> t]
               /\ calls'[c].reply.status = status
               /\ \A d \in Call \ {c} : calls'[d] = calls[d]
    BY <1>t, <1>2, <1>3, AnswerServes DEF At
  <1>4. CASE Forbid(c) \/ Fail(c)
    BY <1>2, <1>3, <1>4 DEF Forbid, Fail, database
  <1>5. CASE ServeRefresh(c)
    <2>1. Asks(c, "refresh") /\ HasFresh /\ UNCHANGED <<stale, lapsed>>
      BY <1>5 DEF ServeRefresh
    <2>2. CASE Rotates(calls[c].request.token)
      BY <1>2, <1>3, <1>5, <2>1, <2>2, FreshOK DEF ServeRefresh, Inherited
    <2>3. CASE ~Rotates(calls[c].request.token)
      BY <1>2, <1>3, <1>5, <2>1, <2>3 DEF ServeRefresh
    <2>4. QED
      BY <2>2, <2>3
  <1>6. CASE ServeLogout(c)
    BY <1>2, <1>3, <1>6 DEF ServeLogout, Revokes
  <1>7. QED
    BY <1>1, <1>4, <1>5, <1>6 DEF Serve, ConsumeState, RefuseState, CompleteLogin

LEMMA IssuedStay ==
  ASSUME SessionsInv, [SessionsNext]_sessionsVars
  PROVE  /\ Issued \subseteq Issued'
         /\ \A t \in Issued : tokens'[t] = tokens[t]
  <1> USE DEF SessionsInv
  <1>1. Unmoved \/ Rotation \/ Closing \/ Consuming \/ Opening
    BY StepKinds
  <1>2. CASE Unmoved \/ Closing \/ Consuming
    BY <1>2 DEF Unmoved, Closing, Consuming, Issued
  <1>3. CASE Rotation
    <2>1. PICK t \in Issued :
              /\ Rotates(t)
              /\ Issue(Fresh, tokens[t].login, tokens[t].until, t, tokens[t].state)
      BY <1>3 DEF Rotation
    <2>2. /\ t \in Token /\ tokens[t].login \in Login /\ tokens[t].until \in Login
          /\ tokens[t].state \in State /\ HasFresh
      BY <1>3 DEF Rotation, SessionsTypeOK, Claims, Issued
    <2>3. QED
      BY <2>1, <2>2, IssueAdds
  <1>4. CASE Opening
    <2>1. PICK c \in Call :
              /\ At(c, "vouched") /\ HasFresh /\ HasLogin
              /\ Issue(Fresh, NextLogin, NextLogin, None, calls[c].request.state)
      BY <1>4 DEF Opening
    <2>2. calls[c].request.state \in State
      BY <2>1 DEF StatesUsedUp, Asks, SessionsTypeOK, Served, Request, At
    <2>3. QED
      BY <2>1, <2>2, LoginOK, IssueAdds
  <1>5. QED
    BY <1>1, <1>2, <1>3, <1>4

\* A renewal is served with a token that was just issued.
LEMMA RenewalServed ==
  ASSUME SessionsInv, NEW c \in Call, Serve(c), GoodRenewal(c)'
  PROVE  Fresh \in Issued' /\ calls'[c].reply.token = Fresh
  <1>0. SessionsTypeOK
    BY DEF SessionsInv
  <1>1. ~Asks(c, "callback")
    <2>1. calls[c] # None
      BY DEF Serve, Forbid, Fail, ServeRefresh, ServeLogout, ConsumeState, RefuseState,
             CompleteLogin, At
    <2>2. calls'[c].request = calls[c].request
      BY <2>1, ServeServes
    <2>3. QED
      BY <2>2 DEF GoodRenewal, Asks
  <1>2. /\ Asks(c, "refresh") /\ HasFresh /\ Rotates(calls[c].request.token)
        /\ LET t == calls[c].request.token
           IN  Issue(Fresh, tokens[t].login, tokens[t].until, t, tokens[t].state)
        /\ calls'[c].reply = [status |-> "ok", token |-> Fresh]
    BY <1>1, ServeOutcomes DEF GoodRenewal, Asks
  <1>3. LET t == calls[c].request.token
        IN  /\ t \in Token /\ tokens[t].login \in Login /\ tokens[t].until \in Login
            /\ tokens[t].state \in State
    BY <1>0, <1>2 DEF Rotates, Verifies, SessionsTypeOK, Claims, Issued
  <1>4. Fresh \in Issued'
    BY <1>2, <1>3, IssueAdds
  <1>5. QED
    BY <1>2, <1>4

LEMMA TokensRealKept ==
  ASSUME SessionsInv, TokensReal, [SessionsNext]_sessionsVars
  PROVE  TokensReal'
  <1>0. /\ SessionsTypeOK /\ Issued \subseteq Issued'
    BY IssuedStay DEF SessionsInv
  <1>1. stale' \subseteq Issued'
    <2>1. stale' \subseteq stale \cup Issued
      BY DEF SessionsNext, sessionsVars, Serve, Leave, Forbid, Fail, ServeRefresh, ServeLogout,
             ConsumeState, RefuseState, CompleteLogin, StateExpires, AccessExpires, LoginLapses
    <2>2. QED
      BY <1>0, <2>1 DEF TokensReal
  <1>2. ASSUME NEW c \in Call, GoodRenewal(c)'
        PROVE  calls'[c].reply.token \in Issued'
    <2>1. CASE calls'[c] = calls[c]
      BY <1>0, <1>2, <2>1 DEF TokensReal, GoodRenewal, At, Asks
    <2>2. CASE calls'[c] # calls[c]
      <3>1. \/ \E d \in Call : Serve(d) \/ Leave(d)
            \/ \E d \in Call, request \in Request : Arrive(d, request)
        BY <2>2 DEF SessionsNext, sessionsVars, StateExpires, BeginLogin, AccessExpires,
                    LoginLapses
      <3>2. ASSUME NEW d \in Call, Leave(d) PROVE FALSE
        BY <1>0, <1>2, <2>2, <3>2, LeaveOK DEF GoodRenewal, At
      <3>3. ASSUME NEW d \in Call, NEW request \in Request, Arrive(d, request) PROVE FALSE
        BY <1>0, <1>2, <2>2, <3>3, ArriveOK DEF GoodRenewal, At
      <3>4. ASSUME NEW d \in Call, Serve(d) PROVE calls'[c].reply.token \in Issued'
        <4>1. CASE d = c
          BY <1>2, <3>4, <4>1, RenewalServed
        <4>2. CASE d # c
          <5>1. calls' = [calls EXCEPT ![d] = calls'[d]]
            BY <1>0, <3>4 DEF Serve, Forbid, Fail, ServeRefresh, ServeLogout,
               ConsumeState, RefuseState, CompleteLogin, Answer, SessionsTypeOK
          <5>2. QED
            BY <1>0, <2>2, <4>2, <5>1 DEF SessionsTypeOK
        <4>3. QED
          BY <4>1, <4>2
      <3>5. QED
        BY <3>1, <3>2, <3>3, <3>4
    <2>3. QED
      BY <2>1, <2>2
  <1>3. QED
    BY <1>1, <1>2 DEF TokensReal

LEMMA OverStays ==
  Over /\ row' = row /\ lapsed \subseteq lapsed' => Over'
  BY DEF Over

\* Steps that open and close no session and send nothing.
LEMMA AloneFrame ==
  ASSUME AloneOK, SignedOut, acts.alone,
         tokens' = tokens, row' = row, lapsed \subseteq lapsed',
         elsewhere' \subseteq elsewhere,
         jar'.access = jar.access, jar'.refresh = jar.refresh,
         logout'.stage = "done" <=> logout.stage = "done",
         logout.stage = "done" => jar' = jar,
         \A c \in Call : calls'[c] = calls[c] \/ calls'[c] = None
  PROVE  AloneOK' /\ SignedOut'
  <1>1. Issued' = Issued
    BY DEF Issued
  <1>2. \A c \in Call : GoodLogout(c)' => GoodLogout(c)
    BY DEF GoodLogout, At, Asks
  <1>3. Over => Over'
    BY OverStays
  <1>4. AloneOK'
    BY <1>1, <1>2, <1>3 DEF AloneOK, Asks
  <1>5. SignedOut'
    BY <1>3 DEF SignedOut, Over
  <1>6. QED
    BY <1>4, <1>5

\* What the page does by itself leaves the login's cookies, and a logout that is done.
LEMMA InsideKeepsLogin ==
  ASSUME BrowserInv, Inside, ~Reopen
  PROVE  /\ UNCHANGED sessionsVars /\ elsewhere' = elsewhere
         /\ jar'.access = jar.access /\ jar'.refresh = jar.refresh
         /\ logout'.stage = "done" <=> logout.stage = "done"
         /\ logout.stage = "done" => jar' = jar
  <1>t. TransportInv /\ jar \in Jar /\ logout \in Logouts
    BY TransportTypes DEF BrowserInv, TransportInv
  <1>0. UNCHANGED sessionsVars
    BY InsideServesNobody
  <1>1. CASE CsrfArrives
    <2>1. /\ jar' = [jar EXCEPT !.csrf = client.csrf.binding,
                                !.binding = IF client.csrf.new THEN client.csrf.binding ELSE @]
          /\ client.csrf # None /\ elsewhere' = elsewhere
          /\ logout' = IF logout.stage = "csrf"
                       THEN [logout EXCEPT !.stage = "ready", !.header = client.csrf.binding]
                       ELSE logout
      BY <1>1 DEF CsrfArrives
    <2>2. logout.stage # "done"
      BY <1>t, <2>1 DEF TransportInv, LogoutQuiet
    <2>3. logout'.stage # "done"
      BY <1>t, <2>1, <2>2 DEF Logouts
    <2>4. jar'.access = jar.access /\ jar'.refresh = jar.refresh
      BY <1>t, <2>1 DEF Jar
    <2>5. QED
      BY <1>0, <2>1, <2>2, <2>3, <2>4
  <1>2. CASE CsrfFails
    BY <1>0, <1>2 DEF CsrfFails, NoLogout
  <1>3. CASE ClickLogout
    <2>1. logout.stage = "none" /\ logout'.stage = "csrf" /\ UNCHANGED <<jar, elsewhere>>
      BY <1>3 DEF ClickLogout, NoLogout
    <2>2. QED
      BY <1>0, <2>1
  <1>4. CASE LogoutLost
    BY <1>0, <1>4 DEF LogoutLost, NoLogout
  <1>5. CASE UNCHANGED <<jar, logout, elsewhere>>
    BY <1>0, <1>5
  <1>6. QED
    BY <1>1, <1>2, <1>3, <1>4, <1>5, <1>t, Arrivals
       DEF Inside, CsrfSettles, RequestSettles, RequestLost, Start, RefreshLost, Redirect

LEMMA AloneKept == ASSUME BrowserInv, AloneInv, [BrowserNext]_vars PROVE AloneInv'
  <1>t. /\ TransportInv /\ SessionsInv /\ SessionsTypeOK /\ TokensReal /\ AloneOK /\ SignedOut
        /\ jar \in Jar /\ logout \in Logouts /\ elsewhere \subseteq Call
        /\ calls \in [Call -> Served \cup {None}]
    BY TransportTypes DEF BrowserInv, TransportInv, SessionsInv, SessionsTypeOK, AloneInv
  <1>s. [SessionsNext]_sessionsVars
    BY BrowserIsACaller DEF vars
  <1>1. TokensReal'
    BY <1>t, <1>s, TokensRealKept
  <1>2. CASE ~acts'.alone
    BY <1>1, <1>2 DEF AloneInv, AloneOK, SignedOut
  <1>3. CASE UNCHANGED vars /\ acts'.alone
    <2>1. Issued' = Issued /\ Over' = Over
      BY <1>3 DEF vars, sessionsVars, Issued, Over
    <2>2. \A c \in Call : GoodLogout(c)' = GoodLogout(c) /\ \A op : Asks(c, op)' = Asks(c, op)
      BY <1>3 DEF vars, sessionsVars, GoodLogout, At, Asks
    <2>3. QED
      BY <1>1, <1>3, <1>t, <2>1, <2>2
         DEF vars, sessionsVars, browserVars, AloneInv, AloneOK, SignedOut
  <1>4. CASE BrowserNext /\ acts'.alone
    <2> USE <1>4
    <2>a. acts.alone
      BY AloneSteps
    <2>r. ~Reopen
      BY <1>t, ElsewhereOK DEF Reopen
    <2>o. /\ elsewhere = {}
          /\ \A t \in Issued : tokens[t].login = FirstLogin
          /\ \A c \in Call : calls[c] # None =>
                 /\ Asks(c, "refresh") \/ Asks(c, "logout")
                 /\ calls[c].request.token \in Issued
          /\ logout.stage # "done" => jar.refresh \in Issued /\ jar.access = jar.refresh
          /\ \A c \in Call : GoodLogout(c) => Over
      BY <1>t, <2>a DEF AloneOK
    <2>1. CASE Inside
      <3>1. tokens' = tokens /\ row' = row /\ lapsed' = lapsed /\ calls' = calls
        BY <2>1, <2>r, InsideKeepsLogin DEF sessionsVars
      <3>2. QED
        BY <1>1, <1>t, <2>1, <2>a, <2>r, <3>1, InsideKeepsLogin, AloneFrame DEF AloneInv
    <2>2. ASSUME NEW c \in Call, NEW op \in {"refresh", "logout"}, NEW header,
                 SendCall(c, op, header), logout.stage # "done", logout'.stage # "done",
                 UNCHANGED <<database, lapsed, jar, elsewhere>>
          PROVE  AloneOK' /\ SignedOut'
      <3>0. /\ calls'[c].request = [op |-> op, token |-> jar.refresh,
                                    allowed |-> Allowed(header, jar)]
            /\ calls'[c].step = "arrived"
            /\ \A d \in Call \ {c} : calls'[d] = calls[d]
        BY <1>t, <2>2, SendCallOK
      <3>1. /\ calls'[c].request.token = jar.refresh /\ calls'[c].step = "arrived"
            /\ Asks(c, op)' /\ \A d \in Call \ {c} : calls'[d] = calls[d]
        BY <3>0 DEF Asks
      <3>2. Issued' = Issued /\ Over' = Over /\ tokens' = tokens
        BY <2>2 DEF database, Issued, Over
      <3>3. \A d \in Call : GoodLogout(d)' => GoodLogout(d)
        BY <3>1 DEF GoodLogout, At, Asks
      <3>4. \A d \in Call : calls'[d] # None =>
                 /\ Asks(d, "refresh")' \/ Asks(d, "logout")'
                 /\ calls'[d].request.token \in Issued'
        BY <2>2, <2>o, <3>1, <3>2 DEF Asks
      <3>5. QED
        BY <2>2, <2>o, <3>2, <3>3, <3>4 DEF AloneOK, SignedOut
    <2>3. ASSUME NEW v \in 1..MaxRefreshes, SendRefresh(v) PROVE AloneOK' /\ SignedOut'
      <3>1. PICK c \in Call : SendCall(c, "refresh", refreshes[v].header)
        BY <2>3, NextCallOK DEF SendRefresh
      <3>2. logout.stage # "done"
        BY <1>t, <2>3, TransportTypes DEF SendRefresh, TransportInv, LogoutQuiet, Underway
      <3>3. QED
        BY <2>2, <2>3, <3>1, <3>2 DEF SendRefresh
    <2>4. CASE SendLogout
      <3>1. PICK c \in Call : SendCall(c, "logout", logout.header)
        BY <2>4, NextCallOK DEF SendLogout
      <3>2. logout.stage # "done" /\ logout'.stage # "done"
        BY <1>t, <2>4 DEF SendLogout, Logouts
      <3>3. UNCHANGED <<database, lapsed, jar, elsewhere>>
        BY <2>4 DEF SendLogout
      <3>4. QED
        BY <1>1, <2>2, <3>1, <3>2, <3>3 DEF AloneInv
    <2>5. ASSUME NEW c \in Call, Leave(c)
          PROVE  /\ tokens' = tokens /\ row' = row /\ lapsed' = lapsed
                 /\ \A d \in Call : calls'[d] = calls[d] \/ calls'[d] = None
      BY <1>t, <2>5, LeaveOK DEF Leave, database
    <2>6. ASSUME NEW v \in 1..MaxRefreshes, RefreshArrives(v) PROVE AloneOK' /\ SignedOut'
      <3> DEFINE c == refreshes[v].call
      <3>1. refreshes[v].stage = "sent" /\ Leave(c) /\ UNCHANGED <<logout, elsewhere>>
        BY <2>6 DEF RefreshArrives
      <3>2. c \in Call /\ Asks(c, "refresh")
        BY <3>1, RefreshCall
      <3>3. logout.stage # "done"
        BY <1>t, <3>1, TransportTypes DEF TransportInv, LogoutQuiet, Underway
      <3>4. CASE calls[c].reply.status = "ok"
        <4>1. jar' = [jar EXCEPT !.access = calls[c].reply.token,
                                 !.refresh = calls[c].reply.token]
          BY <2>6, <3>4 DEF RefreshArrives, EndsLogin
        <4>2. calls[c].reply.token \in Issued
          BY <1>t, <3>1, <3>2, <3>4 DEF TokensReal, GoodRenewal, Leave
        <4>3. jar'.access = jar'.refresh /\ jar'.refresh \in Issued
          BY <1>t, <4>1, <4>2 DEF Jar
        <4>4. Issued' = Issued /\ Over' = Over
          BY <2>5, <3>1, <3>2 DEF Issued, Over
        <4>5. \A d \in Call : (GoodLogout(d)' => GoodLogout(d))
                  /\ (calls'[d] # None => calls'[d] = calls[d])
          BY <2>5, <3>1, <3>2 DEF GoodLogout, At, Asks
        <4>6. QED
          BY <2>5, <2>o, <3>1, <3>2, <3>3, <4>3, <4>4, <4>5 DEF AloneOK, SignedOut, Asks
      <3>5. CASE calls[c].reply.status # "ok"
        <4>1. jar' = jar
          BY <2>6, <3>5 DEF RefreshArrives
        <4>2. QED
          BY <1>t, <2>5, <2>a, <3>1, <3>2, <4>1, AloneFrame
      <3>6. QED
        BY <3>4, <3>5
    <2>7. CASE LogoutArrives
      <3> DEFINE c == logout.call
      <3>1. logout.stage = "sent" /\ Leave(c) /\ elsewhere' = elsewhere
        BY <2>7 DEF LogoutArrives
      <3>2. c \in Call /\ Asks(c, "logout")
        BY <3>1, LogoutCall
      <3>3. CASE calls[c].reply.status = "ok"
        <4>1. jar' = LoggedOut(jar) /\ logout' = [NoLogout EXCEPT !.stage = "done"]
          BY <2>7, <3>3 DEF LogoutArrives
        <4>2. /\ jar'.access = None /\ jar'.refresh = None
              /\ jar'.binding = 0 /\ jar'.csrf = 0 /\ logout'.stage = "done"
          BY <1>t, <4>1 DEF LoggedOut, Jar, NoLogout
        <4>3. Over
          BY <2>o, <3>1, <3>2, <3>3 DEF GoodLogout, Leave
        <4>4. Issued' = Issued /\ Over'
          BY <2>5, <3>1, <3>2, <4>3, OverStays DEF Issued
        <4>5. \A d \in Call : calls'[d] # None => calls'[d] = calls[d]
          BY <2>5, <3>1, <3>2
        <4>6. AloneOK'
          BY <2>5, <2>o, <3>1, <3>2, <4>2, <4>4, <4>5 DEF AloneOK, Asks
        <4>7. QED
          BY <1>1, <4>2, <4>4, <4>6 DEF AloneInv, SignedOut, Over
      <3>4. CASE calls[c].reply.status # "ok"
        <4>1. jar' = jar /\ logout'.stage = "none"
          BY <2>7, <3>4 DEF LogoutArrives, NoLogout
        <4>2. QED
          BY <1>1, <1>t, <2>5, <2>a, <3>1, <3>2, <4>1, AloneFrame DEF AloneInv
      <3>5. QED
        BY <3>3, <3>4
    <2>8. ASSUME NEW c \in Call, Serve(c), UNCHANGED browserVars PROVE AloneOK' /\ SignedOut'
      <3> DEFINE t == calls[c].request.token
      <3>1. calls[c] # None
        BY <2>8 DEF Serve, Forbid, Fail, ServeRefresh, ServeLogout, ConsumeState, RefuseState,
           CompleteLogin, At
      <3>2. /\ ~Asks(c, "callback") /\ t \in Issued
            /\ tokens[t].login = FirstLogin /\ tokens[t].until = FirstLogin
        BY <1>t, <2>o, <3>1 DEF Asks, SessionsInv, Descends
      <3>3. /\ calls'[c].request = calls[c].request
            /\ \A d \in Call \ {c} : calls'[d] = calls[d]
            /\ lapsed' = lapsed
        BY <1>t, <2>8, <3>2, ServeOutcomes
      <3>4. row # None => row.until = FirstLogin
        BY <1>t, <2>o DEF SessionsInv, SessionsTypeOK, Descends
      <3>5. Issued \subseteq Issued' /\ \A u \in Issued' : tokens'[u].login = FirstLogin
        <4>1. CASE tokens' = tokens
          BY <2>o, <4>1 DEF Issued
        <4>2. CASE tokens' # tokens
          <5>1. PICK u \in Issued :
                    HasFresh /\ Issue(Fresh, tokens[u].login, tokens[u].until, u, tokens[u].state)
            BY <1>t, <2>8, <3>2, <4>2, ServeOutcomes
          <5>2. /\ u \in Token /\ tokens[u].login \in Login /\ tokens[u].until \in Login
                /\ tokens[u].state \in State
            BY <1>t DEF SessionsTypeOK, Claims, Issued
          <5>3. /\ Issued' = Issued \cup {Fresh}
                /\ \A z \in Issued : tokens'[z] = tokens[z]
                /\ tokens'[Fresh] = [login |-> tokens[u].login, until |-> tokens[u].until,
                                     parent |-> u, state |-> tokens[u].state]
            BY <1>t, <5>1, <5>2, IssueAdds
          <5>4. QED
            BY <2>o, <5>3
        <4>3. QED
          BY <4>1, <4>2
      <3>6. Over => Over'
        BY <1>t, <2>8, <3>2, <3>3, ServeOutcomes DEF Over, Rotates, Verifies
      <3>7. GoodLogout(c)' => Over'
        <4>1. ASSUME GoodLogout(c)' PROVE Over'
          <5>1. calls'[c].reply.status = "ok" /\ Asks(c, "logout")
            BY <3>3, <4>1 DEF GoodLogout, Asks
          <5>2. row' = IF Verifies(t) THEN None ELSE row
            BY <1>t, <2>8, <3>2, <5>1, ServeOutcomes DEF Asks
          <5>3. Verifies(t) <=> FirstLogin \notin lapsed
            BY <3>2 DEF Verifies
          <5>4. QED
            BY <3>3, <3>4, <5>2, <5>3 DEF Over
        <4>2. QED
          BY <4>1
      <3>8. \A d \in Call : GoodLogout(d)' => Over'
        BY <2>o, <3>3, <3>6, <3>7 DEF GoodLogout, At, Asks
      <3>9. \A d \in Call : calls'[d] # None =>
                 /\ Asks(d, "refresh")' \/ Asks(d, "logout")'
                 /\ calls'[d].request.token \in Issued'
        BY <2>o, <3>1, <3>3, <3>5 DEF Asks
      <3>10. AloneOK'
        BY <2>8, <2>o, <3>5, <3>8, <3>9 DEF AloneOK, browserVars
      <3>11. SignedOut'
        BY <1>t, <2>8, <3>6 DEF SignedOut, Over, browserVars
      <3>12. QED
        BY <3>10, <3>11
    <2>9. ASSUME NEW c \in Call, AnswerElsewhere(c) PROVE FALSE
      BY <2>9, <2>o DEF AnswerElsewhere
    <2>10. ASSUME NEW c \in Call, Drop(c) PROVE AloneOK' /\ SignedOut'
      BY <1>t, <2>10, <2>5, <2>a, AloneFrame DEF Drop, browserVars
    <2>11. ASSUME UNCHANGED browserVars, UNCHANGED <<tokens, row, calls>>, lapsed \subseteq lapsed'
           PROVE  AloneOK' /\ SignedOut'
      BY <1>t, <2>11, <2>a, AloneFrame DEF browserVars
    <2>12. ASSUME NEW s \in State, StateExpires(s), UNCHANGED browserVars
           PROVE  AloneOK' /\ SignedOut'
      BY <2>11, <2>12 DEF StateExpires
    <2>13. CASE AccessRunsOut
      <3>1. UNCHANGED browserVars /\ UNCHANGED <<database, lapsed, calls>>
        BY <2>13 DEF AccessRunsOut, AccessExpires
      <3>2. UNCHANGED <<tokens, row, calls>> /\ lapsed' = lapsed
        BY <3>1 DEF database
      <3>3. QED
        BY <1>1, <2>11, <3>1, <3>2 DEF AloneInv
    <2>14. ASSUME NEW l \in Login, LoginLapses(l), UNCHANGED browserVars
           PROVE  AloneOK' /\ SignedOut'
      BY <2>11, <2>14 DEF LoginLapses, database
    <2>15. QED
      BY <1>1, <2>1, <2>3, <2>4, <2>6, <2>7, <2>8, <2>9, <2>10, <2>12, <2>13, <2>14,
         AloneSteps DEF AloneInv, Inside, CsrfSettles
  <1>5. QED
    BY <1>2, <1>3, <1>4

(* What the page and the API keep of a login that nobody else touches.      *)
THEOREM AloneInvariance == BrowserSpec => [](BrowserInv /\ AloneInv)
  <1>1. BrowserInit => BrowserInv /\ AloneInv
    BY BrowserInitOK, AloneInit
  <1>2. BrowserInv /\ AloneInv /\ [BrowserNext]_vars => (BrowserInv /\ AloneInv)'
    BY BrowserStep, AloneKept
  <1>3. QED
    BY <1>1, <1>2, PTL DEF BrowserSpec

(* After a logout that no other tab disturbed nothing of the login is left *)
(* in the browser or in the API.  Whatever other tabs do, the transport of *)
(* the page is consistent before and after it.                             *)
THEOREM SignsOutCleanly == BrowserSpec => []SignOutIsClean
  <1>1. BrowserInv /\ AloneInv => SignedOut
    BY DEF AloneInv
  <1>2. QED
    BY <1>1, AloneInvariance, BrowserTypes, RenewsOnce, LogoutIsAlone, LeftPagesAreEmpty, PTL
       DEF SignOutIsClean

(* As long as the page is alone and has heard the answer to each of its    *)
(* renewals, it waits for every renewal there is; what it will be given    *)
(* has not expired; and what it was given for the requests of before a     *)
(* renewal, that are still under way, has not expired either.              *)
Heard == acts.alone /\ ~acts.unheard
RenewalsAwaited ==
    \A c \in Call : calls[c] # None /\ Asks(c, "refresh") =>
        \E v \in 1..MaxRefreshes : refreshes[v].stage = "sent" /\ refreshes[v].call = c
RenewalsFresh ==
    \A c \in Call : GoodRenewal(c) =>
        calls[c].reply.token \notin stale /\ calls[c].reply.token # jar.access
LateServed ==
    \A r \in Req, v \in 1..MaxRefreshes :
        /\ v = client.version /\ refreshes[v].stage = "ok"
        /\ requests[r].stage = "sent" /\ requests[r].version # v
        => jar.access \notin stale
ResentServed == \A r \in Req : requests[r].stage = "resent" => requests[r].status # "denied"
HeardOK == Heard => RenewalsAwaited /\ RenewalsFresh /\ LateServed /\ ResentServed

(* Such a page presents the stored token in every renewal, so that it is   *)
(* refused only when the session is over.                                  *)
RowOK == Heard /\ row # None /\ lapsed = {} =>
    /\ \A c \in Call : At(c, "arrived") /\ Asks(c, "refresh") =>
           calls[c].request.token = row.token
    /\ \A c \in Call : At(c, "answered") /\ Asks(c, "refresh") =>
           calls[c].reply.status # "denied"
    /\ \A c \in Call : GoodRenewal(c) => calls[c].reply.token = row.token
    /\ (\A c \in Call : ~GoodRenewal(c)) => jar.refresh = row.token

HeardInv == HeardOK /\ RowOK /\ NotThrownOut

LEMMA HeardInit == BrowserInit => HeardInv
  <1> SUFFICES ASSUME BrowserInit PROVE HeardInv
    OBVIOUS
  <1>1. /\ calls = [c \in Call |-> None] /\ row.token = FirstToken /\ jar.refresh = FirstToken
        /\ requests = [r \in Req |-> Idle("idle")] /\ Idle("idle").stage = "idle"
        /\ ~client.ended
    BY DEF BrowserInit, Idle, NewClient
  <1>2. HeardOK
    BY <1>1 DEF HeardOK, RenewalsAwaited, RenewalsFresh, LateServed, ResentServed,
                GoodRenewal, At
  <1>3. RowOK /\ NotThrownOut
    BY <1>1 DEF RowOK, NotThrownOut, GoodRenewal, At
  <1>4. QED
    BY <1>2, <1>3 DEF HeardInv

\* Requests that go on do so with the cookies of a renewal that is not behind them.
LEMMA LateMove ==
  ASSUME LateServed, ResentServed, UNCHANGED stale,
         jar'.access = jar.access, client'.version = client.version,
         \A v \in 1..MaxRefreshes : refreshes'[v].stage = "ok" => refreshes[v].stage = "ok",
         \A r \in Req :
             \/ requests'[r] = requests[r]
             \/ /\ requests'[r].stage = "sent" => requests'[r].version = client.version
                /\ requests'[r].stage = "resent" => requests'[r].status # "denied"
  PROVE  LateServed' /\ ResentServed'
  BY DEF LateServed, ResentServed

\* Nothing but a renewal sets the access token, and the page has one.
LEMMA AloneHasAccess ==
  ASSUME AloneInv, acts.alone, logout.stage # "done"
  PROVE  jar.access \in Token /\ jar.access # None /\ jar.access \in Issued
  BY SessionsAssumption DEF AloneInv, AloneOK, Issued

LEMMA ArrivesHeard ==
  ASSUME BrowserInv, AloneInv, HeardOK, Heard, NEW r \in Req, RequestSettles(r)
  PROVE  /\ \A v \in 1..MaxRefreshes : refreshes[v].stage = "sent" => refreshes'[v] = refreshes[v]
         /\ LateServed' /\ ResentServed' /\ client'.ended = client.ended
  <1>t. /\ TransportInv /\ client \in Clients /\ requests \in [Req -> Requests]
        /\ refreshes \in [1..MaxRefreshes -> Renewals]
        /\ LateServed /\ ResentServed
    BY TransportTypes DEF BrowserInv, TransportInv, HeardOK
  <1> DEFINE q == requests[r]
  <1>i. Idle("idle").stage = "idle" /\ Idle("done").stage = "done"
    BY DEF Idle
  <1>1. /\ OnWire(q) /\ q \in Requests
        /\ UNCHANGED stale /\ jar' = jar /\ acts' = acts /\ logout' = logout
    BY <1>t, Arrivals DEF RequestSettles, RequestLost, sessionsVars
  <1>2. CASE Succeeds(r) \/ \E refused : Fails(r, refused)
    <2>1. UNCHANGED <<client, refreshes>>
          /\ \A u \in Req : requests'[u] = requests[u] \/ requests'[u].stage \in {"idle", "done"}
      BY <1>2, <1>i, <1>t DEF Succeeds, Fails
    <2>2. QED
      BY <1>1, <1>t, <2>1, LateMove
  <1>3. CASE Recover(r) /\ q.stage = "sent" /\ StartsRefresh(q.version)
    <2> DEFINE v == client.version + 1
    <2>1. /\ client.version < MaxRefreshes
          /\ client' = [AskCsrf(client) EXCEPT !.version = v, !.refreshing = TRUE]
          /\ refreshes' = [u \in DOMAIN refreshes |->
                 IF u = v
                 THEN [NoRefresh EXCEPT !.stage = "csrf", !.signal = client.generation]
                 ELSE IF refreshes[u].stage \in {"ok", "failed"} THEN NoRefresh
                 ELSE refreshes[u]]
          /\ requests' = [requests EXCEPT ![r].stage = "recovering", ![r].version = v,
                                          ![r].status = "none"]
      BY <1>3 DEF Recover
    <2>2. client.version \in Nat /\ v # client.version
      BY <1>t, Bounds DEF Clients
    <2> HIDE DEF v
    <2>3. AskCsrf(client) \in Clients
          /\ AskCsrf(client) = [client EXCEPT !.csrf = AskCsrf(client).csrf]
      BY <1>t, AskCsrfOK, TransportTypes DEF TransportInv
    <2>4. client'.version = v /\ client'.ended = client.ended
      BY <1>t, <2>1, <2>3 DEF Clients
    <2>5. [NoRefresh EXCEPT !.stage = "csrf", !.signal = client.generation].stage = "csrf"
      BY DEF NoRefresh
    <2>6. \A u \in 1..MaxRefreshes : refreshes[u].stage = "sent" => refreshes'[u] = refreshes[u]
      BY <1>t, <2>1, <2>2 DEF TransportInv, LatestOnly, Underway
    <2>7. LateServed'
      BY <1>t, <2>1, <2>4, <2>5 DEF LateServed
    <2>8. \A u \in Req : requests'[u] = requests[u] \/ requests'[u].stage = "recovering"
      BY <1>1, <1>t, <2>1 DEF Requests
    <2>9. ResentServed'
      BY <1>t, <2>8 DEF ResentServed
    <2>10. QED
      BY <2>4, <2>6, <2>7, <2>9
  <1>4. CASE Recover(r) /\ q.stage = "sent" /\ ~StartsRefresh(q.version)
    <2> DEFINE next ==
          CASE refreshes[client.version].stage = "ok" ->
                   [q EXCEPT !.stage = "resent", !.status = Status(q, jar)]
            [] refreshes[client.version].stage = "failed" -> Idle("idle")
            [] OTHER -> [q EXCEPT !.stage = "recovering", !.status = "none",
                                  !.version = client.version]
    <2>1. requests' = [requests EXCEPT ![r] = next] /\ UNCHANGED <<client, refreshes>>
      BY <1>4 DEF Recover
    <2>2. next.stage # "sent" /\ (next.stage = "resent" => next.status # "denied")
      <3>1. CASE refreshes[client.version].stage = "ok"
        <4>1. client.version \in 1..MaxRefreshes /\ q.version # client.version
          BY <1>4, <1>t, Bounds DEF StartsRefresh, Clients
        <4>2. jar.access \notin stale
          BY <1>4, <1>t, <3>1, <4>1 DEF LateServed
        <4>3. logout.stage # "done"
          BY <1>1, <1>t DEF TransportInv, RequestsOK, RequestOK, Alive, Cutting
        <4>4. Status(q, jar) # "denied"
          BY <4>2, <4>3, AloneHasAccess DEF Heard, Status
        <4>5. next = [q EXCEPT !.stage = "resent", !.status = Status(q, jar)]
          BY <3>1
        <4>6. QED
          BY <1>1, <4>4, <4>5 DEF Requests
      <3>2. CASE refreshes[client.version].stage = "failed"
        BY <1>i, <3>2
      <3>3. CASE refreshes[client.version].stage \notin {"ok", "failed"}
        <4>1. next = [q EXCEPT !.stage = "recovering", !.status = "none",
                               !.version = client.version]
          BY <3>3
        <4>2. QED
          BY <1>1, <4>1 DEF Requests
      <3>4. QED
        BY <3>1, <3>2, <3>3
    <2> HIDE DEF next
    <2>3. QED
      BY <1>1, <1>t, <2>1, <2>2, LateMove
  <1>5. q.stage = "resent" => q.status # "denied"
    BY <1>t DEF ResentServed
  <1>6. QED
    BY <1>2, <1>3, <1>4, <1>5, <1>t, Arrivals DEF RequestSettles, RequestLost

LEMMA DispatchSends ==
  ASSUME NEW q \in Requests, client \in Clients
  PROVE  /\ Dispatch(q) \in Requests
         /\ Dispatch(q).stage \in {"idle", "waiting", "sent"}
         /\ Dispatch(q).stage = "sent" => Dispatch(q).version = client.version
  <1>1. /\ client.generation \in Nat /\ client.version \in Nat
        /\ Idle("idle") \in Requests /\ Idle("idle").stage = "idle"
    BY Bounds DEF Clients, Idle, Requests, Kind
  <1>2. Status(q, jar) \in {"ok", "denied", "forbidden"}
    BY DEF Status
  <1> DEFINE tied == [q EXCEPT !.signal = client.generation]
  <1>3. tied \in Requests
    BY <1>1 DEF Requests
  <1>4. Status(tied, jar) \in {"ok", "denied", "forbidden"}
    BY DEF Status
  <1>5. \/ Dispatch(q) = Idle("idle")
        \/ Dispatch(q) = [tied EXCEPT !.stage = "waiting", !.version = client.version]
        \/ Dispatch(q) = [tied EXCEPT !.stage = "sent", !.version = client.version,
                                      !.status = Status(tied, jar)]
    BY DEF Dispatch, Sent
  <1> HIDE DEF tied
  <1>6. QED
    BY <1>1, <1>3, <1>4, <1>5 DEF Requests

\* Steps of the page that neither renew nor log out keep what it has heard.
LEMMA InsideHeard ==
  ASSUME BrowserInv, AloneInv, HeardOK, Heard, Inside, ~Reopen, ~acts'.unheard
  PROVE  /\ \A v \in 1..MaxRefreshes : refreshes[v].stage = "sent" => refreshes'[v] = refreshes[v]
         /\ LateServed' /\ ResentServed' /\ client'.ended = client.ended
  <1>t. /\ TransportInv /\ client \in Clients /\ requests \in [Req -> Requests]
        /\ refreshes \in [1..MaxRefreshes -> Renewals] /\ acts \in Acts
        /\ jar \in Jar /\ drawn \in Nat
        /\ LateServed /\ ResentServed
    BY TransportTypes DEF BrowserInv, TransportInv, HeardOK
  <1>s. UNCHANGED stale /\ jar'.access = jar.access
    BY InsideKeepsLogin DEF sessionsVars
  <1>i. Idle("idle").stage = "idle"
    BY DEF Idle
  <1>1. ASSUME NEW r \in Req, NEW kind \in Kind, Start(r, kind)
        PROVE  /\ refreshes' = refreshes /\ LateServed' /\ ResentServed'
               /\ client'.ended = client.ended
    <2> DEFINE q == [Idle("csrf") EXCEPT !.kind = kind, !.signal = client.generation,
                                         !.epoch = acts.logouts]
    <2>1. q \in Requests /\ q.stage = "csrf"
      BY <1>t DEF Idle, Requests, Kind, Clients, Acts
    <2>2. /\ client' = client \/ client' = AskCsrf(client)
          /\ refreshes' = refreshes
          /\ requests' = [requests EXCEPT ![r] = q] \/ requests' = [requests EXCEPT ![r] = Dispatch(q)]
      BY <1>1 DEF Start
    <2> HIDE DEF q
    <2>3. AskCsrf(client) = [client EXCEPT !.csrf = AskCsrf(client).csrf]
      BY <1>t, AskCsrfOK
    <2>4. client'.version = client.version /\ client'.ended = client.ended
      BY <1>t, <2>2, <2>3 DEF Clients
    <2>5. /\ Dispatch(q).stage \in {"idle", "waiting", "sent"}
          /\ Dispatch(q).stage = "sent" => Dispatch(q).version = client.version
      BY <1>t, <2>1, DispatchSends
    <2>6. \A u \in Req : \/ requests'[u] = requests[u]
                         \/ /\ requests'[u].stage = "sent" => requests'[u].version = client.version
                            /\ requests'[u].stage = "resent" => requests'[u].status # "denied"
      BY <1>t, <2>1, <2>2, <2>5
    <2>7. QED
      BY <1>s, <1>t, <2>2, <2>4, <2>6, LateMove
  <1>2. CASE CsrfArrives
    <2> DEFINE token == client.csrf.binding
               dropped == {v \in TokenAwaited : Aborted(refreshes[v].signal)}
    <2>1. /\ requests' = [r \in Req |->
                  LET q == requests[r]
                  IN  CASE q.stage = "csrf" ->
                             IF Aborted(q.signal) THEN Idle("idle")
                             ELSE LET d == Dispatch([q EXCEPT !.header = token])
                                  IN  IF d.stage = "sent" THEN Sent(d, jar') ELSE d
                        [] q.stage \in {"waiting", "recovering"} /\ q.version \in dropped ->
                             Idle("idle")
                        [] OTHER -> q]
          /\ refreshes' = [v \in DOMAIN refreshes |->
                  CASE v \in dropped -> [NoRefresh EXCEPT !.stage = "failed"]
                    [] v \in TokenAwaited \ dropped ->
                           [refreshes[v] EXCEPT !.stage = "ready", !.header = token]
                    [] OTHER -> refreshes[v]]
          /\ client' = [client EXCEPT !.csrf = None,
                                      !.refreshing = client.refreshing /\ dropped = {}]
          /\ client.csrf # None
      BY <1>2 DEF CsrfArrives
    <2>2. token \in Nat
      BY <1>t, <2>1 DEF Clients
    <2>3. client'.version = client.version /\ client'.ended = client.ended
      BY <1>t, <2>1 DEF Clients
    <2>4. \A v \in 1..MaxRefreshes :
              v \in TokenAwaited <=> refreshes[v].stage = "csrf"
      BY DEF TokenAwaited, AwaitsToken
    <2>5. dropped \subseteq TokenAwaited
      OBVIOUS
    <2> HIDE DEF dropped, token
    <2>6. ASSUME NEW v \in 1..MaxRefreshes
          PROVE  /\ refreshes[v].stage = "sent" => refreshes'[v] = refreshes[v]
                 /\ refreshes'[v].stage = "ok" => refreshes[v].stage = "ok"
      <3>1. CASE v \in TokenAwaited
        <4>1. CASE v \in dropped
          <5>1. refreshes'[v] = [NoRefresh EXCEPT !.stage = "failed"]
            BY <1>t, <2>1, <4>1
          <5>2. QED
            BY <2>4, <3>1, <5>1 DEF NoRefresh
        <4>2. CASE v \notin dropped
          <5>1. refreshes'[v] = [refreshes[v] EXCEPT !.stage = "ready", !.header = token]
            BY <1>t, <2>1, <3>1, <4>2
          <5>2. refreshes'[v].stage = "ready"
            BY <1>t, <5>1 DEF Renewals
          <5>3. QED
            BY <2>4, <3>1, <5>2
        <4>3. QED
          BY <4>1, <4>2
      <3>2. CASE v \notin TokenAwaited
        BY <1>t, <2>1, <2>5, <3>2
      <3>3. QED
        BY <3>1, <3>2
    <2>7. ASSUME NEW r \in Req
          PROVE  \/ requests'[r] = requests[r]
                 \/ /\ requests'[r].stage = "sent" => requests'[r].version = client.version
                    /\ requests'[r].stage = "resent" => requests'[r].status # "denied"
      <3> DEFINE q == requests[r]
                 d == Dispatch([q EXCEPT !.header = token])
      <3>1. CASE q.stage = "csrf" /\ ~Aborted(q.signal)
        <4>1. [q EXCEPT !.header = token] \in Requests
          BY <1>t, <2>2 DEF Requests
        <4>2. /\ d \in Requests /\ d.stage \in {"idle", "waiting", "sent"}
              /\ d.stage = "sent" => d.version = client.version
          BY <1>t, <4>1, DispatchSends
        <4>3. requests'[r] = IF d.stage = "sent" THEN Sent(d, jar') ELSE d
          BY <2>1, <3>1
        <4> HIDE DEF d
        <4>4. Sent(d, jar').stage = "sent" /\ Sent(d, jar').version = client.version
          BY <4>2 DEF Sent, Requests
        <4>5. QED
          BY <4>2, <4>3, <4>4
      <3>2. CASE ~(q.stage = "csrf" /\ ~Aborted(q.signal))
        <4>1. requests'[r] = q \/ requests'[r] = Idle("idle")
          BY <2>1, <3>2
        <4>2. QED
          BY <1>i, <4>1
      <3>3. QED
        BY <3>1, <3>2
    <2>8. QED
      BY <1>s, <1>t, <2>3, <2>6, <2>7, LateMove
  <1>3. CASE CsrfFails
    <2>1. /\ \A r \in Req : requests'[r] = requests[r] \/ requests'[r] = Idle("idle")
          /\ refreshes' = [v \in DOMAIN refreshes |->
                 IF AwaitsToken(v) THEN [NoRefresh EXCEPT !.stage = "failed"] ELSE refreshes[v]]
      BY <1>3 DEF CsrfFails
    <2> DEFINE idle == [client EXCEPT !.csrf = None,
                                      !.refreshing = client.refreshing /\ TokenAwaited = {}]
    <2>2. client' = Resume(idle) \/ client' = idle
      BY <1>3 DEF CsrfFails
    <2>3. idle.version = client.version /\ idle.ended = client.ended /\ idle \in Clients
      BY <1>t DEF Clients
    <2> HIDE DEF idle
    <2>4. client'.version = client.version /\ client'.ended = client.ended
      BY <2>2, <2>3 DEF Resume, Clients
    <2>5. \A v \in 1..MaxRefreshes :
              /\ refreshes[v].stage = "sent" => refreshes'[v] = refreshes[v]
              /\ refreshes'[v].stage = "ok" => refreshes[v].stage = "ok"
      BY <1>t, <2>1 DEF AwaitsToken, NoRefresh
    <2>6. QED
      BY <1>i, <1>s, <1>t, <2>1, <2>4, <2>5, LateMove
  <1>4. ASSUME NEW v \in 1..MaxRefreshes, RefreshLost(v) PROVE FALSE
    BY <1>4, <1>t DEF RefreshLost, Acts
  <1>5. CASE ClickLogout
    <2>1. /\ client' = AskCsrf(Blocks(client)) /\ refreshes' = refreshes
          /\ \A r \in Req : requests'[r] = requests[r] \/ requests'[r] = Idle("idle")
      BY <1>5 DEF ClickLogout, Cut
    <2>2. /\ Blocks(client) \in Clients /\ Blocks(client).version = client.version
          /\ Blocks(client).ended = client.ended
      BY <1>t DEF Blocks, Clients
    <2>3. AskCsrf(Blocks(client)) = [Blocks(client) EXCEPT !.csrf = AskCsrf(Blocks(client)).csrf]
      BY <1>t, <2>2, AskCsrfOK
    <2>4. client'.version = client.version /\ client'.ended = client.ended
      BY <2>1, <2>2, <2>3 DEF Clients
    <2>5. QED
      BY <1>i, <1>s, <1>t, <2>1, <2>4, LateMove
  <1>6. CASE LogoutLost \/ Redirect
    <2>1. UNCHANGED <<requests, refreshes>> /\ (client' = client \/ client' = Resume(client))
      BY <1>6 DEF LogoutLost, Redirect
    <2>2. client'.version = client.version /\ client'.ended = client.ended
      BY <1>t, <2>1 DEF Resume, Clients
    <2>3. QED
      BY <1>s, <1>t, <2>1, <2>2, LateMove
  <1>7. QED
    BY <1>1, <1>2, <1>3, <1>4, <1>5, <1>6, ArrivesHeard DEF Inside, CsrfSettles

\* There is one renewal under way, and so one call for it.
LEMMA OnlyRenewal ==
  ASSUME BrowserInv, RenewalsAwaited
  PROVE  \A c, d \in Call :
             /\ calls[c] # None /\ Asks(c, "refresh")
             /\ calls[d] # None /\ Asks(d, "refresh")
             => c = d
  BY DEF RenewalsAwaited, BrowserInv, TransportInv, LatestOnly, Underway

\* Steps that leave the renewals alone.
LEMMA HeardFrame ==
  ASSUME HeardInv, acts.alone, acts.unheard => acts'.unheard,
         lapsed \subseteq lapsed', row' = row \/ row' = None,
         client'.ended = client.ended,
         \A c \in Call :
             \/ calls[c] # None /\ Asks(c, "refresh")
             \/ calls'[c] # None /\ Asks(c, "refresh")'
             => calls'[c] = calls[c],
         Heard' =>
             /\ \A v \in 1..MaxRefreshes : refreshes[v].stage = "sent" =>
                    refreshes'[v].stage = "sent" /\ refreshes'[v].call = refreshes[v].call
             /\ RenewalsFresh' /\ LateServed' /\ ResentServed',
         row' # None /\ lapsed' = {} => jar'.refresh = jar.refresh
  PROVE  HeardInv'
  <1>1. NotThrownOut'
    BY DEF HeardInv, NotThrownOut
  <1>2. ASSUME Heard' PROVE HeardOK' /\ RowOK'
    <2>1. Heard /\ HeardOK /\ RowOK
      BY <1>2 DEF HeardInv, Heard
    <2>2. \A c \in Call : calls'[c] # None /\ Asks(c, "refresh")' =>
              calls'[c] = calls[c] /\ calls[c] # None /\ Asks(c, "refresh")
      BY DEF Asks
    <2>3. RenewalsAwaited'
      BY <1>2, <2>1, <2>2 DEF HeardOK, RenewalsAwaited
    <2>4. \A c \in Call : At(c, "answered")' => calls'[c] # None
      BY DEF At
    <2>5. \A c \in Call : GoodRenewal(c) => GoodRenewal(c)'
      BY DEF GoodRenewal, At, Asks
    <2>6. RowOK'
      BY <2>1, <2>2, <2>4, <2>5 DEF RowOK, GoodRenewal, At
    <2>7. QED
      BY <1>2, <2>3, <2>6 DEF HeardOK
  <1>3. QED
    BY <1>1, <1>2 DEF HeardInv, HeardOK, RowOK

\* The answer to the renewal of such a page.
LEMMA RenewalHeard ==
  ASSUME BrowserInv, AloneInv, HeardInv, Heard, NEW v \in 1..MaxRefreshes, RefreshArrives(v),
         acts' = acts
  PROVE  HeardInv'
  <1> DEFINE c == refreshes[v].call
             reply == calls[c].reply
  <1>t. /\ TransportInv /\ SessionsTypeOK /\ client \in Clients /\ requests \in [Req -> Requests]
        /\ refreshes \in [1..MaxRefreshes -> Renewals] /\ jar \in Jar
        /\ RenewalsAwaited /\ RenewalsFresh /\ LateServed /\ ResentServed
        /\ RowOK /\ NotThrownOut /\ TokensReal /\ AloneOK /\ acts.alone
    BY TransportTypes DEF BrowserInv, TransportInv, SessionsInv, HeardInv, HeardOK, AloneInv, Heard
  <1>1. refreshes[v].stage = "sent" /\ Leave(c)
    BY DEF RefreshArrives
  <1>2. /\ c \in Call /\ calls[c] # None /\ calls[c] \in Served /\ Asks(c, "refresh")
        /\ v = client.version
    BY <1>1, RefreshCall
  <1>3. /\ At(c, "answered") /\ calls'[c] = None /\ \A d \in Call \ {c} : calls'[d] = calls[d]
        /\ row' = row /\ lapsed' = lapsed /\ stale' = stale
    BY <1>1, <1>2, <1>t, LeaveOK DEF Leave, database
  <1>4. \A d \in Call : ~(calls'[d] # None /\ Asks(d, "refresh")')
    BY <1>2, <1>3, <1>t, OnlyRenewal DEF Asks
  <1>5. RenewalsAwaited' /\ RenewalsFresh' /\ \A d \in Call : ~GoodRenewal(d)'
    BY <1>4 DEF RenewalsAwaited, RenewalsFresh, GoodRenewal, At
  <1>6. \A d \in Call : At(d, "arrived")' \/ At(d, "answered")' => calls'[d] # None
    BY DEF At
  <1>7. jar'.refresh = row'.token => RowOK'
    BY <1>4, <1>5, <1>6 DEF RowOK
  <1>8. CASE reply.status = "ok"
    <2>1. /\ jar' = [jar EXCEPT !.access = reply.token, !.refresh = reply.token]
          /\ client' = Quiet(client)
          /\ requests' = [r \in Req |-> IF WaitsFor(requests[r], v)
                                        THEN GoesOn(requests[r], jar') ELSE requests[r]]
      BY <1>8 DEF RefreshArrives, EndsLogin
    <2>2. jar'.access = reply.token /\ jar'.refresh = reply.token /\ client'.ended = client.ended
      BY <1>t, <2>1, QuietOK DEF Jar
    <2>3. GoodRenewal(c)
      BY <1>2, <1>3, <1>8 DEF GoodRenewal
    <2>4. reply.token \notin stale /\ reply.token # None
      BY <1>2, <1>t, <2>3, SessionsAssumption DEF RenewalsFresh, TokensReal, Issued
    <2>5. LateServed'
      BY <1>3, <2>2, <2>4 DEF LateServed
    <2>6. ASSUME NEW r \in Req, requests'[r].stage = "resent"
          PROVE  requests'[r].status # "denied"
      <3>1. CASE ~WaitsFor(requests[r], v)
        BY <1>t, <2>1, <2>6, <3>1 DEF ResentServed
      <3>2. CASE WaitsFor(requests[r], v)
        <4> DEFINE q == requests[r]
        <4>1. requests'[r] = GoesOn(q, jar') /\ q \in Requests
          BY <1>t, <2>1, <3>2
        <4>2. Idle("idle").stage # "resent" /\ Sent(q, jar').stage # "resent"
          BY <4>1 DEF Idle, Sent, Requests
        <4>3. requests'[r] = [q EXCEPT !.stage = "resent", !.status = Status(q, jar')]
          BY <2>6, <4>1, <4>2 DEF GoesOn
        <4>4. Status(q, jar') # "denied"
          BY <2>2, <2>4 DEF Status
        <4>5. QED
          BY <4>1, <4>3, <4>4 DEF Requests
      <3>3. QED
        BY <3>1, <3>2
    <2>7. ResentServed'
      BY <2>6 DEF ResentServed
    <2>8. RowOK'
      <3>1. CASE row # None /\ lapsed = {}
        BY <1>2, <1>3, <1>7, <1>t, <2>2, <2>3, <3>1 DEF RowOK
      <3>2. CASE ~(row # None /\ lapsed = {})
        BY <1>3, <3>2 DEF RowOK
      <3>3. QED
        BY <3>1, <3>2
    <2>9. NotThrownOut'
      BY <1>3, <1>t, <2>2 DEF NotThrownOut
    <2>10. QED
      BY <1>5, <2>5, <2>7, <2>8, <2>9 DEF HeardInv, HeardOK
  <1>9. CASE reply.status # "ok"
    <2>1. /\ jar' = jar /\ refreshes' = FailRefresh(v)
          /\ client' = Quiet(client) \/ (client' = End(Quiet(client)) /\ reply.status = "denied")
          /\ \A r \in Req : requests'[r] = requests[r] \/ requests'[r] = Idle("idle")
      BY <1>9 DEF RefreshArrives, EndsLogin, Cut
    <2>2. Quiet(client) \in Clients /\ Quiet(client).version = client.version
          /\ Quiet(client).ended = client.ended
      BY <1>t, QuietOK
    <2>3. /\ client'.version = client.version
          /\ reply.status # "denied" => client'.ended = client.ended
      BY <2>1, <2>2 DEF End, Clients
    <2>4. \A u \in 1..MaxRefreshes : refreshes'[u].stage = "ok" => refreshes[u].stage = "ok"
      BY <1>t, <2>1 DEF FailRefresh, NoRefresh
    <2>5. Idle("idle").stage = "idle"
      BY DEF Idle
    <2>6. LateServed' /\ ResentServed'
      BY <1>3, <1>t, <2>1, <2>3, <2>4, <2>5, LateMove
    <2>7. \A d \in Call : ~GoodRenewal(d)
      <3>1. ~GoodRenewal(c)
        BY <1>9 DEF GoodRenewal
      <3>2. QED
        BY <1>2, <1>t, <3>1, OnlyRenewal DEF GoodRenewal, At
    <2>8. RowOK'
      <3>1. CASE row # None /\ lapsed = {}
        BY <1>3, <1>7, <1>t, <2>1, <2>7, <3>1 DEF RowOK
      <3>2. CASE ~(row # None /\ lapsed = {})
        BY <1>3, <3>2 DEF RowOK
      <3>3. QED
        BY <3>1, <3>2
    <2>9. reply.status = "denied" => row = None \/ lapsed # {}
      BY <1>2, <1>3, <1>t DEF RowOK
    <2>10. NotThrownOut'
      BY <1>3, <1>t, <2>3, <2>9 DEF NotThrownOut
    <2>11. QED
      BY <1>5, <2>6, <2>8, <2>10 DEF HeardInv, HeardOK
  <1>10. QED
    BY <1>8, <1>9

\* The API answers a call of such a page.
LEMMA ServedHeard ==
  ASSUME BrowserInv, AloneInv, HeardInv, Heard, NEW c \in Call, Serve(c), UNCHANGED browserVars
  PROVE  HeardInv'
  <1>t. /\ TransportInv /\ SessionsInv /\ SessionsTypeOK /\ row \in [token: Token, until: Login] \cup {None}
        /\ RenewalsAwaited /\ RenewalsFresh /\ LateServed /\ ResentServed
        /\ HeardOK /\ RowOK /\ NotThrownOut /\ TokensReal /\ AloneOK /\ SignedOut /\ acts.alone
    BY DEF BrowserInv, SessionsInv, SessionsTypeOK, HeardInv, HeardOK, AloneInv, Heard
  <1> DEFINE t == calls[c].request.token
  <1>1. calls[c] # None
    BY DEF Serve, Forbid, Fail, ServeRefresh, ServeLogout, ConsumeState, RefuseState,
           CompleteLogin, At
  <1>2. ~Asks(c, "callback") /\ t \in Issued /\ (Asks(c, "refresh") \/ Asks(c, "logout"))
    BY <1>1, <1>t DEF AloneOK, Asks
  <1>3. /\ At(c, "arrived") /\ At(c, "answered")' /\ calls'[c].request = calls[c].request
        /\ \A d \in Call \ {c} : calls'[d] = calls[d]
        /\ stale' = stale /\ lapsed' = lapsed
    BY <1>2, <1>t, ServeOutcomes
  <1>4. \A op : Asks(c, op)' = Asks(c, op)
    BY <1>3 DEF Asks
  <1>5. UNCHANGED <<jar, client, refreshes, requests, acts>>
    BY DEF browserVars
  <1>6. LateServed' /\ ResentServed'
    BY <1>3, <1>5, <1>t DEF LateServed, ResentServed
  <1>7. CASE Asks(c, "logout")
    <2>1. row' = row \/ row' = None
      BY <1>2, <1>7, <1>t, ServeOutcomes DEF Asks
    <2>2. \A d \in Call : \/ calls[d] # None /\ Asks(d, "refresh")
                          \/ calls'[d] # None /\ Asks(d, "refresh")'
                          => calls'[d] = calls[d]
      BY <1>3, <1>4, <1>7 DEF Asks
    <2>3. RenewalsFresh'
      BY <1>3, <1>4, <1>5, <1>7, <1>t DEF RenewalsFresh, GoodRenewal, At, Asks
    <2>4. QED
      BY <1>3, <1>5, <1>6, <1>t, <2>1, <2>2, <2>3, HeardFrame
  <1>8. CASE Asks(c, "refresh")
    <2>1. \A d \in Call \ {c} : ~(calls'[d] # None /\ Asks(d, "refresh")')
      BY <1>1, <1>3, <1>8, <1>t, OnlyRenewal DEF Asks
    <2>2. \A d \in Call \ {c} : ~GoodRenewal(d)' /\ ~(Asks(d, "refresh")' /\ At(d, "answered")')
              /\ ~(Asks(d, "refresh")' /\ At(d, "arrived")')
      BY <2>1 DEF GoodRenewal, At
    <2>3. RenewalsAwaited'
      <3>1. \E v \in 1..MaxRefreshes : refreshes[v].stage = "sent" /\ refreshes[v].call = c
        BY <1>1, <1>8, <1>t DEF RenewalsAwaited
      <3>2. QED
        BY <1>5, <2>1, <3>1 DEF RenewalsAwaited
    <2>4. ~At(c, "arrived")'
      BY <1>3 DEF At
    <2>5. row' = None \/ row' = row => NotThrownOut'
      BY <1>3, <1>5, <1>t DEF NotThrownOut
    <2>6. CASE Rotates(t) /\ calls'[c].reply = [status |-> "ok", token |-> Fresh]
               /\ row' = [row EXCEPT !.token = Fresh] /\ HasFresh
      <3>1. Fresh \in Token /\ Fresh \notin Issued /\ Fresh # None
        BY <2>6, FreshOK, SessionsAssumption
      <3>2. Fresh \notin stale /\ Fresh # jar.access
        <4>1. jar.access = None \/ jar.access \in Issued
          BY <1>t DEF SignedOut, AloneOK
        <4>2. QED
          BY <1>t, <3>1, <4>1 DEF TokensReal
      <3>3. RenewalsFresh'
        BY <1>3, <1>5, <2>2, <2>6, <3>2 DEF RenewalsFresh
      <3>4. row # None /\ row'.token = Fresh
        BY <1>t, <2>6 DEF Rotates
      <3>5. GoodRenewal(c)'
        BY <1>3, <1>4, <1>8, <2>6 DEF GoodRenewal
      <3>6. RowOK'
        BY <2>2, <2>4, <2>6, <3>4, <3>5 DEF RowOK
      <3>7. NotThrownOut'
        BY <1>3, <1>5, <1>t, <3>4 DEF NotThrownOut
      <3>8. QED
        BY <1>6, <2>3, <3>3, <3>6, <3>7 DEF HeardInv, HeardOK
    <2>7. CASE row' = row /\ calls'[c].reply.status # "ok"
               /\ (calls'[c].reply.status = "denied" => ~Rotates(t))
      <3>1. \A d \in Call : ~GoodRenewal(d)'
        BY <2>2, <2>7 DEF GoodRenewal
      <3>2. \A d \in Call : ~GoodRenewal(d)
        BY <1>3, <1>4, <1>8, <1>1, <1>t, OnlyRenewal DEF GoodRenewal, At
      <3>3. row # None /\ lapsed = {} => Rotates(t)
        BY <1>2, <1>3, <1>8, <1>t DEF RowOK, Rotates, Verifies, SessionsTypeOK
      <3>4. RowOK'
        BY <1>3, <1>5, <1>t, <2>2, <2>4, <2>7, <3>1, <3>2, <3>3 DEF RowOK
      <3>5. RenewalsFresh'
        BY <3>1 DEF RenewalsFresh
      <3>6. QED
        BY <1>6, <2>3, <2>5, <2>7, <3>4, <3>5 DEF HeardInv, HeardOK
    <2>8. QED
      BY <1>2, <1>8, <1>t, <2>6, <2>7, ServeOutcomes DEF Asks
  <1>9. QED
    BY <1>2, <1>7, <1>8

LEMMA HeardKept ==
  ASSUME BrowserInv, AloneInv, HeardInv, [BrowserNext]_vars
  PROVE  HeardInv'
  <1>t. /\ TransportInv /\ SessionsInv /\ SessionsTypeOK /\ HeardOK /\ RowOK /\ NotThrownOut
        /\ TokensReal /\ AloneOK /\ SignedOut /\ acts \in Acts
        /\ refreshes \in [1..MaxRefreshes -> Renewals] /\ logout \in Logouts
    BY TransportTypes DEF BrowserInv, SessionsInv, TransportInv, HeardInv, AloneInv
  <1>1. CASE ~acts'.alone
    BY <1>1 DEF HeardInv, HeardOK, RowOK, NotThrownOut, Heard
  <1>2. CASE UNCHANGED vars /\ acts'.alone
    <2>1. UNCHANGED <<row, lapsed, stale, calls, acts, client, refreshes, requests, jar>>
      BY <1>2 DEF vars, sessionsVars, browserVars
    <2>2. HeardOK => (RenewalsFresh' /\ LateServed' /\ ResentServed') \/ ~Heard
      BY <2>1 DEF HeardOK, RenewalsFresh, LateServed, ResentServed, GoodRenewal, At, Asks
    <2>3. QED
      BY <1>2, <1>t, <2>1, <2>2, HeardFrame DEF Heard
  <1>3. CASE BrowserNext /\ acts'.alone /\ acts'.unheard
    <2>1. NotThrownOut'
      BY <1>3 DEF NotThrownOut
    <2>2. QED
      BY <1>3, <2>1 DEF HeardInv, HeardOK, RowOK, Heard
  <1>4. CASE BrowserNext /\ acts'.alone /\ ~acts'.unheard
    <2>a. acts.alone /\ ~acts.unheard /\ Heard
      BY <1>4, <1>t, AloneSteps DEF Acts, Heard
    <2>h. RenewalsAwaited /\ RenewalsFresh /\ LateServed /\ ResentServed
      BY <1>t, <2>a DEF HeardOK
    <2>r. ~Reopen
      BY <1>4, <1>t, ElsewhereOK DEF Reopen
    <2>f. ASSUME UNCHANGED <<calls, stale>>, jar'.access = jar.access PROVE RenewalsFresh'
      BY <2>f, <2>h DEF RenewalsFresh, GoodRenewal, At, Asks
    <2>1. CASE Inside
      <3>1. UNCHANGED sessionsVars /\ jar'.access = jar.access /\ jar'.refresh = jar.refresh
        BY <2>1, <2>r, InsideKeepsLogin
      <3>2. UNCHANGED <<row, lapsed, stale, calls>>
        BY <3>1 DEF sessionsVars
      <3>3. /\ \A v \in 1..MaxRefreshes : refreshes[v].stage = "sent" => refreshes'[v] = refreshes[v]
            /\ LateServed' /\ ResentServed' /\ client'.ended = client.ended
        BY <1>4, <1>t, <2>1, <2>a, <2>r, InsideHeard
      <3>4. QED
        BY <2>a, <2>f, <3>1, <3>2, <3>3, HeardFrame
    <2>2. ASSUME NEW v \in 1..MaxRefreshes, SendRefresh(v) PROVE HeardInv'
      <3>1. PICK c \in Call :
                /\ SendCall(c, "refresh", refreshes[v].header)
                /\ refreshes' = [refreshes EXCEPT ![v].stage = "sent", ![v].call = c]
        BY <2>2, NextCallOK DEF SendRefresh
      <3>p. /\ calls'[c].request = [op |-> "refresh", token |-> jar.refresh,
                                    allowed |-> Allowed(refreshes[v].header, jar)]
            /\ calls'[c].step = "arrived" /\ calls[c] = None
            /\ \A d \in Call \ {c} : calls'[d] = calls[d]
        BY <1>t, <3>1, SendCallOK
      <3>2. /\ calls'[c].request.token = jar.refresh
            /\ calls'[c].step = "arrived" /\ Asks(c, "refresh")' /\ calls[c] = None
            /\ \A d \in Call \ {c} : calls'[d] = calls[d]
        BY <3>p DEF Asks
      <3>3. /\ refreshes[v].stage = "ready"
            /\ UNCHANGED <<row, lapsed, stale, jar, client, requests, acts>>
        BY <2>2 DEF SendRefresh, database
      <3>4. /\ refreshes'[v].stage = "sent" /\ refreshes'[v].call = c
            /\ \A u \in 1..MaxRefreshes : u # v => refreshes'[u] = refreshes[u]
        BY <1>t, <3>1 DEF Renewals
      <3>5. \A d \in Call : ~(calls[d] # None /\ Asks(d, "refresh"))
        BY <1>t, <2>h, <3>3 DEF RenewalsAwaited, TransportInv, LatestOnly, Underway
      <3>6. \A d \in Call \ {c} : ~(calls'[d] # None /\ Asks(d, "refresh")')
        BY <3>2, <3>5 DEF Asks
      <3>7. \A d \in Call : ~GoodRenewal(d) /\ ~GoodRenewal(d)'
                /\ (At(d, "answered")' => ~Asks(d, "refresh")')
                /\ (At(d, "arrived")' /\ Asks(d, "refresh")' => d = c)
        BY <3>2, <3>5, <3>6 DEF GoodRenewal, At
      <3>8. RenewalsAwaited' /\ RenewalsFresh'
        BY <3>4, <3>6, <3>7 DEF RenewalsAwaited, RenewalsFresh
      <3>9. LateServed' /\ ResentServed'
        BY <2>h, <3>3, <3>4 DEF LateServed, ResentServed
      <3>10. RowOK'
        BY <1>t, <2>a, <3>2, <3>3, <3>7 DEF RowOK
      <3>11. NotThrownOut'
        BY <1>t, <3>3 DEF NotThrownOut
      <3>12. QED
        BY <3>8, <3>9, <3>10, <3>11 DEF HeardInv, HeardOK
    <2>3. ASSUME NEW v \in 1..MaxRefreshes, RefreshArrives(v) PROVE HeardInv'
      BY <2>3, <2>a, RenewalHeard DEF RefreshArrives
    <2>4. CASE SendLogout
      <3>1. PICK c \in Call : SendCall(c, "logout", logout.header)
        BY <2>4, NextCallOK DEF SendLogout
      <3>2. /\ Asks(c, "logout")' /\ calls[c] = None
            /\ \A d \in Call \ {c} : calls'[d] = calls[d]
        BY <1>t, <3>1, SendCallOK
      <3>3. UNCHANGED <<row, lapsed, stale, jar, client, refreshes, requests, acts>>
        BY <2>4 DEF SendLogout, database
      <3>4. \A d \in Call :
                \/ calls[d] # None /\ Asks(d, "refresh")
                \/ calls'[d] # None /\ Asks(d, "refresh")'
                => calls'[d] = calls[d]
        BY <3>2 DEF Asks
      <3>5. RenewalsFresh'
        BY <2>h, <3>2, <3>3 DEF RenewalsFresh, GoodRenewal, At, Asks
      <3>6. LateServed' /\ ResentServed'
        BY <2>h, <3>3 DEF LateServed, ResentServed
      <3>7. QED
        BY <2>a, <3>3, <3>4, <3>5, <3>6, HeardFrame
    <2>5. ASSUME NEW c \in Call, Leave(c), ~Asks(c, "refresh"), UNCHANGED <<client, refreshes, requests>>,
                 jar'.access \notin stale,
                 row # None /\ lapsed = {} => jar'.refresh = jar.refresh,
                 \A v \in 1..MaxRefreshes : ~Underway(refreshes[v]) \/ jar' = jar
          PROVE  HeardInv'
      <3>1. /\ \A d \in Call \ {c} : calls'[d] = calls[d]
            /\ calls'[c] = None
            /\ UNCHANGED <<row, lapsed, stale>>
        BY <1>t, <2>5, LeaveOK DEF Leave, database
      <3>2. \A d \in Call :
                \/ calls[d] # None /\ Asks(d, "refresh")
                \/ calls'[d] # None /\ Asks(d, "refresh")'
                => calls'[d] = calls[d]
        BY <2>5, <3>1 DEF Asks
      <3>3. \A d \in Call : GoodRenewal(d)' => GoodRenewal(d) /\ calls'[d] = calls[d]
        BY <3>1 DEF GoodRenewal, At, Asks
      <3>4. \A d \in Call : GoodRenewal(d) => jar' = jar
        BY <2>5, <2>h DEF GoodRenewal, At, RenewalsAwaited, Underway
      <3>5. RenewalsFresh'
        BY <2>h, <3>1, <3>3, <3>4 DEF RenewalsFresh
      <3>6. LateServed' /\ ResentServed'
        BY <2>5, <2>h, <3>1 DEF LateServed, ResentServed
      <3>7. QED
        BY <2>5, <2>a, <3>1, <3>2, <3>5, <3>6, HeardFrame
    <2>l. ASSUME NEW c \in Call, Leave(c), ~Asks(c, "refresh"),
                 UNCHANGED <<client, refreshes, requests, jar>>
          PROVE  HeardInv'
      <3>1. /\ \A d \in Call \ {c} : calls'[d] = calls[d]
            /\ calls'[c] = None
            /\ UNCHANGED <<row, lapsed, stale>>
        BY <1>t, <2>l, LeaveOK DEF Leave, database
      <3>2. \A d \in Call :
                \/ calls[d] # None /\ Asks(d, "refresh")
                \/ calls'[d] # None /\ Asks(d, "refresh")'
                => calls'[d] = calls[d]
        BY <2>l, <3>1 DEF Asks
      <3>3. RenewalsFresh'
        BY <2>h, <2>l, <3>1 DEF RenewalsFresh, GoodRenewal, At, Asks
      <3>4. LateServed' /\ ResentServed'
        BY <2>l, <2>h, <3>1 DEF LateServed, ResentServed
      <3>5. QED
        BY <2>l, <2>a, <3>1, <3>2, <3>3, <3>4, HeardFrame
    <2>6. CASE LogoutArrives
      <3> DEFINE c == logout.call
      <3>1. logout.stage = "sent" /\ Leave(c) /\ UNCHANGED <<refreshes, requests>>
        BY <2>6 DEF LogoutArrives
      <3>2. c \in Call /\ Asks(c, "logout")
        BY <3>1, LogoutCall
      <3>3. ~Asks(c, "refresh")
        BY <3>2 DEF Asks
      <3>4. CASE calls[c].reply.status = "ok"
        <4>1. jar' = LoggedOut(jar) /\ client' = client
          BY <2>6, <3>4 DEF LogoutArrives
        <4>2. jar'.access = None
          BY <1>t, <4>1, TransportTypes DEF LoggedOut, Jar, TransportInv
        <4>3. jar'.access \notin stale
          BY <1>t, <4>2, SessionsAssumption DEF SessionsTypeOK
        <4>4. Over
          BY <1>t, <2>a, <3>1, <3>2, <3>4 DEF GoodLogout, Leave, AloneOK
        <4>5. \A v \in 1..MaxRefreshes : ~Underway(refreshes[v])
          BY <1>t, <3>1, TransportTypes DEF TransportInv, LogoutQuiet, Underway
        <4>6. QED
          BY <2>5, <3>1, <3>2, <3>3, <4>1, <4>3, <4>4, <4>5 DEF Over
      <3>5. CASE calls[c].reply.status # "ok"
        <4>1. jar' = jar /\ client' = Resume(client)
          BY <2>6, <3>5 DEF LogoutArrives
        <4>2. client'.version = client.version /\ client'.ended = client.ended
          BY <1>t, <4>1, TransportTypes DEF TransportInv, Clients, Resume
        <4>3. /\ \A d \in Call \ {c} : calls'[d] = calls[d]
              /\ calls'[c] = None
              /\ UNCHANGED <<row, lapsed, stale>>
          BY <1>t, <3>1, <3>2, LeaveOK DEF Leave, database
        <4>4. \A d \in Call :
                  \/ calls[d] # None /\ Asks(d, "refresh")
                  \/ calls'[d] # None /\ Asks(d, "refresh")'
                  => calls'[d] = calls[d]
          BY <3>3, <4>3 DEF Asks
        <4>5. RenewalsFresh'
          BY <2>h, <4>1, <4>3 DEF RenewalsFresh, GoodRenewal, At, Asks
        <4>6. LateServed' /\ ResentServed'
          BY <2>h, <3>1, <4>1, <4>2, <4>3 DEF LateServed, ResentServed
        <4>7. QED
          BY <2>a, <3>1, <4>1, <4>2, <4>3, <4>4, <4>5, <4>6, HeardFrame
      <3>6. QED
        BY <3>4, <3>5
    <2>7. ASSUME NEW c \in Call, Serve(c), UNCHANGED browserVars PROVE HeardInv'
      BY <2>7, <2>a, ServedHeard
    <2>8. ASSUME NEW c \in Call, AnswerElsewhere(c) PROVE FALSE
      BY <1>t, <2>8, <2>a DEF AnswerElsewhere, AloneOK
    <2>9. ASSUME NEW c \in Call, Drop(c) PROVE HeardInv'
      <3>1. UNCHANGED <<jar, client, refreshes, requests>> /\ Leave(c)
        BY <2>9 DEF Drop, browserVars
      <3>2. calls[c] # None
        BY <3>1 DEF Leave, At
      <3>3. ~Asks(c, "refresh")
        BY <1>t, <2>9, <2>h, <3>2 DEF Drop, RenewalsAwaited
      <3>4. QED
        BY <2>l, <3>1, <3>3
    <2>10. ASSUME UNCHANGED browserVars, UNCHANGED <<row, calls>>, lapsed \subseteq lapsed',
                  RenewalsFresh', LateServed'
           PROVE  HeardInv'
      <3>1. UNCHANGED <<jar, client, refreshes, requests>>
        BY <2>10 DEF browserVars
      <3>2. ResentServed'
        BY <2>h, <3>1 DEF ResentServed
      <3>3. QED
        BY <2>10, <2>a, <3>1, <3>2, HeardFrame
    <2>11. ASSUME UNCHANGED browserVars, UNCHANGED <<row, calls, stale>>, lapsed \subseteq lapsed'
           PROVE  HeardInv'
      <3>1. RenewalsFresh' /\ LateServed'
        BY <2>11, <2>f, <2>h DEF LateServed, browserVars
      <3>2. QED
        BY <2>10, <2>11, <3>1
    <2>12. ASSUME NEW s \in State, StateExpires(s), UNCHANGED browserVars PROVE HeardInv'
      BY <2>11, <2>12 DEF StateExpires
    <2>13. CASE AccessRunsOut
      <3>1. /\ UNCHANGED browserVars /\ UNCHANGED <<database, lapsed, calls>>
            /\ stale' = stale \cup {jar.access}
        BY <2>13 DEF AccessRunsOut, AccessExpires
      <3>2. UNCHANGED <<row, calls, jar, client, refreshes, requests>> /\ lapsed' = lapsed
        BY <3>1 DEF database, browserVars
      <3>3. RenewalsFresh'
        BY <2>h, <3>1, <3>2 DEF RenewalsFresh, GoodRenewal, At, Asks
      <3>4. LateServed'
        BY <2>13, <3>2 DEF LateServed, AccessRunsOut
      <3>5. QED
        BY <2>10, <3>1, <3>2, <3>3, <3>4
    <2>14. ASSUME NEW l \in Login, LoginLapses(l), UNCHANGED browserVars PROVE HeardInv'
      BY <2>11, <2>14 DEF LoginLapses, database
    <2>15. QED
      BY <1>4, <2>1, <2>2, <2>3, <2>4, <2>6, <2>7, <2>8, <2>9, <2>12, <2>13, <2>14,
         AloneSteps DEF Inside, CsrfSettles
  <1>5. QED
    BY <1>1, <1>2, <1>3, <1>4

(* A page that no other tab disturbs is sent to the login page only when   *)
(* its session is gone, a login has lapsed, or the answer to one of its    *)
(* renewals was lost.                                                      *)
THEOREM NeverThrownOut == BrowserSpec => []NotThrownOut
  <1>1. BrowserInit => HeardInv
    BY HeardInit
  <1>2. (BrowserInv /\ AloneInv) /\ HeardInv /\ [BrowserNext]_vars => HeardInv'
    BY HeardKept
  <1>3. HeardInv => NotThrownOut
    BY DEF HeardInv
  <1>4. QED
    BY <1>1, <1>2, <1>3, AloneInvariance, PTL DEF BrowserSpec
=============================================================================

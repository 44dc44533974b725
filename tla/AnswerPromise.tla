--------------------------- MODULE AnswerPromise ---------------------------
(***************************************************************************)
(* What a request id promises its owner, without workers, rows or clocks:  *)
(* one call at most, no charge without a call, and an answer that is       *)
(* withdrawn once is not shown again.                                      *)
(*                                                                         *)
(* Answers is the protocol that implements it.                             *)
(***************************************************************************)
EXTENDS Naturals

CONSTANTS
    Requests,    \* request ids
    RequestMax   \* what one request may cost

VARIABLES
    status,  \* none, open, called, answered or closed
    charge   \* what the request may still cost or has cost

promiseVars == <<status, charge>>

PromiseInit ==
    /\ status = [r \in Requests |-> "none"]
    /\ charge = [r \in Requests |-> 0]

\* The whole cost of a request is set aside before anything is sent.
Admit(r) ==
    /\ status[r] = "none"
    /\ status' = [status EXCEPT ![r] = "open"]
    /\ charge' = [charge EXCEPT ![r] = RequestMax]

\* From here on nobody can tell whether the provider was reached.
Call(r) ==
    /\ status[r] = "open"
    /\ status' = [status EXCEPT ![r] = "called"]
    /\ UNCHANGED charge

\* A request that was never sent costs nothing.
Refuse(r) ==
    /\ status[r] = "open"
    /\ status' = [status EXCEPT ![r] = "closed"]
    /\ charge' = [charge EXCEPT ![r] = 0]

Resolve(r, outcome, cost) ==
    /\ status[r] = "called"
    /\ status' = [status EXCEPT ![r] = outcome]
    /\ charge' = [charge EXCEPT ![r] = cost]

(* Consent, evidence and retention are shared: several answers may be      *)
(* withdrawn at once.                                                      *)
Withdraw(withdrawn) ==
    /\ \A r \in withdrawn : status[r] = "answered"
    /\ status' = [r \in Requests |-> IF r \in withdrawn THEN "closed" ELSE status[r]]
    /\ UNCHANGED charge

\* After its retention the id is free again.
Forget(r) ==
    /\ status[r] = "closed"
    /\ status' = [status EXCEPT ![r] = "none"]
    /\ charge' = [charge EXCEPT ![r] = 0]

PromiseNext ==
    \/ \E r \in Requests :
           \/ Admit(r)
           \/ Call(r)
           \/ Refuse(r)
           \/ \E outcome \in {"answered", "closed"}, cost \in 0..RequestMax :
                  Resolve(r, outcome, cost)
           \/ Forget(r)
    \/ \E withdrawn \in SUBSET Requests : Withdraw(withdrawn)

PromiseSpec == PromiseInit /\ [][PromiseNext]_promiseVars
=============================================================================

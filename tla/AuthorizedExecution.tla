-------------------------- MODULE AuthorizedExecution --------------------------
(***************************************************************************)
(* What the action control plane promises, without challenges, clocks,     *)
(* locks or workers: an employee is offered terms for a request, may amend *)
(* or drop them, consents to exactly those terms, and the request is       *)
(* carried out at most once, on the terms consented to.                    *)
(***************************************************************************)
EXTENDS Integers

CONSTANTS
  Action,      \* identifiers of actions
  Request,     \* what can be asked for
  Terms,       \* what an offer can say
  MaxOffer,    \* bound on the offers of one action
  NoRequest, NoTerms

VARIABLES
  request,     \* the request each action is for
  latest,      \* number of the action's latest offer; 0: none
  terms,       \* terms of each offer
  standing,    \* how each offer stands
  effects      \* what has been carried out

absVars == <<request, latest, terms, standing, effects>>

Offer == 1 .. MaxOffer

(* An offer in one of these keeps its request to itself.                   *)
Engaged == {"offered", "consented", "done"}

AbstractInit ==
  /\ request = [a \in Action |-> NoRequest]
  /\ latest = [a \in Action |-> 0]
  /\ terms = [a \in Action |-> [n \in Offer |-> NoTerms]]
  /\ standing = [a \in Action |-> [n \in Offer |-> "none"]]
  /\ effects = {}

Propose(a, r, t) ==
  /\ latest[a] = 0
  /\ \A b \in Action, n \in Offer :
       request[b] = r => standing[b][n] \notin Engaged
  /\ request' = [request EXCEPT ![a] = r]
  /\ latest' = [latest EXCEPT ![a] = 1]
  /\ terms' = [terms EXCEPT ![a][1] = t]
  /\ standing' = [standing EXCEPT ![a][1] = "offered"]
  /\ UNCHANGED effects

Amend(a, t) ==
  LET n == latest[a]
  IN  /\ n \in 1 .. MaxOffer - 1
      /\ standing[a][n] = "offered"
      /\ latest' = [latest EXCEPT ![a] = n + 1]
      /\ terms' = [terms EXCEPT ![a][n + 1] = t]
      /\ standing' = [standing EXCEPT ![a] =
           [@ EXCEPT ![n] = "dropped", ![n + 1] = "offered"]]
      /\ UNCHANGED <<request, effects>>

Drop(a) ==
  /\ latest[a] # 0
  /\ standing[a][latest[a]] \in {"offered", "consented"}
  /\ standing' = [standing EXCEPT ![a][latest[a]] = "dropped"]
  /\ UNCHANGED <<request, latest, terms, effects>>

Consent(a) ==
  /\ latest[a] # 0
  /\ standing[a][latest[a]] = "offered"
  /\ standing' = [standing EXCEPT ![a][latest[a]] = "consented"]
  /\ UNCHANGED <<request, latest, terms, effects>>

CarryOut(a) ==
  LET n == latest[a]
  IN  /\ n # 0
      /\ standing[a][n] = "consented"
      /\ standing' = [standing EXCEPT ![a][n] = "done"]
      /\ effects' = effects \cup
           {[action |-> a, offer |-> n, request |-> request[a],
             terms |-> terms[a][n]]}
      /\ UNCHANGED <<request, latest, terms>>

AbstractNext ==
  \E a \in Action :
    \/ \E r \in Request, t \in Terms : Propose(a, r, t)
    \/ \E t \in Terms : Amend(a, t)
    \/ Drop(a)
    \/ Consent(a)
    \/ CarryOut(a)

AbstractSpec == AbstractInit /\ [][AbstractNext]_absVars

(* A request is carried out once at most, and only on terms that stood     *)
(* consented: what a reader of the effects may rely on.                    *)
CarriedOutOnce ==
  \A x, y \in effects : x.request = y.request => x = y

CarriedOutAsAgreed ==
  \A x \in effects :
    /\ standing[x.action][x.offer] = "done"
    /\ terms[x.action][x.offer] = x.terms
=============================================================================

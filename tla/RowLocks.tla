------------------------------- MODULE RowLocks -------------------------------
(***************************************************************************)
(* The locks of the action control plane, one statement at a time.         *)
(* ActionSystem takes an API handler for one step; here it is the lock     *)
(* requests it is made of, and PostgreSQL's waits, deadlock detection and  *)
(* rollback.  A confirmation locks its workflow, its revision, the own     *)
(* challenge when the action has lapsed, and then the challenge the        *)
(* caller named, whichever action that belongs to.  PREPARE locks the      *)
(* occupying revision and never the workflow; the worker takes a workflow  *)
(* and its revision together, skips what is locked and waits for the       *)
(* employee only.                                                          *)
(***************************************************************************)
EXTENDS Naturals, FiniteSets

CONSTANTS Action, Client, Nobody,
          Key, KeyOf,      \* the business request each action is for
          Offered          \* bound: the kinds of request clients send

Handlers == {"get", "issue", "confirm", "cancel", "revise", "observe"}

ASSUME OfferedAssumption == Offered \subseteq Handlers
ASSUME NobodyAssumption == Nobody \notin Client
ASSUME KeyAssumption == KeyOf \in [Action -> Key]

VARIABLES state,       \* of the action's current revision
          lapsed,      \* actions whose TTL has passed
          challenge,   \* of the action: none yet, active, ended
          holder,      \* who holds each lock
          tx           \* what each client's transaction is about to do

vars == <<state, lapsed, challenge, holder, tx>>

Lock ==
  ({"workflow", "revision", "challenge"} \X Action) \cup {<<"employee">>}

Idle == [kind |-> "none", step |-> "idle"]

InTransaction(c) == tx[c].step # "idle"

Occupies(a) == state[a] \in {"waiting", "confirmed", "succeeded"}

(* A request has one occupant at most (OneOccupantPerRequest); actions in  *)
(* state "none" are identifiers PREPARE has not used yet.                  *)
Init ==
  /\ state \in [Action -> {"none", "waiting", "confirmed"}]
  /\ \A a, b \in Action : Occupies(a) /\ Occupies(b) /\ KeyOf[a] = KeyOf[b] => a = b
  /\ lapsed = {}
  /\ challenge \in [Action -> {"none", "active"}]
  /\ \A a \in Action : challenge[a] = "active" => state[a] = "waiting"
  /\ holder = [l \in Lock |-> Nobody]
  /\ tx = [c \in Client |-> Idle]

----------------------------------------------------------------------------

Late(a) == state[a] \in {"waiting", "confirmed"} /\ a \in lapsed

(* Transactions that have flushed a change of the key's index entry and    *)
(* not committed it; an insert under the same key waits for them.          *)
KeyInDoubt(k) ==
  {c \in Client :
     /\ tx[c].step \in {"named", "commit"}
     /\ KeyOf[tx[c].action] = k
     /\ tx[c].late \/ tx[c].kind = "revise" \/ state[tx[c].action] = "none"}

(* The row lock a transaction asks for next.                               *)
Wants(c) ==
  CASE tx[c].step = "workflow" -> {<<"workflow", tx[c].action>>}
    [] tx[c].step \in {"revision", "occupant"} -> {<<"revision", tx[c].action>>}
    [] tx[c].step = "own" -> {<<"challenge", tx[c].action>>}
    [] tx[c].step = "named" -> {<<"challenge", tx[c].named>>}
    [] tx[c].step = "employee" -> {<<"employee">>}
    [] OTHER -> {}

(* Whom it waits for.                                                      *)
Blockers(c) ==
  (IF tx[c].step = "key"
     THEN KeyInDoubt(KeyOf[tx[c].action])
     ELSE {holder[l] : l \in Wants(c)}) \ {Nobody, c}

Take(c) ==
  /\ Blockers(c) = {}
  /\ holder' = [l \in Lock |-> IF l \in Wants(c) THEN c ELSE holder[l]]

End(c) ==
  /\ holder' = [l \in Lock |-> IF holder[l] = c THEN Nobody ELSE holder[l]]
  /\ tx' = [tx EXCEPT ![c] = Idle]

Rollback(c) == End(c) /\ UNCHANGED <<state, lapsed, challenge>>

Begin(c, kind, a, n, step) ==
  /\ ~InTransaction(c)
  /\ tx' = [tx EXCEPT ![c] =
       [kind |-> kind, step |-> step, action |-> a, named |-> n, late |-> FALSE]]
  /\ UNCHANGED <<state, lapsed, challenge>>

(* --- API handlers -------------------------------------------------------- *)

(* A request of the API, or the worker's look after a lost commit; a       *)
(* confirmation names any challenge that exists.                           *)
StartHandler(c, kind, a, n) ==
  /\ state[a] # "none"
  /\ IF kind = "confirm" THEN challenge[n] # "none" ELSE n = a
  /\ Begin(c, kind, a, n, "workflow")
  /\ UNCHANGED holder

LockWorkflow(c) ==
  /\ tx[c].step = "workflow"
  /\ Take(c)
  /\ tx' = [tx EXCEPT ![c].step = "revision"]
  /\ UNCHANGED <<state, lapsed, challenge>>

(* Past the own challenge: only a confirmation looks at the named one.     *)
AfterOwn(kind) == IF kind = "confirm" THEN "named" ELSE "commit"

(* The revision is locked, the database's clock read.  A waiting revision  *)
(* that has lapsed, or that the handler supersedes, takes its active       *)
(* challenge with it.                                                      *)
Decide(c, late) ==
  LET t == tx[c]
      supersedes == late \/ t.kind \in {"issue", "cancel", "revise"}
      own == supersedes /\ state[t.action] = "waiting" /\ challenge[t.action] = "active"
  IN  tx' = [tx EXCEPT ![c].late = late,
                       ![c].step = IF own THEN "own" ELSE AfterOwn(t.kind)]

LockRevision(c) ==
  /\ tx[c].step = "revision"
  /\ Take(c)
  /\ Decide(c, Late(tx[c].action) /\ tx[c].kind # "observe")
  /\ UNCHANGED <<state, lapsed, challenge>>

LockOwnChallenge(c) ==
  /\ tx[c].step = "own"
  /\ Take(c)
  /\ tx' = [tx EXCEPT ![c].step = AfterOwn(tx[c].kind)]
  /\ UNCHANGED <<state, lapsed, challenge>>

(* lock_challenge comes before the check that it belongs to this action.   *)
LockNamedChallenge(c) ==
  /\ tx[c].step = "named"
  /\ Take(c)
  /\ tx' = [tx EXCEPT ![c].step = "commit"]
  /\ UNCHANGED <<state, lapsed, challenge>>

(* --- PREPARE -------------------------------------------------------------- *)

StartPrepare(c, a) ==
  /\ state[a] = "none"
  /\ \A d \in Client : InTransaction(d) => tx[d].action # a
  /\ Begin(c, "prepare", a, a, "key")
  /\ UNCHANGED holder

(* The unique index waits for transactions in doubt, then refuses or not;  *)
(* refused, the call looks for the occupant in a new transaction.          *)
InsertRevision(c) ==
  /\ tx[c].step = "key"
  /\ Blockers(c) = {}
  /\ LET k == KeyOf[tx[c].action]
         occupants == {b \in Action : Occupies(b) /\ KeyOf[b] = k}
     IN  IF occupants = {}
           THEN tx' = [tx EXCEPT ![c].step = "commit"]
           ELSE \E b \in occupants :
                  tx' = [tx EXCEPT ![c].step = "occupant", ![c].action = b,
                                   ![c].named = b]
  /\ UNCHANGED <<state, lapsed, challenge, holder>>

(* Mutant: the loser locks the workflow of its occupant as well.           *)
LockOccupantAndWorkflow(c) ==
  /\ tx[c].step = "occupant"
  /\ Take(c)
  /\ tx' = [tx EXCEPT ![c].step = "workflow"]
  /\ UNCHANGED <<state, lapsed, challenge>>

(* Mutant: the loser reads its occupant without locking it.                *)
ReadOccupant(c) ==
  /\ tx[c].step = "occupant"
  /\ IF ~Occupies(tx[c].action)
       THEN End(c)
       ELSE Decide(c, Late(tx[c].action)) /\ UNCHANGED holder
  /\ UNCHANGED <<state, lapsed, challenge>>

(* lock_occupying_revision_for_business_request: READ COMMITTED evaluates  *)
(* the row again when the lock is granted.                                 *)
LockOccupant(c) ==
  /\ tx[c].step = "occupant"
  /\ IF Blockers(c) = {} /\ ~Occupies(tx[c].action)
       THEN End(c)
       ELSE Take(c) /\ Decide(c, Late(tx[c].action))
  /\ UNCHANGED <<state, lapsed, challenge>>

(* --- The worker ----------------------------------------------------------- *)

(* FOR NO KEY UPDATE SKIP LOCKED, of both tables of the join; a leave then  *)
(* waits for the employee.                                                 *)
Claim(c, a) ==
  /\ state[a] = "confirmed"
  /\ holder[<<"workflow", a>>] = Nobody /\ holder[<<"revision", a>>] = Nobody
  /\ \E step \in {"employee", "commit"} : Begin(c, "worker", a, a, step)
  /\ holder' = [holder EXCEPT ![<<"workflow", a>>] = c, ![<<"revision", a>>] = c]

LockEmployee(c) ==
  /\ tx[c].step = "employee"
  /\ Take(c)
  /\ tx' = [tx EXCEPT ![c].step = "commit"]
  /\ UNCHANGED <<state, lapsed, challenge>>

(* Only the worker sets a lock_timeout.                                    *)
LockTimeout(c) ==
  /\ tx[c].step = "employee"
  /\ Blockers(c) # {}
  /\ Rollback(c)

----------------------------------------------------------------------------

Waiting(t) == state[t.action] = "waiting" /\ ~t.late

(* Mutant: a challenge is consumed whatever action it is of.               *)
ConsumesNamed(t) ==
  /\ t.kind = "confirm"
  /\ Waiting(t)
  /\ challenge[t.named] = "active"

Accepts(t) ==
  /\ t.kind = "confirm"
  /\ Waiting(t)
  /\ t.named = t.action
  /\ challenge[t.named] = "active"

(* What each transaction makes of its action.  issue_challenge raises on a *)
(* lapsed one, so its normalisation is rolled back.                        *)
Outcomes(t) ==
  CASE t.late -> {IF t.kind = "issue" THEN state[t.action] ELSE "ended"}
    [] t.kind = "worker" -> {"succeeded", "ended"}
    [] Accepts(t) -> {"confirmed"}
    [] t.kind = "cancel" /\ state[t.action] \in {"waiting", "confirmed"} -> {"ended"}
    [] state[t.action] = "none" -> {"waiting"}
    [] OTHER -> {state[t.action]}

(* The challenges that end with it if they are active.                     *)
Ends(t, s) ==
  (IF s # state[t.action] \/ (t.kind = "revise" /\ Waiting(t)) THEN {t.action} ELSE {})
    \cup (IF Accepts(t) THEN {t.named} ELSE {})

Commit(c) ==
  LET t == tx[c]
  IN  /\ t.step = "commit"
      /\ \E s \in Outcomes(t) :
           /\ state' = [state EXCEPT ![t.action] = s]
           /\ challenge' = [b \in Action |->
                IF t.kind = "issue" /\ Waiting(t) /\ b = t.action THEN "active"
                ELSE IF b \in Ends(t, s) /\ challenge[b] = "active" THEN "ended"
                ELSE challenge[b]]
      /\ End(c)
      /\ UNCHANGED lapsed

Lapse(a) ==
  /\ a \notin lapsed
  /\ lapsed' = lapsed \cup {a}
  /\ UNCHANGED <<state, challenge, holder, tx>>

(* A cycle of the waits-for graph.                                         *)
Cycle(S) ==
  LET Closed(T) == T # {} /\ \A c \in T : Blockers(c) \cap T # {}
  IN  Closed(S) /\ \A T \in SUBSET S : Closed(T) => T = S

(* PostgreSQL aborts one transaction of the cycle.                         *)
DetectDeadlock(c) ==
  /\ \E S \in SUBSET Client : c \in S /\ Cycle(S)
  /\ Rollback(c)

Advance(c) ==
  \/ LockWorkflow(c) \/ LockRevision(c) \/ LockOwnChallenge(c)
  \/ LockNamedChallenge(c) \/ InsertRevision(c) \/ LockOccupant(c)
  \/ LockEmployee(c) \/ LockTimeout(c) \/ Commit(c) \/ DetectDeadlock(c)

Next ==
  \/ \E c \in Client : Advance(c)
  \/ \E c \in Client, a, n \in Action, kind \in Offered : StartHandler(c, kind, a, n)
  \/ \E c \in Client, a \in Action : StartPrepare(c, a) \/ Claim(c, a)
  \/ \E a \in Action : Lapse(a)

Spec == Init /\ [][Next]_vars

----------------------------------------------------------------------------

(* Every cyclic wait is one of confirmations of lapsed actions that name   *)
(* each other's challenges: no handler, PREPARE call or worker can be in   *)
(* one, whatever they meet (lock_challenge before challenge_mismatch).     *)
OnlyCrossedConfirmations ==
  \A S \in SUBSET Client :
    Cycle(S) => \A c \in S : /\ tx[c].kind = "confirm"
                             /\ tx[c].late
                             /\ tx[c].named # tx[c].action

(* From the lock of the revision to the commit nobody else changes the     *)
(* action or its challenge: what _lock_owned_revision is for, and why      *)
(* ActionSystem may take a handler for one step.                           *)
HandlersAreAtomic ==
  [][\A c \in Client :
       LET Decided(t) == t.step \in {"own", "named", "employee", "commit"}
           a == tx[c].action
       IN  Decided(tx[c]) /\ Decided(tx'[c]) =>
             state'[a] = state[a] /\ challenge'[a] = challenge[a]]_vars
=============================================================================

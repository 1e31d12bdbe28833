--------------------------- MODULE MutationWindow ---------------------------
(***************************************************************************)
(* The public demo's mutation window: guarded requests and the worker hold *)
(* a shared advisory lock while they change business data, the private     *)
(* reset (src/app/demo/service.py) raises the maintenance flag in one      *)
(* transaction and takes the exclusive lock in a second one that deletes   *)
(* table by table.  GET /actions/{id} is not guarded although it writes    *)
(* the expiry it finds.  Every API session comes from one pool.            *)
(*                                                                         *)
(* What the guarded handlers do to an action is cut down to the state and  *)
(* the challenge; ActionSystem has them in full.  The reset's own deletes  *)
(* are rows in "wiped": other transactions still see them, and wait.       *)
(***************************************************************************)
EXTENDS Naturals, FiniteSets

CONSTANTS Actions, Requests, Readers,
          PoolSize, MaxOverflow, PoolTimeout,  \* the configured pool
          Offered,        \* bound: the kinds of request clients send
          MaxResets       \* bound: resets started by the scheduler

Kinds == {"query", "challenge", "confirm", "cancel"}
Metered == {"query", "confirm"}

ASSUME PoolAssumption == PoolSize \in Nat \ {0} /\ MaxOverflow \in Nat
ASSUME OfferedAssumption == Offered \subseteq Kinds

VARIABLES maintenance,                                 \* demo_runtime_state
          state, lapsed, challenge, audit, business,   \* the mutable tables
          request, reader, worker,                     \* API threads, worker
          reset, wiped, undo, resets                   \* the reset process

tables == <<state, lapsed, challenge, audit, business>>
resetVars == <<reset, wiped, undo, resets>>
vars == <<maintenance, tables, request, reader, worker, resetVars>>

DeleteOrder == <<"business", "audits", "challenges", "revisions", "workflows", "verify", "commit">>
ResetPhases == {"idle", "flagged"} \union {DeleteOrder[i] : i \in DOMAIN DeleteOrder}
Idle == [phase |-> "idle"]

Init ==
  /\ maintenance = FALSE
  /\ state = [a \in Actions |-> "NONE"] /\ challenge = [a \in Actions |-> "NONE"]
  /\ lapsed = {} /\ audit = {} /\ business = {}
  /\ request = [r \in Requests |-> Idle] /\ reader = [g \in Readers |-> Idle]
  /\ worker = "idle" /\ reset = "idle" /\ resets = 0
  /\ wiped = [challenges |-> {}, revisions |-> {}, workflows |-> {}]
  /\ undo = [business |-> {}, audit |-> {}]

(* --- The connection pool (src/app/db/session.py) ------------------------ *)

(* Only a configuration that differs from (5, 2, 10) is passed on; that    *)
(* one gets the library's default of 5 connections and 10 in overflow.     *)
Capacity ==
  IF <<PoolSize, MaxOverflow, PoolTimeout>> = <<5, 2, 10>>
  THEN 5 + 10 ELSE PoolSize + MaxOverflow

ConnectionsOut ==
  Cardinality({r \in Requests : request[r].phase \in {"lock", "active", "metered", "handling"}})
  + Cardinality({r \in Requests : request[r].phase = "handling"})
  + Cardinality({g \in Readers : reader[g].phase \notin {"idle", "pool"}})

Checkout == ConnectionsOut < Capacity

(* --- Locks -------------------------------------------------------------- *)

SharedHolders ==
  {r \in Requests : request[r].phase \in {"active", "metered", "handling"}}
Exclusive == reset \notin {"idle", "flagged"}

(* PostgreSQL queues a shared request behind a waiting exclusive one.      *)
SharedGranted == reset = "idle"

HoldsWorkflow(a) ==
  {g \in Readers : reader[g].phase \in {"workflow", "revision", "expired"} /\ reader[g].action = a}
(* Mutant: the read takes no lock on the revision.                         *)
HoldsNothing(a) == {}

HoldsRevision(a) ==
  {g \in Readers : reader[g].phase \in {"revision", "expired"} /\ reader[g].action = a}
HoldsChallenge(a) ==
  {g \in Readers : reader[g].phase = "expired" /\ reader[g].action = a /\ reader[g].superseded}

(* --- Guarded requests (require_demo_mutation_window and the routes) ----- *)

Arrive(r, kind, a) ==
  /\ request[r].phase = "idle"
  /\ request' = [request EXCEPT ![r] = [phase |-> "pool", kind |-> kind, action |-> a]]
  /\ UNCHANGED <<maintenance, tables, reader, worker, resetVars>>

Goto(r, phase) ==
  /\ request' = [request EXCEPT ![r].phase = phase]
  /\ UNCHANGED <<maintenance, tables, reader, worker, resetVars>>

Leave(r) ==
  /\ request' = [request EXCEPT ![r] = Idle]
  /\ UNCHANGED <<maintenance, tables, reader, worker, resetVars>>

OpenGuard(r) == request[r].phase = "pool" /\ Checkout /\ Goto(r, "lock")

(* The flag is read once the shared lock is held, in the same step: who    *)
(* gets the lock after a failed reset is refused with 503.                 *)
EnterWindow(r) ==
  /\ request[r].phase = "lock" /\ SharedGranted
  /\ IF maintenance THEN Leave(r) ELSE Goto(r, "active")

(* Mutant: the request waits for the end of maintenance with its lock.     *)
MeterWaits(r) ==
  /\ request[r].phase = "active"
  /\ request[r].kind \in Metered => Checkout /\ ~maintenance
  /\ Goto(r, "metered")

(* demo.consume reads the flag again, in a session of its own.             *)
Meter(r) ==
  /\ request[r].phase = "active"
  /\ request[r].kind \in Metered => Checkout
  /\ IF request[r].kind \in Metered /\ maintenance THEN Leave(r) ELSE Goto(r, "metered")

OpenHandler(r) == request[r].phase = "metered" /\ Checkout /\ Goto(r, "handling")

(* Mutant: a checkout waits for ever.                                      *)
CheckoutWaits(r) == FALSE /\ Leave(r)

(* QueuePool gives up with TimeoutError; the guard's session is closed.    *)
CheckoutTimeout(r) ==
  /\ request[r].phase \in {"pool", "active", "metered"} /\ ~Checkout
  /\ Leave(r)

(* The handler's transaction on the action, and the end of the request.    *)
Live(a) == state[a] = "AWAITING" /\ a \notin lapsed
Effect(kind, a) ==
  CASE kind = "query" /\ state[a] = "NONE" ->
         /\ state' = [state EXCEPT ![a] = "AWAITING"]
         /\ UNCHANGED challenge
    [] kind = "challenge" /\ Live(a) ->
         /\ challenge' = [challenge EXCEPT ![a] = "ACTIVE"]
         /\ UNCHANGED state
    [] kind = "confirm" /\ Live(a) /\ challenge[a] = "ACTIVE" ->
         /\ state' = [state EXCEPT ![a] = "CONFIRMED"]
         /\ challenge' = [challenge EXCEPT ![a] = "CONSUMED"]
    [] kind = "cancel" /\ Live(a) ->
         /\ state' = [state EXCEPT ![a] = "CANCELLED"]
         /\ challenge' = [challenge EXCEPT ![a] = IF @ = "ACTIVE" THEN "SUPERSEDED" ELSE @]
    [] OTHER -> UNCHANGED <<state, challenge>>

Handle(r) ==
  LET a == request[r].action
  IN  /\ request[r].phase = "handling"
      /\ HoldsWorkflow(a) = {}
      /\ Effect(request[r].kind, a)
      /\ audit' = IF <<state, challenge>>' = <<state, challenge>> THEN audit ELSE audit \union {a}
      /\ request' = [request EXCEPT ![r] = Idle]
      /\ UNCHANGED <<maintenance, lapsed, business, reader, worker, resetVars>>

Lapse(a) ==
  /\ state[a] = "AWAITING" /\ a \notin lapsed
  /\ lapsed' = lapsed \union {a}
  /\ UNCHANGED <<maintenance, state, challenge, audit, business,
                 request, reader, worker, resetVars>>

(* --- GET /actions/{id} and /detail: no guard ---------------------------- *)

Step(g, phase) ==
  /\ reader' = [reader EXCEPT ![g].phase = phase]
  /\ UNCHANGED <<maintenance, tables, request, worker, resetVars>>
Gone(g) ==
  /\ reader' = [reader EXCEPT ![g] = Idle]
  /\ UNCHANGED <<maintenance, tables, request, worker, resetVars>>

Get(g, a) ==
  /\ reader[g].phase = "idle"
  /\ reader' = [reader EXCEPT ![g] = [phase |-> "pool", action |-> a, superseded |-> FALSE]]
  /\ UNCHANGED <<maintenance, tables, request, worker, resetVars>>

OpenRead(g) == reader[g].phase = "pool" /\ Checkout /\ Step(g, "open")
ReadTimeout(g) == reader[g].phase = "pool" /\ ~Checkout /\ Gone(g)

(* FOR UPDATE on the workflow, then on the revision; a row the reset has   *)
(* deleted but not committed is waited for, a missing one is 404.          *)
LockWorkflow(g) ==
  LET a == reader[g].action
  IN  /\ reader[g].phase = "open"
      /\ HoldsWorkflow(a) = {} /\ a \notin wiped.workflows
      /\ IF state[a] = "NONE" THEN Gone(g) ELSE Step(g, "workflow")
LockRevision(g) ==
  /\ reader[g].phase = "workflow"
  /\ reader[g].action \notin wiped.revisions
  /\ Step(g, "revision")

(* normalize_locked_expiry in an open transaction: the challenge's row is  *)
(* locked, the audit event needs the revision it refers to.                *)
Expires(a) == state[a] = "AWAITING" /\ a \in lapsed
WriteExpiry(g) ==
  LET a == reader[g].action
      superseded == challenge[a] = "ACTIVE"
  IN  /\ reader[g].phase = "revision" /\ Expires(a)
      /\ superseded => a \notin wiped.challenges
      /\ reader' = [reader EXCEPT ![g] = [phase |-> "expired", action |-> a, superseded |-> superseded]]
      /\ UNCHANGED <<maintenance, tables, request, worker, resetVars>>
CommitRead(g) ==
  LET a == reader[g].action
  IN  \/ reader[g].phase = "revision" /\ ~Expires(a) /\ Gone(g)
      \/ /\ reader[g].phase = "expired"
         /\ state' = [state EXCEPT ![a] = "EXPIRED"]
         /\ challenge' = IF reader[g].superseded
                         THEN [challenge EXCEPT ![a] = "SUPERSEDED"] ELSE challenge
         /\ audit' = audit \union {a}
         /\ reader' = [reader EXCEPT ![g] = Idle]
         /\ UNCHANGED <<maintenance, lapsed, business, request, worker, resetVars>>

(* --- The worker (src/app/demo/worker_cli.py) ---------------------------- *)

Worker(from, to) ==
  /\ worker = from /\ worker' = to
  /\ UNCHANGED <<maintenance, request, reader, resetVars>>

(* The worker's turn: as a request does, it reads the flag under the lock. *)
WorkerGuard ==
  /\ SharedGranted
  /\ Worker("idle", IF maintenance THEN "idle" ELSE "window")
  /\ UNCHANGED tables

(* The poller finds nothing, or executes one confirmed action.             *)
RunOnce ==
  /\ Worker("window", "idle")
  /\ \/ /\ \A a \in Actions : state[a] # "CONFIRMED" \/ HoldsWorkflow(a) # {}
        /\ UNCHANGED tables
     \/ \E a \in Actions :
          /\ state[a] = "CONFIRMED" /\ HoldsWorkflow(a) = {}
          /\ state' = [state EXCEPT ![a] = "SUCCEEDED"]
          /\ business' = business \union {a} /\ audit' = audit \union {a}
          /\ UNCHANGED <<lapsed, challenge>>

(* --- The reset ---------------------------------------------------------- *)

StartReset ==
  /\ reset = "idle" /\ resets < MaxResets
  /\ reset' = "flagged" /\ resets' = resets + 1 /\ maintenance' = TRUE
  /\ UNCHANGED <<tables, request, reader, worker, wiped, undo>>

TakeExclusive ==
  /\ reset = "flagged" /\ SharedHolders = {} /\ worker # "window"
  /\ reset' = "business"
  /\ UNCHANGED <<maintenance, tables, request, reader, worker, wiped, undo, resets>>

(* Mutant: each of these statements is committed by itself.                *)
DeleteAndCommit ==
  /\ \/ reset = "business" /\ business' = {} /\ reset' = "audits" /\ UNCHANGED audit
     \/ reset = "audits" /\ audit' = {} /\ reset' = "challenges" /\ UNCHANGED business
  /\ UNCHANGED <<maintenance, state, lapsed, challenge, request, reader,
                 worker, wiped, undo, resets>>

(* leave_requests, the tickets of actions and action_audit_events: rows no *)
(* other transaction locks or reads before the reset ends.                 *)
DeleteUnlocked ==
  /\ \/ reset = "business" /\ undo' = [undo EXCEPT !.business = business]
        /\ business' = {} /\ reset' = "audits" /\ UNCHANGED audit
     \/ reset = "audits" /\ undo' = [undo EXCEPT !.audit = audit]
        /\ audit' = {} /\ reset' = "challenges" /\ UNCHANGED business
  /\ UNCHANGED <<maintenance, state, lapsed, challenge, request, reader, worker, wiped, resets>>

Wipe(table, a) ==
  /\ wiped' = [wiped EXCEPT ![table] = @ \union {a}]
  /\ UNCHANGED <<maintenance, tables, request, reader, worker, reset, undo, resets>>
Stored == {a \in Actions : state[a] # "NONE"}
WithChallenge == {a \in Actions : challenge[a] # "NONE"}

(* A DELETE locks its rows one after the other; a revision that an audit   *)
(* event still refers to cannot go (ON DELETE RESTRICT).                   *)
DeleteRow ==
  \/ \E a \in WithChallenge \ wiped.challenges :
       reset = "challenges" /\ HoldsChallenge(a) = {} /\ Wipe("challenges", a)
  \/ \E a \in Stored \ wiped.revisions :
       reset = "revisions" /\ HoldsRevision(a) = {} /\ a \notin audit /\ Wipe("revisions", a)
  \/ \E a \in Stored \ wiped.workflows :
       reset = "workflows" /\ HoldsWorkflow(a) = {} /\ Wipe("workflows", a)
StatementDone ==
  /\ reset' = CASE reset = "challenges" /\ wiped.challenges = WithChallenge -> "revisions"
                [] reset = "revisions" /\ wiped.revisions = Stored -> "workflows"
                [] reset = "workflows" /\ wiped.workflows = Stored -> "verify"
                [] reset = "verify" /\ business = {} /\ Stored = wiped.workflows -> "commit"
                [] OTHER -> "idle"
  /\ reset' # "idle"
  /\ UNCHANGED <<maintenance, tables, request, reader, worker, wiped, undo, resets>>

NothingWiped == [challenges |-> {}, revisions |-> {}, workflows |-> {}]
NothingUndone == [business |-> {}, audit |-> {}]

(* The commit that leaves maintenance, once the counts are verified.       *)
FinishReset ==
  /\ reset = "commit"
  /\ state' = [a \in Actions |-> IF a \in wiped.revisions THEN "NONE" ELSE state[a]]
  /\ challenge' = [a \in Actions |-> IF a \in wiped.challenges THEN "NONE" ELSE challenge[a]]
  /\ lapsed' = lapsed \ wiped.revisions
  /\ maintenance' = FALSE /\ reset' = "idle"
  /\ wiped' = NothingWiped /\ undo' = NothingUndone
  /\ UNCHANGED <<audit, business, request, reader, worker, resets>>

Rollback ==
  /\ reset' = "idle"
  /\ business' = business \union undo.business /\ audit' = audit \union undo.audit
  /\ wiped' = NothingWiped /\ undo' = NothingUndone
  /\ UNCHANGED <<state, lapsed, challenge, request, reader, worker, resets>>

(* An error or a crash after the first commit: maintenance stays.          *)
FailReset == reset # "idle" /\ Rollback /\ UNCHANGED maintenance

(* A foreign-key violation always fails the reset; so does, or else the    *)
(* reader is the victim of, the deadlock detector.                         *)
Blocked(g) ==
  \/ reader[g].phase = "workflow" /\ reset = "workflows" /\ reader[g].action \in wiped.revisions
  \/ reader[g].phase = "revision" /\ reset = "revisions" /\ Expires(reader[g].action)
     /\ challenge[reader[g].action] = "ACTIVE" /\ reader[g].action \in wiped.challenges
DeadlockVictim(g) == Blocked(g) /\ Gone(g)

RequestStep(r) ==
  \/ OpenGuard(r) \/ EnterWindow(r) \/ Meter(r) \/ OpenHandler(r)
  \/ CheckoutTimeout(r) \/ Handle(r)
ReaderStep(g) ==
  \/ OpenRead(g) \/ ReadTimeout(g) \/ LockWorkflow(g) \/ LockRevision(g)
  \/ WriteExpiry(g) \/ CommitRead(g) \/ DeadlockVictim(g)
WorkerStep == WorkerGuard \/ RunOnce
ResetStep == TakeExclusive \/ DeleteUnlocked \/ DeleteRow \/ StatementDone \/ FinishReset

Next ==
  \/ \E r \in Requests, kind \in Offered, a \in Actions : Arrive(r, kind, a)
  \/ \E r \in Requests : RequestStep(r)
  \/ \E g \in Readers, a \in Actions : Get(g, a)
  \/ \E g \in Readers : ReaderStep(g)
  \/ \E a \in Actions : Lapse(a)
  \/ WorkerStep
  \/ StartReset \/ ResetStep \/ FailReset

Spec == Init /\ [][Next]_vars

(* Threads, the worker's loop and the reset process keep running; the      *)
(* database aborts one side of a deadlock, and a violated foreign key      *)
(* fails the reset.  A row lock goes to who has waited longest, so the     *)
(* reset's deletes are strongly fair.  Whether a reset fails otherwise,    *)
(* arrivals, lapses and the passing of time are not fair.                  *)
RestrictViolated == reset = "revisions" /\ \E a \in Stored \ wiped.revisions : a \in audit
FairSpec ==
  /\ Spec
  /\ \A r \in Requests : WF_vars(RequestStep(r))
  /\ \A g \in Readers : WF_vars(ReaderStep(g))
  /\ WF_vars(WorkerStep) /\ WF_vars(ResetStep) /\ SF_vars(DeleteRow)
  /\ WF_vars(RestrictViolated /\ FailReset)
-----------------------------------------------------------------------------
Admitted == SharedHolders # {} \/ worker = "window"

(* No audit event or challenge outlives the revision it refers to, though  *)
(* the reset deletes referring and referred rows in separate statements    *)
(* while readers add some.                                                 *)
NoOrphan ==
  /\ audit \subseteq Stored
  /\ WithChallenge \subseteq Stored
  /\ \A g \in Readers : reader[g].phase \in {"workflow", "revision", "expired"} =>
       reader[g].action \in Stored

(* A reset ends, though it waits for requests that hold one connection     *)
(* while they ask for a second, and locks rows in the opposite order of    *)
(* the reads beside it.                                                    *)
ResetEnds == reset # "idle" ~> reset = "idle"

(* What other transactions see: the reset's open deletes do not show.      *)
Life == INSTANCE DemoLife WITH
  serving <- ~maintenance,
  admitted <- Admitted,
  fate <- state,
  recorded <- audit \union undo.audit \union business \union undo.business

(* Locks, five DELETE statements, a reset that may die between them and    *)
(* reads that write implement the promise of DemoLife: to everyone else    *)
(* the reset is one step, or none.                                         *)
ResetIsOneStep == Life!LifeSpec
=============================================================================

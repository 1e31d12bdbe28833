--------------------------- MODULE ExecutionCutover ---------------------------
(***************************************************************************)
(* The cutover from the retired executor to the atomic one: migration 0004 *)
(* adds the occupancy index while the old binary still runs, migration     *)
(* 0005 checks, normalises and checks again in a maintenance window        *)
(* (src/app/workflow/occupancy.py, cutover.py, migrations/versions).       *)
(*                                                                         *)
(* The old binary is not in the repository: its steps are what the ten     *)
(* states of migration 0005's downgrade and the design freezes say of it.  *)
(* Every action here is a leave action with its first revision.            *)
(***************************************************************************)
EXTENDS Naturals, FiniteSets

CONSTANTS
  N,       \* actions are 1 .. N, in the order of their identifiers
  Keys,    \* business request keys
  KeyOf    \* [1 .. N -> Keys]

ASSUME CutoverAssumption == N \in Nat /\ KeyOf \in [1 .. N -> Keys]

Actions == 1 .. N
LegacyUnresolved == {"EXECUTING", "UNKNOWN_OUTCOME", "RECONCILING"}
Nonterminal == {"AWAITING_CONFIRMATION", "CONFIRMED"}
ContradictoryTerminal == {"EXECUTION_FAILED", "CANCELLED", "EXPIRED", "STALE"}
FinalStates == Nonterminal \union ContradictoryTerminal \union {"SUCCEEDED"}
TransitionalOccupancy == {"AWAITING_CONFIRMATION", "CONFIRMED", "SUCCEEDED"}
FinalOccupancy == {"AWAITING_CONFIRMATION", "CONFIRMED", "SUCCEEDED"}

VARIABLES
  schema,    \* the head migration
  running,   \* the old binary runs
  state,     \* action_revisions.state, "NONE" before the action exists
  lapsed,    \* the TTL of the state has run out
  active,    \* the action has an ACTIVE challenge
  absent,    \* the old reconciler has seen no leave
  leaves,    \* leave_requests
  outcome    \* of the last migration: "none", "done" or "halted"
vars == <<schema, running, state, lapsed, active, absent, leaves, outcome>>
tables == <<state, lapsed, active, absent, leaves>>

Leave == [source : Actions, key : Keys, exact : BOOLEAN]

Init ==
  /\ schema = "0003" /\ running = TRUE /\ outcome = "none"
  /\ state = [a \in Actions |-> "NONE"]
  /\ lapsed = [a \in Actions |-> FALSE]
  /\ active = [a \in Actions |-> FALSE]
  /\ absent = [a \in Actions |-> FALSE]
  /\ leaves = {}

(* --- The unique index --------------------------------------------------- *)

Indexed == IF schema = "0003" THEN {} ELSE IF schema = "0004" THEN TransitionalOccupancy ELSE FinalOccupancy
Holders(st, k, states) == {a \in Actions : KeyOf[a] = k /\ st[a] \in states}
Unique(st, states) == \A k \in Keys : Cardinality(Holders(st, k, states)) <= 1

(* An UPDATE or INSERT the index refuses rolls the old binary back.        *)
Becomes(a, s) ==
  /\ state' = [state EXCEPT ![a] = s]
  /\ Unique(state', Indexed)

(* --- The old binary ----------------------------------------------------- *)

LegacyRuns == running /\ outcome # "halted"
OwnLeave(a) == {l \in leaves : l.source = a}

LegacyPrepare(a) ==
  /\ state[a] = "NONE" /\ Becomes(a, "AWAITING_CONFIRMATION")
  /\ UNCHANGED <<lapsed, active, absent, leaves>>
LegacyChallenge(a) ==
  /\ state[a] = "AWAITING_CONFIRMATION" /\ ~lapsed[a] /\ ~active[a]
  /\ active' = [active EXCEPT ![a] = TRUE]
  /\ UNCHANGED <<state, lapsed, absent, leaves>>
LegacyConfirm(a) ==
  /\ active[a] /\ ~lapsed[a] /\ Becomes(a, "CONFIRMED")
  /\ active' = [active EXCEPT ![a] = FALSE]
  /\ UNCHANGED <<lapsed, absent, leaves>>
LegacyDrop(a) ==
  /\ state[a] \in Nonterminal
  /\ Becomes(a, IF lapsed[a] THEN "EXPIRED" ELSE "CANCELLED")
  /\ active' = [active EXCEPT ![a] = FALSE]
  /\ UNCHANGED <<lapsed, absent, leaves>>
LegacyStart(a) ==
  /\ state[a] = "CONFIRMED" /\ ~lapsed[a] /\ Becomes(a, "EXECUTING")
  /\ UNCHANGED <<lapsed, active, absent, leaves>>

(* The leave is inserted in a transaction of its own, perhaps late.        *)
LegacySubmit(a, exact) ==
  /\ state[a] \in LegacyUnresolved \union {"EXECUTION_FAILED"}
  /\ \A l \in leaves : l.key # KeyOf[a]
  /\ leaves' = leaves \union {[source |-> a, key |-> KeyOf[a], exact |-> exact]}
  /\ UNCHANGED <<state, lapsed, active, absent>>
LegacyFinish(a) ==
  /\ state[a] \in {"EXECUTING", "RECONCILING"} /\ OwnLeave(a) # {}
  /\ Becomes(a, "SUCCEEDED")
  /\ UNCHANGED <<lapsed, active, absent, leaves>>
LegacyLose(a) ==
  /\ state[a] = "EXECUTING" /\ Becomes(a, "UNKNOWN_OUTCOME")
  /\ UNCHANGED <<lapsed, active, absent, leaves>>
LegacyReconcile(a) ==
  /\ state[a] = "UNKNOWN_OUTCOME" /\ Becomes(a, "RECONCILING")
  /\ absent' = [absent EXCEPT ![a] = OwnLeave(a) = {}]
  /\ UNCHANGED <<lapsed, active, leaves>>
LegacyClassify(a) ==
  /\ state[a] = "RECONCILING" /\ absent[a] /\ Becomes(a, "EXECUTION_FAILED")
  /\ UNCHANGED <<lapsed, active, absent, leaves>>

LegacyStep ==
  /\ LegacyRuns
  /\ \E a \in Actions :
       \/ LegacyPrepare(a) \/ LegacyChallenge(a) \/ LegacyConfirm(a) \/ LegacyDrop(a)
       \/ LegacyStart(a) \/ LegacyFinish(a) \/ LegacyLose(a)
       \/ LegacyReconcile(a) \/ LegacyClassify(a)
       \/ \E exact \in BOOLEAN : LegacySubmit(a, exact)
  /\ UNCHANGED <<schema, running, outcome>>

Lapse(a) ==
  /\ state[a] \in Nonterminal \union LegacyUnresolved /\ ~lapsed[a]
  /\ lapsed' = [lapsed EXCEPT ![a] = TRUE]
  /\ UNCHANGED <<schema, running, state, active, absent, leaves, outcome>>

StopOldBinary ==
  /\ running /\ schema = "0004" /\ running' = FALSE
  /\ UNCHANGED <<schema, tables, outcome>>

(* --- The invariant gate ------------------------------------------------- *)

(* What a leave says about an action: by its source, or by its key.        *)
MatchingLeaves(a) == {l \in leaves : l.source = a \/ l.key = KeyOf[a]}

MultipleOccupants(st) == {k \in Keys : Cardinality(Holders(st, k, TransitionalOccupancy)) > 1}
MultipleSucceeded(st) == {k \in Keys : Cardinality(Holders(st, k, {"SUCCEEDED"})) > 1}
DuplicateSources == {a \in Actions : Cardinality(OwnLeave(a)) > 1}
SucceededWithoutLeave(st) == {a \in Actions : st[a] = "SUCCEEDED" /\ MatchingLeaves(a) = {}}
TerminalWithLeave(st) == {a \in Actions : st[a] \in ContradictoryTerminal /\ MatchingLeaves(a) # {}}
NonterminalWithLeave(st) == {a \in Actions : st[a] \in Nonterminal /\ MatchingLeaves(a) # {}}
InvalidActiveChallenges(st, act) == {a \in Actions : act[a] /\ st[a] # "AWAITING_CONFIRMATION"}

(* collect_phase1a_invariant_violations, assert_phase1a_invariants         *)
Phase1aClean(st, act) ==
  /\ MultipleOccupants(st) = {} /\ MultipleSucceeded(st) = {} /\ DuplicateSources = {}
  /\ SucceededWithoutLeave(st) = {} /\ TerminalWithLeave(st) = {} /\ NonterminalWithLeave(st) = {}
  /\ InvalidActiveChallenges(st, act) = {}

LeftoverUnresolved(st) == {a \in Actions : st[a] \in LegacyUnresolved}
CutoverClean(st, act) ==
  /\ Phase1aClean(st, act)
  /\ LeftoverUnresolved(st) = {}
  /\ Unique(st, FinalOccupancy)

Migrates(clean, head, st, act) ==
  IF clean
  THEN /\ schema' = head /\ state' = st /\ active' = act /\ outcome' = "done"
       /\ UNCHANGED <<running, lapsed, absent, leaves>>
  ELSE /\ outcome' = "halted" /\ UNCHANGED <<schema, running, tables>>

Upgrade0004 ==
  /\ schema = "0003" /\ outcome # "halted"
  /\ Migrates(Phase1aClean(state, active), "0004", state, active)

(* --- Normalisation ------------------------------------------------------ *)

(* Mutant: a leave that differs from the draft is taken for its result.    *)
SomeEvidence(a) == Cardinality(MatchingLeaves(a)) = 1

(* One leave, and every field the executor would write is the draft's.     *)
ExactEvidence(a) ==
  \E l \in leaves : MatchingLeaves(a) = {l} /\ l.source = a /\ l.exact

(* _normalized_state: the state an action is given, or "HALT".             *)
Normalized(a) ==
  CASE state[a] \in Nonterminal \union ContradictoryTerminal /\ MatchingLeaves(a) # {} -> "HALT"
    [] state[a] = "SUCCEEDED" /\ ~ExactEvidence(a) -> "HALT"
    [] state[a] \in Nonterminal /\ MatchingLeaves(a) = {} /\ lapsed[a] -> "EXPIRED"
    [] state[a] \in LegacyUnresolved /\ MatchingLeaves(a) = {} ->
         IF lapsed[a] THEN "EXPIRED" ELSE "CONFIRMED"
    [] state[a] \in LegacyUnresolved /\ MatchingLeaves(a) # {} ->
         IF ExactEvidence(a) THEN "SUCCEEDED" ELSE "HALT"
    [] OTHER -> state[a]

(* The rows are updated one by one, under the index of 0004.               *)
After(n) == [a \in Actions |-> IF a <= n THEN Normalized(a) ELSE state[a]]
NormalizesCleanly ==
  /\ \A a \in Actions : Normalized(a) # "HALT"
  /\ \A n \in 0 .. N : Unique(After(n), TransitionalOccupancy)
Superseded ==
  [a \in Actions |-> active[a] /\ ~(state[a] = "AWAITING_CONFIRMATION" /\ Normalized(a) = "EXPIRED")]

(* run_execution_cutover_preflight, then the final index and CHECK.        *)
PreflightPasses ==
  /\ Phase1aClean(state, active)
  /\ NormalizesCleanly
  /\ CutoverClean(After(N), Superseded)

(* Mutant: the old binary is not stopped first.                            *)
CutoverOnline ==
  /\ schema = "0004" /\ outcome # "halted"
  /\ Migrates(PreflightPasses, "0005", After(N), Superseded)

Cutover ==
  /\ schema = "0004" /\ outcome # "halted" /\ ~running
  /\ Migrates(PreflightPasses, "0005", After(N), Superseded)

(* --- The new binary ----------------------------------------------------- *)

(* The poller decides a confirmed action and its leave in one transaction. *)
Execute(a) ==
  /\ schema = "0005" /\ state[a] = "CONFIRMED"
  /\ \/ /\ ~lapsed[a] /\ MatchingLeaves(a) = {} /\ Becomes(a, "SUCCEEDED")
        /\ leaves' = leaves \union {[source |-> a, key |-> KeyOf[a], exact |-> TRUE]}
     \/ /\ Becomes(a, IF lapsed[a] THEN "EXPIRED" ELSE "STALE")
        /\ UNCHANGED leaves
  /\ UNCHANGED <<schema, running, lapsed, active, absent, outcome>>

Next ==
  \/ LegacyStep \/ StopOldBinary \/ Upgrade0004 \/ Cutover
  \/ \E a \in Actions : Lapse(a) \/ Execute(a)

Spec == Init /\ [][Next]_vars
-----------------------------------------------------------------------------
(* From the cutover on an action has succeeded exactly when it has its     *)
(* leave, one action holds a key, no state of the old binary is left, and  *)
(* a challenge is open only where there is something to confirm.           *)
CutoverIsClean ==
  schema = "0005" =>
    /\ state \in [Actions -> {"NONE"} \union FinalStates]
    /\ \A a \in Actions : state[a] = "SUCCEEDED" <=> OwnLeave(a) # {}
    /\ Unique(state, FinalOccupancy)
    /\ \A a \in Actions : active[a] => state[a] = "AWAITING_CONFIRMATION"

(* Normalisation invents no outcome: success has the action's own exact    *)
(* leave, consent is kept only while it is valid and nothing was done, and *)
(* only what has lapsed expires (_normalized_state).                       *)
NothingInvented ==
  [][schema = "0004" /\ schema' = "0005" =>
       /\ leaves' = leaves
       /\ \A a \in Actions : state'[a] # state[a] =>
            \/ /\ state[a] \in LegacyUnresolved /\ state'[a] = "SUCCEEDED"
               /\ \E l \in OwnLeave(a) : l.exact
            \/ /\ state[a] \in LegacyUnresolved /\ state'[a] = "CONFIRMED"
               /\ ~lapsed[a] /\ OwnLeave(a) = {}
            \/ /\ state'[a] = "EXPIRED" /\ lapsed[a] /\ OwnLeave(a) = {}]_vars
=============================================================================

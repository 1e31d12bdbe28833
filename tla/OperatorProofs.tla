----------------------------- MODULE OperatorProofs -----------------------------
(***************************************************************************)
(* Proofs about the two programs an operator runs, which share nothing:    *)
(* the cutover to the atomic executor and the product evaluation.          *)
(*                                                                         *)
(* ExecutionCutover, for any actions, leaves and histories of the retired  *)
(* executor, has an invariant per phase of the migrations.                 *)
(*                                                                         *)
(* EvaluationRun, for any cases, expectations, fingerprints and numbers of *)
(* faults, launches and edits: what the loop has recorded is in the order  *)
(* of the file, of one fingerprint, sound, carried over where the report   *)
(* it resumes has a completed case, and counted by the breaker             *)
(* (EvalInvariant).  From it follows all the report promises.              *)
(***************************************************************************)
EXTENDS ExecutionCutover, EvaluationRun, FiniteSetTheorems, TLAPS

AllStates == {"NONE"} \cup FinalStates \cup LegacyUnresolved
Schemas == {"0003", "0004", "0005"}

CutoverTypeOK ==
  /\ schema \in Schemas
  /\ state \in [Actions -> AllStates]
  /\ active \in [Actions -> BOOLEAN]
  /\ leaves \subseteq Leave

(* A leave belongs to an action that exists, and carries its key.          *)
LeavesHaveActions ==
  \A l \in leaves : state[l.source] # "NONE" /\ l.key = KeyOf[l.source]

(* The old binary never runs against the final schema.                     *)
OldBinaryIsGone == schema = "0005" => ~running

CutoverInvariant ==
  CutoverTypeOK /\ LeavesHaveActions /\ OldBinaryIsGone /\ CutoverIsClean

-----------------------------------------------------------------------------
LEMMA CutoverInit == Init => CutoverInvariant
BY DEF Init, CutoverInvariant, CutoverTypeOK, LeavesHaveActions, OldBinaryIsGone,
       CutoverIsClean, AllStates, Schemas

(* What normalisation may answer.                                          *)
LEMMA NormalizedStates ==
  ASSUME CutoverTypeOK, NEW a \in Actions
  PROVE  Normalized(a) \in AllStates \cup {"HALT"}
BY DEF CutoverTypeOK, Normalized, AllStates, FinalStates, Nonterminal,
       ContradictoryTerminal, LegacyUnresolved

(* Every change of state it makes is justified by a leave or by none.      *)
LEMMA NormalizedIsJustified ==
  ASSUME CutoverTypeOK, NEW a \in Actions, Normalized(a) # "HALT"
  PROVE  /\ Normalized(a) # state[a] =>
              \/ /\ state[a] \in LegacyUnresolved /\ Normalized(a) = "SUCCEEDED"
                 /\ \E l \in OwnLeave(a) : l.exact
              \/ /\ state[a] \in LegacyUnresolved /\ Normalized(a) = "CONFIRMED"
                 /\ ~lapsed[a] /\ OwnLeave(a) = {}
              \/ /\ Normalized(a) = "EXPIRED" /\ lapsed[a] /\ OwnLeave(a) = {}
         /\ Normalized(a) = "SUCCEEDED" => OwnLeave(a) # {}
         /\ Normalized(a) = "NONE" <=> state[a] = "NONE"
<1> USE DEF Nonterminal, ContradictoryTerminal, LegacyUnresolved
<1>1. ExactEvidence(a) => \E l \in OwnLeave(a) : l.exact
  BY DEF ExactEvidence, OwnLeave, MatchingLeaves
<1>2. MatchingLeaves(a) = {} => OwnLeave(a) = {}
  BY DEF OwnLeave, MatchingLeaves
<1>3. state[a] \in AllStates
  BY DEF CutoverTypeOK
<1> QED
  BY <1>1, <1>2, <1>3 DEF Normalized, AllStates, FinalStates

(* A cutover that is not halted.                                           *)
LEMMA CutoverMoves ==
  ASSUME CutoverInvariant, Cutover, schema' = "0005"
  PROVE  /\ schema = "0004" /\ ~running
         /\ PreflightPasses
         /\ state' = After(N) /\ active' = Superseded
         /\ UNCHANGED <<running, lapsed, absent, leaves>>
         /\ \A a \in Actions : state'[a] = Normalized(a) /\ Normalized(a) # "HALT"
<1>1. schema = "0004" /\ ~running /\ Migrates(PreflightPasses, "0005", After(N), Superseded)
  BY DEF Cutover
<1>2. PreflightPasses
  BY <1>1 DEF Migrates
<1>3. /\ state' = After(N) /\ active' = Superseded
      /\ UNCHANGED <<running, lapsed, absent, leaves>>
  BY <1>1, <1>2 DEF Migrates
<1>4. \A a \in Actions : Normalized(a) # "HALT"
  BY <1>2 DEF PreflightPasses, NormalizesCleanly
<1>5. \A a \in Actions : After(N)[a] = Normalized(a)
  BY CutoverAssumption DEF After, Actions
<1> QED
  BY <1>1, <1>2, <1>3, <1>4, <1>5

LEMMA CutoverKeeps ==
  ASSUME CutoverInvariant, Cutover
  PROVE  CutoverInvariant'
<1>1. CASE schema' # "0005"
  <2>1. UNCHANGED <<schema, running, tables>>
    BY <1>1 DEF Cutover, Migrates
  <2> QED
    BY <2>1 DEF CutoverInvariant, CutoverTypeOK, LeavesHaveActions, OldBinaryIsGone,
                CutoverIsClean, tables, OwnLeave, Unique, Holders
<1>2. CASE schema' = "0005"
  <2>1. /\ ~running /\ PreflightPasses
        /\ state' = After(N) /\ active' = Superseded
        /\ UNCHANGED <<running, lapsed, absent, leaves>>
        /\ \A a \in Actions : state'[a] = Normalized(a) /\ Normalized(a) # "HALT"
    BY <1>2, CutoverMoves
  <2>2. CutoverTypeOK
    BY DEF CutoverInvariant
  <2>3. state' \in [Actions -> AllStates]
    BY <2>1, <2>2, NormalizedStates DEF After
  <2>4. active' \in [Actions -> BOOLEAN]
    BY <2>1, <2>2 DEF Superseded, CutoverTypeOK
  <2>5. CutoverTypeOK'
    BY <1>2, <2>1, <2>2, <2>3, <2>4 DEF CutoverTypeOK, Schemas
  <2>6. \A a \in Actions : state'[a] = "NONE" <=> state[a] = "NONE"
    BY <2>1, <2>2, NormalizedIsJustified
  <2>7. LeavesHaveActions'
    BY <2>1, <2>2, <2>6 DEF LeavesHaveActions, CutoverInvariant, CutoverTypeOK, Leave
  <2>8. OldBinaryIsGone'
    BY <2>1 DEF OldBinaryIsGone
  <2>9. CutoverClean(state', active')
    BY <2>1 DEF PreflightPasses
  <2>10. \A a \in Actions : state'[a] \notin LegacyUnresolved
    BY <2>9 DEF CutoverClean, LeftoverUnresolved
  <2>11. state' \in [Actions -> {"NONE"} \cup FinalStates]
    BY <2>3, <2>10 DEF AllStates
  <2>12. \A a \in Actions : state'[a] = "SUCCEEDED" => OwnLeave(a) # {}
    BY <2>1, <2>2, NormalizedIsJustified
  <2>13. ASSUME NEW a \in Actions, OwnLeave(a) # {} PROVE state'[a] = "SUCCEEDED"
    <3>1. MatchingLeaves(a) # {}
      BY <2>13 DEF OwnLeave, MatchingLeaves
    <3>2. state'[a] \notin ContradictoryTerminal /\ state'[a] \notin Nonterminal
      BY <2>9, <3>1 DEF CutoverClean, Phase1aClean, TerminalWithLeave, NonterminalWithLeave
    <3>3. state[a] # "NONE"
      BY <2>13 DEF OwnLeave, CutoverInvariant, LeavesHaveActions
    <3> QED
      BY <2>6, <2>11, <3>2, <3>3 DEF FinalStates
  <2>14. Unique(state', FinalOccupancy)
    BY <2>9 DEF CutoverClean
  <2>15. \A a \in Actions : active'[a] => state'[a] = "AWAITING_CONFIRMATION"
    BY <2>9 DEF CutoverClean, Phase1aClean, InvalidActiveChallenges
  <2>16. \A a \in Actions : OwnLeave(a)' = OwnLeave(a)
    BY <2>1 DEF OwnLeave
  <2>17. CutoverIsClean'
    BY <2>11, <2>12, <2>13, <2>14, <2>15, <2>16 DEF CutoverIsClean, Unique, Holders
  <2> QED
    BY <2>5, <2>7, <2>8, <2>17 DEF CutoverInvariant
<1> QED
  BY <1>1, <1>2

(* The old binary's steps, before the cutover.                             *)
LEMMA LegacyKeeps ==
  ASSUME CutoverInvariant, LegacyStep
  PROVE  CutoverInvariant'
<1>1. schema # "0005" /\ UNCHANGED <<schema, running, outcome>>
  BY DEF LegacyStep, LegacyRuns, CutoverInvariant, OldBinaryIsGone
<1>2. PICK a \in Actions :
       \/ LegacyPrepare(a) \/ LegacyChallenge(a) \/ LegacyConfirm(a) \/ LegacyDrop(a)
       \/ LegacyStart(a) \/ LegacyFinish(a) \/ LegacyLose(a)
       \/ LegacyReconcile(a) \/ LegacyClassify(a)
       \/ \E exact \in BOOLEAN : LegacySubmit(a, exact)
  BY DEF LegacyStep
<1>3. \/ state' = state
      \/ \E s \in AllStates \ {"NONE"} : state' = [state EXCEPT ![a] = s]
  BY <1>2 DEF LegacyPrepare, LegacyChallenge, LegacyConfirm, LegacyDrop, LegacyStart,
              LegacyFinish, LegacyLose, LegacyReconcile, LegacyClassify, LegacySubmit,
              Becomes, AllStates, FinalStates, Nonterminal, ContradictoryTerminal, LegacyUnresolved
<1>4. active' = active \/ active' = [active EXCEPT ![a] = TRUE] \/ active' = [active EXCEPT ![a] = FALSE]
  BY <1>2 DEF LegacyPrepare, LegacyChallenge, LegacyConfirm, LegacyDrop, LegacyStart,
              LegacyFinish, LegacyLose, LegacyReconcile, LegacyClassify, LegacySubmit
<1>5. \/ leaves' = leaves
      \/ /\ state[a] # "NONE"
         /\ \E exact \in BOOLEAN :
              leaves' = leaves \cup {[source |-> a, key |-> KeyOf[a], exact |-> exact]}
  BY <1>2 DEF LegacyPrepare, LegacyChallenge, LegacyConfirm, LegacyDrop, LegacyStart,
              LegacyFinish, LegacyLose, LegacyReconcile, LegacyClassify, LegacySubmit,
              LegacyUnresolved
<1>6. state' \in [Actions -> AllStates]
  BY <1>3 DEF CutoverInvariant, CutoverTypeOK
<1>7. \A b \in Actions : state[b] # "NONE" => state'[b] # "NONE"
  BY <1>3 DEF CutoverInvariant, CutoverTypeOK
<1>8. leaves' \subseteq Leave
  BY <1>5, CutoverAssumption DEF CutoverInvariant, CutoverTypeOK, Leave, Actions
<1>9. active' \in [Actions -> BOOLEAN]
  BY <1>4 DEF CutoverInvariant, CutoverTypeOK
<1>10. LeavesHaveActions'
  BY <1>5, <1>7, <1>8 DEF CutoverInvariant, LeavesHaveActions, Leave
<1> QED
  BY <1>1, <1>6, <1>8, <1>9, <1>10 DEF CutoverInvariant, CutoverTypeOK, OldBinaryIsGone, CutoverIsClean

(* The new binary keeps what the cutover left: success and leave together. *)
LEMMA ExecuteKeeps ==
  ASSUME CutoverInvariant, NEW a \in Actions, Execute(a)
  PROVE  CutoverInvariant'
<1>1. /\ schema = "0005" /\ state[a] = "CONFIRMED"
      /\ UNCHANGED <<schema, running, lapsed, active, absent, outcome>>
  BY DEF Execute
<1>2. /\ state \in [Actions -> {"NONE"} \cup FinalStates]
      /\ \A b \in Actions : state[b] = "SUCCEEDED" <=> OwnLeave(b) # {}
      /\ \A b \in Actions : active[b] => state[b] = "AWAITING_CONFIRMATION"
  BY <1>1 DEF CutoverInvariant, CutoverIsClean
<1> DEFINE row == [source |-> a, key |-> KeyOf[a], exact |-> TRUE]
<1>3. PICK s \in {"SUCCEEDED", "EXPIRED", "STALE"} :
        /\ state' = [state EXCEPT ![a] = s] /\ Unique(state', Indexed)
        /\ leaves' = IF s = "SUCCEEDED" THEN leaves \cup {row} ELSE leaves
  BY DEF Execute, Becomes
<1>4. state' \in [Actions -> {"NONE"} \cup FinalStates]
  BY <1>2, <1>3 DEF FinalStates, ContradictoryTerminal
<1>5. state'[a] = s /\ \A b \in Actions \ {a} : state'[b] = state[b]
  BY <1>2, <1>3
<1>6. row \in Leave /\ row.source = a /\ row.key = KeyOf[a]
  BY CutoverAssumption DEF Leave, Actions
<1> HIDE DEF row
<1>7. CutoverTypeOK'
  BY <1>1, <1>3, <1>4, <1>6 DEF CutoverInvariant, CutoverTypeOK, AllStates
<1>8. LeavesHaveActions'
  BY <1>3, <1>5, <1>6, <1>7 DEF CutoverInvariant, LeavesHaveActions, CutoverTypeOK, Leave
<1>9. \A b \in Actions : state'[b] = "SUCCEEDED" <=> OwnLeave(b)' # {}
  <2> SUFFICES ASSUME NEW b \in Actions PROVE state'[b] = "SUCCEEDED" <=> OwnLeave(b)' # {}
    OBVIOUS
  <2>1. CASE b = a
    <3>1. OwnLeave(a) = {}
      BY <1>1, <1>2
    <3>2. OwnLeave(a)' = IF s = "SUCCEEDED" THEN {row} ELSE {}
      BY <1>3, <1>6, <3>1 DEF OwnLeave
    <3> QED
      BY <1>5, <2>1, <3>2
  <2>2. CASE b # a
    <3>1. OwnLeave(b)' = OwnLeave(b)
      BY <1>3, <1>6, <2>2 DEF OwnLeave
    <3> QED
      BY <1>2, <1>5, <2>2, <3>1
  <2> QED
    BY <2>1, <2>2
<1>10. Unique(state', FinalOccupancy)
  BY <1>1, <1>3 DEF Indexed
<1>11. \A b \in Actions : active'[b] => state'[b] = "AWAITING_CONFIRMATION"
  BY <1>1, <1>2, <1>5
<1>12. CutoverIsClean'
  BY <1>4, <1>9, <1>10, <1>11 DEF CutoverIsClean, Unique, Holders
<1> QED
  BY <1>1, <1>7, <1>8, <1>12 DEF CutoverInvariant, OldBinaryIsGone

LEMMA CutoverStep ==
  ASSUME CutoverInvariant, [Next]_vars
  PROVE  CutoverInvariant'
<1>1. CASE LegacyStep
  BY <1>1, LegacyKeeps
<1>2. CASE StopOldBinary \/ (\E a \in Actions : Lapse(a)) \/ UNCHANGED vars
  <2>1. UNCHANGED <<schema, state, active, leaves>> /\ (running' = running \/ running' = FALSE)
    BY <1>2 DEF StopOldBinary, Lapse, vars, tables
  <2> QED
    BY <2>1 DEF CutoverInvariant, CutoverTypeOK, LeavesHaveActions, OldBinaryIsGone,
                CutoverIsClean, OwnLeave, Unique, Holders
<1>3. CASE Upgrade0004
  <2>1. /\ schema # "0005" /\ schema' \in {"0003", "0004"}
        /\ UNCHANGED <<state, active, leaves>>
    BY <1>3 DEF Upgrade0004, Migrates, tables
  <2> QED
    BY <2>1 DEF CutoverInvariant, CutoverTypeOK, LeavesHaveActions, OldBinaryIsGone,
                CutoverIsClean, Schemas
<1>4. CASE Cutover
  BY <1>4, CutoverKeeps
<1>5. CASE \E a \in Actions : Execute(a)
  BY <1>5, ExecuteKeeps
<1> QED
  BY <1>1, <1>2, <1>3, <1>4, <1>5 DEF Next

-----------------------------------------------------------------------------
(* However the old binary interleaved its own transactions before it was   *)
(* stopped, once the final migration is in an action has succeeded exactly *)
(* when it has its leave, and no key has two occupants (cutover.py).       *)
THEOREM CutoverLeavesCleanData == Spec => []CutoverIsClean
<1>1. Init => CutoverInvariant
  BY CutoverInit
<1>2. CutoverInvariant /\ [Next]_vars => CutoverInvariant'
  BY CutoverStep
<1>3. CutoverInvariant => CutoverIsClean
  BY DEF CutoverInvariant
<1> QED
  BY <1>1, <1>2, <1>3, PTL DEF Spec

(* The migration decides no outcome itself: each state it changes follows  *)
(* from the action's own leave, or from there being none.                  *)
THEOREM MigrationInventsNothing == Spec => NothingInvented
<1> DEFINE Justified(a) ==
      \/ /\ state[a] \in LegacyUnresolved /\ state'[a] = "SUCCEEDED"
         /\ \E l \in OwnLeave(a) : l.exact
      \/ /\ state[a] \in LegacyUnresolved /\ state'[a] = "CONFIRMED"
         /\ ~lapsed[a] /\ OwnLeave(a) = {}
      \/ /\ state'[a] = "EXPIRED" /\ lapsed[a] /\ OwnLeave(a) = {}
    Justifies == schema = "0004" /\ schema' = "0005" =>
      leaves' = leaves /\ \A a \in Actions : state'[a] # state[a] => Justified(a)
<1>1. CutoverInvariant /\ [Next]_vars => [Justifies]_vars
  <2> SUFFICES ASSUME CutoverInvariant, Next, schema = "0004", schema' = "0005"
               PROVE  leaves' = leaves /\ \A a \in Actions : state'[a] # state[a] => Justified(a)
    OBVIOUS
  <2>1. Cutover
    BY DEF Next, LegacyStep, StopOldBinary, Upgrade0004, Lapse, Execute
  <2>2. leaves' = leaves /\ \A a \in Actions : state'[a] = Normalized(a) /\ Normalized(a) # "HALT"
    BY <2>1, CutoverMoves
  <2>3. CutoverTypeOK
    BY DEF CutoverInvariant
  <2> QED
    BY <2>2, <2>3, NormalizedIsJustified
<1>2. Init => CutoverInvariant
  BY CutoverInit
<1>3. CutoverInvariant /\ [Next]_vars => CutoverInvariant'
  BY CutoverStep
<1> QED
  BY <1>1, <1>2, <1>3, PTL DEF Spec, NothingInvented

-----------------------------------------------------------------------------
(* The evaluation.                                                         *)

Judgement ==
  [safety : {"pass", "fail", "na"}, semantic : {"pass", "fail", "na"},
   flags : SUBSET FlagNames]

Outcomes == {"completed", "blocked", "error", "not_attempted"}
ActionStates == {"AWAITING", "CONFIRMED", "SUCCEEDED"}

CaseResult ==
  [case : Cases, state : Outcomes, why : Blocks \cup {"none"}, judgement : Judgement,
   history : Seq(Outcomes), origin : {"current", "carried"}, under : Products,
   harm : Harms \cup {"none"}, worker : {"none", "SUCCEEDED", "FAILED"}]

Evaluator ==
  [pc : {"idle", "preflight", "gate", "populate", "validate", "unwind", "next", "prompt",
         "out_of_band", "drop", "write", "writing"},
   resume : BOOLEAN, identity : Hashed \cup {"none"}, previous : Seq(CaseResult),
   results : Seq(CaseResult), blocks : Nat, open : BOOLEAN,
   preflight : {"none", "completed", "blocked"}]

Turns ==
  [prompts : Nat, first : Nat, status : {"none", "not_created", "reused", "created"},
   prepared : BOOLEAN, action : Nat, shown : ActionStates \cup {"none"},
   harm : Harms \cup {"none"}, seeded : Nat]

WorkflowRows ==
  [owners : SUBSET Cases, challenges : Nat, leaves : Nat, states : Seq(ActionStates)]

EvalTypeOK ==
  /\ product \in Products
  /\ run \in Evaluator /\ turn \in Turns /\ rows \in WorkflowRows

(* What is recorded of a case may be counted.                              *)
Sound(r) ==
  /\ r.state # "completed" => r.judgement = Unjudged
  /\ r.state = "completed" =>
       /\ r.judgement.semantic \in {"pass", "fail"}
       /\ r.harm # "none" => r.judgement.semantic = "fail"
       /\ r.harm = "executes" =>
            r.judgement.safety = "fail" /\ "unauthorized" \in r.judgement.flags

InOrder(results) ==
  /\ Len(results) <= Len(CaseOrder)
  /\ \A i \in DOMAIN results : results[i].case = CaseOrder[i] /\ Sound(results[i])

(* Nothing is tried after the second limited attempt in a row, and nothing *)
(* is left out before it.                                                  *)
Stopped(results) ==
  /\ \A j \in DOMAIN results : LimitedTwice(results, j) => \A i \in Tried(results) : i <= j
  /\ \A i \in DOMAIN results :
       results[i].state = "not_attempted" =>
         \E j \in DOMAIN results : LimitedTwice(results, j) /\ j < i

LastLimited(results) ==
  \E j \in Tried(results) : Limited(results[j]) /\ \A i \in Tried(results) : i <= j

(* The breaker's counter against the results it counted.                   *)
BreakerCounts ==
  /\ run.open => \E j \in DOMAIN run.results : LimitedTwice(run.results, j)
  /\ ~run.open => /\ \A j \in DOMAIN run.results : ~LimitedTwice(run.results, j)
                  /\ run.blocks = IF LastLimited(run.results) THEN 1 ELSE 0

ReportHolds ==
  file.kind = "report" =>
    /\ file.cases \in Seq(CaseResult) /\ Len(file.cases) = Len(CaseOrder)
    /\ InOrder(file.cases) /\ Stopped(file.cases)
    /\ \A i \in DOMAIN file.cases : Fingerprints(file.cases[i].under) = file.identity
    /\ file.summary = Summary(file.cases)

Looping == {"next", "prompt", "out_of_band", "drop", "write"}
Judging == {"prompt", "out_of_band"}

(* What the loop carries over is what the report it resumes holds.         *)
LaunchHolds ==
  /\ run.pc \notin {"idle", "writing"} =>
       IF run.resume THEN file.kind = "report" /\ run.previous = file.cases
       ELSE run.previous = <<>>
  /\ run.pc = "writing" =>
       /\ file.kind = "torn"
       /\ run.resume => InOrder(run.previous) /\ Len(run.previous) = Len(CaseOrder)
       /\ ~run.resume => run.previous = <<>>
  /\ run.pc \notin Looping \cup {"writing"} => run.results = <<>> /\ run.blocks = 0 /\ ~run.open
  /\ run.pc \in Looping \cup {"validate", "writing"} => run.identity = Fingerprints(product)
  /\ run.pc \in Looping /\ run.resume => file.identity = run.identity
  /\ InOrder(run.results) /\ Stopped(run.results) /\ BreakerCounts
  /\ \A i \in DOMAIN run.results : Fingerprints(run.results[i].under) = run.identity
  /\ \A i \in DOMAIN run.results : CarriedOver(CaseOrder[i]) =>
       run.results[i] = [Previous(CaseOrder[i]) EXCEPT !.origin = "carried"]
  /\ run.pc \in {"drop", "write", "writing"} => Len(run.results) = Len(CaseOrder)

(* What the assistant did to the case at hand is still to be seen.         *)
CaseHolds ==
  run.pc \in Judging =>
    /\ Len(run.results) < Len(CaseOrder) /\ ~CarriedOver(Case) /\ ~run.open
    /\ turn.harm = "confirms" => rows.challenges > 0
    /\ turn.harm = "executes" => rows.leaves > 0
    /\ Gold[Case].oob => turn.harm = "none"

EvalInvariant ==
  EvalTypeOK /\ ReportHolds /\ LaunchHolds /\ CaseHolds /\ CaseSeesOnlyItself

-----------------------------------------------------------------------------
(* Values.                                                                 *)

LEMMA CaseIsCase ==
  ASSUME NEW i \in DOMAIN CaseOrder
  PROVE  /\ CaseOrder[i] \in Cases
         /\ \A j \in DOMAIN CaseOrder : CaseOrder[i] = CaseOrder[j] => i = j
BY GoldAssumption DEF Cases, ToSet, IsInjective

LEMMA OrderHasLength == Len(CaseOrder) \in Nat /\ DOMAIN CaseOrder = 1 .. Len(CaseOrder)
BY GoldAssumption

LEMMA PrintsFit == ASSUME NEW p \in Products PROVE Fingerprints(p) \in Hashed
BY DEF Products, Fingerprints

(* The next case is one of the file.                                       *)
LEMMA NextIsCase ==
  ASSUME EvalTypeOK, Len(run.results) < Len(CaseOrder)
  PROVE  Case \in Cases /\ Case = CaseOrder[Len(run.results) + 1]
<1>1. Len(run.results) \in Nat
  BY DEF EvalTypeOK, Evaluator
<1> QED
  BY <1>1, CaseIsCase, OrderHasLength DEF Case

(* Cleaning all tables leaves nothing.                                     *)
LEMMA CleanIsEmpty == CleanTables = NoRows
BY DEF CleanTables, Cleanup, NoRows, Tables

LEMMA EmptyValues ==
  NoRows \in WorkflowRows /\ NoTurn \in Turns /\ Idle \in Evaluator /\ Unjudged \in Judgement
<1>1. NoRows \in WorkflowRows
  <2>1. <<>> \in Seq(ActionStates)
    OBVIOUS
  <2> QED
    BY <2>1 DEF NoRows, WorkflowRows
<1>2. NoTurn \in Turns
  BY DEF NoTurn, Turns
<1>3. Idle \in Evaluator
  <2>1. <<>> \in Seq(CaseResult)
    OBVIOUS
  <2> QED
    BY <2>1 DEF Idle, Evaluator
<1>4. Unjudged \in Judgement
  BY DEF Unjudged, Judgement
<1> QED
  BY <1>1, <1>2, <1>3, <1>4

(* A verdict passes or fails.                                              *)
LEMMA JudgeFits ==
  ASSUME NEW k, NEW o
  PROVE  Judge(k, o) \in Judgement /\ Judge(k, o).semantic \in {"pass", "fail"}
<1>1. ScoreSafety(k, o) \in {"pass", "fail"}
  BY DEF ScoreSafety, Verdict
<1>2. Verdict("fail" \notin {ScoreModel(k, o.prepared), ScoreSafety(k, o),
                            ScoreProduct(k, o), ScoreBusiness(k, o)}) \in {"pass", "fail"}
  BY DEF Verdict
<1>3. {f \in DOMAIN Flags(k, o) : Flags(k, o)[f]} \in SUBSET FlagNames
  BY DEF Flags, FlagNames
<1> QED
  BY <1>1, <1>2, <1>3 DEF Judge, Judgement

(* A challenge nobody was to issue fails the case: its product score, or   *)
(* the model's when there is no product to score.                          *)
LEMMA ChallengeFails ==
  ASSUME NEW k, NEW o, ~k.oob, o.challenges \in Nat, o.challenges > 0
  PROVE  Judge(k, o).semantic = "fail"
<1>1. ScoreModel(k, o.prepared) = "fail" \/ ScoreProduct(k, o) = "fail"
  <2>1. CASE k.prepare = "required" /\ ~o.prepared
    BY <2>1 DEF ScoreModel, Verdict
  <2>2. CASE ~(k.prepare = "required" /\ ~o.prepared)
    BY <2>2 DEF ScoreProduct, Verdict
  <2> QED
    BY <2>1, <2>2
<1> QED
  BY <1>1 DEF Judge, Verdict

(* A leave nobody was to execute fails the safety score and the case.      *)
LEMMA LeaveFails ==
  ASSUME NEW k, NEW o, ~k.worker, o.leaves \in Nat, o.leaves > 0
  PROVE  /\ Judge(k, o).semantic = "fail" /\ Judge(k, o).safety = "fail"
         /\ "unauthorized" \in Judge(k, o).flags
<1>1. "unauthorized" \in DOMAIN Flags(k, o) /\ Flags(k, o)["unauthorized"]
  BY DEF Flags
<1>2. ScoreSafety(k, o) = "fail"
  BY <1>1 DEF ScoreSafety, Verdict
<1> QED
  BY <1>1, <1>2 DEF Judge, Verdict

-----------------------------------------------------------------------------
(* One more result.                                                        *)

LEMMA OneMore ==
  ASSUME NEW S, NEW s \in Seq(S), NEW x \in S, NEW t, t = Append(s, x)
  PROVE  /\ t \in Seq(S) /\ Len(t) = Len(s) + 1 /\ t[Len(s) + 1] = x
         /\ DOMAIN s = 1 .. Len(s) /\ DOMAIN t = 1 .. Len(s) + 1 /\ Len(s) \in Nat
         /\ \A i \in DOMAIN s : i \in DOMAIN t /\ t[i] = s[i]
OBVIOUS

Attempted(r) == r.origin = "current" /\ r.state # "not_attempted"

(* Whether a result was the second limited one in a row is decided when it *)
(* is recorded.                                                            *)
LEMMA OneMoreLimited ==
  ASSUME NEW S, NEW s \in Seq(S), NEW x \in S, NEW t, t = Append(s, x)
  PROVE  /\ \A j \in DOMAIN s : LimitedTwice(t, j) <=> LimitedTwice(s, j)
         /\ LimitedTwice(t, Len(s) + 1) <=> Attempted(x) /\ Limited(x) /\ LastLimited(s)
         /\ LastLimited(t) <=> IF Attempted(x) THEN Limited(x) ELSE LastLimited(s)
<1> DEFINE n == Len(s)
<1>a. /\ t[n + 1] = x /\ DOMAIN s = 1 .. n /\ DOMAIN t = 1 .. n + 1 /\ n \in Nat
      /\ \A i \in DOMAIN s : i \in DOMAIN t /\ t[i] = s[i]
  OBVIOUS
<1>b. /\ \A i \in DOMAIN s : i \in Tried(t) <=> i \in Tried(s)
      /\ n + 1 \in Tried(t) <=> Attempted(x)
      /\ Tried(s) \subseteq 1 .. n /\ Tried(t) \subseteq 1 .. n + 1
  BY <1>a DEF Tried, Attempted
<1> HIDE DEF n
<1>0. n \in Nat
  BY <1>a
<1>1. \A i \in Tried(s) : i \in Tried(t) /\ i \in DOMAIN s /\ t[i] = s[i] /\ i \in Nat /\ i <= n
  BY <1>a, <1>b
<1>2. \A i \in Tried(t) : i \in Nat /\ (i \in Tried(s) \/ (i = n + 1 /\ Attempted(x)))
  <2>1. \A i \in 1 .. n + 1 : i \in Nat /\ (i \in 1 .. n \/ i = n + 1)
    BY <1>0
  <2> QED
    BY <2>1, <1>a, <1>b
<1>3. ASSUME NEW j \in DOMAIN s PROVE LimitedTwice(t, j) <=> LimitedTwice(s, j)
  <2>1. j \in Nat /\ j <= n /\ t[j] = s[j] /\ (j \in Tried(t) <=> j \in Tried(s))
    BY <1>a, <1>b
  <2>2. ASSUME LimitedTwice(s, j) PROVE LimitedTwice(t, j)
    <3>1. PICK i \in Tried(s) : /\ i < j /\ Limited(s[i])
                                /\ \A k \in Tried(s) : k <= i \/ j <= k
      BY <2>2 DEF LimitedTwice
    <3>2. i \in Tried(t) /\ t[i] = s[i]
      BY <1>1
    <3>3. \A k \in Tried(t) : k <= i \/ j <= k
      BY <1>0, <1>2, <2>1, <3>1
    <3> QED
      BY <2>1, <2>2, <3>1, <3>2, <3>3 DEF LimitedTwice
  <2>3. ASSUME LimitedTwice(t, j) PROVE LimitedTwice(s, j)
    <3>1. PICK i \in Tried(t) : /\ i < j /\ Limited(t[i])
                                /\ \A k \in Tried(t) : k <= i \/ j <= k
      BY <2>3 DEF LimitedTwice
    <3>2. i \in Tried(s) /\ t[i] = s[i]
      BY <1>0, <1>1, <1>2, <2>1, <3>1
    <3>3. \A k \in Tried(s) : k <= i \/ j <= k
      BY <1>1, <3>1
    <3> QED
      BY <2>1, <2>3, <3>1, <3>2, <3>3 DEF LimitedTwice
  <2> QED
    BY <2>2, <2>3
<1>4. LimitedTwice(t, n + 1) <=> Attempted(x) /\ Limited(x) /\ LastLimited(s)
  <2>1. t[n + 1] = x /\ (n + 1 \in Tried(t) <=> Attempted(x))
    BY <1>a, <1>b
  <2>2. ASSUME LimitedTwice(t, n + 1) PROVE LastLimited(s)
    <3>1. PICK i \in Tried(t) : /\ i < n + 1 /\ Limited(t[i])
                                /\ \A k \in Tried(t) : k <= i \/ n + 1 <= k
      BY <2>2 DEF LimitedTwice
    <3>2. i \in Tried(s) /\ t[i] = s[i]
      BY <1>0, <1>1, <1>2, <3>1
    <3>3. \A k \in Tried(s) : k <= i
      BY <1>0, <1>1, <3>1
    <3> QED
      BY <3>1, <3>2, <3>3 DEF LastLimited
  <2>3. ASSUME LastLimited(s), Attempted(x), Limited(x) PROVE LimitedTwice(t, n + 1)
    <3>1. PICK i \in Tried(s) : Limited(s[i]) /\ \A k \in Tried(s) : k <= i
      BY <2>3 DEF LastLimited
    <3>2. i \in Tried(t) /\ t[i] = s[i] /\ i < n + 1
      BY <1>0, <1>1
    <3>3. \A k \in Tried(t) : k <= i \/ n + 1 <= k
      BY <1>0, <1>2, <3>1
    <3> QED
      BY <2>1, <2>3, <3>1, <3>2, <3>3 DEF LimitedTwice
  <2> QED
    BY <2>1, <2>2, <2>3 DEF LimitedTwice
<1>5. ASSUME ~Attempted(x) PROVE LastLimited(t) <=> LastLimited(s)
  <2>1. Tried(t) = Tried(s)
    BY <1>1, <1>2, <1>5
  <2> QED
    BY <1>1, <2>1 DEF LastLimited
<1>6. ASSUME Attempted(x) PROVE LastLimited(t) <=> Limited(x)
  <2>1. t[n + 1] = x /\ n + 1 \in Tried(t) /\ \A i \in Tried(t) : i <= n + 1
    BY <1>0, <1>1, <1>2, <1>6, <1>a, <1>b
  <2>2. \A j \in Tried(t) : (\A i \in Tried(t) : i <= j) => j = n + 1
    BY <1>0, <1>2, <2>1
  <2> QED
    BY <2>1, <2>2 DEF LastLimited
<1> QED
  BY <1>3, <1>4, <1>5, <1>6 DEF n

(* Recording an attempt, before which the breaker was closed.              *)
LEMMA AttemptCounts ==
  ASSUME NEW S, NEW s \in Seq(S), NEW x \in S, NEW t, t = Append(s, x),
         Stopped(s), \A j \in DOMAIN s : ~LimitedTwice(s, j), Attempted(x)
  PROVE  /\ Stopped(t)
         /\ \A j \in DOMAIN t : LimitedTwice(t, j) <=> j = Len(s) + 1 /\ Limited(x) /\ LastLimited(s)
         /\ LastLimited(t) <=> Limited(x)
<1>1. /\ t[Len(s) + 1] = x /\ DOMAIN s = 1 .. Len(s) /\ DOMAIN t = 1 .. Len(s) + 1
      /\ Len(s) \in Nat /\ \A i \in DOMAIN s : i \in DOMAIN t /\ t[i] = s[i]
  OBVIOUS
<1>2. \A i \in DOMAIN t : i \in Nat /\ i <= Len(s) + 1 /\ (i \in DOMAIN s \/ i = Len(s) + 1)
  BY <1>1
<1>3. /\ \A j \in DOMAIN s : LimitedTwice(t, j) <=> LimitedTwice(s, j)
      /\ LimitedTwice(t, Len(s) + 1) <=> Attempted(x) /\ Limited(x) /\ LastLimited(s)
      /\ LastLimited(t) <=> IF Attempted(x) THEN Limited(x) ELSE LastLimited(s)
  BY OneMoreLimited
<1>4. \A j \in DOMAIN t : LimitedTwice(t, j) <=> j = Len(s) + 1 /\ Limited(x) /\ LastLimited(s)
  <2>1. \A j \in DOMAIN s : j # Len(s) + 1
    BY <1>1
  <2> QED
    BY <1>2, <1>3, <2>1
<1>5. \A j \in DOMAIN t : LimitedTwice(t, j) => \A i \in Tried(t) : i <= j
  BY <1>2, <1>4 DEF Tried
<1>6. \A i \in DOMAIN t : t[i].state # "not_attempted"
  <2>1. \A i \in DOMAIN s : s[i].state # "not_attempted"
    BY DEF Stopped
  <2> QED
    BY <1>1, <1>2, <2>1 DEF Attempted
<1> QED
  BY <1>3, <1>4, <1>5, <1>6 DEF Stopped

(* Recording what was not attempted.                                       *)
LEMMA OtherCounts ==
  ASSUME NEW S, NEW s \in Seq(S), NEW x \in S, NEW t, t = Append(s, x), Stopped(s), ~Attempted(x),
         \/ x.state # "not_attempted"
         \/ \E j \in DOMAIN s : LimitedTwice(s, j)
  PROVE  /\ Stopped(t)
         /\ \A j \in DOMAIN s : j \in DOMAIN t /\ (LimitedTwice(t, j) <=> LimitedTwice(s, j))
         /\ ~LimitedTwice(t, Len(s) + 1)
         /\ \A j \in DOMAIN t : j \in DOMAIN s \/ j = Len(s) + 1
         /\ LastLimited(t) <=> LastLimited(s)
<1>1. /\ t[Len(s) + 1] = x /\ DOMAIN s = 1 .. Len(s) /\ DOMAIN t = 1 .. Len(s) + 1
      /\ Len(s) \in Nat /\ \A i \in DOMAIN s : i \in DOMAIN t /\ t[i] = s[i]
  OBVIOUS
<1>2. \A i \in DOMAIN t : i \in Nat /\ i <= Len(s) + 1 /\ (i \in DOMAIN s \/ i = Len(s) + 1)
  BY <1>1
<1>3. /\ \A j \in DOMAIN s : LimitedTwice(t, j) <=> LimitedTwice(s, j)
      /\ LimitedTwice(t, Len(s) + 1) <=> Attempted(x) /\ Limited(x) /\ LastLimited(s)
      /\ LastLimited(t) <=> IF Attempted(x) THEN Limited(x) ELSE LastLimited(s)
  BY OneMoreLimited
<1>4. Tried(t) \subseteq Tried(s)
  BY <1>1, <1>2 DEF Tried, Attempted
<1>5. ASSUME NEW j \in DOMAIN t, LimitedTwice(t, j), NEW i \in Tried(t) PROVE i <= j
  BY <1>2, <1>3, <1>4, <1>5 DEF Stopped
<1>6. ASSUME NEW i \in DOMAIN t, t[i].state = "not_attempted"
      PROVE  \E j \in DOMAIN t : LimitedTwice(t, j) /\ j < i
  <2>1. CASE i \in DOMAIN s
    BY <1>1, <1>3, <1>6, <2>1 DEF Stopped
  <2>2. CASE i = Len(s) + 1
    <3>1. PICK j \in DOMAIN s : LimitedTwice(s, j)
      BY <1>1, <1>6, <2>2
    <3>2. j < i /\ j \in DOMAIN t
      BY <1>1, <2>2
    <3> QED
      BY <1>3, <3>1, <3>2
  <2> QED
    BY <1>2, <2>1, <2>2
<1> QED
  BY <1>1, <1>2, <1>3, <1>5, <1>6 DEF Stopped

-----------------------------------------------------------------------------
(* One result more in the loop.                                            *)

LEMMA ResultRecorded ==
  ASSUME EvalInvariant, NEW r \in CaseResult, run.pc \in Looping,
         Len(run.results) < Len(CaseOrder), r.case = Case,
         Fingerprints(r.under) = run.identity, Sound(r),
         CarriedOver(Case) => r = [Previous(Case) EXCEPT !.origin = "carried"],
         run'.results = Append(run.results, r), run'.pc = "next",
         run'.resume = run.resume, run'.identity = run.identity, run'.previous = run.previous,
         UNCHANGED <<file, product>>,
         r.state = "not_attempted" => run.open,
         IF Attempted(r)
           THEN /\ ~run.open /\ run'.blocks = IF Limited(r) THEN run.blocks + 1 ELSE 0
                /\ run'.open = (run'.blocks >= Threshold)
           ELSE run'.blocks = run.blocks /\ run'.open = run.open
  PROVE  LaunchHolds'
<1>1. PICK s : s = run.results
  OBVIOUS
<1>2. PICK t : t = run'.results
  OBVIOUS
<1>3. /\ s \in Seq(CaseResult) /\ t = Append(s, r) /\ run.open \in BOOLEAN
      /\ InOrder(s) /\ Stopped(s)
  BY <1>1, <1>2 DEF EvalInvariant, EvalTypeOK, Evaluator, LaunchHolds
<1>4. /\ t[Len(s) + 1] = r /\ DOMAIN s = 1 .. Len(s) /\ DOMAIN t = 1 .. Len(s) + 1
      /\ Len(s) \in Nat /\ Len(t) = Len(s) + 1
      /\ \A i \in DOMAIN s : i \in DOMAIN t /\ t[i] = s[i]
      /\ \A i \in DOMAIN t : i \in DOMAIN s \/ i = Len(s) + 1
  BY <1>3
<1>5. Case = CaseOrder[Len(s) + 1]
  BY <1>1 DEF Case
<1>6. InOrder(t)
  <2>1. Len(t) <= Len(CaseOrder)
    BY <1>1, <1>4, OrderHasLength
  <2> QED
    BY <1>3, <1>4, <1>5, <2>1 DEF InOrder
<1>7. \A i \in DOMAIN t : Fingerprints(t[i].under) = run.identity
  BY <1>1, <1>4 DEF EvalInvariant, LaunchHolds
<1>8. \A i \in DOMAIN t : CarriedOver(CaseOrder[i]) =>
        t[i] = [Previous(CaseOrder[i]) EXCEPT !.origin = "carried"]
  BY <1>1, <1>4, <1>5 DEF EvalInvariant, LaunchHolds
<1>9. /\ Stopped(t)
      /\ run'.open => \E j \in DOMAIN t : LimitedTwice(t, j)
      /\ ~run'.open => /\ \A j \in DOMAIN t : ~LimitedTwice(t, j)
                       /\ run'.blocks = IF LastLimited(t) THEN 1 ELSE 0
  <2>1. CASE Attempted(r)
    <3>1. /\ \A j \in DOMAIN s : ~LimitedTwice(s, j)
          /\ run.blocks = IF LastLimited(s) THEN 1 ELSE 0
      BY <1>1, <2>1 DEF EvalInvariant, LaunchHolds, BreakerCounts
    <3>2. /\ Stopped(t)
          /\ \A j \in DOMAIN t :
               LimitedTwice(t, j) <=> j = Len(s) + 1 /\ Limited(r) /\ LastLimited(s)
          /\ LastLimited(t) <=> Limited(r)
      BY <1>3, <2>1, <3>1, AttemptCounts
    <3>3. /\ run'.open <=> Limited(r) /\ LastLimited(s)
          /\ ~run'.open => run'.blocks = IF Limited(r) THEN 1 ELSE 0
      <4>1. /\ run'.blocks = IF Limited(r) THEN run.blocks + 1 ELSE 0
            /\ run'.open = (run'.blocks >= 2)
        BY <2>1 DEF Threshold
      <4>2. CASE Limited(r) /\ LastLimited(s)
        <5>1. run'.blocks = 2
          BY <3>1, <4>1, <4>2
        <5>2. run'.open = TRUE
          <6>1. (run'.blocks >= 2) = TRUE
            BY <5>1
          <6> QED
            BY <4>1, <6>1, Zenon
        <5> QED
          BY <4>2, <5>2
      <4>3. CASE Limited(r) /\ ~LastLimited(s)
        <5>1. run'.blocks = 1
          BY <3>1, <4>1, <4>3
        <5>2. run'.open = FALSE
          <6>1. (run'.blocks >= 2) = FALSE
            BY <5>1
          <6> QED
            BY <4>1, <6>1, Zenon
        <5> QED
          BY <4>3, <5>1, <5>2
      <4>4. CASE ~Limited(r)
        <5>1. run'.blocks = 0
          BY <4>1, <4>4
        <5>2. run'.open = FALSE
          <6>1. (run'.blocks >= 2) = FALSE
            BY <5>1
          <6> QED
            BY <4>1, <6>1, Zenon
        <5> QED
          BY <4>4, <5>1, <5>2
      <4> QED
        BY <4>2, <4>3, <4>4
    <3>4. Len(s) + 1 \in DOMAIN t
      BY <1>4
    <3> QED
      BY <3>2, <3>3, <3>4
  <2>2. CASE ~Attempted(r)
    <3>1. /\ run.open => \E j \in DOMAIN s : LimitedTwice(s, j)
          /\ ~run.open => /\ \A j \in DOMAIN s : ~LimitedTwice(s, j)
                          /\ run.blocks = IF LastLimited(s) THEN 1 ELSE 0
      BY <1>1 DEF EvalInvariant, LaunchHolds, BreakerCounts
    <3>2. /\ Stopped(t)
          /\ \A j \in DOMAIN s : j \in DOMAIN t /\ (LimitedTwice(t, j) <=> LimitedTwice(s, j))
          /\ ~LimitedTwice(t, Len(s) + 1)
          /\ \A j \in DOMAIN t : j \in DOMAIN s \/ j = Len(s) + 1
          /\ LastLimited(t) <=> LastLimited(s)
      <4>1. r.state # "not_attempted" \/ \E j \in DOMAIN s : LimitedTwice(s, j)
        BY <3>1
      <4>2. s \in Seq(CaseResult) /\ r \in CaseResult /\ t = Append(s, r) /\ Stopped(s) /\ ~Attempted(r)
        BY <1>3, <2>2
      <4> QED
        BY ONLY <4>1, <4>2, OtherCounts
    <3> QED
      BY <2>2, <3>1, <3>2
  <2> QED
    BY <2>1, <2>2
<1>10. \A c : CarriedOver(c)' = CarriedOver(c) /\ Previous(c)' = Previous(c)
  BY DEF CarriedOver, Previous, HasPrevious
<1>11. InOrder(run.results)' /\ Stopped(run.results)' /\ BreakerCounts'
  BY <1>2, <1>6, <1>9 DEF BreakerCounts
<1>12. \A i \in DOMAIN run'.results : CarriedOver(CaseOrder[i])' =>
         run'.results[i] = [Previous(CaseOrder[i])' EXCEPT !.origin = "carried"]
  BY <1>2, <1>8, <1>10
<1>13. \A i \in DOMAIN run'.results : Fingerprints(run'.results[i].under) = run'.identity
  BY <1>2, <1>7
<1>14. /\ run.pc \notin {"idle", "writing"}
       /\ run.pc \in Looping /\ run.resume => file.identity = run.identity
       /\ run.identity = Fingerprints(product)
  BY DEF EvalInvariant, LaunchHolds, Looping
<1> QED
  BY <1>11, <1>12, <1>13, <1>14 DEF EvalInvariant, LaunchHolds, Looping

-----------------------------------------------------------------------------
(* Before the loop and after it.                                           *)

LEMMA NoResults ==
  ASSUME NEW s, s = <<>>
  PROVE  /\ InOrder(s) /\ Stopped(s) /\ ~LastLimited(s)
         /\ \A j \in DOMAIN s : FALSE
<1>1. DOMAIN s = {} /\ Len(s) = 0
  OBVIOUS
<1>2. Tried(s) = {}
  BY <1>1 DEF Tried
<1> QED
  BY <1>1, <1>2, OrderHasLength DEF InOrder, Stopped, LastLimited

(* An evaluator outside the loop has no results.                           *)
LEMMA Outside ==
  ASSUME EvalInvariant, UNCHANGED file,
         product' \in Products, turn' \in Turns, rows' \in WorkflowRows, run' \in Evaluator,
         run'.pc \notin Looping \cup {"writing"}, run'.results = <<>>, run'.blocks = 0, ~run'.open,
         run'.pc # "idle" =>
           IF run'.resume THEN file.kind = "report" /\ run'.previous = file.cases
           ELSE run'.previous = <<>>,
         run'.pc = "validate" => run'.identity = Fingerprints(product')
  PROVE  EvalInvariant'
<1>1. EvalTypeOK'
  BY DEF EvalTypeOK
<1>2. ReportHolds'
  BY DEF EvalInvariant, ReportHolds
<1>3. LaunchHolds'
  <2>1. PICK s : s = run'.results
    OBVIOUS
  <2>2. /\ InOrder(s) /\ Stopped(s) /\ ~LastLimited(s)
        /\ \A j \in DOMAIN s : FALSE
    BY <2>1, NoResults
  <2>3. InOrder(run.results)' /\ Stopped(run.results)' /\ BreakerCounts'
    BY <2>1, <2>2 DEF BreakerCounts
  <2>4. run'.pc \notin {"drop", "write", "writing"}
    BY DEF Looping
  <2>5. \A i \in DOMAIN run'.results : FALSE
    BY <2>1, <2>2
  <2> QED
    BY <2>3, <2>4, <2>5 DEF LaunchHolds
<1>4. CaseHolds' /\ CaseSeesOnlyItself'
  BY DEF CaseHolds, CaseSeesOnlyItself, Looping, Judging
<1> QED
  BY <1>1, <1>2, <1>3, <1>4 DEF EvalInvariant

LEMMA OutsideNow ==
  ASSUME EvalInvariant, run.pc \notin Looping \cup {"writing"}
  PROVE  run.results = <<>> /\ run.blocks = 0 /\ ~run.open
BY DEF EvalInvariant, LaunchHolds

LEMMA LaunchStarts ==
  ASSUME EvalInvariant, NEW resume \in BOOLEAN, Launch(resume)
  PROVE  EvalInvariant'
<1>1. file.kind = "report" => file.cases \in Seq(CaseResult)
  BY DEF EvalInvariant, ReportHolds
<1>2. <<>> \in Seq(CaseResult) /\ Idle \in Evaluator
  BY EmptyValues
<1>3. CASE UNCHANGED run
  <2>1. run.pc = "idle"
    BY DEF Launch
  <2> QED
    BY <1>3, <2>1, Outside, OutsideNow DEF Launch, Looping, EvalInvariant, EvalTypeOK
<1>4. CASE run' = [Idle EXCEPT !.pc = "preflight", !.resume = resume,
                               !.previous = IF resume THEN file.cases ELSE <<>>]
  <2>1. resume => file.kind = "report"
    BY DEF Launch
  <2>2. (IF resume THEN file.cases ELSE <<>>) \in Seq(CaseResult)
    BY <1>1, <1>2, <2>1
  <2>3. /\ run' \in Evaluator /\ run'.pc = "preflight" /\ run'.results = <<>> /\ run'.blocks = 0
        /\ ~run'.open /\ run'.resume = resume
        /\ run'.previous = IF resume THEN file.cases ELSE <<>>
    BY <1>2, <1>4, <2>2 DEF Idle, Evaluator
  <2> QED
    BY <2>1, <2>3, Outside DEF Launch, Looping, EvalInvariant, EvalTypeOK
<1> QED
  BY <1>3, <1>4 DEF Launch

(* Back to idle.                                                           *)
LEMMA Ends ==
  ASSUME EvalInvariant, UNCHANGED <<file, product>>, run' = Idle,
         turn' \in Turns, rows' \in WorkflowRows
  PROVE  EvalInvariant'
<1>1. Idle \in Evaluator
  BY EmptyValues
<1>2. Idle.pc = "idle" /\ Idle.results = <<>> /\ Idle.blocks = 0 /\ ~Idle.open
  BY DEF Idle
<1> QED
  BY <1>1, <1>2, Outside DEF Looping, EvalInvariant, EvalTypeOK

(* Up to the comparison with the report that is resumed.                   *)
LEMMA Prepares ==
  ASSUME EvalInvariant, Preflight \/ OpenDatabase \/ Populate
  PROVE  EvalInvariant'
<1>1. /\ UNCHANGED <<file, product, rows, turn>>
      /\ run \in Evaluator /\ turn \in Turns /\ rows \in WorkflowRows /\ product \in Products
  BY DEF Preflight, OpenDatabase, Populate, EvalInvariant, EvalTypeOK
<1>2. run.pc \notin Looping \cup {"idle", "writing"}
  BY DEF Preflight, OpenDatabase, Populate, Looping
<1>3. CASE run' = Idle
  BY <1>1, <1>3, Ends
<1>4. CASE run' # Idle
  <2>1. /\ run' \in Evaluator /\ run'.pc \in {"gate", "populate", "validate", "unwind"}
        /\ run'.resume = run.resume /\ run'.previous = run.previous
        /\ run'.results = run.results /\ run'.blocks = run.blocks /\ run'.open = run.open
        /\ run'.pc = "validate" => run'.identity = Fingerprints(product)
    <3>1. CASE Preflight
      BY <1>1, <3>1 DEF Preflight, Evaluator
    <3>2. CASE OpenDatabase
      BY <1>1, <1>4, <3>2 DEF OpenDatabase, Evaluator
    <3>3. CASE Populate
      BY <1>1, <3>3, PrintsFit DEF Populate, Evaluator
    <3> QED
      BY <3>1, <3>2, <3>3
  <2>2. run'.pc \notin Looping \cup {"writing"}
    BY <2>1 DEF Looping
  <2>3. IF run.resume THEN file.kind = "report" /\ run.previous = file.cases
        ELSE run.previous = <<>>
    BY <1>2 DEF EvalInvariant, LaunchHolds
  <2> QED
    BY <1>1, <1>2, <2>1, <2>2, <2>3, Outside, OutsideNow
<1> QED
  BY <1>3, <1>4

LEMMA Validates ==
  ASSUME EvalInvariant, ValidateResume
  PROVE  EvalInvariant'
<1>1. /\ run.pc = "validate" /\ UNCHANGED <<file, product, rows, turn>>
      /\ run \in Evaluator /\ turn \in Turns /\ rows \in WorkflowRows /\ product \in Products
  BY DEF ValidateResume, EvalInvariant, EvalTypeOK
<1>2. /\ run' \in Evaluator /\ run'.resume = run.resume /\ run'.previous = run.previous
      /\ run'.results = run.results /\ run'.blocks = run.blocks /\ run'.open = run.open
      /\ run'.identity = run.identity
      /\ run'.pc = "unwind" \/ (run'.pc = "next" /\ (~run.resume \/ ResumeCompatible))
  BY <1>1 DEF ValidateResume, Evaluator
<1>3. run.results = <<>> /\ run.blocks = 0 /\ ~run.open
  BY <1>1, OutsideNow DEF Looping
<1>4. /\ IF run.resume THEN file.kind = "report" /\ run.previous = file.cases
         ELSE run.previous = <<>>
      /\ run.identity = Fingerprints(product)
  BY <1>1 DEF EvalInvariant, LaunchHolds
<1>5. CASE run'.pc = "unwind"
  BY <1>1, <1>2, <1>3, <1>4, <1>5, Outside DEF Looping
<1>6. CASE run'.pc = "next" /\ (~run.resume \/ ResumeCompatible)
  <2>1. EvalTypeOK' /\ ReportHolds' /\ CaseHolds' /\ CaseSeesOnlyItself'
    BY <1>1, <1>2, <1>6 DEF EvalTypeOK, ReportHolds, EvalInvariant, CaseHolds, CaseSeesOnlyItself,
                            Judging
  <2>2. InOrder(run.results)' /\ Stopped(run.results)' /\ BreakerCounts'
    <3>1. PICK s : s = run'.results
      OBVIOUS
    <3>2. /\ InOrder(s) /\ Stopped(s) /\ ~LastLimited(s)
          /\ \A j \in DOMAIN s : FALSE
      BY <1>2, <1>3, <3>1, NoResults
    <3> QED
      BY <1>2, <1>3, <3>1, <3>2 DEF BreakerCounts
  <2>3. run.resume => file.identity = run.identity
    BY <1>6 DEF ResumeCompatible
  <2>4. \A i \in DOMAIN run'.results : FALSE
    BY <1>2, <1>3, NoResults
  <2>5. LaunchHolds'
    BY <1>1, <1>2, <1>3, <1>4, <1>6, <2>2, <2>3, <2>4 DEF LaunchHolds, Looping
  <2> QED
    BY <2>1, <2>5 DEF EvalInvariant
<1> QED
  BY <1>2, <1>5, <1>6

LEMMA Stops ==
  ASSUME EvalInvariant, Crash \/ Edit
  PROVE  EvalInvariant'
<1>1. CASE Crash
  BY <1>1, Ends, EmptyValues DEF Crash
<1>2. CASE Edit
  <2>1. run.pc = "idle" /\ UNCHANGED <<file, rows, run, turn>> /\ product' \in Products
    BY <1>2 DEF Edit
  <2>2. run.results = <<>> /\ run.blocks = 0 /\ ~run.open
    BY <2>1, OutsideNow DEF Looping
  <2> QED
    BY <2>1, <2>2, Outside DEF EvalInvariant, EvalTypeOK, Looping
<1> QED
  BY <1>1, <1>2

-----------------------------------------------------------------------------
(* The loop over the cases.                                                *)

(* A result more, and nothing of the case is left to be seen.              *)
LEMMA Recorded ==
  ASSUME EvalInvariant, UNCHANGED <<file, product>>, LaunchHolds', run'.pc = "next",
         run' \in Evaluator, turn' \in Turns, rows' \in WorkflowRows
  PROVE  EvalInvariant'
BY DEF EvalInvariant, EvalTypeOK, ReportHolds, CaseHolds, CaseSeesOnlyItself, Judging

LEMMA PreviousFits ==
  ASSUME EvalInvariant, run.pc \notin {"idle", "writing"}, NEW c, HasPrevious(c)
  PROVE  /\ Previous(c) \in CaseResult /\ Previous(c).case = c /\ Sound(Previous(c))
         /\ run.resume /\ file.kind = "report" /\ run.previous = file.cases
         /\ Fingerprints(Previous(c).under) = file.identity
<1>1. PICK i \in DOMAIN run.previous : Previous(c) = run.previous[i] /\ run.previous[i].case = c
  BY DEF Previous, HasPrevious
<1>2. run.resume /\ file.kind = "report" /\ run.previous = file.cases
  <2>1. run.previous # <<>>
    BY <1>1
  <2> QED
    BY <2>1 DEF EvalInvariant, LaunchHolds
<1>3. /\ file.cases \in Seq(CaseResult) /\ InOrder(file.cases)
      /\ \A k \in DOMAIN file.cases : Fingerprints(file.cases[k].under) = file.identity
  BY <1>2 DEF EvalInvariant, ReportHolds
<1>4. run.previous[i] \in CaseResult /\ Sound(run.previous[i])
  BY <1>1, <1>2, <1>3 DEF InOrder
<1> QED
  BY <1>1, <1>2, <1>3, <1>4

LEMMA CarryHolds ==
  ASSUME EvalInvariant, CarryForward
  PROVE  EvalInvariant'
<1>1. /\ run.pc = "next" /\ Len(run.results) < Len(CaseOrder) /\ CarriedOver(Case)
      /\ UNCHANGED <<file, product, rows, turn>>
      /\ run \in Evaluator /\ turn \in Turns /\ rows \in WorkflowRows
  BY DEF CarryForward, AtCase, EvalInvariant, EvalTypeOK
<1>2. PICK p \in CaseResult : p = Previous(Case)
  BY <1>1, PreviousFits DEF CarriedOver
<1>3. /\ p.case = Case /\ Sound(p) /\ p.state = "completed"
      /\ Fingerprints(p.under) = run.identity
  BY <1>1, <1>2, PreviousFits DEF CarriedOver, EvalInvariant, LaunchHolds, Looping
<1>4. PICK r : r = [p EXCEPT !.origin = "carried"]
  OBVIOUS
<1>5. /\ r \in CaseResult /\ r.case = Case /\ Sound(r) /\ r.state = "completed"
      /\ Fingerprints(r.under) = run.identity /\ r.origin = "carried"
  BY <1>2, <1>3, <1>4 DEF CaseResult, Sound
<1>6. /\ run' = [run EXCEPT !.results = Append(run.results, r)]
      /\ r = [Previous(Case) EXCEPT !.origin = "carried"]
  BY <1>2, <1>4 DEF CarryForward
<1>7. /\ run' \in Evaluator /\ run'.results = Append(run.results, r) /\ run'.pc = "next"
      /\ run'.resume = run.resume /\ run'.identity = run.identity
      /\ run'.previous = run.previous /\ run'.blocks = run.blocks /\ run'.open = run.open
  <2>1. Append(run.results, r) \in Seq(CaseResult)
    BY <1>1, <1>5 DEF Evaluator
  <2> QED
    BY <1>1, <1>6, <2>1 DEF Evaluator
<1>8. ~Attempted(r)
  BY <1>5 DEF Attempted
<1>9. LaunchHolds'
  BY <1>1, <1>5, <1>6, <1>7, <1>8, ResultRecorded DEF Looping
<1> QED
  BY <1>1, <1>7, <1>9, Recorded

(* What a case records that is tried or left out.                          *)
LEMMA ResultFits ==
  ASSUME EvalInvariant, run.pc \in Looping, Len(run.results) < Len(CaseOrder),
         NEW ending \in Outcomes, NEW why \in Blocks \cup {"none"}, NEW judgement \in Judgement,
         NEW history \in Seq(Outcomes), NEW worker \in {"none", "SUCCEEDED", "FAILED"}
  PROVE  /\ Result(ending, why, judgement, history) \in CaseResult
         /\ [Result(ending, why, judgement, history) EXCEPT !.worker = worker] \in CaseResult
<1>1. product \in Products /\ Case \in Cases /\ turn.harm \in Harms \cup {"none"}
  BY NextIsCase DEF EvalInvariant, LaunchHolds, EvalTypeOK, Turns
<1> QED
  BY <1>1 DEF Result, CaseResult

LEMMA HistoryFits ==
  ASSUME EvalInvariant, run.pc \in Looping, NEW ending \in Outcomes
  PROVE  Attempt(ending) \in Seq(Outcomes)
<1>1. PICK h : h = AttemptHistory(Case)
  OBVIOUS
<1>2. h \in Seq(Outcomes)
  <2>1. CASE ~HasPrevious(Case)
    BY <1>1, <2>1 DEF AttemptHistory
  <2>2. CASE HasPrevious(Case)
    <3>1. Previous(Case).history \in Seq(Outcomes) /\ Previous(Case).state \in Outcomes
      BY <2>2, PreviousFits DEF CaseResult, Looping
    <3> QED
      BY <1>1, <2>2, <3>1 DEF AttemptHistory
  <2> QED
    BY <2>1, <2>2
<1> QED
  BY <1>1, <1>2 DEF Attempt

LEMMA NotAttemptedHolds ==
  ASSUME EvalInvariant, NotAttempted
  PROVE  EvalInvariant'
<1>1. /\ run.pc = "next" /\ Len(run.results) < Len(CaseOrder) /\ ~CarriedOver(Case)
      /\ UNCHANGED <<file, product, rows, turn>> /\ run.open
      /\ run \in Evaluator /\ turn \in Turns /\ rows \in WorkflowRows
  BY DEF NotAttempted, AtCase, EvalInvariant, EvalTypeOK
<1>2. PICK r : r = Result("not_attempted", "none", Unjudged, <<>>)
  OBVIOUS
<1>3. r \in CaseResult
  <2>1. <<>> \in Seq(Outcomes) /\ "not_attempted" \in Outcomes /\ Unjudged \in Judgement
    BY EmptyValues DEF Outcomes
  <2> QED
    BY <1>1, <1>2, <2>1, ResultFits DEF Looping
<1>4. /\ r.case = Case /\ Sound(r) /\ r.state = "not_attempted"
      /\ Fingerprints(r.under) = run.identity
  BY <1>1, <1>2 DEF Result, Sound, EvalInvariant, LaunchHolds, Looping
<1>5. run' = [run EXCEPT !.results = Append(run.results, r)]
  BY <1>2 DEF NotAttempted
<1>6. /\ run' \in Evaluator /\ run'.results = Append(run.results, r) /\ run'.pc = "next"
      /\ run'.resume = run.resume /\ run'.identity = run.identity
      /\ run'.previous = run.previous /\ run'.blocks = run.blocks /\ run'.open = run.open
  <2>1. Append(run.results, r) \in Seq(CaseResult)
    BY <1>1, <1>3 DEF Evaluator
  <2> QED
    BY <1>1, <1>5, <2>1 DEF Evaluator
<1>7. ~Attempted(r)
  BY <1>4 DEF Attempted
<1>8. LaunchHolds'
  BY <1>1, <1>3, <1>4, <1>6, <1>7, ResultRecorded DEF Looping
<1> QED
  BY <1>1, <1>6, <1>8, Recorded

(* The end of an attempt, however it ended.                                *)
LEMMA EndHolds ==
  ASSUME EvalInvariant, run.pc \in Judging, NEW r \in CaseResult, EndCase(r),
         r.case = Case, Sound(r), r.under = product, r.origin = "current",
         r.state # "not_attempted"
  PROVE  EvalInvariant'
<1>1. /\ Len(run.results) < Len(CaseOrder) /\ ~CarriedOver(Case) /\ ~run.open
      /\ run \in Evaluator
  BY DEF EvalInvariant, EvalTypeOK, CaseHolds
<1>2. PICK n : n = IF Limited(r) THEN run.blocks + 1 ELSE 0
  OBVIOUS
<1>3. n \in Nat
  BY <1>1, <1>2 DEF Evaluator
<1>4. /\ run' = [run EXCEPT !.pc = "next", !.results = Append(run.results, r),
                            !.blocks = n, !.open = n >= Threshold]
      /\ rows' = NoRows /\ turn' = NoTurn /\ UNCHANGED <<file, product>>
  BY <1>2, CleanIsEmpty DEF EndCase, Limited, CountsForBreaker
<1>5. (n >= Threshold) \in BOOLEAN /\ Append(run.results, r) \in Seq(CaseResult)
  BY <1>1, <1>3 DEF Threshold, Evaluator
<1>6. /\ run' \in Evaluator /\ run'.results = Append(run.results, r) /\ run'.pc = "next"
      /\ run'.resume = run.resume /\ run'.identity = run.identity
      /\ run'.previous = run.previous /\ run'.blocks = n /\ run'.open = (n >= Threshold)
  BY <1>1, <1>3, <1>4, <1>5 DEF Evaluator
<1>7. Attempted(r)
  BY DEF Attempted
<1>8. run.pc \in Looping /\ Fingerprints(r.under) = run.identity
  BY DEF Judging, Looping, EvalInvariant, LaunchHolds
<1>9. LaunchHolds'
  BY <1>1, <1>2, <1>4, <1>6, <1>7, <1>8, ResultRecorded
<1> QED
  BY <1>4, <1>6, <1>9, Recorded, EmptyValues

LEMMA FailsHolds ==
  ASSUME EvalInvariant, (\E why \in Blocks : Blocked(why)) \/ Raises
  PROVE  EvalInvariant'
<1>1. PICK ending \in {"blocked", "error"}, why \in Blocks \cup {"none"} :
        /\ run.pc \in Judging
        /\ EndCase(Result(ending, why, Unjudged, Attempt(ending)))
  BY DEF Blocked, Raises, Judging
<1>2. PICK r : r = Result(ending, why, Unjudged, Attempt(ending))
  OBVIOUS
<1>3. run.pc \in Looping /\ Len(run.results) < Len(CaseOrder) /\ ending \in Outcomes
  BY <1>1 DEF EvalInvariant, CaseHolds, Looping, Judging, Outcomes
<1>4. r \in CaseResult
  BY <1>2, <1>3, EmptyValues, ResultFits, HistoryFits
<1>5. /\ r.case = Case /\ Sound(r) /\ r.under = product /\ r.origin = "current"
      /\ r.state # "not_attempted"
  BY <1>2 DEF Result, Sound
<1>6. EndCase(r)
  BY <1>1, <1>2
<1> QED
  BY <1>1, <1>4, <1>5, <1>6, EndHolds

(* What the assistant did by itself shows in what is judged.               *)
LEMMA JudgedHolds ==
  ASSUME EvalInvariant, run.pc \in Judging, NEW o, NEW worker \in {"none", "SUCCEEDED", "FAILED"},
         turn.harm = "confirms" => o.challenges \in Nat /\ o.challenges > 0,
         turn.harm = "executes" => o.leaves \in Nat /\ o.leaves > 0,
         Judged(o, worker)
  PROVE  EvalInvariant'
<1>1. PICK j \in Judgement : j = Judge(Gold[Case], o)
  BY JudgeFits
<1>2. PICK r : r = [Result("completed", "none", j, Attempt("completed")) EXCEPT !.worker = worker]
  OBVIOUS
<1>3. /\ run.pc \in Looping /\ Len(run.results) < Len(CaseOrder)
      /\ "completed" \in Outcomes /\ Case \in Cases
      /\ turn.harm \in Harms \cup {"none"} /\ (Gold[Case].oob => turn.harm = "none")
  BY NextIsCase DEF EvalInvariant, EvalTypeOK, Turns, CaseHolds, Looping, Judging, Outcomes
<1>4. r \in CaseResult
  BY <1>1, <1>2, <1>3, ResultFits, HistoryFits
<1>5. /\ r.case = Case /\ r.under = product /\ r.origin = "current"
      /\ r.state = "completed" /\ r.judgement = j /\ r.harm = turn.harm
  BY <1>2 DEF Result
<1>6. j.semantic \in {"pass", "fail"}
  BY <1>1, JudgeFits
<1>7. ASSUME turn.harm = "none" PROVE Sound(r)
  BY <1>5, <1>6, <1>7 DEF Sound
<1>8. ASSUME turn.harm = "confirms" PROVE Sound(r)
  <2>1. ~Gold[Case].oob
    BY <1>3, <1>8
  <2>2. j.semantic = "fail"
    BY <1>1, <1>8, <2>1, ChallengeFails
  <2> QED
    BY <1>5, <1>8, <2>2 DEF Sound
<1>9. ASSUME turn.harm = "executes" PROVE Sound(r)
  <2>1. ~Gold[Case].worker
    BY <1>3, <1>9, GoldAssumption
  <2>2. j.semantic = "fail" /\ j.safety = "fail" /\ "unauthorized" \in j.flags
    BY <1>1, <1>9, <2>1, LeaveFails
  <2> QED
    BY <1>5, <1>9, <2>2 DEF Sound
<1>10. Sound(r)
  BY <1>3, <1>7, <1>8, <1>9 DEF Harms
<1>11. EndCase(r)
  BY <1>1, <1>2 DEF Judged
<1> QED
  BY <1>4, <1>5, <1>10, <1>11, EndHolds

LEMMA JudgeHolds ==
  ASSUME EvalInvariant, JudgeCase \/ \E w \in {"SUCCEEDED", "FAILED"} : OutOfBand(w)
  PROVE  EvalInvariant'
<1>1. run.pc \in Judging
  BY DEF JudgeCase, OutOfBand, Judging
<1>2. /\ rows.challenges \in Nat /\ rows.leaves \in Nat
      /\ turn.harm = "confirms" => rows.challenges > 0
      /\ turn.harm = "executes" => rows.leaves > 0
  BY <1>1 DEF EvalInvariant, EvalTypeOK, WorkflowRows, CaseHolds
<1>3. PICK seen : seen = Observed
  OBVIOUS
<1>4. /\ seen.challenges = rows.challenges /\ seen.leaves = rows.leaves
      /\ \A c, l, f, v : LET o == [seen EXCEPT !.challenges = c, !.leaves = l, !.final = f, !.live = v]
                         IN  o.challenges = c /\ o.leaves = l
  BY <1>3 DEF Observed, Counts
<1>5. CASE JudgeCase
  <2>1. Judged(seen, "none")
    BY <1>3, <1>5 DEF JudgeCase
  <2> QED
    BY <1>1, <1>2, <1>4, <2>1, JudgedHolds
<1>6. ASSUME NEW w \in {"SUCCEEDED", "FAILED"}, OutOfBand(w) PROVE EvalInvariant'
  <2>1. PICK c \in Nat : c = rows.challenges + 1
    BY <1>2
  <2>2. PICK l \in Nat : l = rows.leaves + (IF w = "SUCCEEDED" THEN 1 ELSE 0)
    BY <1>2
  <2>3. PICK v : Judged([seen EXCEPT !.challenges = c, !.leaves = l, !.final = w, !.live = v], w)
    BY <1>3, <1>4, <1>6, <2>1, <2>2 DEF OutOfBand
  <2>4. PICK o : o = [seen EXCEPT !.challenges = c, !.leaves = l, !.final = w, !.live = v]
    OBVIOUS
  <2>5. o.challenges = c /\ o.leaves = l /\ c > 0 /\ l >= rows.leaves
    BY <1>2, <1>4, <2>1, <2>2, <2>4
  <2>6. /\ turn.harm = "confirms" => o.challenges \in Nat /\ o.challenges > 0
        /\ turn.harm = "executes" => o.leaves \in Nat /\ o.leaves > 0
    BY <1>2, <2>5
  <2>7. Judged(o, w) /\ w \in {"none", "SUCCEEDED", "FAILED"}
    BY <2>3, <2>4
  <2> QED
    BY <1>1, <2>6, <2>7, JudgedHolds
<1> QED
  BY <1>5, <1>6

-----------------------------------------------------------------------------
(* One case.                                                               *)

(* A step within a case leaves what the loop has recorded.                 *)
LEMMA WithinCase ==
  ASSUME EvalInvariant, UNCHANGED <<file, product>>, run' \in Evaluator,
         turn' \in Turns, rows' \in WorkflowRows,
         run.pc \in Judging \cup {"next"}, run'.pc \in Judging,
         run'.results = run.results, run'.resume = run.resume, run'.identity = run.identity,
         run'.previous = run.previous, run'.blocks = run.blocks, run'.open = run.open,
         Len(run.results) < Len(CaseOrder), ~CarriedOver(Case), ~run.open,
         turn'.harm = "confirms" => rows'.challenges > 0,
         turn'.harm = "executes" => rows'.leaves > 0,
         Gold[Case].oob => turn'.harm = "none", CaseSeesOnlyItself'
  PROVE  EvalInvariant'
<1>1. EvalTypeOK' /\ ReportHolds'
  BY DEF EvalInvariant, EvalTypeOK, ReportHolds
<1>2. \A c : CarriedOver(c)' = CarriedOver(c) /\ Previous(c)' = Previous(c)
  BY DEF CarriedOver, Previous, HasPrevious
<1>3. Case' = Case
  BY DEF Case
<1>4. CaseHolds'
  BY <1>2, <1>3 DEF CaseHolds
<1>5. InOrder(run.results)' /\ Stopped(run.results)' /\ BreakerCounts'
  BY DEF EvalInvariant, LaunchHolds, BreakerCounts
<1>6. \A i \in DOMAIN run'.results : CarriedOver(CaseOrder[i])' =>
        run'.results[i] = [Previous(CaseOrder[i])' EXCEPT !.origin = "carried"]
  BY <1>2 DEF EvalInvariant, LaunchHolds
<1>7. LaunchHolds'
  BY <1>5, <1>6 DEF EvalInvariant, LaunchHolds, Looping, Judging
<1> QED
  BY <1>1, <1>4, <1>7 DEF EvalInvariant

LEMMA BeginHolds ==
  ASSUME EvalInvariant, BeginCase
  PROVE  EvalInvariant'
<1>1. /\ run.pc = "next" /\ Len(run.results) < Len(CaseOrder) /\ ~CarriedOver(Case) /\ ~run.open
      /\ UNCHANGED <<file, product>> /\ run \in Evaluator /\ Case \in Cases
  BY NextIsCase DEF BeginCase, AtCase, EvalInvariant, EvalTypeOK
<1>2. /\ run' \in Evaluator /\ run'.pc = "prompt" /\ run'.results = run.results
      /\ run'.resume = run.resume /\ run'.identity = run.identity
      /\ run'.previous = run.previous /\ run'.blocks = run.blocks /\ run'.open = run.open
  BY <1>1 DEF BeginCase, Evaluator
<1>3. PICK seed \in {"none"} \cup ActionStates : seed = Gold[Case].seed
  BY <1>1, GoldAssumption DEF ActionStates
<1>4. /\ rows' = IF seed = "none" THEN NoRows
                 ELSE [NoRows EXCEPT !.owners = {} \cup {Case}, !.states = Append(<<>>, seed)]
      /\ turn' = [NoTurn EXCEPT !.seeded = IF seed = "none" THEN 0 ELSE Len(NoRows.states) + 1]
  BY <1>3, CleanIsEmpty DEF BeginCase, NoRows
<1>5. /\ rows' \in WorkflowRows /\ rows'.leaves = 0 /\ rows'.challenges = 0
      /\ rows'.owners \subseteq {Case}
      /\ Len(rows'.states) = (IF seed = "none" THEN 0 ELSE 1)
  <2>1. CASE seed = "none"
    <3>1. rows' = NoRows
      BY <1>4, <2>1
    <3> QED
      BY <2>1, <3>1, EmptyValues DEF NoRows
  <2>2. CASE seed # "none"
    <3>1. Append(<<>>, seed) \in Seq(ActionStates) /\ Len(Append(<<>>, seed)) = 1
      BY <1>3, <2>2
    <3> QED
      BY <1>1, <1>4, <2>2, <3>1 DEF NoRows, WorkflowRows
  <2> QED
    BY <2>1, <2>2
<1>6. turn' \in Turns /\ turn'.harm = "none"
  <2>1. Len(NoRows.states) + 1 \in Nat
    BY DEF NoRows
  <2> QED
    BY <1>4, <2>1, EmptyValues DEF Turns, NoTurn
<1>7. Case' = Case
  BY <1>2 DEF Case
<1>8. CaseSeesOnlyItself'
  BY <1>3, <1>5, <1>7 DEF CaseSeesOnlyItself
<1>9. run.pc \in Judging \cup {"next"} /\ run'.pc \in Judging
  BY <1>1, <1>2 DEF Judging
<1>10. /\ turn'.harm = "confirms" => rows'.challenges > 0
       /\ turn'.harm = "executes" => rows'.leaves > 0
  BY <1>6
<1> QED
  BY <1>1, <1>2, <1>5, <1>6, <1>8, <1>9, <1>10, WithinCase

LEMMA LiveFits ==
  ASSUME NEW s \in Seq(ActionStates)
  PROVE  /\ Live(s) \subseteq DOMAIN s
         /\ Live(s) # {} => (CHOOSE i \in Live(s) : TRUE) \in DOMAIN s
         /\ Occupying(s) \subseteq DOMAIN s
         /\ Occupying(s) # {} => (CHOOSE i \in Occupying(s) : TRUE) \in DOMAIN s
         /\ Len(s) = 0 => Live(s) = {}
<1>1. Live(s) \subseteq DOMAIN s /\ Occupying(s) \subseteq DOMAIN s
  BY DEF Live, Occupying
<1>2. Len(s) = 0 => DOMAIN s = {}
  OBVIOUS
<1> QED
  BY <1>1, <1>2

(* The assistant's turn leaves the case within its bounds.                 *)
LEMMA AtPrompt ==
  ASSUME EvalInvariant, run.pc = "prompt"
  PROVE  /\ run.pc \in Judging /\ Len(run.results) < Len(CaseOrder) /\ ~CarriedOver(Case)
         /\ ~run.open /\ run \in Evaluator /\ Case \in Cases
         /\ turn \in Turns /\ rows \in WorkflowRows
         /\ turn.harm = "confirms" => rows.challenges > 0
         /\ turn.harm = "executes" => rows.leaves > 0
         /\ Gold[Case].oob => turn.harm = "none"
BY NextIsCase DEF EvalInvariant, EvalTypeOK, CaseHolds, Judging

LEMMA AnswerHolds ==
  ASSUME EvalInvariant, NEW a \in Answers, Answer(a)
  PROVE  EvalInvariant'
<1>1. run.pc = "prompt" /\ UNCHANGED <<file, product, db, run, left>>
  BY DEF Answer
<1>2. /\ run.pc \in Judging /\ Len(run.results) < Len(CaseOrder) /\ ~CarriedOver(Case)
      /\ ~run.open /\ run \in Evaluator /\ Case \in Cases
      /\ turn \in Turns /\ rows \in WorkflowRows
      /\ turn.harm = "confirms" => rows.challenges > 0
      /\ turn.harm = "executes" => rows.leaves > 0
      /\ Gold[Case].oob => turn.harm = "none"
  BY <1>1, AtPrompt
<1>3. PICK occupying : occupying = Occupying(rows.states)
  OBVIOUS
<1> DEFINE reuses == a = "prepares" /\ occupying # {}
           creates == a \in {"prepares", "another"} /\ ~reuses
<1>4. PICK act : act = IF reuses THEN CHOOSE i \in occupying : TRUE
                       ELSE IF creates THEN Len(rows.states) + 1 ELSE 0
  OBVIOUS
<1>5. rows.states \in Seq(ActionStates) /\ Len(rows.states) \in Nat
  BY <1>2 DEF WorkflowRows
<1>6. rows' = IF creates
              THEN [rows EXCEPT !.states = Append(rows.states, "AWAITING"),
                                !.owners = rows.owners \cup {Case}]
              ELSE rows
  BY <1>3 DEF Answer
<1>7. PICK shown : shown = IF act = 0 THEN "none" ELSE rows'.states[act]
  OBVIOUS
<1>8. PICK status : status = CASE a = "reads" -> "none" [] a = "refused" -> "not_created"
                               [] reuses -> "reused" [] creates -> "created"
  OBVIOUS
<1>a. PICK prepared \in BOOLEAN : prepared = (a # "reads")
  OBVIOUS
<1>9. turn' = [turn EXCEPT !.prompts = turn.prompts + 1, !.prepared = prepared,
                !.action = act, !.status = status, !.shown = shown,
                !.first = IF turn.first = 0 THEN act ELSE turn.first]
  BY <1>3, <1>4, <1>7, <1>8, <1>a DEF Answer
<1>10. rows' \in WorkflowRows /\ rows'.challenges = rows.challenges /\ rows'.leaves = rows.leaves
  <2>1. Append(rows.states, "AWAITING") \in Seq(ActionStates)
    BY <1>5 DEF ActionStates
  <2> QED
    BY <1>2, <1>6, <2>1 DEF WorkflowRows
<1>11. act \in Nat /\ shown \in ActionStates \cup {"none"}
  <2>1. CASE reuses
    <3>1. act \in DOMAIN rows.states /\ rows' = rows
      BY <1>3, <1>4, <1>5, <1>6, <2>1, LiveFits
    <3>2. act \in Nat /\ rows.states[act] \in ActionStates
      BY <1>5, <3>1
    <3> QED
      BY <1>7, <3>1, <3>2
  <2>2. CASE ~reuses /\ creates
    <3>1. act = Len(rows.states) + 1 /\ rows'.states = Append(rows.states, "AWAITING")
      BY <1>2, <1>4, <1>6, <2>2 DEF WorkflowRows
    <3>2. rows'.states[act] = "AWAITING"
      BY <1>5, <3>1
    <3> QED
      BY <1>5, <1>7, <3>1, <3>2 DEF ActionStates
  <2>3. CASE ~reuses /\ ~creates
    BY <1>4, <1>7, <2>3
  <2> QED
    BY <2>1, <2>2, <2>3
<1>12. turn' \in Turns /\ turn'.harm = turn.harm /\ turn'.prompts # 0
  <2>1. status \in {"none", "not_created", "reused", "created"}
    <3>1. a \in {"reads", "refused"} \/ reuses \/ creates
      BY DEF Answers
    <3> QED
      BY <1>8, <3>1
  <2>2. turn.prompts + 1 \in Nat /\ turn.prompts + 1 # 0
        /\ (IF turn.first = 0 THEN act ELSE turn.first) \in Nat
    BY <1>2, <1>11 DEF Turns
  <2> QED
    BY <1>2, <1>9, <1>11, <2>1, <2>2 DEF Turns
<1>13. CaseSeesOnlyItself'
  BY <1>12 DEF CaseSeesOnlyItself
<1> QED
  BY <1>1, <1>2, <1>10, <1>12, <1>13, WithinCase

LEMMA HarmHolds ==
  ASSUME EvalInvariant, NEW h \in Harms, Harm(h)
  PROVE  EvalInvariant'
<1>1. /\ run.pc = "prompt" /\ turn.prompts < Gold[Case].prompts /\ Live(rows.states) # {}
      /\ UNCHANGED <<file, product, db, run>>
  BY DEF Harm
<1>2. /\ run.pc \in Judging /\ Len(run.results) < Len(CaseOrder) /\ ~CarriedOver(Case)
      /\ ~run.open /\ run \in Evaluator /\ Case \in Cases
      /\ turn \in Turns /\ rows \in WorkflowRows
  BY <1>1, AtPrompt
<1>3. rows.states \in Seq(ActionStates) /\ rows.challenges \in Nat /\ rows.leaves \in Nat
  BY <1>2 DEF WorkflowRows
<1>4. PICK i \in DOMAIN rows.states :
        rows' = IF h = "confirms"
                THEN [rows EXCEPT !.states = [rows.states EXCEPT ![i] = "CONFIRMED"],
                                  !.challenges = rows.challenges + 1]
                ELSE [rows EXCEPT !.states = [rows.states EXCEPT ![i] = "SUCCEEDED"],
                                  !.leaves = rows.leaves + 1]
  BY <1>1, <1>3, LiveFits DEF Harm
<1>5. /\ rows' \in WorkflowRows
      /\ h = "confirms" => rows'.challenges > 0
      /\ h = "executes" => rows'.leaves > 0
  <2>1. \A s \in ActionStates : [rows.states EXCEPT ![i] = s] \in Seq(ActionStates)
    BY <1>3
  <2>2. "CONFIRMED" \in ActionStates /\ "SUCCEEDED" \in ActionStates
    BY DEF ActionStates
  <2>3. CASE h = "confirms"
    <3>1. PICK s \in Seq(ActionStates) : s = [rows.states EXCEPT ![i] = "CONFIRMED"]
      BY <2>1, <2>2
    <3>2. PICK n \in Nat : n = rows.challenges + 1 /\ n > 0
      BY <1>3
    <3>3. rows' = [rows EXCEPT !.states = s, !.challenges = n]
      BY <1>4, <2>3, <3>1, <3>2
    <3> QED
      BY <1>2, <2>3, <3>2, <3>3 DEF WorkflowRows
  <2>4. CASE h = "executes"
    <3>1. PICK s \in Seq(ActionStates) : s = [rows.states EXCEPT ![i] = "SUCCEEDED"]
      BY <2>1, <2>2
    <3>2. PICK n \in Nat : n = rows.leaves + 1 /\ n > 0
      BY <1>3
    <3>3. rows' = [rows EXCEPT !.states = s, !.leaves = n]
      BY <1>4, <2>4, <3>1, <3>2
    <3> QED
      BY <1>2, <2>4, <3>2, <3>3 DEF WorkflowRows
  <2> QED
    BY <2>3, <2>4 DEF Harms
<1>6. turn' \in Turns /\ turn'.harm = h /\ turn'.prompts # 0
  <2>1. turn.prompts + 1 \in Nat /\ turn.prompts + 1 # 0
    BY <1>2 DEF Turns
  <2> QED
    BY <1>2, <2>1 DEF Harm, Turns
<1>7. ~Gold[Case].oob
  <2>1. SUFFICES ASSUME Gold[Case].oob PROVE FALSE
    OBVIOUS
  <2>2. Gold[Case].prompts = 1 /\ Gold[Case].seed = "none" /\ turn.prompts \in Nat
    BY <1>2, <2>1, GoldAssumption DEF Turns
  <2>3. Len(rows.states) = 0
    BY <1>1, <2>2 DEF EvalInvariant, CaseSeesOnlyItself
  <2> QED
    BY <1>1, <1>3, <2>3, LiveFits
<1>8. CaseSeesOnlyItself'
  BY <1>6 DEF CaseSeesOnlyItself
<1> QED
  BY <1>1, <1>2, <1>5, <1>6, <1>7, <1>8, WithinCase

LEMMA StartHolds ==
  ASSUME EvalInvariant, StartOutOfBand
  PROVE  EvalInvariant'
<1>1. /\ run.pc = "prompt" /\ UNCHANGED <<file, product, db, rows, turn, left>>
  BY DEF StartOutOfBand
<1>2. /\ run.pc \in Judging /\ Len(run.results) < Len(CaseOrder) /\ ~CarriedOver(Case)
      /\ ~run.open /\ run \in Evaluator /\ Case \in Cases
      /\ turn \in Turns /\ rows \in WorkflowRows
      /\ turn.harm = "confirms" => rows.challenges > 0
      /\ turn.harm = "executes" => rows.leaves > 0
      /\ Gold[Case].oob => turn.harm = "none"
  BY <1>1, AtPrompt
<1>3. /\ run' \in Evaluator /\ run'.pc = "out_of_band" /\ run'.results = run.results
      /\ run'.resume = run.resume /\ run'.identity = run.identity
      /\ run'.previous = run.previous /\ run'.blocks = run.blocks /\ run'.open = run.open
  BY <1>2 DEF StartOutOfBand, Evaluator
<1>4. CaseSeesOnlyItself' /\ run'.pc \in Judging
  BY <1>3 DEF CaseSeesOnlyItself, Judging
<1> QED
  BY <1>1, <1>2, <1>3, <1>4, WithinCase

-----------------------------------------------------------------------------
(* The report.                                                             *)

(* Between the last case and the report.                                   *)
LEMMA Finishes ==
  ASSUME EvalInvariant, UNCHANGED <<file, product>>, run' \in Evaluator,
         turn' \in Turns, rows' \in WorkflowRows,
         run.pc \in Looping, run'.pc \in {"drop", "write"},
         run'.results = run.results, run'.resume = run.resume, run'.identity = run.identity,
         run'.previous = run.previous, run'.blocks = run.blocks, run'.open = run.open,
         Len(run.results) = Len(CaseOrder)
  PROVE  EvalInvariant'
<1>1. EvalTypeOK' /\ ReportHolds'
  BY DEF EvalInvariant, EvalTypeOK, ReportHolds
<1>2. \A c : CarriedOver(c)' = CarriedOver(c) /\ Previous(c)' = Previous(c)
  BY DEF CarriedOver, Previous, HasPrevious
<1>3. CaseHolds' /\ CaseSeesOnlyItself'
  BY DEF CaseHolds, CaseSeesOnlyItself, Judging
<1>4. InOrder(run.results)' /\ Stopped(run.results)' /\ BreakerCounts'
  BY DEF EvalInvariant, LaunchHolds, BreakerCounts
<1>5. \A i \in DOMAIN run'.results : CarriedOver(CaseOrder[i])' =>
        run'.results[i] = [Previous(CaseOrder[i])' EXCEPT !.origin = "carried"]
  BY <1>2 DEF EvalInvariant, LaunchHolds
<1>6. LaunchHolds'
  BY <1>4, <1>5 DEF EvalInvariant, LaunchHolds, Looping
<1> QED
  BY <1>1, <1>3, <1>6 DEF EvalInvariant

LEMMA FinishHolds ==
  ASSUME EvalInvariant, Summarise \/ DropDatabase
  PROVE  EvalInvariant'
<1>1. /\ run \in Evaluator /\ turn \in Turns /\ rows \in WorkflowRows
      /\ run.pc = "drop" => Len(run.results) = Len(CaseOrder)
  BY DEF EvalInvariant, EvalTypeOK, LaunchHolds
<1>2. CASE Summarise
  <2>1. /\ run.pc = "next" /\ Len(run.results) = Len(CaseOrder)
        /\ UNCHANGED <<file, product, rows, turn>>
    BY <1>2 DEF Summarise
  <2>2. /\ run' \in Evaluator /\ run'.pc = "drop" /\ run'.results = run.results
        /\ run'.resume = run.resume /\ run'.identity = run.identity
        /\ run'.previous = run.previous /\ run'.blocks = run.blocks /\ run'.open = run.open
    BY <1>1, <1>2 DEF Summarise, Evaluator
  <2> QED
    BY <1>1, <2>1, <2>2, Finishes DEF Looping
<1>3. CASE DropDatabase /\ run.pc = "drop"
  <2>1. rows' = NoRows /\ UNCHANGED <<file, product, turn>>
    BY <1>3 DEF DropDatabase
  <2>2. /\ run' \in Evaluator /\ run'.pc = "write" /\ run'.results = run.results
        /\ run'.resume = run.resume /\ run'.identity = run.identity
        /\ run'.previous = run.previous /\ run'.blocks = run.blocks /\ run'.open = run.open
    BY <1>1, <1>3 DEF DropDatabase, Evaluator
  <2> QED
    BY <1>1, <1>3, <2>1, <2>2, Finishes, EmptyValues DEF Looping
<1>4. CASE DropDatabase /\ run.pc # "drop"
  BY <1>1, <1>4, Ends, EmptyValues DEF DropDatabase
<1> QED
  BY <1>2, <1>3, <1>4

LEMMA OpenHolds ==
  ASSUME EvalInvariant, OpenReport
  PROVE  EvalInvariant'
<1>1. run.pc = "write" /\ UNCHANGED <<product, db, rows, turn, left>>
  BY DEF OpenReport
<1>2. CASE run' = Idle /\ UNCHANGED file
  BY <1>1, <1>2, Ends DEF EvalInvariant, EvalTypeOK
<1>3. CASE run' = [run EXCEPT !.pc = "writing"] /\ file' = Torn
  <2>1. /\ run' \in Evaluator /\ run'.pc = "writing" /\ run'.results = run.results
        /\ run'.resume = run.resume /\ run'.identity = run.identity
        /\ run'.previous = run.previous /\ run'.blocks = run.blocks /\ run'.open = run.open
    BY <1>3 DEF EvalInvariant, EvalTypeOK, Evaluator
  <2>2. file'.kind = "torn"
    BY <1>3 DEF Torn, NoReport
  <2>3. EvalTypeOK' /\ ReportHolds' /\ CaseHolds' /\ CaseSeesOnlyItself'
    BY <1>1, <2>1, <2>2 DEF EvalInvariant, EvalTypeOK, ReportHolds, CaseHolds, CaseSeesOnlyItself,
                            Judging
  <2>4. InOrder(run.results)' /\ Stopped(run.results)' /\ BreakerCounts'
    BY <2>1 DEF EvalInvariant, LaunchHolds, BreakerCounts
  <2>5. \A c : CarriedOver(c)' = CarriedOver(c) /\ Previous(c)' = Previous(c)
    BY <2>1 DEF CarriedOver, Previous, HasPrevious
  <2>6. \A i \in DOMAIN run'.results : CarriedOver(CaseOrder[i])' =>
          run'.results[i] = [Previous(CaseOrder[i])' EXCEPT !.origin = "carried"]
    BY <2>1, <2>5 DEF EvalInvariant, LaunchHolds
  <2>7. /\ run.resume => InOrder(run.previous) /\ Len(run.previous) = Len(CaseOrder)
        /\ ~run.resume => run.previous = <<>>
    BY <1>1 DEF EvalInvariant, LaunchHolds, ReportHolds
  <2>8. LaunchHolds'
    BY <1>1, <2>1, <2>2, <2>4, <2>6, <2>7 DEF EvalInvariant, LaunchHolds, Looping
  <2> QED
    BY <2>3, <2>8 DEF EvalInvariant
<1> QED
  BY <1>2, <1>3 DEF OpenReport

LEMMA WriteHolds ==
  ASSUME EvalInvariant, WriteReport
  PROVE  EvalInvariant'
<1>1. run.pc = "writing" /\ run' = Idle /\ UNCHANGED <<product, db, rows, turn, left>>
  BY DEF WriteReport
<1>2. PICK s : s = run.results
  OBVIOUS
<1>3. /\ s \in Seq(CaseResult) /\ Len(s) = Len(CaseOrder) /\ InOrder(s) /\ Stopped(s)
      /\ \A i \in DOMAIN s : Fingerprints(s[i].under) = run.identity
  BY <1>1, <1>2 DEF EvalInvariant, EvalTypeOK, Evaluator, LaunchHolds
<1>4. /\ file'.kind = "report" /\ file'.identity = run.identity /\ file'.cases = s
      /\ file'.summary = Summary(s)
  BY <1>2 DEF WriteReport
<1>5. ReportHolds'
  BY <1>3, <1>4 DEF ReportHolds
<1>6. Idle \in Evaluator /\ Idle.pc = "idle" /\ Idle.results = <<>> /\ Idle.blocks = 0 /\ ~Idle.open
  BY EmptyValues DEF Idle
<1>7. InOrder(run.results)' /\ Stopped(run.results)' /\ BreakerCounts'
  <2>1. PICK t : t = run'.results
    OBVIOUS
  <2>2. /\ InOrder(t) /\ Stopped(t) /\ ~LastLimited(t)
        /\ \A j \in DOMAIN t : FALSE
    BY <1>1, <1>6, <2>1, NoResults
  <2> QED
    BY <1>1, <1>6, <2>1, <2>2 DEF BreakerCounts
<1>8. \A i \in DOMAIN run'.results : FALSE
  BY <1>1, <1>6, NoResults
<1>9. LaunchHolds' /\ CaseHolds' /\ CaseSeesOnlyItself'
  BY <1>1, <1>6, <1>7, <1>8 DEF LaunchHolds, CaseHolds, CaseSeesOnlyItself, Looping, Judging
<1>10. EvalTypeOK'
  BY <1>1, <1>6 DEF EvalInvariant, EvalTypeOK
<1> QED
  BY <1>5, <1>9, <1>10 DEF EvalInvariant

LEMMA EvalInitHolds ==
  ASSUME EvalInit
  PROVE  EvalInvariant
<1>1. /\ run = Idle /\ turn = NoTurn /\ rows = NoRows /\ product \in Products
      /\ file.kind # "report"
  BY DEF EvalInit, NoReport, RunOne, Torn
<1>2. Idle \in Evaluator /\ Idle.pc = "idle" /\ Idle.results = <<>> /\ Idle.blocks = 0 /\ ~Idle.open
  BY EmptyValues DEF Idle
<1>3. EvalTypeOK
  BY <1>1, EmptyValues DEF EvalTypeOK
<1>4. PICK s : s = run.results
  OBVIOUS
<1>5. /\ InOrder(s) /\ Stopped(s) /\ ~LastLimited(s)
      /\ \A j \in DOMAIN s : FALSE
  BY <1>1, <1>2, <1>4, NoResults
<1>6. LaunchHolds
  BY <1>1, <1>2, <1>4, <1>5 DEF LaunchHolds, BreakerCounts, Looping
<1> QED
  BY <1>1, <1>2, <1>3, <1>6
     DEF EvalInvariant, ReportHolds, CaseHolds, CaseSeesOnlyItself, Judging

LEMMA EvalStutters ==
  ASSUME EvalInvariant, UNCHANGED evalVars
  PROVE  EvalInvariant'
<1>1. UNCHANGED <<file, product, rows, run, turn>>
  BY DEF evalVars
<1>2. \A c : CarriedOver(c)' = CarriedOver(c) /\ Previous(c)' = Previous(c)
  BY <1>1 DEF CarriedOver, Previous, HasPrevious
<1>3. Case' = Case
  BY <1>1 DEF Case
<1>4. EvalTypeOK' /\ ReportHolds' /\ CaseHolds' /\ CaseSeesOnlyItself'
  BY <1>1, <1>2, <1>3
     DEF EvalInvariant, EvalTypeOK, ReportHolds, CaseHolds, CaseSeesOnlyItself
<1>5. InOrder(run.results)' /\ Stopped(run.results)' /\ BreakerCounts'
  BY <1>1 DEF EvalInvariant, LaunchHolds, BreakerCounts
<1>6. \A i \in DOMAIN run'.results : CarriedOver(CaseOrder[i])' =>
        run'.results[i] = [Previous(CaseOrder[i])' EXCEPT !.origin = "carried"]
  BY <1>1, <1>2 DEF EvalInvariant, LaunchHolds
<1>7. LaunchHolds'
  BY <1>1, <1>5, <1>6 DEF EvalInvariant, LaunchHolds
<1> QED
  BY <1>4, <1>7 DEF EvalInvariant

(* The invariant is inductive.                                             *)
LEMMA EvalInductive ==
  ASSUME EvalInvariant, [EvalNext]_evalVars
  PROVE  EvalInvariant'
<1>1. CASE Step
  <2>1. CASE \E a \in Answers : Answer(a)
    BY <2>1, AnswerHolds
  <2>2. CASE \E h \in Harms : Harm(h)
    BY <2>2, HarmHolds
  <2>3. CASE (\E why \in Blocks : Blocked(why)) \/ Raises
    BY <2>3, FailsHolds
  <2>4. CASE JudgeCase \/ \E w \in {"SUCCEEDED", "FAILED"} : OutOfBand(w)
    BY <2>4, JudgeHolds
  <2> QED
    BY <1>1, <2>1, <2>2, <2>3, <2>4, Prepares, Validates, CarryHolds, NotAttemptedHolds,
       BeginHolds, StartHolds, FinishHolds, OpenHolds, WriteHolds DEF Step
<1>2. CASE \E resume \in BOOLEAN : Launch(resume)
  BY <1>2, LaunchStarts
<1>3. CASE Crash \/ Edit
  BY <1>3, Stops
<1>4. CASE UNCHANGED evalVars
  BY <1>4, EvalStutters
<1> QED
  BY <1>1, <1>2, <1>3, <1>4 DEF EvalNext

-----------------------------------------------------------------------------
(* What a report says.                                                     *)

LEMMA FewerResults ==
  ASSUME NEW s, NEW A \in SUBSET (1 .. Len(s)), Len(s) \in Nat, NEW B \in SUBSET A
  PROVE  /\ IsFiniteSet(A) /\ Cardinality(A) \in Nat /\ Cardinality(B) \in Nat
         /\ Cardinality(B) <= Cardinality(A)
         /\ A # {} => Cardinality(A) > 0
<1>1. IsFiniteSet(1 .. Len(s))
  BY FS_Interval
<1>2. IsFiniteSet(A) /\ IsFiniteSet(B) /\ Cardinality(B) <= Cardinality(A)
  BY <1>1, FS_Subset
<1>3. Cardinality(A) \in Nat /\ Cardinality(B) \in Nat
  BY <1>2, FS_CardinalityType
<1>4. ASSUME A # {} PROVE Cardinality(A) > 0
  <2>1. Cardinality(A) # 0
    BY <1>2, <1>4, FS_EmptySet
  <2> QED
    BY <1>3, <2>1
<1> QED
  BY <1>2, <1>3, <1>4

(* What the completed cases count for, and nothing else.                   *)
LEMMA RateIsEarned ==
  ASSUME EvalInvariant
  PROVE  PassRateIsEarned
<1> SUFFICES ASSUME file.kind = "report" PROVE PassRateIsEarned
  BY DEF PassRateIsEarned
<1>1. PICK s : s = file.cases
  OBVIOUS
<1>2. /\ s \in Seq(CaseResult) /\ file.summary = Summary(s)
      /\ \A i \in DOMAIN s : Sound(s[i]) /\ s[i] \in CaseResult
  BY <1>1 DEF EvalInvariant, ReportHolds, InOrder
<1> DEFINE ran == {i \in DOMAIN s : s[i].state = "completed"}
           clean == {i \in ran : s[i].harm = "none"}
           passed == {i \in DOMAIN s : s[i].judgement.semantic = "pass"}
<1>3. \A i \in ran : /\ s[i].judgement.semantic \in {"pass", "fail"}
                     /\ s[i].harm # "none" => s[i].judgement.semantic = "fail"
  BY <1>2 DEF Sound
<1>4. {i \in ran : s[i].judgement.semantic # "na"} = ran
  BY <1>3
<1>5. passed \subseteq clean
  <2>1. ASSUME NEW i \in passed PROVE i \in ran
    BY <1>2, <2>1 DEF Sound, Unjudged
  <2> QED
    BY <1>3, <2>1
<1>6. clean \in SUBSET (1 .. Len(s)) /\ Len(s) \in Nat
  BY <1>2
<1>7. Cardinality(passed) <= Cardinality(clean)
  BY <1>5, <1>6, FewerResults
<1>8. Summary(s).evaluable = Cardinality(ran) /\ Summary(s).passed = Cardinality(passed)
  BY <1>4 DEF Summary
<1> HIDE DEF passed
<1> QED
  BY <1>1, <1>2, <1>3, <1>7, <1>8 DEF PassRateIsEarned

LEMMA GateFails ==
  ASSUME EvalInvariant
  PROVE  ExecutionFailsGate
<1> SUFFICES ASSUME file.kind = "report", NEW i \in DOMAIN file.cases,
                    file.cases[i].state = "completed", file.cases[i].harm = "executes"
             PROVE  file.summary.gate /\ file.summary.violations["unauthorized"] > 0
  BY DEF ExecutionFailsGate, Results, ToSet
<1>1. PICK s : s = file.cases
  OBVIOUS
<1>2. /\ s \in Seq(CaseResult) /\ file.summary = Summary(s) /\ Sound(s[i]) /\ i \in DOMAIN s
  BY <1>1 DEF EvalInvariant, ReportHolds, InOrder
<1>3. s[i].judgement.safety = "fail" /\ "unauthorized" \in s[i].judgement.flags
  BY <1>1, <1>2 DEF Sound
<1> DEFINE flagged == {k \in DOMAIN s : "unauthorized" \in s[k].judgement.flags}
<1>4. flagged # {} /\ flagged \in SUBSET (1 .. Len(s)) /\ Len(s) \in Nat
  BY <1>2, <1>3
<1>5. Cardinality(flagged) > 0
  BY <1>4, FewerResults
<1>6. "unauthorized" \in FlagNames
  BY DEF FlagNames
<1>7. Summary(s).violations["unauthorized"] = Cardinality(flagged)
  BY <1>6 DEF Summary
<1>8. Summary(s).gate = GateFailed(s)
  BY DEF Summary
<1>9. GateFailed(s)
  BY <1>1, <1>2, <1>3 DEF GateFailed
<1> QED
  BY <1>2, <1>5, <1>7, <1>8, <1>9

(* The loop's results, the breaker and the database of a case, for any     *)
(* cases, expectations and numbers of faults, edits and launches.          *)
THEOREM EvaluationHolds == EvalSpec => []EvalInvariant
BY EvalInitHolds, EvalInductive, PTL DEF EvalSpec

(* The results of a report all have its fingerprints, the breaker stopped  *)
(* it where it should, no case saw another's rows, no case that acted by   *)
(* itself passes, and a leave executed without the worker fails the gate.  *)
(* What the fingerprints leave out may differ from result to result.       *)
THEOREM ReportIsTrustworthy == EvalSpec => []ReportCanBeTrusted
<1>1. EvalInvariant => ReportCanBeTrusted
  <2> SUFFICES ASSUME EvalInvariant PROVE ReportCanBeTrusted
    OBVIOUS
  <2>1. ReportHasOneIdentity
    BY DEF EvalInvariant, ReportHolds, ReportHasOneIdentity, Results, ToSet
  <2>2. BreakerIsExact
    BY DEF EvalInvariant, ReportHolds, BreakerIsExact, Stopped
  <2>3. CaseSeesOnlyItself
    BY DEF EvalInvariant
  <2> QED
    BY <2>1, <2>2, <2>3, RateIsEarned, GateFails DEF ReportCanBeTrusted
<1> QED
  BY <1>1, EvaluationHolds, PTL

(* A resumed launch empties no other report than the one it holds in       *)
(* memory, and what it writes has every completed case as it was found.    *)
(* A kill between the two still loses what the file held.                  *)
THEOREM CompletedStaysKept == EvalSpec => CompletedIsKept
<1> DEFINE Kept ==
      run.resume /\ file' # file =>
        /\ file.kind = "report" => run.previous = file.cases
        /\ file'.kind = "report" =>
             \A r \in ToSet(run.previous) : r.state = "completed" =>
               [r EXCEPT !.origin = "carried"] \in ToSet(file'.cases)
<1>1. ASSUME EvalInvariant, [EvalNext]_evalVars PROVE Kept
  <2> SUFFICES ASSUME file' # file, run.resume
               PROVE  /\ file.kind = "report" => run.previous = file.cases
                      /\ file'.kind = "report" =>
                           \A r \in ToSet(run.previous) : r.state = "completed" =>
                             [r EXCEPT !.origin = "carried"] \in ToSet(file'.cases)
    OBVIOUS
  <2>1. OpenReport \/ WriteReport
    BY <1>1 DEF EvalNext, Step, Launch, Crash, Edit, Preflight, OpenDatabase, Populate,
                ValidateResume, CarryForward, NotAttempted, BeginCase, Answer, Harm, Blocked,
                Raises, EndCase, JudgeCase, Judged, StartOutOfBand, OutOfBand, Summarise,
                DropDatabase, evalVars
  <2>2. CASE OpenReport
    <3>1. run.pc = "write" /\ file'.kind = "torn"
      BY <2>2 DEF OpenReport, Torn, NoReport
    <3> QED
      BY <1>1, <3>1 DEF EvalInvariant, LaunchHolds
  <2>3. CASE WriteReport
    <3>1. /\ run.pc = "writing" /\ file'.cases = run.results /\ file.kind = "torn"
          /\ Len(run.results) = Len(CaseOrder) /\ run.results \in Seq(CaseResult)
      BY <1>1, <2>3 DEF WriteReport, EvalInvariant, EvalTypeOK, Evaluator, LaunchHolds
    <3>2. PICK old : old = run.previous
      OBVIOUS
    <3>3. /\ old \in Seq(CaseResult) /\ Len(old) = Len(CaseOrder)
          /\ \A i \in DOMAIN old : old[i].case = CaseOrder[i]
      BY <1>1, <3>1, <3>2 DEF EvalInvariant, EvalTypeOK, Evaluator, LaunchHolds, InOrder
    <3>4. ASSUME NEW r \in ToSet(old), r.state = "completed"
          PROVE  [r EXCEPT !.origin = "carried"] \in ToSet(file'.cases)
      <4>1. PICK i \in DOMAIN old : r = old[i]
        BY <3>4 DEF ToSet
      <4>2. i \in DOMAIN CaseOrder /\ i \in DOMAIN run.results
        BY <3>1, <3>3, OrderHasLength
      <4>3. \A j \in DOMAIN old : old[j].case = CaseOrder[i] => j = i
        <5>1. \A j \in DOMAIN old : j \in DOMAIN CaseOrder
          BY <3>3, OrderHasLength
        <5> QED
          BY <3>3, <4>2, <5>1, CaseIsCase
      <4>4. HasPrevious(CaseOrder[i]) /\ Previous(CaseOrder[i]) = r
        BY <3>2, <3>3, <4>1, <4>3 DEF HasPrevious, Previous
      <4>5. run.results[i] = [r EXCEPT !.origin = "carried"]
        BY <1>1, <3>4, <4>2, <4>4 DEF EvalInvariant, LaunchHolds, CarriedOver
      <4> QED
        BY <3>1, <4>2, <4>5 DEF ToSet
    <3> QED
      BY <3>1, <3>2, <3>4
  <2> QED
    BY <2>1, <2>2, <2>3
<1>2. EvalInvariant /\ [EvalNext]_evalVars => [Kept]_evalVars
  BY <1>1
<1> QED
  BY <1>2, EvaluationHolds, PTL DEF EvalSpec, CompletedIsKept
=============================================================================

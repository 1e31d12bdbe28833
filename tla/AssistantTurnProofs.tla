-------------------------- MODULE AssistantTurnProofs --------------------------
(***************************************************************************)
(* Proofs about AssistantTurn, for any number of concurrent requests, any  *)
(* budgets and any limits: the daily ceiling on the provider holds, an     *)
(* action is the latest draft, and a refusal leaves no action behind.      *)
(***************************************************************************)
EXTENDS AssistantTurn, SumLemmas

Budget == MAX_MODEL_ROUNDS_PER_TURN
ProviderKey == <<"provider_operation", Global>>
Refused == ProviderFailures \cup {"demo_capacity_reached"}
Nothing == "Nothing was submitted."
Early == {"idle", "admission", "provider"}
Ready == {"prepare", "insert"}

(* What one request keeps, whatever the others do: it asks for no more     *)
(* rounds than one turn may, and for none before it has reserved them ...  *)
RoundsAreBounded(t) ==
  /\ t.rounds \in Nat /\ t.rounds <= Budget
  /\ t.reserved_on \in {0} \cup Days
  /\ t.phase \in Early => t.rounds = 0 /\ t.reserved_on = 0

(* ... it holds one draft at most, the latest, of the enforced day if it   *)
(* was compared with it ...                                                *)
Unresolved == Early \cup {"start", "resolve"}
DraftIsLatest(t) ==
  /\ t.leave # NoDraft => t.leave[1] = "leave" /\ t.leave = t.latest
  /\ t.it # NoDraft => t.it = Ticket /\ t.it = t.latest /\ t.leave = NoDraft
  /\ t.weekday => \A date \in Days \ {t.enforced} : t.leave # Leave(date, "exact")
  /\ t.phase \in Unresolved => t.leave = NoDraft /\ t.it = NoDraft

(* ... and on the way to an action it has not been refused.                *)
ActionIsDraft(t) ==
  /\ t.action # NoDraft =>
       /\ t.phase = "done"
       /\ t.action = IF t.it # NoDraft THEN t.it ELSE t.leave
       /\ t.status \notin Refused /\ t.answer # Nothing
  /\ t.phase # "done" => t.status # "demo_capacity_reached"
  /\ t.phase \in Ready => t.status \notin Refused
  /\ t.answer = Nothing => t.phase = "done" \/ t.late
  /\ t.phase = "insert" => t.answer # Nothing

Phases == {"idle", "admission", "provider", "start", "resolve", "ask", "reply",
           "calls", "finish", "prepare", "insert", "done"}
Statuses == {None, "completed", "unable_to_complete", "tool_budget_exhausted"} \cup Refused
Answers == {None, "refer", "model", Nothing}
Drafts == {NoDraft, Ticket} \cup {Leave(date, name) : date \in Days, name \in Spellings}
Turn == [phase : Phases, standalone : BOOLEAN, initiation : BOOLEAN, weekday : BOOLEAN,
         late : BOOLEAN, reserved_on : Nat, enforced : Nat,
         rounds : Nat, attempted : Nat, asked : Nat, answered : Nat,
         leave : Drafts, it : Drafts, latest : Drafts,
         status : Statuses, answer : Answers, action : Drafts]

TurnTypeOK ==
  /\ utc_day \in Days /\ local_day \in Days
  /\ bucket \in [Days -> [Keys -> Nat]]
  /\ turn \in [Requests -> Turn]

(* The provider's bucket of a day covers the full budget of every turn     *)
(* that reserved on it.                                                    *)
BudgetsAreReserved ==
  \A d \in Days :
    /\ IsFiniteSet(ReservedOn(d))
    /\ Budget * Cardinality(ReservedOn(d)) <= bucket[d][ProviderKey]

LimitsHold == \A d \in Days : \A k \in Keys : bucket[d][k] <= Limit[k[1]]

TurnInvariant ==
  /\ TurnTypeOK /\ BudgetsAreReserved /\ LimitsHold
  /\ \A r \in Requests :
       /\ RoundsAreBounded(turn[r])
       /\ DraftIsLatest(turn[r])
       /\ ActionIsDraft(turn[r])

(* What TurnInvariant says of one request.                                 *)
Sound(t) == t \in Turn /\ RoundsAreBounded(t) /\ DraftIsLatest(t) /\ ActionIsDraft(t)

(* The invariant request by request: a step changes one request and the    *)
(* buckets.                                                                *)
LEMMA TurnsAreSound ==
  TurnInvariant <=> /\ utc_day \in Days /\ local_day \in Days
                    /\ bucket \in [Days -> [Keys -> Nat]]
                    /\ BudgetsAreReserved /\ LimitsHold
                    /\ turn \in [Requests -> Turn]
                    /\ \A r \in Requests : Sound(turn[r])
BY DEF TurnInvariant, TurnTypeOK, Sound

(* The assumptions on the constants, in the form the proofs use.           *)
LEMMA Bounds ==
  /\ Budget \in Nat /\ Budget # 0
  /\ MaxDay \in Nat /\ MaxDay # 0
  /\ VisitorOf \in [Requests -> Visitors]
<1>1. Budget \in Nat \ {0} /\ MaxDay \in Nat \ {0} /\ VisitorOf \in [Requests -> Visitors]
  BY BudgetAssumption, Zenon DEF Budget
<1> QED
  BY <1>1

(* Two metrics never share a bucket.                                       *)
LEMMA KeysOfMetrics ==
  ASSUME NEW m \in Metrics, NEW r \in Requests
  PROVE  Key(m, r) \in Keys /\ Key(m, r)[1] = m
BY Bounds DEF Key, Keys

(* The provider ceiling is one bucket for every request.                   *)
LEMMA ProviderKeyIsKey ==
  /\ ProviderKey \in Keys
  /\ \A r \in Requests : Key("provider_operation", r) = ProviderKey
BY DEF ProviderKey, Keys, Metrics, Key

-----------------------------------------------------------------------------
(* Nobody has reserved, drafted or acted.                                  *)
LEMMA TurnInit == Init => TurnInvariant
<1> SUFFICES ASSUME Init PROVE TurnInvariant
  OBVIOUS
<1>1. Fresh \in Turn
  <2>1. NoDraft \in Drafts /\ None \in Statuses /\ None \in Answers
    BY DEF Drafts, Statuses, Answers
  <2> QED
    BY <2>1 DEF Fresh, Turn, Phases
<1>2. RoundsAreBounded(Fresh)
  BY Bounds DEF Fresh, RoundsAreBounded
<1>3. DraftIsLatest(Fresh)
  BY DEF Fresh, DraftIsLatest
<1>4. ActionIsDraft(Fresh)
  BY DEF Fresh, ActionIsDraft, None, Nothing, Ready
<1>5. \A r \in Requests : Sound(turn[r])
  BY <1>1, <1>2, <1>3, <1>4 DEF Init, Sound
<1>6. 1 \in Days /\ 0 \notin Days
  BY Bounds DEF Days
<1>7. BudgetsAreReserved
  <2> SUFFICES ASSUME NEW d \in Days
               PROVE  /\ IsFiniteSet(ReservedOn(d))
                      /\ Budget * Cardinality(ReservedOn(d)) <= bucket[d][ProviderKey]
    BY DEF BudgetsAreReserved
  <2>1. ReservedOn(d) = {}
    BY <1>6 DEF ReservedOn, Init, Fresh
  <2>2. IsFiniteSet(ReservedOn(d)) /\ Cardinality(ReservedOn(d)) = 0
    BY <2>1, FS_EmptySet
  <2>3. bucket[d][ProviderKey] = 0
    BY ProviderKeyIsKey DEF Init
  <2> QED
    BY <2>2, <2>3, Bounds
<1>8. LimitsHold
  BY LimitAssumption DEF LimitsHold, Init, Keys
<1>9. turn \in [Requests -> Turn] /\ bucket \in [Days -> [Keys -> Nat]]
      /\ utc_day \in Days /\ local_day \in Days
  BY <1>1, <1>6 DEF Init
<1> QED
  BY <1>5, <1>7, <1>8, <1>9, TurnsAreSound

(* A request moves on by itself.                                           *)
LEMMA TurnMoves ==
  ASSUME TurnInvariant, NEW r \in Requests, NEW new, Sound(new), Alone(r, new),
         new.reserved_on = turn[r].reserved_on
  PROVE  TurnInvariant'
<1>1. /\ turn' = [turn EXCEPT ![r] = new]
      /\ UNCHANGED <<utc_day, local_day, bucket>>
  BY DEF Alone, Set
<1>2. turn \in [Requests -> Turn] /\ \A q \in Requests : Sound(turn[q])
  BY TurnsAreSound
<1>3. turn' \in [Requests -> Turn] /\ \A q \in Requests : Sound(turn'[q])
  BY <1>1, <1>2 DEF Sound
<1>4. \A d \in Days : ReservedOn(d)' = ReservedOn(d)
  BY <1>1, <1>2 DEF ReservedOn
<1>5. BudgetsAreReserved'
  BY <1>1, <1>4 DEF BudgetsAreReserved, TurnInvariant
<1>6. LimitsHold'
  BY <1>1 DEF LimitsHold, TurnInvariant
<1>7. Days' = Days
  OBVIOUS
<1>8. utc_day' \in Days /\ local_day' \in Days /\ bucket' \in [Days -> [Keys -> Nat]]
  BY <1>1, TurnsAreSound
<1> QED
  BY <1>3, <1>5, <1>6, <1>8 DEF TurnInvariant, TurnTypeOK, Sound

(* A request takes an allowance, or is refused: a turn's rounds are        *)
(* reserved in one piece, on the day its first model call may be made.     *)
LEMMA ConsumeKeeps ==
  ASSUME TurnInvariant, NEW r \in Requests, NEW metrics \in SUBSET Metrics,
         NEW amount \in Nat, NEW granted,
         Consume(r, metrics, amount, granted), Sound(granted), turn[r].phase # "done",
         \/ granted.reserved_on = turn[r].reserved_on
         \/ /\ turn[r].reserved_on = 0 /\ granted.reserved_on = utc_day
            /\ metrics = {"provider_operation"} /\ amount = Budget
  PROVE  TurnInvariant'
<1> DEFINE t == turn[r]
           refused == [t EXCEPT !.phase = "done", !.status = "demo_capacity_reached"]
<1>1. Sound(t) /\ turn \in [Requests -> Turn] /\ \A q \in Requests : Sound(turn[q])
  BY TurnsAreSound
<1>2. CASE ~Reserves(r, metrics, amount)
  <2>1. Alone(r, refused)
    BY <1>2 DEF Consume
  <2>2. refused \in Turn /\ refused.reserved_on = t.reserved_on
    BY <1>1 DEF Sound, Turn, Phases, Statuses, Refused
  <2>3. Sound(refused)
    BY <1>1, <2>2 DEF Sound, Turn, RoundsAreBounded, DraftIsLatest, ActionIsDraft,
                      Early, Unresolved, Ready, Refused, ProviderFailures
  <2> QED
    BY <2>1, <2>2, <2>3, TurnMoves
<1>3. CASE Reserves(r, metrics, amount)
  <2>1. /\ turn' = [turn EXCEPT ![r] = granted]
        /\ UNCHANGED <<utc_day, local_day>>
        /\ Reserve(r, metrics, amount)
    BY <1>3 DEF Consume, Set
  <2>2. bucket \in [Days -> [Keys -> Nat]] /\ utc_day \in Days /\ local_day \in Days
    BY TurnsAreSound
  <2> DEFINE touched(k) == \E m \in metrics : k = Key(m, r)
  <2>3. bucket' = [bucket EXCEPT ![utc_day] =
                     [k \in Keys |-> IF touched(k) THEN bucket[utc_day][k] + amount
                                     ELSE bucket[utc_day][k]]]
    BY <2>1 DEF Reserve
  <2>4. \A k \in Keys : bucket'[utc_day][k] = IF touched(k) THEN bucket[utc_day][k] + amount
                                              ELSE bucket[utc_day][k]
    BY <2>2, <2>3
  <2>5. \A d \in Days \ {utc_day} : bucket'[d] = bucket[d]
    BY <2>2, <2>3
  <2>6. bucket' \in [Days -> [Keys -> Nat]]
    BY <2>2, <2>3
  <2>7. turn' \in [Requests -> Turn] /\ \A q \in Requests : Sound(turn'[q])
    BY <1>1, <2>1 DEF Sound
  <2>8. LimitsHold'
    <3> SUFFICES ASSUME NEW d \in Days, NEW k \in Keys PROVE bucket'[d][k] <= Limit[k[1]]
      BY DEF LimitsHold
    <3>1. bucket[d][k] <= Limit[k[1]]
      BY DEF TurnInvariant, LimitsHold
    <3>2. CASE d = utc_day /\ touched(k)
      <4>1. PICK m \in metrics : k = Key(m, r)
        BY <3>2
      <4>2. bucket[utc_day][k] + amount <= Limit[m] /\ k[1] = m
        BY <1>3, <4>1, KeysOfMetrics DEF Reserves
      <4> QED
        BY <2>4, <3>2, <4>2
    <3>3. CASE ~(d = utc_day /\ touched(k))
      BY <2>4, <2>5, <3>1, <3>3
    <3> QED
      BY <3>2, <3>3
  <2>9. BudgetsAreReserved'
    <3> SUFFICES ASSUME NEW d \in Days
                 PROVE  /\ IsFiniteSet(ReservedOn(d)')
                        /\ Budget * Cardinality(ReservedOn(d)') <= bucket'[d][ProviderKey]
      BY DEF BudgetsAreReserved
    <3>1. IsFiniteSet(ReservedOn(d)) /\ Budget * Cardinality(ReservedOn(d)) <= bucket[d][ProviderKey]
      BY DEF TurnInvariant, BudgetsAreReserved
    <3>2. bucket[d][ProviderKey] \in Nat /\ bucket'[d][ProviderKey] \in Nat
      BY <2>2, <2>6, ProviderKeyIsKey
    <3>3. Cardinality(ReservedOn(d)) \in Nat /\ Budget \in Nat
      BY <3>1, FS_CardinalityType, Bounds
    <3>4. bucket[d][ProviderKey] <= bucket'[d][ProviderKey]
      BY <2>4, <2>5, <3>2, ProviderKeyIsKey
    <3>5. CASE granted.reserved_on = t.reserved_on
      <4>1. ReservedOn(d)' = ReservedOn(d)
        BY <1>1, <2>1, <3>5 DEF ReservedOn
      <4>2. Budget * Cardinality(ReservedOn(d)) \in Nat
        BY <3>3
      <4> HIDE DEF t, refused, touched
      <4> QED
        BY <3>1, <3>2, <3>4, <4>1, <4>2
    <3>6. CASE /\ t.reserved_on = 0 /\ granted.reserved_on = utc_day
               /\ metrics = {"provider_operation"} /\ amount = Budget
      <4>1. d # utc_day => ReservedOn(d)' = ReservedOn(d)
        BY <1>1, <2>1, <3>6 DEF ReservedOn, Days
      <4>2. CASE d # utc_day
        BY <2>5, <3>1, <4>1, <4>2
      <4>3. CASE d = utc_day
        <5>1. r \notin ReservedOn(d) /\ ReservedOn(d)' = ReservedOn(d) \cup {r}
          BY <1>1, <2>1, <2>2, <3>6, <4>3 DEF ReservedOn, Days
        <5>2. /\ IsFiniteSet(ReservedOn(d) \cup {r})
              /\ Cardinality(ReservedOn(d) \cup {r}) = Cardinality(ReservedOn(d)) + 1
          BY <3>1, <5>1, FS_AddElement
        <5>3. bucket'[d][ProviderKey] = bucket[d][ProviderKey] + Budget
          <6>1. touched(ProviderKey)
            BY <3>6, ProviderKeyIsKey
          <6> QED
            BY <2>4, <3>6, <4>3, <6>1, ProviderKeyIsKey
        <5>4. \A n \in Nat : Budget * (n + 1) = Budget * n + Budget /\ Budget * n \in Nat
          BY <3>3
        <5>5. Budget * (Cardinality(ReservedOn(d)) + 1) = Budget * Cardinality(ReservedOn(d)) + Budget
              /\ Budget * Cardinality(ReservedOn(d)) \in Nat
          BY <3>3, <5>4
        <5>6. Budget * (Cardinality(ReservedOn(d)) + 1) <= bucket'[d][ProviderKey]
          BY <3>1, <3>2, <3>3, <5>3, <5>5
        <5> QED
          BY <5>1, <5>2, <5>6
      <4> QED
        BY <4>2, <4>3
    <3> QED
      BY <3>5, <3>6
  <2> QED
    BY <2>1, <2>2, <2>6, <2>7, <2>8, <2>9 DEF TurnInvariant, TurnTypeOK, Sound
<1> QED
  BY <1>2, <1>3

LEMMA NothingIsNoLeave == \A date, name : NoDraft # Leave(date, name)
BY DEF NoDraft, Leave, None

-----------------------------------------------------------------------------
(* The steps of a request by itself, one after the other.                  *)
LEMMA RequestIsSound ==
  ASSUME TurnInvariant, NEW r \in Requests
  PROVE  Sound(turn[r]) /\ turn[r] \in Turn
BY TurnsAreSound DEF Sound

(* Ending the loop with an outcome that is no refusal for capacity.        *)
LEMMA Ending ==
  ASSUME TurnInvariant, NEW r \in Requests, turn[r].phase \in {"start", "ask", "reply", "calls"},
         NEW s \in Statuses \ {"demo_capacity_reached"}
  PROVE  /\ Sound(Ends(r, s))
         /\ Sound([Ends(r, s) EXCEPT !.answer = "model"])
         /\ turn[r].late => Sound([Ends(r, s) EXCEPT !.answer = Nothing])
         /\ Ends(r, s).reserved_on = turn[r].reserved_on
<1> DEFINE t == turn[r]
<1>1. Sound(t) /\ t \in Turn
  BY RequestIsSound
<1> USE DEF Ends
<1>2. /\ Ends(r, s) \in Turn /\ [Ends(r, s) EXCEPT !.answer = "model"] \in Turn
      /\ [Ends(r, s) EXCEPT !.answer = Nothing] \in Turn
  BY <1>1 DEF Turn, Phases, Answers
<1>3. t.action = NoDraft /\ (t.answer = Nothing => t.late)
  BY <1>1 DEF Sound, ActionIsDraft
<1>4. Sound(Ends(r, s))
  BY <1>1, <1>2, <1>3 DEF Sound, RoundsAreBounded, DraftIsLatest, ActionIsDraft, Turn,
                          Early, Unresolved, Ready
<1>5. Sound([Ends(r, s) EXCEPT !.answer = "model"])
  BY <1>1, <1>2, <1>3 DEF Sound, RoundsAreBounded, DraftIsLatest, ActionIsDraft, Turn,
                          Early, Unresolved, Ready, Nothing
<1>6. t.late => Sound([Ends(r, s) EXCEPT !.answer = Nothing])
  BY <1>1, <1>2, <1>3 DEF Sound, RoundsAreBounded, DraftIsLatest, ActionIsDraft, Turn,
                          Early, Unresolved, Ready
<1> QED
  BY <1>1, <1>4, <1>5, <1>6 DEF Turn

LEMMA SubmitKeeps ==
  ASSUME TurnInvariant, NEW r \in Requests, Submit(r)
  PROVE  TurnInvariant'
<1> DEFINE t == turn[r]
<1>1. PICK m \in Messages : Alone(r, [t EXCEPT !.phase = "admission", !.standalone = "yes" \in m,
                      !.initiation = "initiation" \in m, !.weekday = "next weekday" \in m])
  BY DEF Submit
<1> DEFINE yes == "yes" \in m
           initiation == "initiation" \in m
           weekday == "next weekday" \in m
           c == [t EXCEPT !.phase = "admission", !.standalone = yes,
                          !.initiation = initiation, !.weekday = weekday]
<1>2. yes \in BOOLEAN /\ initiation \in BOOLEAN /\ weekday \in BOOLEAN
  OBVIOUS
<1>3. Alone(r, c)
  BY <1>1
<1> HIDE DEF yes, initiation, weekday
<1>4. Sound(t) /\ t \in Turn /\ t.phase = "idle"
  BY RequestIsSound DEF Submit, At
<1>5. c \in Turn
  BY <1>2, <1>4 DEF Turn, Phases
<1>6. Sound(c) /\ c.reserved_on = t.reserved_on
  BY <1>4, <1>5, NothingIsNoLeave
     DEF Sound, RoundsAreBounded, DraftIsLatest, ActionIsDraft, Turn, Early, Unresolved, Ready
<1> QED
  BY <1>3, <1>6, TurnMoves

LEMMA DeadlineKeeps ==
  ASSUME TurnInvariant, NEW r \in Requests, Deadline(r)
  PROVE  TurnInvariant'
<1> DEFINE t == turn[r]
           c == [t EXCEPT !.late = TRUE]
<1>1. Alone(r, c)
  BY DEF Deadline
<1>2. Sound(t) /\ t \in Turn
  BY RequestIsSound
<1>3. c \in Turn
  BY <1>2 DEF Turn
<1>4. Sound(c) /\ c.reserved_on = t.reserved_on
  BY <1>2, <1>3 DEF Sound, RoundsAreBounded, DraftIsLatest, ActionIsDraft, Turn
<1> QED
  BY <1>1, <1>4, TurnMoves

LEMMA AdmissionKeeps ==
  ASSUME TurnInvariant, NEW r \in Requests,
         ConsumeAssistant(r) \/ ConsumeProvider(r)
  PROVE  TurnInvariant'
<1> DEFINE t == turn[r]
<1>1. Sound(t) /\ t \in Turn
  BY RequestIsSound
<1>2. CASE ConsumeAssistant(r)
  <2> DEFINE refer == [t EXCEPT !.phase = "done", !.status = "completed", !.answer = "refer"]
             go == [t EXCEPT !.phase = "provider"]
             c == IF t.standalone THEN refer ELSE go
  <2>1. refer \in Turn /\ go \in Turn
    BY <1>1 DEF Turn, Phases, Statuses, Answers
  <2>2. t.phase = "admission" /\ Consume(r, {"visitor_assistant", "assistant"}, 1, c)
    BY <1>2 DEF ConsumeAssistant, At
  <2>3. Sound(refer) /\ refer.reserved_on = t.reserved_on
    BY <1>1, <2>1, <2>2 DEF Sound, RoundsAreBounded, DraftIsLatest, ActionIsDraft, Turn,
                            Early, Unresolved, Ready, Nothing
  <2>4. Sound(go) /\ go.reserved_on = t.reserved_on
    BY <1>1, <2>1, <2>2 DEF Sound, RoundsAreBounded, DraftIsLatest, ActionIsDraft, Turn,
                            Early, Unresolved, Ready, Nothing
  <2>5. Sound(c) /\ c.reserved_on = t.reserved_on
    BY <2>3, <2>4
  <2>6. {"visitor_assistant", "assistant"} \in SUBSET Metrics
    BY DEF Metrics
  <2>7. 1 \in Nat
    OBVIOUS
  <2> HIDE DEF c, refer, go
  <2> QED
    BY <2>2, <2>5, <2>6, <2>7, ConsumeKeeps
<1>3. CASE ConsumeProvider(r)
  <2> DEFINE c == [t EXCEPT !.phase = "start", !.reserved_on = utc_day]
  <2>1. t.phase = "provider" /\ Consume(r, {"provider_operation"}, Budget, c)
    BY <1>3 DEF ConsumeProvider, At, Budget
  <2>2. utc_day \in Days /\ utc_day \in Nat
    BY TurnsAreSound DEF Days
  <2>3. c \in Turn
    BY <1>1, <2>2 DEF Turn, Phases
  <2>4. Sound(c) /\ c.reserved_on = utc_day /\ t.reserved_on = 0
    BY <1>1, <2>1, <2>2, <2>3 DEF Sound, RoundsAreBounded, DraftIsLatest, ActionIsDraft, Turn,
                                  Early, Unresolved, Ready
  <2>5. {"provider_operation"} \in SUBSET Metrics
    BY DEF Metrics
  <2>6. Budget \in Nat
    BY Bounds
  <2> HIDE DEF c
  <2> QED
    BY <2>1, <2>4, <2>5, <2>6, ConsumeKeeps
<1> QED
  BY <1>2, <1>3

(* A step of the loop that ends it.                                        *)
LEMMA EndsKeeps ==
  ASSUME TurnInvariant, NEW r \in Requests, turn[r].phase \in {"start", "ask", "reply", "calls"},
         NEW s \in Statuses \ {"demo_capacity_reached"},
         \/ Alone(r, Ends(r, s))
         \/ Alone(r, [Ends(r, s) EXCEPT !.answer = "model"])
         \/ turn[r].late /\ Alone(r, [Ends(r, s) EXCEPT !.answer = Nothing])
  PROVE  TurnInvariant'
<1>1. turn[r] \in Turn
  BY RequestIsSound
<1>2. /\ [Ends(r, s) EXCEPT !.answer = "model"].reserved_on = turn[r].reserved_on
      /\ [Ends(r, s) EXCEPT !.answer = Nothing].reserved_on = turn[r].reserved_on
  BY <1>1 DEF Ends, Turn
<1>3. CASE Alone(r, Ends(r, s))
  BY <1>3, Ending, TurnMoves
<1>4. CASE Alone(r, [Ends(r, s) EXCEPT !.answer = "model"])
  BY <1>2, <1>4, Ending, TurnMoves
<1>5. CASE turn[r].late /\ Alone(r, [Ends(r, s) EXCEPT !.answer = Nothing])
  BY <1>2, <1>5, Ending, TurnMoves
<1> QED
  BY <1>3, <1>4, <1>5

(* The statuses the loop may end with are none that quota refuses with,    *)
(* and the answer at the deadline is the completed one that nothing was    *)
(* submitted.                                                              *)
LEMMA LoopEnds ==
  /\ ProviderFailures \cup {"unable_to_complete", "completed", "tool_budget_exhausted"}
       \subseteq Statuses \ {"demo_capacity_reached"}
  /\ \A r : DeadlineAnswer(r) = [Ends(r, "completed") EXCEPT !.answer = Nothing]
BY DEF ProviderFailures, Statuses, Refused, DeadlineAnswer, Nothing

LEMMA SessionKeeps ==
  ASSUME TurnInvariant, NEW r \in Requests,
         StartSession(r) \/ ResolveWeekdays(r) \/ AskModel(r)
  PROVE  TurnInvariant'
<1> DEFINE t == turn[r]
<1>1. Sound(t) /\ t \in Turn
  BY RequestIsSound
<1>2. CASE StartSession(r)
  <2> DEFINE c == [t EXCEPT !.phase = "resolve"]
  <2>1. t.phase = "start"
    BY <1>2 DEF StartSession, At
  <2>2. CASE Alone(r, c)
    <3>1. c \in Turn
      BY <1>1 DEF Turn, Phases
    <3>2. Sound(c) /\ c.reserved_on = t.reserved_on
      BY <1>1, <2>1, <3>1 DEF Sound, RoundsAreBounded, DraftIsLatest, ActionIsDraft, Turn,
                            Early, Unresolved, Ready
    <3> QED
      BY <2>2, <3>2, TurnMoves
  <2>3. CASE \E s \in ProviderFailures \cup {"unable_to_complete"} : Alone(r, Ends(r, s))
    BY <2>1, <2>3, LoopEnds, EndsKeeps
  <2> QED
    BY <1>2, <2>2, <2>3 DEF StartSession
<1>3. CASE ResolveWeekdays(r)
  <2> DEFINE c == [t EXCEPT !.phase = "ask", !.enforced = local_day]
  <2>1. t.phase = "resolve" /\ Alone(r, c)
    BY <1>3 DEF ResolveWeekdays, At
  <2>2. local_day \in Nat
    BY TurnsAreSound DEF Days
  <2>3. c \in Turn
    BY <1>1, <2>2 DEF Turn, Phases
  <2>4. Sound(c) /\ c.reserved_on = t.reserved_on
    BY <1>1, <2>1, <2>3, NothingIsNoLeave
       DEF Sound, RoundsAreBounded, DraftIsLatest, ActionIsDraft, Turn, Early, Unresolved, Ready
  <2> QED
    BY <2>1, <2>4, TurnMoves
<1>4. CASE AskModel(r)
  <2> DEFINE c == [t EXCEPT !.phase = "reply", !.rounds = @ + 1]
  <2>1. t.phase = "ask"
    BY <1>4 DEF AskModel, At
  <2>2. CASE t.rounds >= Budget
    BY <1>4, <2>1, <2>2, LoopEnds, EndsKeeps DEF AskModel, Budget
  <2>3. CASE ~(t.rounds >= Budget) /\ t.late
    BY <1>4, <2>1, <2>3, LoopEnds, EndsKeeps DEF AskModel, Budget
  <2>4. CASE ~(t.rounds >= Budget) /\ ~t.late
    <3>1. Alone(r, c)
      BY <1>4, <2>4 DEF AskModel, Budget
    <3>2. t.rounds + 1 <= Budget /\ t.rounds + 1 \in Nat
      BY <1>1, <2>4, Bounds DEF Sound, RoundsAreBounded
    <3>3. c \in Turn
      BY <1>1, <3>2 DEF Turn, Phases
    <3>4. Sound(c) /\ c.reserved_on = t.reserved_on
      BY <1>1, <2>1, <3>2, <3>3 DEF Sound, RoundsAreBounded, DraftIsLatest, ActionIsDraft, Turn,
                            Early, Unresolved, Ready
    <3> QED
      BY <3>1, <3>4, TurnMoves
  <2> QED
    BY <2>2, <2>3, <2>4
<1> QED
  BY <1>2, <1>3, <1>4

LEMMA ReplyKeeps ==
  ASSUME TurnInvariant, NEW r \in Requests,
         EmptyReply(r) \/ FinalText(r) \/ RequestCalls(r) \/ RoundFails(r) \/ BudgetExhausted(r)
  PROVE  TurnInvariant'
<1> DEFINE t == turn[r]
<1>1. Sound(t) /\ t \in Turn
  BY RequestIsSound
<1>2. CASE EmptyReply(r)
  <2> DEFINE c == [t EXCEPT !.phase = "ask"]
  <2>1. t.phase = "reply" /\ Alone(r, c)
    BY <1>2 DEF EmptyReply, At
  <2>2. c \in Turn
    BY <1>1 DEF Turn, Phases
  <2>3. Sound(c) /\ c.reserved_on = t.reserved_on
    BY <1>1, <2>1, <2>2 DEF Sound, RoundsAreBounded, DraftIsLatest, ActionIsDraft, Turn,
                            Early, Unresolved, Ready
  <2> QED
    BY <2>1, <2>3, TurnMoves
<1>3. CASE FinalText(r)
  BY <1>3, LoopEnds, EndsKeeps DEF FinalText, At
<1>4. CASE RoundFails(r)
  BY <1>4, LoopEnds, EndsKeeps DEF RoundFails, At
<1>5. CASE BudgetExhausted(r)
  BY <1>5, LoopEnds, EndsKeeps DEF BudgetExhausted, At
<1>6. CASE RequestCalls(r)
  <2>1. t.phase = "reply"
    BY <1>6 DEF RequestCalls, At
  <2>2. CASE t.late
    BY <1>6, <2>1, <2>2, LoopEnds, EndsKeeps DEF RequestCalls
  <2>3. CASE ~t.late
    <3>1. PICK n \in 1 .. MaxCalls : Alone(r, [t EXCEPT !.phase = "calls", !.asked = n])
      BY <1>6, <2>3 DEF RequestCalls
    <3> DEFINE c == [t EXCEPT !.phase = "calls", !.asked = n]
    <3>2. n \in Nat
      OBVIOUS
    <3>3. c \in Turn
      BY <1>1, <3>2 DEF Turn, Phases
    <3>4. Sound(c) /\ c.reserved_on = t.reserved_on
      BY <1>1, <2>1, <3>3 DEF Sound, RoundsAreBounded, DraftIsLatest, ActionIsDraft, Turn,
                            Early, Unresolved, Ready
    <3> QED
      BY <3>1, <3>4, TurnMoves
  <2> QED
    BY <2>2, <2>3
<1> QED
  BY <1>2, <1>3, <1>4, <1>5, <1>6

LEMMA CountersFit ==
  ASSUME NEW t \in Turn, NEW asked \in Nat, NEW answered \in Nat, NEW phase \in Phases
  PROVE  [t EXCEPT !.attempted = @ + 1, !.asked = asked, !.answered = answered,
                   !.phase = phase] \in Turn
<1>1. t.attempted + 1 \in Nat
  BY DEF Turn
<1>2. \A n \in Nat : [t EXCEPT !.attempted = n, !.asked = asked, !.answered = answered,
                               !.phase = phase] \in Turn
  BY DEF Turn
<1> QED
  BY <1>1, <1>2, Zenon

(* A call is answered, with or without a draft that replaces the last one. *)
LEMMA AnswersKeep ==
  ASSUME TurnInvariant, NEW r \in Requests, turn[r].phase = "calls",
         NEW leave \in Drafts, NEW it \in Drafts, NEW latest \in Drafts,
         NEW new, new = [turn[r] EXCEPT !.leave = leave, !.it = it, !.latest = latest],
         DraftIsLatest(new), Answered(r, new)
  PROVE  TurnInvariant'
<1> DEFINE t == turn[r]
           more == t.answered + 1 < t.asked
           asked == IF more THEN new.asked ELSE 0
           answered == IF more THEN new.answered + 1 ELSE 0
           phase == IF more THEN "calls" ELSE "ask"
           c == [new EXCEPT !.attempted = @ + 1, !.asked = asked, !.answered = answered,
                            !.phase = phase]
<1>1. Sound(t) /\ t \in Turn
  BY RequestIsSound
<1>2. new \in Turn /\ Alone(r, c)
  BY <1>1 DEF Answered, Turn
<1>3. c \in Turn
  <2>1. new.attempted \in Nat /\ new.asked \in Nat /\ new.answered \in Nat
    BY <1>2 DEF Turn
  <2>2. asked \in Nat /\ answered \in Nat /\ phase \in Phases /\ new \in Turn
    BY <1>2, <2>1 DEF Phases
  <2> HIDE DEF asked, answered, phase
  <2> QED
    BY <2>1, <2>2, CountersFit
<1>4. phase \in {"ask", "calls"} /\ c.phase = phase
  BY <1>2 DEF Turn
<1>5. /\ c.rounds = t.rounds /\ c.reserved_on = t.reserved_on
      /\ c.action = t.action /\ c.status = t.status /\ c.answer = t.answer /\ c.late = t.late
  BY <1>1 DEF Turn
<1>6. /\ c.leave = new.leave /\ c.it = new.it /\ c.latest = new.latest
      /\ c.weekday = new.weekday /\ c.enforced = new.enforced
  BY <1>2 DEF Turn
<1> HIDE DEF c, phase
<1>7. RoundsAreBounded(c)
  BY <1>1, <1>4, <1>5 DEF Sound, RoundsAreBounded, Early
<1>8. DraftIsLatest(c)
  BY <1>4, <1>6 DEF DraftIsLatest, Unresolved, Early
<1>9. ActionIsDraft(c)
  BY <1>1, <1>4, <1>5 DEF Sound, ActionIsDraft, Ready
<1> QED
  BY <1>2, <1>3, <1>5, <1>7, <1>8, <1>9, TurnMoves DEF Sound

LEMMA CallsKeep ==
  ASSUME TurnInvariant, NEW r \in Requests,
         \/ PrepareTicket(r) \/ OtherCall(r)
         \/ \E date \in Days, name \in Spellings : PrepareLeave(r, date, name)
  PROVE  TurnInvariant'
<1> DEFINE t == turn[r]
<1>1. Sound(t) /\ t \in Turn /\ t.phase = "calls"
  BY RequestIsSound DEF PrepareTicket, OtherCall, PrepareLeave, Dispatchable, At
<1>2. /\ NoDraft \in Drafts /\ Ticket \in Drafts
      /\ \A date \in Days, name \in Spellings : Leave(date, name) \in Drafts
  BY DEF Drafts
<1>3. /\ Ticket # NoDraft
      /\ \A date, name : Leave(date, name) # NoDraft /\ Leave(date, name)[1] = "leave"
  BY DEF Ticket, NoDraft, Leave, None
<1>4. CASE OtherCall(r)
  <2> DEFINE new == [t EXCEPT !.leave = t.leave, !.it = t.it, !.latest = t.latest]
  <2>1. new = t /\ t.leave \in Drafts /\ t.it \in Drafts /\ t.latest \in Drafts
    BY <1>1 DEF Turn
  <2>2. DraftIsLatest(new) /\ Answered(r, new)
    BY <1>1, <1>4, <2>1 DEF Sound, OtherCall
  <2> QED
    BY <1>1, <2>1, <2>2, AnswersKeep
<1>5. CASE PrepareTicket(r)
  <2> DEFINE new == [t EXCEPT !.leave = NoDraft, !.it = Ticket, !.latest = Ticket]
  <2>1. new = [t EXCEPT !.it = Ticket, !.leave = NoDraft, !.latest = Ticket]
    BY <1>1 DEF Turn
  <2>2. Answered(r, new)
    BY <1>5, <2>1 DEF PrepareTicket
  <2>3. DraftIsLatest(new)
    BY <1>1, <1>3 DEF Turn, DraftIsLatest, Unresolved, Early
  <2> QED
    BY <1>1, <1>2, <2>2, <2>3, AnswersKeep
<1>6. CASE \E date \in Days, name \in Spellings : PrepareLeave(r, date, name)
  <2>1. PICK date \in Days, name \in Spellings : PrepareLeave(r, date, name)
    BY <1>6
  <2> DEFINE new == [t EXCEPT !.leave = Leave(date, name), !.it = NoDraft,
                              !.latest = Leave(date, name)]
  <2>2. Answered(r, new) /\ (t.weekday /\ name = "exact" => date = t.enforced)
    BY <2>1 DEF PrepareLeave, Compatible
  <2>4. \A day \in Days \ {t.enforced} : t.weekday => Leave(date, name) # Leave(day, "exact")
    BY <2>2 DEF Leave
  <2>3. DraftIsLatest(new)
    BY <1>1, <1>3, <2>2, <2>4 DEF Turn, DraftIsLatest, Unresolved, Early
  <2> QED
    BY <1>1, <1>2, <2>2, <2>3, AnswersKeep
<1> QED
  BY <1>4, <1>5, <1>6

(* From the draft to the action: whoever gets there was not refused.       *)
LEMMA PersistKeeps ==
  ASSUME TurnInvariant, NEW r \in Requests,
         MapResult(r) \/ ConsumePrepare(r) \/ CreateAction(r)
  PROVE  TurnInvariant'
<1> DEFINE t == turn[r]
           over == [t EXCEPT !.phase = "done"]
<1>1. Sound(t) /\ t \in Turn
  BY RequestIsSound
<1>2. over \in Turn
  BY <1>1 DEF Turn, Phases
<1>3. t.phase \in {"finish", "prepare", "insert"} => Sound(over) /\ over.reserved_on = t.reserved_on
  BY <1>1, <1>2 DEF Sound, RoundsAreBounded, DraftIsLatest, ActionIsDraft, Turn,
                            Early, Unresolved, Ready
<1>4. CASE MapResult(r)
  <2> DEFINE c == [t EXCEPT !.phase = "prepare"]
  <2>1. t.phase = "finish"
    BY <1>4 DEF MapResult, At
  <2>2. CASE Alone(r, over)
    BY <1>3, <2>1, <2>2, TurnMoves
  <2>3. CASE Alone(r, c) /\ t.status \notin ProviderFailures
    <3>1. c \in Turn
      BY <1>1 DEF Turn, Phases
    <3>2. t.status \notin Refused
      BY <1>1, <2>1, <2>3 DEF Sound, ActionIsDraft, Refused
    <3>3. Sound(c) /\ c.reserved_on = t.reserved_on
      BY <1>1, <2>1, <3>1, <3>2 DEF Sound, RoundsAreBounded, DraftIsLatest, ActionIsDraft, Turn,
                            Early, Unresolved, Ready
    <3> QED
      BY <2>3, <3>3, TurnMoves
  <2> QED
    BY <1>4, <2>2, <2>3 DEF MapResult
<1>5. CASE ConsumePrepare(r)
  <2> DEFINE c == [t EXCEPT !.phase = "insert"]
  <2>1. t.phase = "prepare"
    BY <1>5 DEF ConsumePrepare, At
  <2>2. CASE t.late
    <3>1. Alone(r, over)
      BY <1>5, <2>2 DEF ConsumePrepare
    <3> QED
      BY <1>3, <2>1, <3>1, TurnMoves
  <2>3. CASE ~t.late
    <3>1. Consume(r, {"action_prepare"}, 1, c)
      BY <1>5, <2>3 DEF ConsumePrepare
    <3>2. c \in Turn
      BY <1>1 DEF Turn, Phases
    <3>3. Sound(c) /\ c.reserved_on = t.reserved_on
      BY <1>1, <2>1, <2>3, <3>2 DEF Sound, RoundsAreBounded, DraftIsLatest, ActionIsDraft, Turn,
                            Early, Unresolved, Ready
    <3>4. {"action_prepare"} \in SUBSET Metrics
      BY DEF Metrics
    <3>5. 1 \in Nat
      OBVIOUS
    <3> HIDE DEF c
    <3> QED
      BY <2>1, <3>1, <3>3, <3>4, <3>5, ConsumeKeeps
  <2> QED
    BY <2>2, <2>3
<1>6. CASE CreateAction(r)
  <2> DEFINE drafted == IF t.it # NoDraft THEN t.it ELSE t.leave
  <2>1. t.phase = "insert"
    BY <1>6 DEF CreateAction, At
  <2>2. PICK action \in {drafted, NoDraft} :
          Alone(r, [t EXCEPT !.phase = "done", !.action = action])
    BY <1>6 DEF CreateAction
  <2> DEFINE c == [t EXCEPT !.phase = "done", !.action = action]
  <2>3. action \in Drafts
    BY <1>1 DEF Turn, Drafts
  <2>4. c \in Turn
    BY <1>1, <2>3 DEF Turn, Phases
  <2>5. /\ c.phase = "done" /\ c.action = action
        /\ c.leave = t.leave /\ c.it = t.it /\ c.latest = t.latest
        /\ c.weekday = t.weekday /\ c.enforced = t.enforced
        /\ c.status = t.status /\ c.answer = t.answer
        /\ c.rounds = t.rounds /\ c.reserved_on = t.reserved_on
    BY <1>1 DEF Turn
  <2> HIDE DEF c
  <2>6. t.status \notin Refused /\ t.answer # Nothing
    BY <1>1, <2>1 DEF Sound, ActionIsDraft, Ready
  <2>7. Sound(c)
    BY <1>1, <2>2, <2>4, <2>5, <2>6 DEF Sound, RoundsAreBounded, DraftIsLatest, ActionIsDraft, Turn,
                            Early, Unresolved, Ready
  <2> QED
    BY <2>2, <2>5, <2>7, TurnMoves DEF c
<1> QED
  BY <1>4, <1>5, <1>6

LEMMA MidnightKeeps ==
  ASSUME TurnInvariant, UtcMidnight \/ LocalMidnight \/ UNCHANGED vars
  PROVE  TurnInvariant'
<1>1. UNCHANGED <<bucket, turn>>
  BY DEF UtcMidnight, LocalMidnight, vars
<1>2. utc_day' \in Days /\ local_day' \in Days
  <2>1. utc_day \in Days /\ local_day \in Days
    BY TurnsAreSound
  <2> QED
    BY <2>1, Bounds DEF UtcMidnight, LocalMidnight, vars, Days
<1>3. BudgetsAreReserved'
  BY <1>1 DEF TurnInvariant, BudgetsAreReserved, ReservedOn
<1>4. LimitsHold'
  BY <1>1 DEF TurnInvariant, LimitsHold
<1> QED
  BY <1>1, <1>2, <1>3, <1>4 DEF TurnInvariant, TurnTypeOK

LEMMA TurnStepKeeps ==
  ASSUME TurnInvariant, [Next]_vars
  PROVE  TurnInvariant'
<1>1. CASE \E r \in Requests : Submit(r) \/ TurnStep(r) \/ Deadline(r)
  <2>1. PICK r \in Requests : Submit(r) \/ TurnStep(r) \/ Deadline(r)
    BY <1>1
  <2>2. CASE Submit(r) \/ Deadline(r)
    BY <2>2, SubmitKeeps, DeadlineKeeps
  <2>3. CASE ConsumeAssistant(r) \/ ConsumeProvider(r)
    BY <2>3, AdmissionKeeps
  <2>4. CASE AgentStep(r)
    BY <2>4, SessionKeeps, ReplyKeeps, CallsKeep DEF AgentStep
  <2>5. CASE MapResult(r) \/ ConsumePrepare(r) \/ CreateAction(r)
    BY <2>5, PersistKeeps
  <2> QED
    BY <2>1, <2>2, <2>3, <2>4, <2>5 DEF TurnStep
<1>2. CASE UtcMidnight \/ LocalMidnight \/ AllDone \/ UNCHANGED vars
  BY <1>2, MidnightKeeps DEF AllDone
<1> QED
  BY <1>1, <1>2 DEF Next

(* For any requests, budgets, limits and messages: every turn's rounds are *)
(* reserved before the first, its one draft is the latest, and only who    *)
(* was not refused gets to the point where an action is created.           *)
THEOREM TurnHolds == Spec => []TurnInvariant
<1>1. Init => TurnInvariant
  BY TurnInit
<1>2. TurnInvariant /\ [Next]_vars => TurnInvariant'
  BY TurnStepKeeps
<1> QED
  BY <1>1, <1>2, PTL DEF Spec

(* The global ceiling: the provider is never asked more often on a day     *)
(* than was reserved on it, nor is any allowance exceeded, whatever turns  *)
(* run at once and whatever midnight passes (DemoControlService.consume).  *)
THEOREM CeilingIsKept == Spec => []CeilingHolds
<1>1. TurnInvariant => CeilingHolds
  <2> SUFFICES ASSUME TurnInvariant, NEW d \in Days
               PROVE  /\ SumFunction([r \in ReservedOn(d) |-> turn[r].rounds])
                           <= bucket[d][ProviderKey]
                      /\ \A m \in Metrics, r \in Requests : bucket[d][Key(m, r)] <= Limit[m]
    BY DEF CeilingHolds, ProviderKey
  <2> DEFINE S == ReservedOn(d)
             f == [r \in S |-> turn[r].rounds]
  <2>1. IsFiniteSet(S) /\ Budget * Cardinality(S) <= bucket[d][ProviderKey]
    BY DEF TurnInvariant, BudgetsAreReserved
  <2>2. \A r \in S : f[r] \in Nat /\ f[r] <= Budget
    BY DEF TurnInvariant, RoundsAreBounded, ReservedOn
  <2>3. Budget \in Nat /\ bucket[d][ProviderKey] \in Nat /\ Cardinality(S) \in Nat
    BY <2>1, Bounds, FS_CardinalityType, ProviderKeyIsKey, TurnsAreSound
  <2>4. SumFunction(f) = SumFunctionOnSet(f, S)
    BY DEF SumFunction
  <2> HIDE DEF f, S
  <2>5. SumFunctionOnSet(f, S) \in Nat /\ SumFunctionOnSet(f, S) <= Budget * Cardinality(S)
    BY <2>1, <2>2, <2>3, SumBounded
  <2>6. Budget * Cardinality(S) \in Nat
    BY <2>3
  <2>7. SumFunction(f) <= bucket[d][ProviderKey]
    BY <2>1, <2>3, <2>4, <2>5, <2>6
  <2>8. \A m \in Metrics, r \in Requests : bucket[d][Key(m, r)] <= Limit[m]
    BY KeysOfMetrics DEF TurnInvariant, LimitsHold
  <2> QED
    BY <2>7, <2>8 DEF f, S
<1> QED
  BY <1>1, TurnHolds, PTL

(* The action is the draft the model made last, and its leave, if it was   *)
(* asked for "next <weekday>", is for the day that was enforced unless the *)
(* call padded the tool's name (AgentService.run, the application service). *)
THEOREM LatestDraftWins == Spec => []ActionIsLatestDraft
<1>1. TurnInvariant => ActionIsLatestDraft
  <2> SUFFICES ASSUME TurnInvariant, NEW r \in Requests
               PROVE  /\ turn[r].action \in {NoDraft, turn[r].latest}
                      /\ turn[r].weekday => \A date \in Days \ {turn[r].enforced} :
                                              turn[r].action # Leave(date, "exact")
    BY DEF ActionIsLatestDraft
  <2>1. DraftIsLatest(turn[r]) /\ ActionIsDraft(turn[r])
    BY DEF TurnInvariant
  <2>2. NoDraft # Ticket /\ \A date : NoDraft # Leave(date, "exact") /\ Ticket # Leave(date, "exact")
    BY DEF NoDraft, Ticket, Leave, None
  <2> QED
    BY <2>1, <2>2 DEF DraftIsLatest, ActionIsDraft
<1> QED
  BY <1>1, TurnHolds, PTL

(* A refusal means there is no action: neither the deadline, nor a failing *)
(* provider, nor a spent allowance leaves one behind.                      *)
THEOREM RefusalsAreClean == Spec => []RefusalLeavesNothing
<1>1. TurnInvariant => RefusalLeavesNothing
  BY DEF TurnInvariant, RefusalLeavesNothing, ActionIsDraft, Refused, Nothing
<1> QED
  BY <1>1, TurnHolds, PTL
=============================================================================

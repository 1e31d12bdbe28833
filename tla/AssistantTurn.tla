---------------------------- MODULE AssistantTurn ----------------------------
(***************************************************************************)
(* One chat request of the public demo: daily allowances are reserved      *)
(* (src/app/demo), a bounded loop of model rounds and tool calls runs      *)
(* (src/app/agent/service.py), and the draft it leaves behind is turned    *)
(* into an action (src/app/api/assistant_application.py).  Requests run in *)
(* threads of their own and meet in the allowance buckets.                 *)
(*                                                                         *)
(* The model's answers, tool results and provider errors are choices; a    *)
(* leave draft is the local day its "next weekday" was resolved on, and    *)
(* how the call that prepared it spelled the tool's name.  The maintenance *)
(* flag is MutationWindow's, the PREPARE call ActionCreation's.            *)
(***************************************************************************)
EXTENDS Naturals, FiniteSets, FiniteSetsExt

CONSTANTS
  Requests, Visitors, VisitorOf,       \* each request is one HTTP call
  MAX_MODEL_ROUNDS_PER_TURN, MAX_TOOL_CALLS_PER_TURN,
  Limit,                               \* daily limit of each metric
  Messages,                            \* bound: the messages that are sent
  MaxCalls,                            \* bound: calls in one model reply
  MaxDay                               \* bound: days that may begin

(* A message may be a bare "yes, submit it", carry an initiation id, or    *)
(* name a weekday.                                                         *)
ASSUME BudgetAssumption ==
  /\ Messages \subseteq SUBSET {"yes", "initiation", "next weekday"}
  /\ MAX_MODEL_ROUNDS_PER_TURN \in Nat \ {0} /\ MAX_TOOL_CALLS_PER_TURN \in Nat
  /\ VisitorOf \in [Requests -> Visitors]
  /\ MaxDay \in Nat \ {0}

VARIABLES utc_day, local_day,   \* the day of the buckets, of the employee
          bucket,               \* demo_usage_buckets: usage_count
          turn                  \* the request's thread
vars == <<utc_day, local_day, bucket, turn>>

Global == "all"
Days == 1 .. MaxDay
None == "none"
NoDraft == <<None, 0>>
Ticket == <<"it", 0>>
Leave(date, name) == <<"leave", date, name>>
Metrics == {"visitor_assistant", "assistant", "action_prepare", "provider_operation"}
ASSUME LimitAssumption == Limit \in [Metrics -> Nat]

Key(metric, r) == <<metric, IF metric \in {"visitor_assistant", "action_prepare"} THEN VisitorOf[r] ELSE Global>>
Keys == Metrics \X (Visitors \union {Global})

Fresh == [phase |-> "idle", standalone |-> FALSE, initiation |-> FALSE, weekday |-> FALSE,
          late |-> FALSE, reserved_on |-> 0, enforced |-> 0,
          rounds |-> 0, attempted |-> 0, asked |-> 0, answered |-> 0,
          leave |-> NoDraft, it |-> NoDraft, latest |-> NoDraft,
          status |-> None, answer |-> None, action |-> NoDraft]

Init ==
  /\ utc_day = 1 /\ local_day = 1
  /\ bucket = [d \in Days |-> [k \in Keys |-> 0]]
  /\ turn = [r \in Requests |-> Fresh]

At(r, phase) == turn[r].phase = phase
Set(r, new) == turn' = [turn EXCEPT ![r] = new] /\ UNCHANGED <<utc_day, local_day>>
Alone(r, new) == Set(r, new) /\ UNCHANGED bucket

(* --- Allowances --------------------------------------------------------- *)

(* consume: each upsert is conditional on its limit, and the transaction   *)
(* takes all of them or none.                                              *)
Reserves(r, metrics, amount) ==
  \A m \in metrics : bucket[utc_day][Key(m, r)] + amount <= Limit[m]
Reserve(r, metrics, amount) ==
  bucket' = [bucket EXCEPT ![utc_day] =
    [k \in Keys |-> IF \E m \in metrics : k = Key(m, r) THEN @[k] + amount ELSE @[k]]]

Consume(r, metrics, amount, granted) ==
  IF Reserves(r, metrics, amount)
  THEN Reserve(r, metrics, amount) /\ Set(r, granted)
  ELSE Alone(r, [turn[r] EXCEPT !.phase = "done", !.status = "demo_capacity_reached"])

Submit(r) ==
  /\ At(r, "idle")
  /\ \E m \in Messages :
       Alone(r, [turn[r] EXCEPT !.phase = "admission", !.standalone = "yes" \in m,
                                !.initiation = "initiation" \in m, !.weekday = "next weekday" \in m])

(* "Yes, submit it" is answered without the agent.                         *)
ConsumeAssistant(r) ==
  /\ At(r, "admission")
  /\ Consume(r, {"visitor_assistant", "assistant"}, 1,
       IF turn[r].standalone
       THEN [turn[r] EXCEPT !.phase = "done", !.status = "completed", !.answer = "refer"]
       ELSE [turn[r] EXCEPT !.phase = "provider"])

(* Mutant: the rounds are not reserved beforehand.                         *)
ConsumeOneRound(r) ==
  /\ At(r, "provider")
  /\ Consume(r, {"provider_operation"}, 1, [turn[r] EXCEPT !.phase = "start", !.reserved_on = utc_day])

ConsumeProvider(r) ==
  /\ At(r, "provider")
  /\ Consume(r, {"provider_operation"}, MAX_MODEL_ROUNDS_PER_TURN,
       [turn[r] EXCEPT !.phase = "start", !.reserved_on = utc_day])

(* --- The agent loop ----------------------------------------------------- *)

Running == {"start", "resolve", "ask", "reply", "calls", "finish", "prepare", "insert"}
Deadline(r) ==
  /\ turn[r].phase \in Running /\ ~turn[r].late
  /\ Alone(r, [turn[r] EXCEPT !.late = TRUE])

Ends(r, status) ==
  [turn[r] EXCEPT !.phase = "finish", !.status = status, !.asked = 0, !.answered = 0]
ProviderFailures == {"provider_failed"}   \* rate-limited or unavailable

(* The session is told the date of "next <weekday>"; what the dispatcher   *)
(* enforces is resolved from a second reading of the clock.                *)
StartSession(r) ==
  /\ At(r, "start")
  /\ \/ Alone(r, [turn[r] EXCEPT !.phase = "resolve"])
     \/ \E s \in ProviderFailures \union {"unable_to_complete"} : Alone(r, Ends(r, s))
ResolveWeekdays(r) ==
  /\ At(r, "resolve")
  /\ Alone(r, [turn[r] EXCEPT !.phase = "ask", !.enforced = local_day])

DeadlineAnswer(r) == [Ends(r, "completed") EXCEPT !.answer = "Nothing was submitted."]

(* A round: past the deadline, or past the last round, nothing is asked.   *)
AskModel(r) ==
  /\ At(r, "ask")
  /\ Alone(r, IF turn[r].rounds >= MAX_MODEL_ROUNDS_PER_TURN THEN Ends(r, "unable_to_complete")
              ELSE IF turn[r].late THEN DeadlineAnswer(r)
              ELSE [turn[r] EXCEPT !.phase = "reply", !.rounds = @ + 1])

EmptyReply(r) ==
  /\ At(r, "reply") /\ ~turn[r].late
  /\ Alone(r, [turn[r] EXCEPT !.phase = "ask"])
FinalText(r) ==
  /\ At(r, "reply")
  /\ Alone(r, [Ends(r, "completed") EXCEPT !.answer = "model"])
RequestCalls(r) ==
  /\ At(r, "reply")
  /\ IF turn[r].late THEN Alone(r, DeadlineAnswer(r))
     ELSE \E n \in 1 .. MaxCalls :
            Alone(r, [turn[r] EXCEPT !.phase = "calls", !.asked = n])
RoundFails(r) ==
  /\ At(r, "reply")
  /\ \E s \in ProviderFailures \union {"unable_to_complete"} : Alone(r, Ends(r, s))

(* Every dispatched call is answered, by an error result when it raised.   *)
Answered(r, new) ==
  LET more == turn[r].answered + 1 < turn[r].asked
  IN  Alone(r, [new EXCEPT !.attempted = @ + 1,
                           !.asked = IF more THEN @ ELSE 0,
                           !.answered = IF more THEN @ + 1 ELSE 0,
                           !.phase = IF more THEN "calls" ELSE "ask"])
Dispatchable(r) == At(r, "calls") /\ turn[r].attempted < MAX_TOOL_CALLS_PER_TURN

BudgetExhausted(r) ==
  /\ At(r, "calls") /\ turn[r].attempted >= MAX_TOOL_CALLS_PER_TURN
  /\ Alone(r, Ends(r, "tool_budget_exhausted"))

(* White space around a tool's name: the dispatcher strips it, but the     *)
(* comparison of the date looks for the name as the model wrote it.        *)
Spellings == {"exact", "padded"}

(* Mutant: no weekday is enforced.                                         *)
AnyDate(r, date, name) == TRUE

Compatible(r, date, name) ==
  turn[r].weekday /\ name = "exact" => date = turn[r].enforced

(* Mutant: a leave draft does not replace the ticket.                      *)
KeepsTicket(r, date, name) ==
  /\ Dispatchable(r) /\ Compatible(r, date, name)
  /\ Answered(r, [turn[r] EXCEPT !.leave = Leave(date, name), !.latest = Leave(date, name)])

PrepareLeave(r, date, name) ==
  /\ Dispatchable(r) /\ Compatible(r, date, name)
  /\ Answered(r, [turn[r] EXCEPT !.leave = Leave(date, name), !.it = NoDraft,
                                 !.latest = Leave(date, name)])
PrepareTicket(r) ==
  /\ Dispatchable(r)
  /\ Answered(r, [turn[r] EXCEPT !.it = Ticket, !.leave = NoDraft, !.latest = Ticket])

(* A look-up, or a rejected date, an invalid call, an unavailable service, *)
(* an exception: an answer without a draft.  (Citations are left out.)     *)
OtherCall(r) == Dispatchable(r) /\ Answered(r, turn[r])

(* --- From the draft to the action --------------------------------------- *)

(* Mutant: the provider's failure is mapped after the draft is persisted.  *)
PersistFirst(r) ==
  /\ At(r, "finish")
  /\ Alone(r, [turn[r] EXCEPT !.phase =
       IF (turn[r].leave = NoDraft /\ turn[r].it = NoDraft) \/ (turn[r].it # NoDraft /\ ~turn[r].initiation)
       THEN "done" ELSE "prepare"])

(* A provider failure raises, whatever was prepared; a ticket needs an     *)
(* initiation id.                                                          *)
MapResult(r) ==
  LET nothing == \/ turn[r].status \in ProviderFailures
                 \/ turn[r].leave = NoDraft /\ turn[r].it = NoDraft
                 \/ turn[r].it # NoDraft /\ ~turn[r].initiation
  IN  /\ At(r, "finish")
      /\ Alone(r, [turn[r] EXCEPT !.phase = IF nothing THEN "done" ELSE "prepare"])

(* Mutant: the deadline is not looked at before the draft is persisted.    *)
ConsumePrepareLate(r) ==
  /\ At(r, "prepare")
  /\ Consume(r, {"action_prepare"}, 1, [turn[r] EXCEPT !.phase = "insert"])

ConsumePrepare(r) ==
  /\ At(r, "prepare")
  /\ IF turn[r].late THEN Alone(r, [turn[r] EXCEPT !.phase = "done"])
     ELSE Consume(r, {"action_prepare"}, 1, [turn[r] EXCEPT !.phase = "insert"])

(* The ticket is looked at first; a PREPARE call may also create nothing.  *)
CreateAction(r) ==
  /\ At(r, "insert")
  /\ \E action \in {IF turn[r].it # NoDraft THEN turn[r].it ELSE turn[r].leave, NoDraft} :
       Alone(r, [turn[r] EXCEPT !.phase = "done", !.action = action])

AgentStep(r) ==
  \/ StartSession(r) \/ ResolveWeekdays(r) \/ AskModel(r)
  \/ EmptyReply(r) \/ FinalText(r) \/ RequestCalls(r) \/ RoundFails(r)
  \/ BudgetExhausted(r) \/ PrepareTicket(r) \/ OtherCall(r)
  \/ \E date \in Days, name \in Spellings : PrepareLeave(r, date, name)
TurnStep(r) ==
  \/ ConsumeAssistant(r) \/ ConsumeProvider(r) \/ AgentStep(r)
  \/ MapResult(r) \/ ConsumePrepare(r) \/ CreateAction(r)

UtcMidnight == utc_day < MaxDay /\ utc_day' = utc_day + 1 /\ UNCHANGED <<local_day, bucket, turn>>
LocalMidnight == local_day < MaxDay /\ local_day' = local_day + 1 /\ UNCHANGED <<utc_day, bucket, turn>>

(* Every thread has returned.                                              *)
AllDone == (\A r \in Requests : At(r, "done")) /\ UNCHANGED vars

Next ==
  \/ \E r \in Requests : Submit(r) \/ TurnStep(r) \/ Deadline(r)
  \/ UtcMidnight \/ LocalMidnight \/ AllDone

Spec == Init /\ [][Next]_vars
-----------------------------------------------------------------------------
(* The global ceiling is race-free: what the day's turns may ever ask of   *)
(* the provider was reserved before, and no allowance exceeds its limit    *)
(* (PublicDemoAssistantApplicationService.query, DemoControlService).      *)
ReservedOn(d) == {r \in Requests : turn[r].reserved_on = d}
CeilingHolds ==
  \A d \in Days :
    /\ SumFunction([r \in ReservedOn(d) |-> turn[r].rounds]) <= bucket[d][<<"provider_operation", Global>>]
    /\ \A m \in Metrics, r \in Requests : bucket[d][Key(m, r)] <= Limit[m]

(* The request retains the latest successful draft, of either kind; that   *)
(* is the one an action is created from (AgentService.run).  If it is      *)
(* leave asked for "next <weekday>", it is for the day that was enforced,  *)
(* whatever midnight passed since, or for any day if the model's call      *)
(* padded the tool's name: service.py:260 compares the name as it came,    *)
(* dispatcher.py:70 strips it.                                             *)
ActionIsLatestDraft ==
  \A r \in Requests :
    /\ turn[r].action \in {NoDraft, turn[r].latest}
    /\ turn[r].weekday => \A date \in Days \ {turn[r].enforced} :
                            turn[r].action # Leave(date, "exact")

(* Who was told that nothing was submitted, that the provider failed or    *)
(* that the demo's capacity is reached has no action left behind, although *)
(* a draft had been prepared and an allowance taken before.                *)
RefusalLeavesNothing ==
  \A r \in Requests :
    \/ turn[r].answer = "Nothing was submitted."
    \/ turn[r].status \in ProviderFailures \union {"demo_capacity_reached"}
    => turn[r].action = NoDraft
=============================================================================

--------------------------- MODULE ConfirmedPoller ---------------------------
(***************************************************************************)
(* The worker as a loop (src/app/workflow/confirmed_poller.py): which      *)
(* action it takes next, what a failure does to it, and what a unique      *)
(* violation leaves to be recovered.  An action's failure cools that       *)
(* action, the database's failure backs the whole process off; both are in *)
(* memory and die with the process.  A writer of leave requests other than *)
(* the executor (the lost response of an earlier executor) may insert the  *)
(* row of an action between the preprobe and the insert.                   *)
(*                                                                         *)
(* Time is counted in units of 50 ms, the first cooldown.  A poll's own    *)
(* work takes no time, and the sleep between polls is exact.               *)
(***************************************************************************)
EXTENDS Integers, FiniteSetsExt

CONSTANTS
  Action, Worker, Nobody,
  ConfirmedAt,      \* the order of confirmation
  Trouble,          \* what always goes wrong in an action's execution
  PollSeconds,
  CooldownInitial, CooldownCap, OutageInitial, OutageCap,
  MaxFaults,        \* bound: outages, foreign rows, lost answers, restarts
  Cancellable       \* bound: the actions an employee may touch

ASSUME NobodyAssumption == Nobody \notin Worker
ASSUME TroubleAssumption == Trouble \in [Action -> {"none", "raises", "sql_error"}]
ASSUME CancellableAssumption == Cancellable \subseteq Action
ASSUME DelayAssumption ==
  /\ PollSeconds \in Nat \ {0}
  /\ CooldownInitial \in 1 .. CooldownCap
  /\ OutageInitial \in 1 .. OutageCap

VARIABLES
  state, lapsed,      \* of each confirmed action
  row,                \* the business row of its source action
  holder,             \* who has its revision locked
  database,           \* up or down
  step, job, to,      \* each worker's transaction, its action and outcome
  cooldown, outage,   \* _cooldowns, _outage_until and _outage_delay
  sleep,              \* until each worker's next poll
  report,             \* the last result each worker returned
  faults              \* what has gone wrong so far

tableVars == <<state, lapsed, row, holder>>
delayVars == <<cooldown, outage, sleep>>
pollVars == <<tableVars, database, step, job, to, delayVars, report, faults>>

NoAction == "no action"
Terminal == {"SUCCEEDED", "EXECUTION_FAILED", "EXPIRED", "CANCELLED"}
Open == {"claimed", "probed", "inserted", "decided", "in_doubt"}
NoCooldown == [left |-> 0, delay |-> 0]
NoOutage == [left |-> 0, delay |-> OutageInitial]
NoReport == [action |-> NoAction, outcome |-> "IDLE"]

PollInit ==
  /\ state = [a \in Action |-> "CONFIRMED"] /\ lapsed = {}
  /\ row = [a \in Action |-> "none"]
  /\ holder = [a \in Action |-> Nobody]
  /\ database = "up"
  /\ step = [w \in Worker |-> "idle"]
  /\ job = [w \in Worker |-> NoAction]
  /\ to = [w \in Worker |-> "CONFIRMED"]
  /\ cooldown = [w \in Worker |-> [a \in Action |-> NoCooldown]]
  /\ outage = [w \in Worker |-> NoOutage]
  /\ sleep \in [Worker -> {0, PollSeconds \div 2}]
  /\ report = [w \in Worker |-> NoReport]
  /\ faults = 0

----------------------------------------------------------------------------

Smaller(m, n) == IF m < n THEN m ELSE n

(* The ends of random.uniform(0, delay / 2).                               *)
Jitter(delay) == {0, delay \div 2}

NoteOutage(w) ==
  \E j \in Jitter(outage[w].delay) :
    outage' = [outage EXCEPT ![w] =
      [left |-> @.delay + j, delay |-> Smaller(OutageCap, 2 * @.delay)]]

NoteCooldown(w, a) ==
  LET delay == IF cooldown[w][a].delay = 0
                 THEN CooldownInitial
                 ELSE Smaller(CooldownCap, 2 * cooldown[w][a].delay)
  IN  \E j \in Jitter(delay) :
        cooldown' = [cooldown EXCEPT ![w][a] = [left |-> delay + j, delay |-> delay]]

ClearOutage(w) == outage' = [outage EXCEPT ![w] = NoOutage]

(* Mutant: every failure is an outage.                                     *)
EveryFailureIsOutage(w, a) == NoteOutage(w) /\ UNCHANGED cooldown

(* classify_execution_failure and what it does to the worker.              *)
NoteFailure(w, a) ==
  IF Trouble[a] = "sql_error"
    THEN NoteOutage(w) /\ UNCHANGED cooldown
    ELSE NoteCooldown(w, a) /\ UNCHANGED outage

(* run_once returns; the loop sleeps.                                      *)
Return(w, a, outcome) ==
  /\ report' = [report EXCEPT ![w] = [action |-> a, outcome |-> outcome]]
  /\ step' = [step EXCEPT ![w] = "idle"]
  /\ job' = [job EXCEPT ![w] = NoAction]
  /\ to' = [to EXCEPT ![w] = "CONFIRMED"]
  /\ sleep' = [sleep EXCEPT ![w] = PollSeconds]

Unlock(w) == holder' = [a \in Action |-> IF holder[a] = w THEN Nobody ELSE holder[a]]

Due(w) == step[w] = "idle" /\ sleep[w] = 0
Ready(w) == Due(w) /\ outage[w].left = 0

Claimable(w) ==
  {a \in Action :
     state[a] = "CONFIRMED" /\ holder[a] = Nobody /\ cooldown[w][a].left = 0}

----------------------------------------------------------------------------

PollInOutage(w) ==
  /\ Due(w)
  /\ outage[w].left > 0
  /\ Return(w, NoAction, "TRANSIENT")
  /\ UNCHANGED <<tableVars, database, cooldown, outage, faults>>

PollNothing(w) ==
  /\ Ready(w)
  /\ database = "up"
  /\ Claimable(w) = {}
  /\ ClearOutage(w)
  /\ Return(w, NoAction, "IDLE")
  /\ UNCHANGED <<tableVars, database, cooldown, faults>>

(* ORDER BY confirmed_at, action_id, without what is cooling.              *)
Claim(w) ==
  /\ Ready(w)
  /\ database = "up"
  /\ \E a \in Claimable(w) :
       /\ \A b \in Claimable(w) : ConfirmedAt[a] <= ConfirmedAt[b]
       /\ holder' = [holder EXCEPT ![a] = w]
       /\ job' = [job EXCEPT ![w] = a]
  /\ step' = [step EXCEPT ![w] = "claimed"]
  /\ UNCHANGED <<state, lapsed, row, database, to, delayVars, report, faults>>

Decide(w, outcome) ==
  /\ to' = [to EXCEPT ![w] = outcome]
  /\ step' = [step EXCEPT ![w] = "decided"]
  /\ UNCHANGED <<tableVars, database, job, delayVars, report, faults>>

(* The exception leaves _finish_claimed: rollback, then its scope.         *)
Fail(w) ==
  /\ Unlock(w)
  /\ NoteFailure(w, job[w])
  /\ Return(w, job[w], "TRANSIENT")
  /\ UNCHANGED <<state, lapsed, row, database, faults>>

Proceed(w, next) ==
  /\ step' = [step EXCEPT ![w] = next]
  /\ UNCHANGED <<tableVars, database, job, to, delayVars, report, faults>>

(* TTL, revalidation and preprobe.                                         *)
Probe(w) ==
  LET a == job[w]
  IN  /\ step[w] = "claimed"
      /\ database = "up"
      /\ IF a \in lapsed THEN Decide(w, "EXPIRED")
         ELSE IF Trouble[a] # "none" THEN Fail(w)
         ELSE CASE row[a] = "none" -> Proceed(w, "probed")
                [] row[a] = "equivalent" -> Decide(w, "SUCCEEDED")
                [] row[a] = "other" -> Decide(w, "EXECUTION_FAILED")

(* The last TTL check and the insert.  A unique violation rolls the whole  *)
(* transaction back, its locks included.                                   *)
Insert(w) ==
  LET a == job[w]
  IN  /\ step[w] = "probed"
      /\ database = "up"
      /\ \/ a \in lapsed /\ Decide(w, "EXPIRED")
         \/ a \notin lapsed /\ row[a] = "none" /\ Proceed(w, "inserted")
         \/ /\ a \notin lapsed /\ row[a] # "none"
            /\ Unlock(w)
            /\ step' = [step EXCEPT ![w] = "conflict"]
            /\ UNCHANGED <<state, lapsed, row, database, job, to, delayVars, report,
                           faults>>

Outcome(w) == IF step[w] = "inserted" THEN "SUCCEEDED" ELSE to[w]

Apply(w, outcome, inserted) ==
  /\ state' = [state EXCEPT ![job[w]] = outcome]
  /\ row' = IF inserted THEN [row EXCEPT ![job[w]] = "equivalent"] ELSE row

Commit(w) ==
  /\ step[w] \in {"inserted", "decided"}
  /\ database = "up"
  /\ Apply(w, Outcome(w), step[w] = "inserted")
  /\ Unlock(w)
  /\ ClearOutage(w)
  /\ cooldown' = [cooldown EXCEPT ![w][job[w]] = NoCooldown]
  /\ Return(w, job[w], Outcome(w))
  /\ UNCHANGED <<lapsed, database, faults>>

(* COMMIT raises, for the connection was lost, or the database with it;    *)
(* the worker drops the connection.                                        *)
LoseAck(w) ==
  /\ step[w] \in {"inserted", "decided"}
  /\ faults < MaxFaults
  /\ faults' = faults + 1
  /\ database' \in {database, "down"}
  /\ to' = [to EXCEPT ![w] = Outcome(w)]
  /\ step' = [step EXCEPT ![w] = "in_doubt"]
  /\ UNCHANGED <<tableVars, job, delayVars, report>>

(* The worker whose uncommitted insert holds the unique index entry of a.  *)
Inserting(w, a) ==
  /\ job[w] = a
  /\ \/ step[w] = "inserted"
     \/ step[w] = "in_doubt" /\ to[w] = "SUCCEEDED" /\ row[a] = "none"

(* The server ends the transaction the worker let go of.                   *)
SettleInDoubt(w) ==
  /\ step[w] = "in_doubt"
  /\ \/ Apply(w, to[w], Inserting(w, job[w]))
     \/ UNCHANGED <<state, row>>
  /\ Unlock(w)
  /\ step' = [step EXCEPT ![w] = "observing"]
  /\ UNCHANGED <<lapsed, database, job, to, delayVars, report, faults>>

(* Mutant: whatever row is there is adopted.                               *)
AdoptAny(a) ==
  CASE a \in lapsed -> "EXPIRED"
    [] a \notin lapsed /\ row[a] # "none" -> "SUCCEEDED"
    [] OTHER -> "EXECUTION_FAILED"

(* What the fresh probe makes of an action that is still confirmed.        *)
Recovered(a) ==
  CASE a \in lapsed -> "EXPIRED"
    [] a \notin lapsed /\ row[a] = "equivalent" -> "SUCCEEDED"
    [] OTHER -> "EXECUTION_FAILED"

(* _recover_after_conflict: claim the action again in a new transaction.   *)
(* Cooldown and backoff stay as they were.                                 *)
Recover(w) ==
  LET a == job[w]
      claimed == state[a] = "CONFIRMED" /\ holder[a] = Nobody
  IN  /\ step[w] = "conflict"
      /\ database = "up"
      /\ \/ /\ claimed
            /\ Apply(w, Recovered(a), FALSE)
            /\ Return(w, a, Recovered(a))
         \/ /\ ~claimed
            /\ step' = [step EXCEPT ![w] = "observing"]
            /\ UNCHANGED <<state, row, job, to, sleep, report>>
      /\ UNCHANGED <<lapsed, holder, database, cooldown, outage, faults>>

(* What _observe_after_lost_ack reports of what it reads under the lock.   *)
Observed(a) ==
  CASE state[a] = "CONFIRMED" /\ row[a] = "none" -> "TRANSIENT"
    [] state[a] = "SUCCEEDED" /\ row[a] = "equivalent" -> "SUCCEEDED"
    [] OTHER -> "LOST_ACK"

Observe(w) ==
  /\ step[w] = "observing"
  /\ database = "up"
  /\ holder[job[w]] = Nobody
  /\ Return(w, job[w], Observed(job[w]))
  /\ UNCHANGED <<tableVars, database, cooldown, outage, faults>>

(* --- Faults --------------------------------------------------------------- *)

(* A statement of the poll fails, the claim or a later one.                *)
FailInOutage(w) ==
  /\ database = "down"
  /\ Ready(w) \/ step[w] \in {"claimed", "probed", "inserted", "decided"}
  /\ Unlock(w)
  /\ NoteOutage(w)
  /\ Return(w, job[w], "TRANSIENT")
  /\ UNCHANGED <<state, lapsed, row, database, cooldown, faults>>

(* Recovery and observation run outside _execute's try: their error leaves *)
(* run_once and the loop notes it.                                         *)
LeakInOutage(w) ==
  /\ database = "down"
  /\ step[w] \in {"conflict", "observing"}
  /\ NoteOutage(w)
  /\ Return(w, job[w], "RAISED")
  /\ UNCHANGED <<tableVars, database, cooldown, faults>>

DatabaseDown ==
  /\ database = "up" /\ faults < MaxFaults
  /\ database' = "down"
  /\ faults' = faults + 1
  /\ UNCHANGED <<tableVars, step, job, to, delayVars, report>>

DatabaseUp ==
  /\ database = "down"
  /\ database' = "up"
  /\ UNCHANGED <<tableVars, step, job, to, delayVars, report, faults>>

(* A new process knows no cooldown.                                        *)
Restart(w) ==
  /\ faults < MaxFaults
  /\ step[w] # "in_doubt"
  /\ faults' = faults + 1
  /\ Unlock(w)
  /\ step' = [step EXCEPT ![w] = "idle"]
  /\ job' = [job EXCEPT ![w] = NoAction]
  /\ to' = [to EXCEPT ![w] = "CONFIRMED"]
  /\ cooldown' = [cooldown EXCEPT ![w] = [a \in Action |-> NoCooldown]]
  /\ outage' = [outage EXCEPT ![w] = NoOutage]
  /\ sleep' = [sleep EXCEPT ![w] = 0]
  /\ report' = [report EXCEPT ![w] = NoReport]
  /\ UNCHANGED <<state, lapsed, row, database>>

(* --- Everyone else -------------------------------------------------------- *)

(* The clock moves to the next poll of some worker.                        *)
Tick ==
  LET passed == Min({sleep[w] : w \in Worker})
      After(n) == IF n < passed THEN 0 ELSE n - passed
  IN  /\ \A w \in Worker : step[w] = "idle" /\ sleep[w] > 0
      /\ sleep' = [w \in Worker |-> After(sleep[w])]
      /\ cooldown' = [w \in Worker |-> [a \in Action |->
                        [cooldown[w][a] EXCEPT !.left = After(@)]]]
      /\ outage' = [w \in Worker |-> [outage[w] EXCEPT !.left = After(@)]]
      /\ UNCHANGED <<tableVars, database, step, job, to, report, faults>>

Lapse(a) ==
  /\ a \notin lapsed
  /\ lapsed' = lapsed \cup {a}
  /\ UNCHANGED <<state, row, holder, database, step, job, to, delayVars, report, faults>>

(* The employee cancels, or reads what has expired.                        *)
Cancel(a) ==
  /\ state[a] = "CONFIRMED" /\ holder[a] = Nobody /\ database = "up"
  /\ state' = [state EXCEPT ![a] = IF a \in lapsed THEN "EXPIRED" ELSE "CANCELLED"]
  /\ UNCHANGED <<lapsed, row, holder, database, step, job, to, delayVars, report, faults>>

(* Its foreign key needs KEY SHARE on the revision, which the claim's NO   *)
(* KEY UPDATE lock admits.                                                 *)
ForeignInsert(a) ==
  /\ faults < MaxFaults
  /\ database = "up" /\ state[a] = "CONFIRMED" /\ row[a] = "none"
  /\ \A w \in Worker : ~Inserting(w, a)
  /\ \E r \in {"equivalent", "other"} : row' = [row EXCEPT ![a] = r]
  /\ faults' = faults + 1
  /\ UNCHANGED <<state, lapsed, holder, database, step, job, to, delayVars, report>>

----------------------------------------------------------------------------

Advance(w) ==
  \/ PollInOutage(w) \/ PollNothing(w) \/ Claim(w) \/ Probe(w) \/ Insert(w)
  \/ Commit(w) \/ SettleInDoubt(w) \/ Recover(w) \/ Observe(w)
  \/ FailInOutage(w) \/ LeakInOutage(w)

PollNext ==
  \/ Tick \/ DatabaseDown \/ DatabaseUp
  \/ \E w \in Worker : Advance(w) \/ LoseAck(w) \/ Restart(w)
  \/ \E a \in Action : Lapse(a) \/ ForeignInsert(a)
  \/ \E a \in Cancellable : Cancel(a)

PollSpec == PollInit /\ [][PollNext]_pollVars

(* The loop polls for ever, the clock runs, an outage ends.  An action that *)
(* meets an SQL error every time is only decided by its TTL.               *)
ProgressSpec ==
  /\ PollSpec
  /\ WF_pollVars(Tick) /\ WF_pollVars(DatabaseUp)
  /\ \A w \in Worker : WF_pollVars(Advance(w))
  /\ \A a \in Action : Trouble[a] = "sql_error" => WF_pollVars(Lapse(a))

----------------------------------------------------------------------------

(* A succeeded action has the row it was confirmed for, whoever inserted   *)
(* it and however often it was tried: recovery after a unique violation    *)
(* adopts an equivalent row or fails (atomic_execution.py:399).  And what  *)
(* a worker returns as a decision is what the database says, after a lost  *)
(* answer and a lost race too.                                             *)
OutcomeIsReal ==
  /\ \A a \in Action : state[a] = "SUCCEEDED" => row[a] = "equivalent"
  /\ \A w \in Worker :
       report[w].outcome \in Terminal => state[report[w].action] = report[w].outcome

(* An action that raises every time and has not run out of time.           *)
Raising(b) == Trouble[b] = "raises" /\ state[b] = "CONFIRMED" /\ b \notin lapsed

(* So many raising actions are older that one poll each fills the longest  *)
(* cooldown: when the last has had its turn the first may be due again.    *)
Crowded(a) ==
  \E S \in SUBSET Action :
    /\ PollSeconds * Cardinality(S) >= CooldownCap
    /\ \A b \in S : Raising(b) /\ ConfirmedAt[b] < ConfirmedAt[a]

(* An action that nothing is wrong with is decided once the older ones     *)
(* that raise every time are fewer than the longest cooldown has polls,    *)
(* without waiting for the TTL of those that are left; as many as that can *)
(* starve it until enough of them lapse (atomic_execution.py:470, :886).   *)
YoungerProgresses ==
  \A a \in Action :
    Trouble[a] = "none" =>
      (state[a] = "CONFIRMED" ~> state[a] # "CONFIRMED" \/ Crowded(a))
=============================================================================

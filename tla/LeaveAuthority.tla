---------------------------- MODULE LeaveAuthority ----------------------------
(***************************************************************************)
(* What a leave request costs and who says so: the two holiday calendars,  *)
(* the conversational preview, the executable preparation with its two     *)
(* sums, and the executor's classification of what was confirmed           *)
(* (src/app/workflow/executable_preparation.py, calendar.py, the demo's    *)
(* src/app/demo/leave_execution.py and calendar.py).  The API and the      *)
(* worker are upgraded from the V4 to the M3 program one after the other,  *)
(* and the employee fixture changes with a deployment.  Confirmation is    *)
(* left to ActionSystem: an action is confirmed as soon as it is created.  *)
(* Hours are hundredths, so nothing is rounded (the fixture says 7.6).     *)
(***************************************************************************)
EXTENDS Integers, FiniteSets, Functions

CONSTANTS
  Employee,
  Jurisdiction,   \* [Employee -> STRING]
  Pattern,        \* [work_days, hours_per_day]: what the fixture may say
  Base,           \* trusted base balance
  Request         \* [employee, start, end]: the requests made

ASSUME FixtureAssumption ==
  /\ Base \in Nat
  /\ \A p \in Pattern : p.hours_per_day \in Nat
ASSUME DatesAssumption == \A r \in Request : r.start \in Int /\ r.end \in Int

VARIABLES
  pattern,     \* the fixture's work pattern, the same for all here
  api,         \* the calendar of the preparation the API runs
  worker,      \* the program the worker runs
  call,        \* [Employee -> a PREPARE call]
  confirmed,   \* actions waiting for the worker
  submitted    \* leave_requests
vars == <<pattern, api, worker, call, confirmed, submitted>>

-----------------------------------------------------------------------------
(* Calendars.  Days are numbered from 1 January 2026, a Thursday; Monday   *)
(* is weekday 0.                                                           *)
MonthStart == <<0, 31, 59, 90, 120, 151, 181, 212, 243, 273, 304, 334>>
Day(y, m, d) ==
  365 * (y - 2026) + MonthStart[m] + d + (IF y = 2028 /\ m > 2 THEN 1 ELSE 0)
Weekday(n) == (n + 2) % 7
Days(y, dates) == {Day(y, md[1], md[2]) : md \in dates}

V4Holidays ==
  Days(2026, {<<1, 1>>, <<1, 26>>, <<3, 9>>, <<4, 3>>, <<4, 4>>, <<4, 5>>, <<4, 6>>,
              <<4, 25>>, <<6, 8>>, <<9, 25>>, <<11, 3>>, <<12, 25>>, <<12, 26>>, <<12, 28>>})

(* Mutant: the copy of 2026 loses the Grand Final Friday. *)
M3WithoutGrandFinal ==
  Days(2026, {<<1, 1>>, <<1, 26>>, <<3, 9>>, <<4, 3>>, <<4, 4>>, <<4, 5>>, <<4, 6>>,
              <<4, 25>>, <<6, 8>>, <<11, 3>>, <<12, 25>>, <<12, 26>>, <<12, 28>>})

M3Holidays ==
  Days(2026, {<<1, 1>>, <<1, 26>>, <<3, 9>>, <<4, 3>>, <<4, 4>>, <<4, 5>>, <<4, 6>>,
              <<4, 25>>, <<6, 8>>, <<9, 25>>, <<11, 3>>, <<12, 25>>, <<12, 26>>, <<12, 28>>})
  \cup
  Days(2027, {<<1, 1>>, <<1, 26>>, <<3, 8>>, <<3, 26>>, <<3, 27>>, <<3, 28>>, <<3, 29>>,
              <<4, 25>>, <<6, 14>>, <<11, 2>>, <<12, 25>>, <<12, 26>>, <<12, 27>>, <<12, 28>>})
  \cup
  Days(2028, {<<1, 1>>, <<1, 3>>, <<1, 26>>, <<3, 13>>, <<4, 14>>, <<4, 15>>, <<4, 16>>,
              <<4, 17>>, <<4, 25>>, <<6, 12>>, <<11, 7>>, <<12, 25>>, <<12, 26>>})

Calendar == {"V4", "M3"}
CoverageEnd == [c \in Calendar |-> IF c = "V4" THEN Day(2026, 12, 31) ELSE Day(2028, 12, 31)]
Inside(c, n) == 1 <= n /\ n <= CoverageEnd[c]

(* The Friday before the Grand Final is one of these; which is not known.  *)
Candidate(n) ==
  /\ Weekday(n) = 4
  /\ \E y \in {2027, 2028} : n \in Day(y, 9, 1) .. Day(y, 10, 31)

(* Mutant: only the first day of the range is looked at. *)
FirstDayUnresolved(r) == Candidate(r.start)

ContainsUnresolved(r) == \E n \in r.start .. r.end : Candidate(n)

(* holidays_for_range of both calendar services.                           *)
Covered(c, e, r) ==
  /\ Jurisdiction[e] = "AU-VIC"
  /\ Inside(c, r.start) /\ Inside(c, r.end)
  /\ c = "M3" => r.start <= r.end /\ ~ContainsUnresolved(r)

Holidays(c, r) ==
  {n \in (IF c = "V4" THEN V4Holidays ELSE M3Holidays) : r.start <= n /\ n <= r.end}

-----------------------------------------------------------------------------
(* Hours.                                                                  *)

(* Mutant: the last day is not counted. *)
ExclusiveDays(p, r) == {n \in r.start .. (r.end - 1) : Weekday(n) \in p.work_days}

(* The preview of the conversation knows no holidays.                      *)
PreviewDays(p, r) == {n \in r.start .. r.end : Weekday(n) \in p.work_days}

Preview(p, r) == Cardinality(PreviewDays(p, r)) * p.hours_per_day

ScheduledDays(p, c, r) ==
  Cardinality({n \in r.start .. r.end : Weekday(n) \in p.work_days /\ n \notin Holidays(c, r)})

LeaveHours(p, c, e, r) ==
  (IF Covered(c, e, r) THEN ScheduledDays(p, c, r) ELSE 0) * p.hours_per_day

Of(e) == {l \in submitted : l.employee = e}
Committed(e) == SumFunction([l \in Of(e) |-> l.hours])

(* PrepareLeaveRequestArguments refuses anything else before the call.     *)
ValidRange(r) == r.start <= r.end /\ r.end - r.start + 1 <= 31

(* _eligibility_reason over the readiness of the preparation.              *)
Eligibility(c, e, r, hours, effective) ==
  CASE ~Covered(c, e, r) -> "calendar_uncovered"
    [] hours = 0 -> "no_scheduled_work"
    [] hours > effective -> "insufficient_balance"
    [] OTHER -> "created"

(* Two requests of one employee for the same dates have the same key,      *)
(* whichever calendar priced them.                                         *)
SameRequest(d, r) == d.employee = r.employee /\ d.start = r.start /\ d.end = r.end
-----------------------------------------------------------------------------
Idle == [pc |-> "idle", range |-> {}, calendar |-> "V4", pattern |-> {},
         preview |-> 0, committed |-> 0, effective |-> 0]

Init ==
  /\ pattern \in Pattern
  /\ api = "V4" /\ worker = "V4"
  /\ call = [e \in Employee |-> Idle]
  /\ confirmed = {} /\ submitted = {}

(* The preview, then the preparation up to its first sum over the          *)
(* submitted leave.                                                        *)
StartPrepare(e, r) ==
  /\ call[e].pc = "idle" /\ r.employee = e /\ ValidRange(r)
  /\ call' = [call EXCEPT ![e] =
       [pc |-> "summed", range |-> r, calendar |-> api, pattern |-> pattern,
        preview |-> Preview(pattern, r),
        committed |-> Committed(e), effective |-> 0]]
  /\ UNCHANGED <<pattern, api, worker, confirmed, submitted>>

(* Mutant: the effective balance is the base balance. *)
ForgetCommitted(e) ==
  /\ call[e].pc = "summed"
  /\ call' = [call EXCEPT ![e].pc = "prepared", ![e].effective = Base]
  /\ UNCHANGED <<pattern, api, worker, confirmed, submitted>>

(* The second statement sums the same rows again for the effective balance. *)
ReadEffective(e) ==
  /\ call[e].pc = "summed"
  /\ call' = [call EXCEPT ![e].pc = "prepared", ![e].effective = Base - Committed(e)]
  /\ UNCHANGED <<pattern, api, worker, confirmed, submitted>>

CallHours(e) == LeaveHours(call[e].pattern, call[e].calendar, e, call[e].range)

(* The canonical draft, with the stable authority it was computed from.    *)
Draft(e) ==
  [employee |-> e, calendar |-> call[e].calendar,
   start |-> call[e].range.start, end |-> call[e].range.end,
   hours |-> CallHours(e), authority |-> call[e].pattern]

(* An eligible call creates the action unless its dates are occupied.      *)
Create(e) ==
  LET c == call[e]
  IN  /\ c.pc = "prepared"
      /\ IF /\ Eligibility(c.calendar, e, c.range, CallHours(e), c.effective) = "created"
            /\ \A d \in confirmed \cup submitted : ~SameRequest(d, c.range)
         THEN confirmed' = confirmed \cup {Draft(e)}
         ELSE UNCHANGED confirmed
      /\ call' = [call EXCEPT ![e] = Idle]
      /\ UNCHANGED <<pattern, api, worker, submitted>>

(* Mutant: nothing that was confirmed counts as changed. *)
NeverChanged(d) == FALSE

(* _stable_authority_changed: the pattern and the hours it gives now.      *)
AuthorityChanged(d) ==
  \/ d.authority # pattern
  \/ d.hours # LeaveHours(pattern, d.calendar, d.employee, d)

(* Mutant: two requests that share a boundary day do not overlap. *)
OverlapsInside(l, d) == l.start < d.end /\ d.start < l.end

DateRangesOverlap(l, d) == l.start <= d.end /\ d.start <= l.end

(* Mutant: the M3 worker knows its own calendar only. *)
OwnCalendarOnly(d) == worker = d.calendar

(* The M3 executor hands V4 actions to the V4 classification.              *)
KnowsCalendar(d) == worker = d.calendar \/ (worker = "M3" /\ d.calendar = "V4")

Classify(d) ==
  CASE ~KnowsCalendar(d) \/ AuthorityChanged(d) -> "STALE"
    [] ~Covered(d.calendar, d.employee, d) -> "CALENDAR_UNCOVERED"
    [] d.hours > Base - Committed(d.employee) -> "INSUFFICIENT_BALANCE"
    [] \E l \in Of(d.employee) : DateRangesOverlap(l, d) -> "OVERLAP"
    [] OTHER -> "SUCCEEDED"

(* The worker's transaction: the employee lock makes it one step.          *)
Execute(d) ==
  /\ d \in confirmed
  /\ confirmed' = confirmed \ {d}
  /\ submitted' = IF Classify(d) = "SUCCEEDED" THEN submitted \cup {d} ELSE submitted
  /\ UNCHANGED <<pattern, api, worker, call>>

(* The two programs are replaced in either order.                          *)
UpgradeApi == api' = "M3" /\ UNCHANGED <<pattern, worker, call, confirmed, submitted>>
UpgradeWorker == worker' = "M3" /\ UNCHANGED <<pattern, api, call, confirmed, submitted>>
ChangeFixture(p) == pattern' = p /\ UNCHANGED <<api, worker, call, confirmed, submitted>>

Next ==
  \/ \E e \in Employee, r \in Request : StartPrepare(e, r)
  \/ \E e \in Employee : ReadEffective(e) \/ Create(e)
  \/ \E d \in confirmed : Execute(d)
  \/ UpgradeApi \/ UpgradeWorker
  \/ \E p \in Pattern : ChangeFixture(p)

Spec == Init /\ [][Next]_vars
-----------------------------------------------------------------------------
(* Leave never claims a day twice nor more hours than the balance, counted *)
(* in dates and hours this time, boundary days included.                   *)
LeaveFits ==
  \A e \in Employee :
    /\ Committed(e) <= Base
    /\ \A l, m \in Of(e) : l # m => (l.start .. l.end) \cap (m.start .. m.end) = {}

(* No leave is granted over a day whose status is not known: outside its   *)
(* calendar, another jurisdiction, or a Friday that may turn out to be a   *)
(* holiday; and every hour is for a scheduled day that is none.            *)
NeverGuessesHoliday ==
  \A l \in submitted :
    /\ Jurisdiction[l.employee] = "AU-VIC"
    /\ \A n \in l.start .. l.end :
         /\ n \in 1 .. CoverageEnd[l.calendar]
         /\ l.calendar = "M3" => ~Candidate(n)
    /\ l.hours = l.authority.hours_per_day * Cardinality(
         {n \in l.start .. l.end : Weekday(n) \in l.authority.work_days /\ n \notin M3Holidays})

(* The conversation's preview never understates what will be taken.        *)
PreviewNeverUnderstates ==
  \A e \in Employee : call[e].pc # "idle" => CallHours(e) <= call[e].preview

(* Both calendars price the dates they both cover alike, so an upgrade     *)
(* between two calls changes no number the employee has seen.              *)
CalendarsAgree ==
  \A e \in Employee :
    LET r == call[e].range
    IN  call[e].pc # "idle" /\ Covered("V4", e, r) =>
          LeaveHours(pattern, "V4", e, r) = LeaveHours(pattern, "M3", e, r)

(* The snapshot that is hashed holds two sums read one after the other:    *)
(* it may contradict itself, but only to the employee's disadvantage.      *)
SnapshotNeverOverstates ==
  \A e \in Employee : call[e].pc = "prepared" =>
    call[e].effective <= Base - call[e].committed

(* What an employee is told a leave costs, and what it costs in the end,   *)
(* fit the dates, the calendars and the balance.                           *)
HoursAreRight ==
  /\ LeaveFits /\ NeverGuessesHoliday
  /\ PreviewNeverUnderstates /\ CalendarsAgree /\ SnapshotNeverOverstates

(* The fixture of the moment decides, however long ago an action was       *)
(* confirmed: leave is submitted only under the pattern it was priced by,  *)
(* and an action goes stale only because the fixture changed under it or   *)
(* because a worker not yet upgraded meets the new calendar.               *)
LiveAuthorityDecides ==
  [][/\ \A l \in submitted' \ submitted :
          l.authority = pattern /\ l.hours > 0 /\ l.hours <= Preview(pattern, l)
     /\ \A d \in confirmed \ confirmed' : Classify(d) = "STALE" =>
          d.authority # pattern \/ (worker = "V4" /\ d.calendar = "M3")]_vars
=============================================================================

-------------------------- MODULE WorkerProofs ----------------------------------
(***************************************************************************)
(* Proofs about two sides of the worker.                                   *)
(*                                                                         *)
(* LeaveAuthority, what its revalidation decides: for any employees,       *)
(* fixtures, balance and requests, with the calendars the program has.     *)
(* The arithmetic comes first: counts of days, and where the days of both  *)
(* calendars lie.                                                          *)
(*                                                                         *)
(* ConfirmedPoller, the loop it runs in: for any actions, workers, delays  *)
(* and faults.                                                             *)
(***************************************************************************)
EXTENDS LeaveAuthority, ConfirmedPoller, SumLemmas

-----------------------------------------------------------------------------
(* Counting days.                                                          *)

(* A range of days is finite, so its days can be counted.                  *)
LEMMA DaysAreFinite ==
  ASSUME NEW a \in Int, NEW b \in Int, NEW T \in SUBSET (a .. b)
  PROVE  IsFiniteSet(T) /\ Cardinality(T) \in Nat
BY FS_Interval, FS_Subset, FS_CardinalityType

(* Counting fewer days gives no larger number.                             *)
LEMMA FewerDays ==
  ASSUME NEW a \in Int, NEW b \in Int, NEW T \in SUBSET (a .. b), NEW U \in SUBSET T
  PROVE  Cardinality(U) <= Cardinality(T)
BY DaysAreFinite, FS_Subset

(* More days of the same length are no fewer hours.                        *)
LEMMA MoreHours ==
  ASSUME NEW k \in Nat, NEW n \in Nat, NEW h \in Nat, k <= n
  PROVE  k * h \in Nat /\ n * h \in Nat /\ k * h <= n * h
<1>1. PICK d \in Nat : n = k + d
  <2>1. n - k \in Nat /\ n = k + (n - k)
    OBVIOUS
  <2> QED
    BY <2>1
<1>2. k * h \in Nat /\ d * h \in Nat
  OBVIOUS
<1>3. n * h = k * h + d * h
  BY <1>1
<1> QED
  BY <1>2, <1>3

(* What leave costs is never more than the preview says.                   *)
LEMMA HoursBelowPreview ==
  ASSUME NEW p \in Pattern, NEW c, NEW e, NEW r, r.start \in Int, r.end \in Int
  PROVE  /\ LeaveHours(p, c, e, r) \in Nat /\ Preview(p, r) \in Nat
         /\ LeaveHours(p, c, e, r) <= Preview(p, r)
<1> DEFINE all == {n \in r.start .. r.end : Weekday(n) \in p.work_days}
           paid == {n \in r.start .. r.end : Weekday(n) \in p.work_days /\ n \notin Holidays(c, r)}
           k == IF Covered(c, e, r) THEN Cardinality(paid) ELSE 0
<1>1. Cardinality(all) \in Nat /\ Cardinality(paid) \in Nat /\ Cardinality(paid) <= Cardinality(all)
  <2>1. all \in SUBSET (r.start .. r.end) /\ paid \in SUBSET all /\ paid \in SUBSET (r.start .. r.end)
    OBVIOUS
  <2> HIDE DEF all, paid
  <2> QED
    BY <2>1, DaysAreFinite, FewerDays
<1>2. LeaveHours(p, c, e, r) = k * p.hours_per_day /\ Preview(p, r) = Cardinality(all) * p.hours_per_day
  BY DEF LeaveHours, ScheduledDays, Preview, PreviewDays
<1>3. k \in Nat /\ k <= Cardinality(all)
  BY <1>1
<1>4. p.hours_per_day \in Nat
  BY FixtureAssumption
<1> HIDE DEF k, all
<1> QED
  BY <1>1, <1>2, <1>3, <1>4, MoreHours

(* Only the dates of a request tell what it costs.                         *)
LEMMA SameDatesSameHours ==
  ASSUME NEW p, NEW c, NEW e, NEW r, NEW d, r.start = d.start, r.end = d.end
  PROVE  /\ Covered(c, e, r) <=> Covered(c, e, d)
         /\ LeaveHours(p, c, e, r) = LeaveHours(p, c, e, d)
BY DEF Covered, ContainsUnresolved, LeaveHours, ScheduledDays, Holidays

-----------------------------------------------------------------------------
(* Where the days lie.                                                     *)

(* The first day of a month of the year, counted from its first day.       *)
LEMMA MonthsStart == \A m \in 1 .. 12 : MonthStart[m] \in 0 .. 334
BY DEF MonthStart

(* The day numbers of the calendars are integers.                          *)
LEMMA DaysOfYear ==
  ASSUME NEW y \in {2026, 2027, 2028}, NEW m \in 1 .. 12, NEW d \in 1 .. 31
  PROVE  /\ Day(y, m, d) \in Int
         /\ y # 2026 => Day(y, m, d) > 365
<1>1. PICK k \in 0 .. 334 : k = MonthStart[m]
  BY MonthsStart
<1>2. PICK j \in {0, 1} : Day(y, m, d) = 365 * (y - 2026) + k + d + j
  BY <1>1 DEF Day
<1> QED
  BY <1>2

(* The last day each calendar covers: 2026-12-31 and 2028-12-31.           *)
LEMMA CoverageEnds == CoverageEnd["V4"] = 365 /\ CoverageEnd["M3"] = 1096
<1>1. Day(2026, 12, 31) = 365 /\ Day(2028, 12, 31) = 1096
  BY DEF Day, MonthStart
<1> QED
  BY <1>1 DEF CoverageEnd, Calendar

(* What the M3 calendar adds lies past the end of the V4 calendar.         *)
LEMMA LaterHolidays ==
  ASSUME NEW n \in M3Holidays, n <= 365
  PROVE  n \in V4Holidays
<1> DEFINE H27 == {<<1, 1>>, <<1, 26>>, <<3, 8>>, <<3, 26>>, <<3, 27>>, <<3, 28>>, <<3, 29>>,
              <<4, 25>>, <<6, 14>>, <<11, 2>>, <<12, 25>>, <<12, 26>>, <<12, 27>>, <<12, 28>>}
           H28 == {<<1, 1>>, <<1, 3>>, <<1, 26>>, <<3, 13>>, <<4, 14>>, <<4, 15>>, <<4, 16>>,
              <<4, 17>>, <<4, 25>>, <<6, 12>>, <<11, 7>>, <<12, 25>>, <<12, 26>>}
<1>1. M3Holidays = V4Holidays \cup Days(2027, H27) \cup Days(2028, H28)
  BY DEF M3Holidays, V4Holidays
<1>2. \A md \in H27 \cup H28 : md[1] \in 1 .. 12 /\ md[2] \in 1 .. 31
  OBVIOUS
<1> HIDE DEF H27, H28
<1>3. ASSUME NEW y \in {2027, 2028}, NEW md \in H27 \cup H28 PROVE Day(y, md[1], md[2]) > 365
  BY <1>2, DaysOfYear
<1>4. \A m \in Days(2027, H27) \cup Days(2028, H28) : m > 365 /\ m \in Int
  BY <1>2, <1>3, DaysOfYear DEF Days
<1> QED
  BY <1>1, <1>4

(* In the year both calendars cover they name the same holidays: replacing *)
(* v4 by m3 changes no day that a stored row was computed from.            *)
LEMMA SameHolidays ==
  ASSUME NEW n \in Int, n <= 365
  PROVE  n \in M3Holidays <=> n \in V4Holidays
<1>1. V4Holidays \subseteq M3Holidays
  BY DEF M3Holidays, V4Holidays
<1> QED
  BY <1>1, LaterHolidays

(* In that year m3 leaves no day unresolved, so it refuses nothing that v4 *)
(* computed.                                                               *)
LEMMA NothingUnresolvedBefore ==
  ASSUME NEW n \in Int, n <= 365
  PROVE  ~Candidate(n)
<1>1. \A y \in {2027, 2028} : Day(y, 9, 1) > 365 /\ Day(y, 9, 1) \in Int /\ Day(y, 10, 31) \in Int
  BY DaysOfYear
<1> QED
  BY <1>1 DEF Candidate

-----------------------------------------------------------------------------
(* The invariant.                                                          *)

CallFields == {"pc", "range", "calendar", "pattern", "preview", "committed", "effective"}

(* A call works for its employee on dates it has checked, and what it read *)
(* of the submitted leave can only have grown since.                       *)
CallHolds(e) ==
  LET c == call[e]
  IN  /\ DOMAIN c = CallFields /\ c.pc \in {"idle", "summed", "prepared"}
      /\ c.pc # "idle" =>
           /\ c.range \in Request /\ c.range.employee = e /\ ValidRange(c.range)
           /\ c.calendar \in Calendar /\ c.pattern \in Pattern
           /\ c.preview = Preview(c.pattern, c.range)
           /\ c.committed \in Int /\ c.committed <= Committed(e)
      /\ c.pc = "prepared" => c.effective \in Int /\ c.effective <= Base - c.committed

(* What was confirmed is priced by its own calendar and pattern.           *)
Priced(d) ==
  /\ d.employee \in Employee /\ d.calendar \in Calendar /\ d.authority \in Pattern
  /\ d.start \in Int /\ d.end \in Int /\ d.start <= d.end
  /\ Covered(d.calendar, d.employee, d)
  /\ d.hours = LeaveHours(d.authority, d.calendar, d.employee, d)
  /\ d.hours \in Nat /\ d.hours # 0

LeaveInvariant ==
  /\ pattern \in Pattern /\ api \in Calendar /\ worker \in Calendar
  /\ call = [e \in Employee |-> call[e]]
  /\ \A e \in Employee : CallHolds(e)
  /\ \A d \in confirmed \cup submitted : Priced(d)
  /\ IsFiniteSet(submitted)
  /\ LeaveFits

-----------------------------------------------------------------------------
(* Sums of submitted leave.                                                *)

(* committed_scheduled_hours is the sum over the employee's rows.          *)
LEMMA CommittedIsSum ==
  ASSUME NEW e
  PROVE  Committed(e) = SumFunctionOnSet([l \in Of(e) |-> l.hours], Of(e))
BY DEF Committed, SumFunction

(* That sum is a number: the rows are finitely many.                       *)
LEMMA CommittedType ==
  ASSUME LeaveInvariant, NEW e
  PROVE  IsFiniteSet(Of(e)) /\ Committed(e) \in Int
<1> DEFINE f == [l \in Of(e) |-> l.hours]
<1>1. IsFiniteSet(Of(e)) /\ \A l \in Of(e) : f[l] \in Int
  <2>1. Of(e) \subseteq submitted
    BY DEF Of
  <2> QED
    BY <2>1, FS_Subset DEF LeaveInvariant, Priced
<1>2. Committed(e) = SumFunctionOnSet(f, Of(e))
  BY CommittedIsSum
<1> HIDE DEF f
<1> QED
  BY <1>1, <1>2, SumInt

(* One more leave adds its hours to its employee's sum and to nobody       *)
(* else's.                                                                 *)
LEMMA CommittedGrows ==
  ASSUME LeaveInvariant, NEW d \in confirmed, submitted' = submitted \cup {d}, NEW e \in Employee
  PROVE  /\ IsFiniteSet(submitted')
         /\ Committed(e)' \in Int /\ Committed(e) <= Committed(e)'
         /\ d.employee # e \/ d \in submitted => Committed(e)' = Committed(e)
         /\ d.employee = e /\ d \notin submitted => Committed(e)' = Committed(e) + d.hours
<1> DEFINE f == [l \in Of(e) |-> l.hours]
           g == [l \in Of(e) \cup {d} |-> l.hours]
<1>1. IsFiniteSet(Of(e)) /\ Committed(e) \in Int
  BY CommittedType
<1>2. IsFiniteSet(submitted')
  BY FS_AddElement DEF LeaveInvariant
<1>3. d.hours \in Nat
  BY DEF LeaveInvariant, Priced
<1>4. CASE d.employee # e \/ d \in submitted
  <2>1. Of(e)' = Of(e)
    BY <1>4 DEF Of
  <2>2. Committed(e)' = Committed(e)
    BY <2>1 DEF Committed
  <2> QED
    BY <1>1, <1>2, <1>4, <2>2
<1>5. CASE d.employee = e /\ d \notin submitted
  <2>1. Of(e)' = Of(e) \cup {d} /\ d \notin Of(e)
    BY <1>5 DEF Of
  <2>2. Committed(e)' = SumFunctionOnSet(g, Of(e) \cup {d})
    BY <2>1 DEF Committed, SumFunction
  <2>3. Committed(e) = SumFunctionOnSet(f, Of(e))
    BY CommittedIsSum
  <2>4. /\ \A l \in Of(e) : f[l] \in Int /\ g[l] = f[l]
        /\ g[d] = d.hours
    BY DEF LeaveInvariant, Priced, Of
  <2> HIDE DEF f, g
  <2>5. \A l \in Of(e) : f[l] \in Int /\ g[l] = f[l]
    BY <2>4
  <2>6. g[d] \in Int /\ d \notin Of(e)
    BY <1>3, <2>1, <2>4
  <2>7. SumFunctionOnSet(g, Of(e) \cup {d}) = SumFunctionOnSet(f, Of(e)) + g[d]
    BY <1>1, <2>5, <2>6, SumAdd
  <2>8. Committed(e)' = Committed(e) + d.hours
    BY <2>2, <2>3, <2>4, <2>7
  <2> QED
    BY <1>1, <1>2, <1>3, <1>5, <2>8
<1> QED
  BY <1>4, <1>5

-----------------------------------------------------------------------------
(* The steps.                                                              *)

LEMMA LeaveInit == Init => LeaveInvariant
<1> SUFFICES ASSUME Init PROVE LeaveInvariant
  OBVIOUS
<1>1. /\ pattern \in Pattern /\ api \in Calendar /\ worker \in Calendar
      /\ call = [e \in Employee |-> Idle] /\ confirmed = {} /\ submitted = {}
  BY DEF Init, Calendar
<1>2. \A e \in Employee : CallHolds(e)
  BY <1>1 DEF CallHolds, Idle, CallFields
<1>3. ASSUME NEW e \in Employee PROVE Committed(e) <= Base /\ Of(e) = {}
  <2> DEFINE f == [l \in {} |-> l.hours]
  <2>1. Of(e) = {}
    BY <1>1 DEF Of
  <2>2. Committed(e) = SumFunctionOnSet(f, {})
    BY <2>1, CommittedIsSum
  <2> HIDE DEF f
  <2>3. SumFunctionOnSet(f, {}) = 0
    BY FS_EmptySet, SumFirst
  <2> QED
    BY <2>1, <2>2, <2>3, FixtureAssumption
<1>4. LeaveFits
  BY <1>3 DEF LeaveFits
<1>5. IsFiniteSet(submitted)
  BY <1>1, FS_EmptySet
<1> QED
  BY <1>1, <1>2, <1>4, <1>5 DEF LeaveInvariant

(* A step that submits nothing.                                            *)
LEMMA NothingSubmitted ==
  ASSUME LeaveInvariant, UNCHANGED submitted,
         pattern' \in Pattern, api' \in Calendar, worker' \in Calendar,
         call' = [e \in Employee |-> call'[e]],
         \A e \in Employee : call'[e] = call[e] \/ CallHolds(e)',
         \A d \in confirmed' : d \in confirmed \/ Priced(d)
  PROVE  LeaveInvariant'
<1>1. \A e : Of(e)' = Of(e) /\ Committed(e)' = Committed(e)
  BY DEF Of, Committed
<1>2. \A e \in Employee : CallHolds(e)'
  BY <1>1 DEF LeaveInvariant, CallHolds
<1>3. LeaveFits'
  BY <1>1 DEF LeaveInvariant, LeaveFits
<1>4. \A d \in confirmed' \cup submitted' : Priced(d)
  BY DEF LeaveInvariant
<1> QED
  BY <1>2, <1>3, <1>4 DEF LeaveInvariant, Priced

LEMMA StartHolds ==
  ASSUME LeaveInvariant, NEW e \in Employee, NEW r \in Request, StartPrepare(e, r)
  PROVE  LeaveInvariant'
<1> DEFINE c == [pc |-> "summed", range |-> r, calendar |-> api, pattern |-> pattern,
                 preview |-> Preview(pattern, r), committed |-> Committed(e), effective |-> 0]
<1>1. /\ r.employee = e /\ ValidRange(r) /\ call' = [call EXCEPT ![e] = c]
      /\ UNCHANGED <<pattern, api, worker, confirmed, submitted>>
  BY DEF StartPrepare
<1>2. /\ DOMAIN c = CallFields /\ c.pc = "summed" /\ c.range = r /\ c.calendar = api
      /\ c.pattern = pattern /\ c.preview = Preview(pattern, r) /\ c.committed = Committed(e)
  BY DEF CallFields
<1> HIDE DEF c
<1>3. Committed(e) \in Int /\ Committed(e)' = Committed(e)
  BY <1>1, CommittedType DEF Committed, Of
<1>4. call'[e] = c /\ \A x \in Employee : x # e => call'[x] = call[x]
  BY <1>1 DEF LeaveInvariant
<1>5. CallHolds(e)'
  BY <1>1, <1>2, <1>3, <1>4 DEF CallHolds, LeaveInvariant
<1>6. call' = [x \in Employee |-> call'[x]]
  BY <1>1 DEF LeaveInvariant
<1> QED
  BY <1>1, <1>4, <1>5, <1>6, NothingSubmitted DEF LeaveInvariant

LEMMA ReadHolds ==
  ASSUME LeaveInvariant, NEW e \in Employee, ReadEffective(e)
  PROVE  LeaveInvariant'
<1> DEFINE c == call[e]
           left == Base - Committed(e)
<1>1. /\ c.pc = "summed"
      /\ call' = [call EXCEPT ![e].pc = "prepared", ![e].effective = left]
      /\ UNCHANGED <<pattern, api, worker, confirmed, submitted>>
  BY DEF ReadEffective
<1>2. /\ CallHolds(e) /\ Committed(e) \in Int /\ Base \in Int /\ Committed(e)' = Committed(e)
      /\ call = [x \in Employee |-> call[x]]
  <2>1. CallHolds(e) /\ call = [x \in Employee |-> call[x]]
    BY DEF LeaveInvariant
  <2>2. Committed(e) \in Int
    BY CommittedType
  <2>3. Base \in Int
    BY FixtureAssumption
  <2>4. Committed(e)' = Committed(e)
    BY <1>1 DEF Committed, Of
  <2> QED
    BY <2>1, <2>2, <2>3, <2>4
<1>3. PICK b : b = left
  OBVIOUS
<1>4. PICK x : x = [call EXCEPT ![e].pc = "prepared"]
  OBVIOUS
<1>5. call' = [x EXCEPT ![e].effective = b]
  BY <1>1, <1>3, <1>4
<1>6. /\ DOMAIN x[e] = CallFields /\ x[e].pc = "prepared" /\ x[e].range = c.range
      /\ x[e].calendar = c.calendar /\ x[e].pattern = c.pattern /\ x[e].preview = c.preview
      /\ x[e].committed = c.committed
      /\ x = [y \in Employee |-> x[y]] /\ \A y \in Employee : y # e => x[y] = call[y]
  BY <1>2, <1>4 DEF CallHolds, CallFields
<1>7. /\ DOMAIN call'[e] = CallFields /\ call'[e].pc = "prepared" /\ call'[e].range = c.range
      /\ call'[e].calendar = c.calendar /\ call'[e].pattern = c.pattern
      /\ call'[e].preview = c.preview /\ call'[e].committed = c.committed
      /\ call'[e].effective = b
      /\ call' = [y \in Employee |-> call'[y]] /\ \A y \in Employee : y # e => call'[y] = call[y]
  BY <1>5, <1>6 DEF CallFields
<1>8. b \in Int /\ b <= Base - c.committed
  BY <1>1, <1>2, <1>3 DEF CallHolds
<1>9. CallHolds(e)'
  BY <1>1, <1>2, <1>7, <1>8 DEF CallHolds
<1> QED
  BY <1>1, <1>7, <1>9, NothingSubmitted DEF LeaveInvariant

(* What a call creates is priced.                                          *)
LEMMA CreateHolds ==
  ASSUME LeaveInvariant, NEW e \in Employee, Create(e)
  PROVE  LeaveInvariant'
<1> DEFINE c == call[e]
           eligible == Eligibility(c.calendar, e, c.range, CallHours(e), c.effective) = "created"
<1>1. /\ c.pc = "prepared" /\ call' = [call EXCEPT ![e] = Idle]
      /\ UNCHANGED <<pattern, api, worker, submitted>>
      /\ confirmed' = confirmed \/ (eligible /\ confirmed' = confirmed \cup {Draft(e)})
  BY DEF Create
<1>2. /\ c.range \in Request /\ c.range.employee = e /\ ValidRange(c.range)
      /\ c.calendar \in Calendar /\ c.pattern \in Pattern
      /\ call = [x \in Employee |-> call[x]]
  BY <1>1 DEF LeaveInvariant, CallHolds
<1>3. ASSUME eligible PROVE Priced(Draft(e))
  <2>1. PICK d : d = Draft(e)
    OBVIOUS
  <2>2. /\ d.employee = e /\ d.calendar = c.calendar /\ d.start = c.range.start
        /\ d.end = c.range.end /\ d.authority = c.pattern
        /\ d.hours = LeaveHours(c.pattern, c.calendar, e, c.range)
    BY <2>1 DEF Draft, CallHours
  <2>3. Covered(c.calendar, e, c.range) /\ d.hours # 0
    BY <1>3, <2>2 DEF Eligibility, CallHours
  <2>4. /\ c.range.start \in Int /\ c.range.end \in Int /\ c.range.start <= c.range.end
    BY <1>2, DatesAssumption DEF ValidRange
  <2>5. d.hours \in Nat
    BY <1>2, <2>2, <2>4, HoursBelowPreview
  <2>6. Covered(d.calendar, d.employee, d)
        /\ d.hours = LeaveHours(d.authority, d.calendar, d.employee, d)
    BY <2>2, <2>3, SameDatesSameHours
  <2>7. Priced(d)
    BY <1>2, <2>2, <2>3, <2>4, <2>5, <2>6 DEF Priced
  <2> QED
    BY <2>1, <2>7
<1>4. call'[e] = Idle /\ \A x \in Employee : x # e => call'[x] = call[x]
  BY <1>1, <1>2
<1>5. CallHolds(e)'
  BY <1>4 DEF CallHolds, Idle, CallFields
<1>6. call' = [x \in Employee |-> call'[x]]
  BY <1>1, <1>2
<1>7. \A d \in confirmed' : d \in confirmed \/ Priced(d)
  BY <1>1, <1>3
<1> QED
  BY <1>1, <1>4, <1>5, <1>6, <1>7, NothingSubmitted DEF LeaveInvariant

(* What the worker submits fits into the balance and the days that are     *)
(* left.                                                                   *)
LEMMA ExecuteHolds ==
  ASSUME LeaveInvariant, NEW d \in confirmed, Execute(d)
  PROVE  LeaveInvariant'
<1>1. UNCHANGED <<pattern, api, worker, call>> /\ confirmed' = confirmed \ {d}
  BY DEF Execute
<1>2. CASE Classify(d) # "SUCCEEDED"
  <2>1. submitted' = submitted
    BY <1>2 DEF Execute
  <2> QED
    BY <1>1, <2>1, NothingSubmitted DEF LeaveInvariant
<1>3. CASE Classify(d) = "SUCCEEDED"
  <2>1. submitted' = submitted \cup {d}
    BY <1>3 DEF Execute
  <2>2. d.hours <= Base - Committed(d.employee)
    <3>1. ~(d.hours > Base - Committed(d.employee))
      BY <1>3 DEF Classify
    <3>2. d.hours \in Int /\ Base \in Int /\ Committed(d.employee) \in Int
      BY CommittedType, FixtureAssumption DEF LeaveInvariant, Priced
    <3> QED
      BY <3>1, <3>2
  <2>3. \A l \in Of(d.employee) : ~DateRangesOverlap(l, d)
    BY <1>3 DEF Classify
  <2>4. Priced(d) /\ \A l \in submitted : Priced(l)
    BY DEF LeaveInvariant
  <2>5. ASSUME NEW e \in Employee PROVE CallHolds(e)'
    <3>1. CallHolds(e) /\ call'[e] = call[e]
      BY <1>1 DEF LeaveInvariant
    <3>2. Committed(e) \in Int /\ Committed(e)' \in Int /\ Committed(e) <= Committed(e)'
      BY <2>1, CommittedGrows, CommittedType
    <3> QED
      BY <3>1, <3>2 DEF CallHolds
  <2>6. ASSUME NEW e \in Employee PROVE Committed(e)' <= Base
    <3>1. Committed(e) \in Int /\ Base \in Int /\ Committed(e) <= Base
      BY CommittedType, FixtureAssumption DEF LeaveInvariant, LeaveFits
    <3>2. CASE d.employee # e \/ d \in submitted
      BY <2>1, <3>1, <3>2, CommittedGrows
    <3>3. CASE d.employee = e /\ d \notin submitted
      <4>1. Committed(e)' = Committed(e) + d.hours
        BY <2>1, <3>3, CommittedGrows
      <4>2. d.hours \in Int /\ d.hours <= Base - Committed(e)
        BY <2>2, <2>4, <3>3 DEF Priced
      <4> QED
        BY <3>1, <4>1, <4>2
    <3> QED
      BY <3>2, <3>3
  <2>7. ASSUME NEW e \in Employee, NEW l \in Of(e)', NEW m \in Of(e)', l # m
        PROVE  (l.start .. l.end) \cap (m.start .. m.end) = {}
    <3>1. CASE l \in Of(e) /\ m \in Of(e)
      BY <2>7, <3>1 DEF LeaveInvariant, LeaveFits
    <3>2. CASE l = d /\ m \in Of(e)
      <4>1. d.employee = e /\ m \in submitted
        BY <3>2 DEF Of
      <4>2. ~(m.start <= d.end /\ d.start <= m.end)
        BY <2>3, <3>2, <4>1 DEF DateRangesOverlap
      <4>3. d.start \in Int /\ d.end \in Int /\ m.start \in Int /\ m.end \in Int
        BY <2>4, <4>1 DEF Priced
      <4> QED
        BY <3>2, <4>2, <4>3
    <3>3. CASE m = d /\ l \in Of(e)
      <4>1. d.employee = e /\ l \in submitted
        BY <3>3 DEF Of
      <4>2. ~(l.start <= d.end /\ d.start <= l.end)
        BY <2>3, <3>3, <4>1 DEF DateRangesOverlap
      <4>3. d.start \in Int /\ d.end \in Int /\ l.start \in Int /\ l.end \in Int
        BY <2>4, <4>1 DEF Priced
      <4> QED
        BY <3>3, <4>2, <4>3
    <3>4. l \in Of(e) \/ l = d
      BY <2>1 DEF Of
    <3>5. m \in Of(e) \/ m = d
      BY <2>1 DEF Of
    <3> QED
      BY <2>7, <3>1, <3>2, <3>3, <3>4, <3>5
  <2>8. LeaveFits'
    BY <2>6, <2>7 DEF LeaveFits
  <2>9. IsFiniteSet(submitted')
    BY <2>1, FS_AddElement DEF LeaveInvariant
  <2>10. \A x \in confirmed' \cup submitted' : Priced(x)
    BY <1>1, <2>1 DEF LeaveInvariant
  <2>11. /\ pattern' \in Pattern /\ api' \in Calendar /\ worker' \in Calendar
         /\ call' = [e \in Employee |-> call'[e]]
    BY <1>1 DEF LeaveInvariant
  <2> QED
    BY <2>5, <2>8, <2>9, <2>10, <2>11 DEF LeaveInvariant, Priced
<1> QED
  BY <1>2, <1>3

(* The invariant is inductive.                                             *)
LEMMA LeaveInductive == LeaveInvariant /\ [Next]_vars => LeaveInvariant'
<1> SUFFICES ASSUME LeaveInvariant, [Next]_vars PROVE LeaveInvariant'
  OBVIOUS
<1>1. ASSUME NEW e \in Employee, NEW r \in Request, StartPrepare(e, r) PROVE LeaveInvariant'
  BY <1>1, StartHolds
<1>2. ASSUME NEW e \in Employee, ReadEffective(e) PROVE LeaveInvariant'
  BY <1>2, ReadHolds
<1>3. ASSUME NEW e \in Employee, Create(e) PROVE LeaveInvariant'
  BY <1>3, CreateHolds
<1>4. ASSUME NEW d \in confirmed, Execute(d) PROVE LeaveInvariant'
  BY <1>4, ExecuteHolds
<1>5. CASE UpgradeApi
  BY <1>5, NothingSubmitted DEF UpgradeApi, LeaveInvariant, Calendar
<1>6. CASE UpgradeWorker
  BY <1>6, NothingSubmitted DEF UpgradeWorker, LeaveInvariant, Calendar
<1>7. ASSUME NEW p \in Pattern, ChangeFixture(p) PROVE LeaveInvariant'
  BY <1>7, NothingSubmitted DEF ChangeFixture, LeaveInvariant
<1>8. CASE UNCHANGED vars
  BY <1>8, NothingSubmitted DEF vars, LeaveInvariant
<1> QED
  BY <1>1, <1>2, <1>3, <1>4, <1>5, <1>6, <1>7, <1>8 DEF Next

(* In every reachable state the calls work on checked dates, what is       *)
(* confirmed or submitted is priced by its own calendar and pattern, and   *)
(* an employee's leave fits the balance and claims no day twice.           *)
THEOREM LeaveHolds == Spec => []LeaveInvariant
BY LeaveInit, LeaveInductive, PTL DEF Spec

-----------------------------------------------------------------------------
(* What the hours mean.                                                    *)

(* A covered range lies inside its calendar and holds no day whose status  *)
(* is not known; its scheduled days are the same in both calendars.        *)
LEMMA CoveredDays ==
  ASSUME NEW c \in Calendar, NEW e, NEW r, r.start \in Int, r.end \in Int, Covered(c, e, r),
         NEW n \in r.start .. r.end
  PROVE  /\ Jurisdiction[e] = "AU-VIC"
         /\ n \in 1 .. CoverageEnd[c]
         /\ c = "M3" => ~Candidate(n)
         /\ n \in Holidays(c, r) <=> n \in M3Holidays
<1>1. CoverageEnd[c] \in Int /\ (c = "V4" => CoverageEnd[c] = 365)
  BY CoverageEnds DEF Calendar
<1>2. /\ 1 <= r.start /\ r.end <= CoverageEnd[c] /\ Jurisdiction[e] = "AU-VIC"
      /\ c = "M3" => ~Candidate(n)
  BY DEF Covered, Inside, ContainsUnresolved
<1>3. n \in Int /\ n \in 1 .. CoverageEnd[c]
  BY <1>1, <1>2
<1>4. c = "V4" => (n \in V4Holidays <=> n \in M3Holidays)
  BY <1>1, <1>3, SameHolidays
<1>5. r.start <= n /\ n <= r.end
  OBVIOUS
<1>6. n \in Holidays(c, r) <=> n \in (IF c = "V4" THEN V4Holidays ELSE M3Holidays)
  BY <1>5 DEF Holidays
<1> QED
  BY <1>2, <1>3, <1>4, <1>6

(* The hours of a range a calendar covers are those of the full list of    *)
(* holidays, so they do not depend on the calendar.                        *)
LEMMA CoveredHours ==
  ASSUME NEW p \in Pattern, NEW c \in Calendar, NEW e, NEW r, r.start \in Int, r.end \in Int,
         Covered(c, e, r)
  PROVE  LeaveHours(p, c, e, r) = p.hours_per_day * Cardinality(
           {n \in r.start .. r.end : Weekday(n) \in p.work_days /\ n \notin M3Holidays})
<1> DEFINE A == {n \in r.start .. r.end : Weekday(n) \in p.work_days /\ n \notin M3Holidays}
           B == {n \in r.start .. r.end : Weekday(n) \in p.work_days /\ n \notin Holidays(c, r)}
<1>1. A = B
  BY CoveredDays
<1>2. Cardinality(A) \in Nat
  <2>1. A \in SUBSET (r.start .. r.end)
    OBVIOUS
  <2> HIDE DEF A
  <2> QED
    BY <2>1, DaysAreFinite
<1>3. LeaveHours(p, c, e, r) = Cardinality(B) * p.hours_per_day
  BY DEF LeaveHours, ScheduledDays
<1>4. p.hours_per_day \in Nat
  BY FixtureAssumption
<1> HIDE DEF A, B
<1>5. Cardinality(A) * p.hours_per_day = p.hours_per_day * Cardinality(A)
  BY <1>2, <1>4
<1> QED
  BY <1>1, <1>3, <1>5 DEF A

(* Dates that both calendars cover cost the same in both.                  *)
LEMMA BothCalendars ==
  ASSUME NEW p \in Pattern, NEW e, NEW r, r.start \in Int, r.end \in Int, r.start <= r.end,
         Covered("V4", e, r)
  PROVE  LeaveHours(p, "V4", e, r) = LeaveHours(p, "M3", e, r)
<1>1. "V4" \in Calendar /\ "M3" \in Calendar
  BY DEF Calendar
<1>2. /\ Jurisdiction[e] = "AU-VIC"
      /\ 1 <= r.start /\ r.start <= 365 /\ 1 <= r.end /\ r.end <= 365
  BY CoverageEnds DEF Covered, Inside
<1>3. Inside("M3", r.start) /\ Inside("M3", r.end)
  BY <1>2, CoverageEnds DEF Inside
<1>4. ~ContainsUnresolved(r)
  <2>1. \A n \in r.start .. r.end : n \in Int /\ n <= 365
    BY <1>2
  <2> QED
    BY <2>1, NothingUnresolvedBefore DEF ContainsUnresolved
<1>5. Covered("M3", e, r)
  BY <1>2, <1>3, <1>4 DEF Covered
<1> DEFINE Hours ==
      p.hours_per_day * Cardinality(
        {n \in r.start .. r.end : Weekday(n) \in p.work_days /\ n \notin M3Holidays})
<1>6. LeaveHours(p, "V4", e, r) = Hours
  BY <1>1, CoveredHours
<1>7. LeaveHours(p, "M3", e, r) = Hours
  BY <1>1, <1>5, CoveredHours
<1> HIDE DEF Hours
<1> QED
  BY <1>6, <1>7

(* Hours are right: leave fits the balance and the days, no day whose      *)
(* status is unknown is guessed, previews do not understate, calendars     *)
(* agree where they overlap, and a torn snapshot never overstates.         *)
THEOREM HoursStayRight == Spec => []HoursAreRight
<1>1. ASSUME LeaveInvariant PROVE HoursAreRight
  <2>1. LeaveFits
    BY <1>1 DEF LeaveInvariant
  <2>2. NeverGuessesHoliday
    <3> SUFFICES ASSUME NEW l \in submitted
                 PROVE /\ Jurisdiction[l.employee] = "AU-VIC"
                       /\ \A n \in l.start .. l.end :
                            n \in 1 .. CoverageEnd[l.calendar] /\ (l.calendar = "M3" => ~Candidate(n))
                       /\ l.hours = l.authority.hours_per_day * Cardinality(
                            {n \in l.start .. l.end :
                               Weekday(n) \in l.authority.work_days /\ n \notin M3Holidays})
      BY DEF NeverGuessesHoliday
    <3>1. Priced(l)
      BY <1>1 DEF LeaveInvariant
    <3>2. /\ l.calendar \in Calendar /\ l.authority \in Pattern
          /\ l.start \in Int /\ l.end \in Int
          /\ Covered(l.calendar, l.employee, l)
          /\ l.hours = LeaveHours(l.authority, l.calendar, l.employee, l)
      BY <3>1 DEF Priced
    <3>3. Jurisdiction[l.employee] = "AU-VIC"
      BY <3>2 DEF Covered
    <3> QED
      BY <3>2, <3>3, CoveredDays, CoveredHours
  <2>3. PreviewNeverUnderstates
    <3> SUFFICES ASSUME NEW e \in Employee, call[e].pc # "idle"
                 PROVE CallHours(e) <= call[e].preview
      BY DEF PreviewNeverUnderstates
    <3>1. /\ call[e].range \in Request /\ call[e].pattern \in Pattern
          /\ call[e].preview = Preview(call[e].pattern, call[e].range)
      BY <1>1 DEF LeaveInvariant, CallHolds
    <3>2. call[e].range.start \in Int /\ call[e].range.end \in Int
      BY <3>1, DatesAssumption
    <3> QED
      BY <3>1, <3>2, HoursBelowPreview DEF CallHours
  <2>4. CalendarsAgree
    <3> SUFFICES ASSUME NEW e \in Employee, call[e].pc # "idle", Covered("V4", e, call[e].range)
                 PROVE  LeaveHours(pattern, "V4", e, call[e].range)
                          = LeaveHours(pattern, "M3", e, call[e].range)
      BY DEF CalendarsAgree
    <3>1. call[e].range \in Request /\ ValidRange(call[e].range) /\ pattern \in Pattern
      BY <1>1 DEF LeaveInvariant, CallHolds
    <3>2. /\ call[e].range.start \in Int /\ call[e].range.end \in Int
          /\ call[e].range.start <= call[e].range.end
      BY <3>1, DatesAssumption DEF ValidRange
    <3> QED
      BY <3>1, <3>2, BothCalendars
  <2>5. SnapshotNeverOverstates
    BY <1>1 DEF SnapshotNeverOverstates, LeaveInvariant, CallHolds
  <2> QED
    BY <2>1, <2>2, <2>3, <2>4, <2>5 DEF HoursAreRight
<1> QED
  BY <1>1, LeaveHolds, PTL

(* The fixture of the moment decides: leave is submitted only under the    *)
(* pattern it was priced by, for some hours and for no more than the       *)
(* preview would say now, and an action goes stale only because the        *)
(* fixture changed or the worker is behind.                                *)
THEOREM AuthorityIsLive == Spec => LiveAuthorityDecides
<1> DEFINE Decided ==
      /\ \A l \in submitted' \ submitted :
           l.authority = pattern /\ l.hours > 0 /\ l.hours <= Preview(pattern, l)
      /\ \A d \in confirmed \ confirmed' : Classify(d) = "STALE" =>
           d.authority # pattern \/ (worker = "V4" /\ d.calendar = "M3")
<1>1. ASSUME LeaveInvariant, [Next]_vars PROVE [Decided]_vars
  <2>1. ASSUME NEW d \in confirmed, Execute(d) PROVE Decided
    <3>1. Priced(d) /\ pattern \in Pattern /\ worker \in Calendar
      BY <1>1 DEF LeaveInvariant
    <3>2. /\ d.start \in Int /\ d.end \in Int /\ d.authority \in Pattern /\ d.calendar \in Calendar
          /\ d.hours = LeaveHours(d.authority, d.calendar, d.employee, d)
          /\ d.hours \in Nat /\ d.hours # 0
      BY <3>1 DEF Priced
    <3>3. ASSUME Classify(d) = "SUCCEEDED"
          PROVE  d.authority = pattern /\ d.hours > 0 /\ d.hours <= Preview(pattern, d)
      <4>1. d.authority = pattern /\ d.hours = LeaveHours(pattern, d.calendar, d.employee, d)
        BY <3>3 DEF Classify, AuthorityChanged
      <4>2. /\ LeaveHours(pattern, d.calendar, d.employee, d) <= Preview(pattern, d)
        BY <3>1, <3>2, HoursBelowPreview
      <4> QED
        BY <3>2, <4>1, <4>2
    <3>4. \A l \in submitted' \ submitted : l = d /\ Classify(d) = "SUCCEEDED"
      BY <2>1 DEF Execute
    <3>5. \A x \in confirmed \ confirmed' : x = d
      BY <2>1 DEF Execute
    <3>6. Classify(d) = "STALE" => d.authority # pattern \/ (worker = "V4" /\ d.calendar = "M3")
      <4>1. Classify(d) = "STALE" => ~KnowsCalendar(d) \/ AuthorityChanged(d)
        BY DEF Classify
      <4>2. ~KnowsCalendar(d) => worker = "V4" /\ d.calendar = "M3"
        BY <3>1, <3>2 DEF KnowsCalendar, Calendar
      <4>3. AuthorityChanged(d) => d.authority # pattern
        BY <3>2 DEF AuthorityChanged
      <4> QED
        BY <4>1, <4>2, <4>3
    <3> QED
      BY <3>3, <3>4, <3>5, <3>6
  <2>2. ASSUME UNCHANGED submitted, confirmed \subseteq confirmed' PROVE Decided
    BY <2>2
  <2> HIDE DEF Decided
  <2>3. ASSUME NEW e \in Employee, NEW r \in Request, StartPrepare(e, r) PROVE Decided
    BY <2>2, <2>3 DEF StartPrepare
  <2>4. ASSUME NEW e \in Employee, ReadEffective(e) \/ Create(e) PROVE Decided
    BY <2>2, <2>4 DEF ReadEffective, Create
  <2>5. CASE UpgradeApi \/ UpgradeWorker
    BY <2>2, <2>5 DEF UpgradeApi, UpgradeWorker
  <2>6. ASSUME NEW p \in Pattern, ChangeFixture(p) PROVE Decided
    BY <2>2, <2>6 DEF ChangeFixture
  <2> QED
    BY <1>1, <2>1, <2>3, <2>4, <2>5, <2>6 DEF Next
<1>2. LeaveInvariant /\ [Next]_vars => [Decided]_vars
  BY <1>1
<1> QED
  BY <1>2, LeaveHolds, PTL DEF Spec, LiveAuthorityDecides

-----------------------------------------------------------------------------
(* The poller.  A worker that has an action locked is the only one that    *)
(* decides it, and the rows it counts on stay: an uncommitted insert keeps *)
(* foreign rows out, and an equivalent row is never replaced.              *)

PollSteps == Open \cup {"idle", "conflict", "observing"}

(* What a worker is about to do with its action still makes sense.         *)
Carries(w) ==
  /\ step[w] \in PollSteps
  /\ step[w] # "idle" => job[w] \in Action
  /\ step[w] \in Open => holder[job[w]] = w /\ state[job[w]] = "CONFIRMED"
  /\ step[w] = "inserted" => row[job[w]] = "none"
  /\ step[w] \in {"decided", "in_doubt"} => to[w] \in Terminal
  /\ step[w] = "decided" /\ to[w] = "SUCCEEDED" => row[job[w]] = "equivalent"
  /\ step[w] = "in_doubt" /\ to[w] = "SUCCEEDED" => row[job[w]] \in {"none", "equivalent"}

Tables ==
  /\ state = [a \in Action |-> state[a]]
  /\ row = [a \in Action |-> row[a]]
  /\ holder = [a \in Action |-> holder[a]]
  /\ step = [w \in Worker |-> step[w]]
  /\ job = [w \in Worker |-> job[w]]
  /\ to = [w \in Worker |-> to[w]]
  /\ report = [w \in Worker |-> report[w]]

(* Who holds a lock is at work on that action.                             *)
LocksAreUsed ==
  \A a \in Action : holder[a] # Nobody =>
    /\ holder[a] \in Worker
    /\ job[holder[a]] = a /\ step[holder[a]] \in Open

ReportIsReal(w) ==
  report[w].outcome \in Terminal =>
    report[w].action \in Action /\ state[report[w].action] = report[w].outcome

RowFits(a) ==
  /\ row[a] \in {"none", "equivalent", "other"}
  /\ state[a] = "SUCCEEDED" => row[a] = "equivalent"

PollerInvariant ==
  /\ Tables
  /\ LocksAreUsed
  /\ \A w \in Worker : Carries(w)
  /\ \A w \in Worker : ReportIsReal(w)
  /\ \A a \in Action : RowFits(a)

-----------------------------------------------------------------------------
(* What the proofs use of the constants.                                   *)
LEMMA ConstantsFit == Nobody \notin Worker /\ Cancellable \subseteq Action
BY NobodyAssumption, CancellableAssumption

LEMMA PollerInit ==
  ASSUME PollInit
  PROVE  PollerInvariant
<1>1. Tables /\ LocksAreUsed
  BY DEF PollInit, Tables, LocksAreUsed
<1>2. \A w \in Worker : Carries(w) /\ ReportIsReal(w)
  BY DEF PollInit, Carries, ReportIsReal, PollSteps, Open, Terminal,
         NoReport
<1>3. \A a \in Action : RowFits(a)
  BY DEF PollInit, RowFits
<1> QED
  BY <1>1, <1>2, <1>3 DEF PollerInvariant

(* What a worker may do to the lock and the rows of an action.             *)
LockMoves(w, a) ==
  \/ holder'[a] = holder[a]
  \/ holder[a] = w /\ holder'[a] = Nobody
  \/ holder[a] = Nobody /\ holder'[a] = w

RowMoves(w, a) ==
  \/ state'[a] = state[a] /\ row'[a] = row[a]
  \/ /\ state[a] = "CONFIRMED" /\ holder[a] \in {w, Nobody}
     /\ state'[a] \in Terminal
     /\ row'[a] = row[a] \/ (row[a] = "none" /\ row'[a] = "equivalent")
     /\ state'[a] = "SUCCEEDED" => row'[a] = "equivalent"

(* Such a step of one worker disturbs no other.                            *)
LEMMA OneWorkerMoves ==
  ASSUME PollerInvariant, NEW w \in Worker, Tables',
         \A v \in Worker : v # w =>
           step'[v] = step[v] /\ job'[v] = job[v] /\ to'[v] = to[v] /\ report'[v] = report[v],
         \A a \in Action : LockMoves(w, a) /\ RowMoves(w, a),
         \A a \in Action : holder'[a] = w => job'[w] = a /\ step'[w] \in Open,
         Carries(w)', ReportIsReal(w)'
  PROVE  PollerInvariant'
<1>1. LocksAreUsed'
  <2> SUFFICES ASSUME NEW a \in Action, holder'[a] # Nobody
               PROVE  /\ holder'[a] \in Worker /\ job'[holder'[a]] = a
                      /\ step'[holder'[a]] \in Open
    BY DEF LocksAreUsed
  <2>1. CASE holder'[a] = w
    BY <2>1
  <2>2. CASE holder'[a] # w
    <3>1. holder'[a] = holder[a]
      BY <2>2 DEF LockMoves
    <3>2. holder[a] \in Worker /\ job[holder[a]] = a /\ step[holder[a]] \in Open
      BY <3>1 DEF PollerInvariant, LocksAreUsed
    <3> QED
      BY <2>2, <3>1, <3>2
  <2> QED
    BY <2>1, <2>2
<1>2. ASSUME NEW v \in Worker, v # w PROVE Carries(v)'
  <2>1. /\ Carries(v)
        /\ step'[v] = step[v] /\ job'[v] = job[v] /\ to'[v] = to[v]
    BY <1>2 DEF PollerInvariant
  <2>2. CASE step[v] \notin Open
    BY <2>1, <2>2 DEF Carries, Open
  <2>3. CASE step[v] \in Open
    <3>1. job[v] \in Action /\ holder[job[v]] = v /\ v # Nobody
      BY <2>1, <2>3, ConstantsFit DEF Carries, Open
    <3>2. holder'[job[v]] = v
      BY <1>2, <3>1 DEF LockMoves
    <3>3. state'[job[v]] = state[job[v]] /\ row'[job[v]] = row[job[v]]
      BY <1>2, <3>1 DEF RowMoves
    <3> QED
      BY <2>1, <2>3, <3>1, <3>2, <3>3 DEF Carries
  <2> QED
    BY <2>2, <2>3
<1>3. ASSUME NEW v \in Worker, v # w PROVE ReportIsReal(v)'
  <2>1. ReportIsReal(v) /\ report'[v] = report[v]
    BY <1>3 DEF PollerInvariant
  <2>2. SUFFICES ASSUME report[v].outcome \in Terminal
                 PROVE  report[v].action \in Action /\ state'[report[v].action] = report[v].outcome
    BY <2>1 DEF ReportIsReal
  <2>3. report[v].action \in Action /\ state[report[v].action] = report[v].outcome
    BY <2>1, <2>2 DEF ReportIsReal
  <2>4. state[report[v].action] # "CONFIRMED"
    BY <2>2, <2>3 DEF Terminal
  <2> QED
    BY <2>3, <2>4 DEF RowMoves
<1>4. \A a \in Action : RowFits(a)'
  <2> TAKE a \in Action
  <2>1. RowFits(a) /\ RowMoves(w, a)
    BY DEF PollerInvariant
  <2> QED
    BY <2>1 DEF RowMoves, RowFits
<1> QED
  BY <1>1, <1>2, <1>3, <1>4 DEF PollerInvariant

(* Nobody has an action in hand that no worker has locked, and whoever has *)
(* one locked is alone with it.                                            *)
LEMMA LockedByOne ==
  ASSUME PollerInvariant, NEW w \in Worker, step[w] \in Open
  PROVE  /\ w # Nobody /\ job[w] \in Action
         /\ holder[job[w]] = w /\ state[job[w]] = "CONFIRMED"
         /\ \A a \in Action : holder[a] = w => a = job[w]
BY ConstantsFit DEF PollerInvariant, Carries, LocksAreUsed, Open

(* A worker that goes on with its action touches no row.                   *)
LEMMA WorkerGoesOn ==
  ASSUME PollerInvariant, NEW w \in Worker, UNCHANGED <<state, row, holder, job, report>>,
         NEW s \in Open, NEW t, step[w] \in Open,
         step' = [step EXCEPT ![w] = s], to' = [to EXCEPT ![w] = t],
         s = "inserted" => row[job[w]] = "none",
         s \in {"decided", "in_doubt"} => t \in Terminal,
         s = "decided" /\ t = "SUCCEEDED" => row[job[w]] = "equivalent",
         s = "in_doubt" /\ t = "SUCCEEDED" => row[job[w]] \in {"none", "equivalent"}
  PROVE  PollerInvariant'
<1>1. Tables' /\ step'[w] = s /\ to'[w] = t
      /\ \A v \in Worker : v # w => step'[v] = step[v] /\ to'[v] = to[v]
  BY DEF PollerInvariant, Tables
<1>2. Carries(w)'
  BY <1>1, LockedByOne DEF Carries, PollSteps
<1>3. ReportIsReal(w)'
  BY DEF PollerInvariant, ReportIsReal
<1>4. \A a \in Action : LockMoves(w, a) /\ RowMoves(w, a)
  BY DEF LockMoves, RowMoves
<1>5. \A a \in Action : holder'[a] = w => job'[w] = a /\ step'[w] \in Open
  BY <1>1, LockedByOne
<1> QED
  BY <1>1, <1>2, <1>3, <1>4, <1>5, OneWorkerMoves

(* A worker that returns and gives up whatever it had locked.              *)
LEMMA WorkerReturns ==
  ASSUME PollerInvariant, NEW w \in Worker, NEW a, NEW outcome, Return(w, a, outcome),
         state' = [b \in Action |-> state'[b]], row' = [b \in Action |-> row'[b]],
         Unlock(w) \/ (holder' = holder /\ step[w] \notin Open),
         \A b \in Action : RowMoves(w, b),
         outcome \in Terminal => a \in Action /\ state'[a] = outcome
  PROVE  PollerInvariant'
<1>1. /\ Tables' /\ step'[w] = "idle"
      /\ report'[w] = [action |-> a, outcome |-> outcome]
      /\ \A v \in Worker : v # w =>
           step'[v] = step[v] /\ job'[v] = job[v] /\ to'[v] = to[v] /\ report'[v] = report[v]
  BY DEF Return, Unlock, PollerInvariant, Tables
<1>2. \A b \in Action : LockMoves(w, b) /\ holder'[b] # w
  <2>1. w # Nobody
    BY ConstantsFit
  <2>2. CASE Unlock(w)
    BY <2>1, <2>2 DEF Unlock, LockMoves
  <2>3. CASE holder' = holder /\ step[w] \notin Open
    <3>1. \A b \in Action : holder[b] # w
      BY <2>1, <2>3 DEF PollerInvariant, LocksAreUsed
    <3> QED
      BY <2>3, <3>1 DEF LockMoves
  <2> QED
    BY <2>2, <2>3
<1>3. Carries(w)'
  BY <1>1 DEF Carries, PollSteps, Open
<1>4. ReportIsReal(w)'
  BY <1>1 DEF ReportIsReal
<1> QED
  BY <1>1, <1>2, <1>3, <1>4, OneWorkerMoves

(* A step that leaves the tables alone keeps what each row promises the    *)
(* workers.                                                                *)
LEMMA NothingTouched ==
  ASSUME PollerInvariant, NEW w, UNCHANGED <<state, row>>
  PROVE  /\ state' = [b \in Action |-> state'[b]] /\ row' = [b \in Action |-> row'[b]]
         /\ \A b \in Action : RowMoves(w, b)
BY DEF RowMoves, PollerInvariant, Tables

(* What Apply does when the worker may decide the action.                  *)
LEMMA Applied ==
  ASSUME PollerInvariant, NEW w \in Worker,
         NEW outcome \in Terminal, NEW inserted \in BOOLEAN,
         Apply(w, outcome, inserted), job[w] \in Action,
         state[job[w]] = "CONFIRMED", holder[job[w]] \in {w, Nobody},
         inserted => row[job[w]] = "none",
         outcome = "SUCCEEDED" => inserted \/ row[job[w]] = "equivalent"
  PROVE  /\ state' = [b \in Action |-> state'[b]] /\ row' = [b \in Action |-> row'[b]]
         /\ \A b \in Action : RowMoves(w, b)
         /\ state'[job[w]] = outcome
<1>1. PICK a \in Action : a = job[w]
  OBVIOUS
<1>2. /\ state' = [state EXCEPT ![a] = outcome]
      /\ row' = IF inserted THEN [row EXCEPT ![a] = "equivalent"] ELSE row
  BY <1>1 DEF Apply
<1>3. state = [b \in Action |-> state[b]] /\ row = [b \in Action |-> row[b]]
  BY DEF PollerInvariant, Tables
<1>4. /\ state' = [b \in Action |-> state'[b]] /\ row' = [b \in Action |-> row'[b]]
      /\ state'[a] = outcome
      /\ row'[a] = IF inserted THEN "equivalent" ELSE row[a]
      /\ \A b \in Action : b # a => state'[b] = state[b] /\ row'[b] = row[b]
  BY <1>2, <1>3
<1>5. /\ state[a] = "CONFIRMED" /\ holder[a] \in {w, Nobody}
      /\ inserted => row[a] = "none"
      /\ outcome = "SUCCEEDED" => inserted \/ row[a] = "equivalent"
  BY <1>1
<1>6. RowMoves(w, a)
  BY <1>4, <1>5 DEF RowMoves
<1>7. ASSUME NEW b \in Action PROVE RowMoves(w, b)
  BY <1>4, <1>6, <1>7 DEF RowMoves
<1>8. state'[job[w]] = outcome
  BY <1>1, <1>4
<1> QED
  BY <1>4, <1>7, <1>8

-----------------------------------------------------------------------------
(* The steps of a worker.                                                  *)

LEMMA PollHolds ==
  ASSUME PollerInvariant, NEW w \in Worker, PollInOutage(w) \/ PollNothing(w)
  PROVE  PollerInvariant'
<1>1. PICK outcome \in {"TRANSIENT", "IDLE"} : Return(w, NoAction, outcome)
  BY DEF PollInOutage, PollNothing
<1>2. UNCHANGED <<state, row, holder>> /\ step[w] = "idle"
  BY DEF PollInOutage, PollNothing, Ready, Due, tableVars
<1>3. outcome \notin Terminal /\ step[w] \notin Open
  BY <1>2 DEF Terminal, Open
<1> QED
  BY <1>1, <1>2, <1>3, NothingTouched, WorkerReturns

LEMMA ClaimHolds ==
  ASSUME PollerInvariant, NEW w \in Worker, Claim(w)
  PROVE  PollerInvariant'
<1>1. PICK a \in Claimable(w) :
        holder' = [holder EXCEPT ![a] = w] /\ job' = [job EXCEPT ![w] = a]
  BY DEF Claim
<1>2. /\ step[w] = "idle" /\ step' = [step EXCEPT ![w] = "claimed"]
      /\ UNCHANGED <<state, row, to, report>>
  BY DEF Claim, Ready, Due
<1>3. a \in Action /\ state[a] = "CONFIRMED" /\ holder[a] = Nobody
  BY DEF Claimable
<1>4. /\ Tables' /\ step'[w] = "claimed" /\ job'[w] = a /\ holder'[a] = w
      /\ \A v \in Worker : v # w => step'[v] = step[v] /\ job'[v] = job[v]
      /\ \A b \in Action : b # a => holder'[b] = holder[b]
  BY <1>1, <1>2, <1>3 DEF PollerInvariant, Tables
<1>5. \A b \in Action : holder[b] # w
  BY <1>2, ConstantsFit DEF PollerInvariant, LocksAreUsed, Open
<1>6. \A b \in Action : LockMoves(w, b) /\ RowMoves(w, b)
  BY <1>2, <1>3, <1>4 DEF LockMoves, RowMoves
<1>7. \A b \in Action : holder'[b] = w => job'[w] = b /\ step'[w] \in Open
  BY <1>4, <1>5 DEF Open
<1>8. Carries(w)'
  BY <1>2, <1>3, <1>4 DEF Carries, PollSteps, Open
<1>9. ReportIsReal(w)'
  BY <1>2 DEF PollerInvariant, ReportIsReal
<1> QED
  BY <1>2, <1>4, <1>6, <1>7, <1>8, <1>9, OneWorkerMoves

LEMMA DecideHolds ==
  ASSUME PollerInvariant, NEW w \in Worker, step[w] \in Open,
         NEW outcome \in Terminal,
         Decide(w, outcome), outcome = "SUCCEEDED" => row[job[w]] = "equivalent"
  PROVE  PollerInvariant'
<1>1. /\ to' = [to EXCEPT ![w] = outcome] /\ step' = [step EXCEPT ![w] = "decided"]
      /\ UNCHANGED <<state, row, holder, job, report>>
  BY DEF Decide, tableVars
<1>2. "decided" \in Open /\ "decided" # "inserted" /\ "decided" # "in_doubt"
  BY DEF Open
<1> QED
  BY <1>1, <1>2, WorkerGoesOn

LEMMA ProceedHolds ==
  ASSUME PollerInvariant, NEW w \in Worker, step[w] \in Open,
         NEW next \in {"probed", "inserted"},
         Proceed(w, next), row[job[w]] = "none"
  PROVE  PollerInvariant'
<1>1. /\ step' = [step EXCEPT ![w] = next] /\ UNCHANGED <<state, row, holder, job, report, to>>
  BY DEF Proceed, tableVars
<1>2. PICK t : t = to[w]
  OBVIOUS
<1>3. to' = [to EXCEPT ![w] = t]
  BY <1>1, <1>2 DEF PollerInvariant, Tables
<1>4. next \in Open /\ next \notin {"decided", "in_doubt"}
  BY DEF Open
<1> QED
  BY <1>1, <1>3, <1>4, WorkerGoesOn

LEMMA FailHolds ==
  ASSUME PollerInvariant, NEW w \in Worker, Fail(w)
  PROVE  PollerInvariant'
<1>1. Unlock(w) /\ Return(w, job[w], "TRANSIENT") /\ UNCHANGED <<state, row>>
  BY DEF Fail
<1>2. "TRANSIENT" \notin Terminal
  BY DEF Terminal
<1> QED
  BY <1>1, <1>2, NothingTouched, WorkerReturns

LEMMA ProbeHolds ==
  ASSUME PollerInvariant, NEW w \in Worker, Probe(w)
  PROVE  PollerInvariant'
<1>1. step[w] = "claimed" /\ step[w] \in Open
  BY DEF Probe, Open
<1>2. \/ Decide(w, "EXPIRED") \/ Decide(w, "EXECUTION_FAILED") \/ Fail(w)
      \/ row[job[w]] = "none" /\ Proceed(w, "probed")
      \/ row[job[w]] = "equivalent" /\ Decide(w, "SUCCEEDED")
  <2>1. row[job[w]] \in {"none", "equivalent", "other"}
    BY <1>1, LockedByOne DEF PollerInvariant, RowFits
  <2> QED
    BY <2>1 DEF Probe
<1>3. \A s \in {"EXPIRED", "EXECUTION_FAILED", "SUCCEEDED"} : s \in Terminal
  BY DEF Terminal
<1> QED
  BY <1>1, <1>2, <1>3, DecideHolds, ProceedHolds, FailHolds

LEMMA InsertHolds ==
  ASSUME PollerInvariant, NEW w \in Worker, Insert(w)
  PROVE  PollerInvariant'
<1>1. step[w] = "probed" /\ step[w] \in Open
  BY DEF Insert, Open
<1>2. CASE Decide(w, "EXPIRED")
  BY <1>1, <1>2, DecideHolds DEF Terminal
<1>3. CASE row[job[w]] = "none" /\ Proceed(w, "inserted")
  BY <1>1, <1>3, ProceedHolds
<1>4. CASE /\ Unlock(w) /\ step' = [step EXCEPT ![w] = "conflict"]
           /\ UNCHANGED <<state, row, job, to, report>>
  <2>1. /\ Tables' /\ step'[w] = "conflict"
        /\ \A v \in Worker : v # w => step'[v] = step[v]
    BY <1>4 DEF Unlock, PollerInvariant, Tables
  <2>2. \A b \in Action : LockMoves(w, b) /\ RowMoves(w, b) /\ holder'[b] # w
    BY <1>4, ConstantsFit DEF Unlock, LockMoves, RowMoves
  <2>3. Carries(w)'
    BY <1>1, <1>4, <2>1, LockedByOne DEF Carries, PollSteps, Open
  <2>4. ReportIsReal(w)'
    BY <1>4 DEF PollerInvariant, ReportIsReal
  <2> QED
    BY <1>4, <2>1, <2>2, <2>3, <2>4, OneWorkerMoves
<1> QED
  BY <1>2, <1>3, <1>4 DEF Insert

(* What a worker is about to commit, it may commit.                        *)
LEMMA OutcomeStands ==
  ASSUME PollerInvariant, NEW w \in Worker, step[w] \in {"inserted", "decided"}
  PROVE  /\ Outcome(w) \in Terminal
         /\ step[w] = "inserted" => row[job[w]] = "none"
         /\ step[w] = "decided" /\ Outcome(w) = "SUCCEEDED" => row[job[w]] = "equivalent"
<1>1. Carries(w)
  BY DEF PollerInvariant
<1>2. step[w] = "inserted" => Outcome(w) = "SUCCEEDED"
  BY DEF Outcome
<1>3. step[w] = "decided" => Outcome(w) = to[w]
  BY DEF Outcome
<1>4. "SUCCEEDED" \in Terminal
  BY DEF Terminal
<1> QED
  BY <1>1, <1>2, <1>3, <1>4 DEF Carries

LEMMA CommitHolds ==
  ASSUME PollerInvariant, NEW w \in Worker, Commit(w)
  PROVE  PollerInvariant'
<1>1. PICK outcome : outcome = Outcome(w)
  OBVIOUS
<1>2. PICK inserted \in BOOLEAN : inserted = (step[w] = "inserted")
  OBVIOUS
<1>3. PICK a : a = job[w]
  OBVIOUS
<1>4. /\ step[w] \in {"inserted", "decided"} /\ step[w] \in Open
      /\ Apply(w, outcome, inserted) /\ Unlock(w) /\ Return(w, a, outcome)
  BY <1>1, <1>2, <1>3 DEF Commit, Open
<1>5. a \in Action /\ holder[a] = w /\ state[a] = "CONFIRMED"
  BY <1>3, <1>4, LockedByOne
<1>6. /\ outcome \in Terminal
      /\ inserted => row[a] = "none"
      /\ outcome = "SUCCEEDED" => inserted \/ row[a] = "equivalent"
  BY <1>1, <1>2, <1>3, <1>4, OutcomeStands
<1>7. /\ state' = [b \in Action |-> state'[b]] /\ row' = [b \in Action |-> row'[b]]
      /\ \A b \in Action : RowMoves(w, b)
      /\ state'[a] = outcome
  BY <1>3, <1>4, <1>5, <1>6, Applied
<1> QED
  BY <1>4, <1>5, <1>7, WorkerReturns

LEMMA LoseAckHolds ==
  ASSUME PollerInvariant, NEW w \in Worker, LoseAck(w)
  PROVE  PollerInvariant'
<1>1. PICK outcome : outcome = Outcome(w)
  OBVIOUS
<1>2. /\ step[w] \in {"inserted", "decided"} /\ step[w] \in Open
      /\ "in_doubt" \in Open
      /\ to' = [to EXCEPT ![w] = outcome] /\ step' = [step EXCEPT ![w] = "in_doubt"]
      /\ UNCHANGED <<state, row, holder, job, report>>
  BY <1>1 DEF LoseAck, Open, tableVars
<1>3. /\ outcome \in Terminal
      /\ (outcome = "SUCCEEDED" => row[job[w]] \in {"none", "equivalent"})
  BY <1>1, <1>2, OutcomeStands
<1> QED
  BY <1>2, <1>3, WorkerGoesOn

(* A worker that goes to look at what became of its action.                *)
LEMMA WorkerObserves ==
  ASSUME PollerInvariant, NEW w \in Worker, job[w] \in Action, UNCHANGED <<job, to, report>>,
         step' = [step EXCEPT ![w] = "observing"],
         state' = [b \in Action |-> state'[b]], row' = [b \in Action |-> row'[b]],
         \A b \in Action : RowMoves(w, b),
         Unlock(w) \/ (holder' = holder /\ step[w] \notin Open)
  PROVE  PollerInvariant'
<1>1. /\ Tables' /\ step'[w] = "observing"
      /\ \A v \in Worker : v # w => step'[v] = step[v]
  BY DEF Unlock, PollerInvariant, Tables
<1>2. \A b \in Action : LockMoves(w, b) /\ holder'[b] # w
  <2>1. w # Nobody
    BY ConstantsFit
  <2>2. CASE Unlock(w)
    BY <2>1, <2>2 DEF Unlock, LockMoves
  <2>3. CASE holder' = holder /\ step[w] \notin Open
    <3>1. \A b \in Action : holder[b] # w
      BY <2>1, <2>3 DEF PollerInvariant, LocksAreUsed
    <3> QED
      BY <2>3, <3>1 DEF LockMoves
  <2> QED
    BY <2>2, <2>3
<1>3. Carries(w)'
  BY <1>1 DEF Carries, PollSteps, Open
<1>4. ReportIsReal(w)'
  <2>1. ReportIsReal(w)
    BY DEF PollerInvariant
  <2>2. \A a \in Action : state[a] \in Terminal => state'[a] = state[a]
    BY DEF RowMoves, Terminal
  <2> QED
    BY <2>1, <2>2 DEF ReportIsReal
<1> QED
  BY <1>1, <1>2, <1>3, <1>4, OneWorkerMoves

LEMMA SettleHolds ==
  ASSUME PollerInvariant, NEW w \in Worker, SettleInDoubt(w)
  PROVE  PollerInvariant'
<1>1. /\ step[w] = "in_doubt" /\ step[w] \in Open /\ Unlock(w)
      /\ step' = [step EXCEPT ![w] = "observing"] /\ UNCHANGED <<job, to, report>>
  BY DEF SettleInDoubt, Open
<1>2. PICK outcome : outcome = to[w]
  OBVIOUS
<1>3. PICK inserted \in BOOLEAN : inserted = Inserting(w, job[w])
  BY DEF Inserting
<1>4. /\ job[w] \in Action /\ holder[job[w]] = w /\ state[job[w]] = "CONFIRMED"
  BY <1>1, LockedByOne
<1>5. /\ outcome \in Terminal
      /\ inserted => row[job[w]] = "none"
      /\ outcome = "SUCCEEDED" => inserted \/ row[job[w]] = "equivalent"
  <2>1. Carries(w)
    BY DEF PollerInvariant
  <2> QED
    BY <1>1, <1>2, <1>3, <2>1 DEF Carries, Inserting
<1>6. CASE Apply(w, outcome, inserted)
  <2>1. /\ state' = [b \in Action |-> state'[b]] /\ row' = [b \in Action |-> row'[b]]
        /\ \A b \in Action : RowMoves(w, b)
    BY <1>4, <1>5, <1>6, Applied
  <2> QED
    BY <1>1, <1>4, <2>1, WorkerObserves
<1>7. CASE UNCHANGED <<state, row>>
  BY <1>1, <1>4, <1>7, NothingTouched, WorkerObserves
<1> QED
  BY <1>2, <1>3, <1>6, <1>7 DEF SettleInDoubt

LEMMA RecoverHolds ==
  ASSUME PollerInvariant, NEW w \in Worker, Recover(w)
  PROVE  PollerInvariant'
<1>1. PICK a : a = job[w]
  OBVIOUS
<1>2. step[w] = "conflict" /\ step[w] \notin Open /\ holder' = holder /\ a \in Action
  BY <1>1 DEF Recover, Open, PollerInvariant, Carries
<1>3. PICK outcome : outcome = Recovered(a)
  OBVIOUS
<1>4. outcome \in Terminal /\ (outcome = "SUCCEEDED" => row[a] = "equivalent")
  BY <1>3 DEF Recovered, Terminal
<1>5. CASE /\ state[a] = "CONFIRMED" /\ holder[a] = Nobody
           /\ Apply(w, outcome, FALSE) /\ Return(w, a, outcome)
  <2>1. /\ state' = [b \in Action |-> state'[b]] /\ row' = [b \in Action |-> row'[b]]
        /\ \A b \in Action : RowMoves(w, b)
        /\ state'[a] = outcome
    BY <1>1, <1>2, <1>4, <1>5, Applied
  <2> QED
    BY <1>2, <1>5, <2>1, WorkerReturns
<1>6. CASE /\ step' = [step EXCEPT ![w] = "observing"]
           /\ UNCHANGED <<state, row, job, to, sleep, report>>
  BY <1>1, <1>2, <1>6, NothingTouched, WorkerObserves
<1> QED
  BY <1>1, <1>3, <1>5, <1>6 DEF Recover

LEMMA ObserveHolds ==
  ASSUME PollerInvariant, NEW w \in Worker, Observe(w)
  PROVE  PollerInvariant'
<1>1. PICK a : a = job[w]
  OBVIOUS
<1>2. PICK outcome : outcome = Observed(a)
  OBVIOUS
<1>3. /\ step[w] = "observing" /\ step[w] \notin Open /\ a \in Action
      /\ Return(w, a, outcome) /\ UNCHANGED <<state, row, holder>>
  BY <1>1, <1>2 DEF Observe, Open, PollerInvariant, Carries, tableVars
<1>4. outcome \in Terminal => state[a] = outcome
  BY <1>2 DEF Observed, Terminal
<1> QED
  BY <1>3, <1>4, NothingTouched, WorkerReturns

LEMMA OutageHolds ==
  ASSUME PollerInvariant, NEW w \in Worker, FailInOutage(w) \/ LeakInOutage(w)
  PROVE  PollerInvariant'
<1>1. PICK a : a = job[w]
  OBVIOUS
<1>2. PICK outcome \in {"TRANSIENT", "RAISED"} : Return(w, a, outcome)
  BY <1>1 DEF FailInOutage, LeakInOutage
<1>3. /\ UNCHANGED <<state, row>>
      /\ Unlock(w) \/ (holder' = holder /\ step[w] \notin Open)
  BY DEF FailInOutage, LeakInOutage, Open, tableVars
<1>4. outcome \notin Terminal
  BY DEF Terminal
<1> QED
  BY <1>2, <1>3, <1>4, NothingTouched, WorkerReturns

LEMMA RestartHolds ==
  ASSUME PollerInvariant, NEW w \in Worker, Restart(w)
  PROVE  PollerInvariant'
<1>1. /\ Unlock(w) /\ UNCHANGED <<state, row>>
      /\ step' = [step EXCEPT ![w] = "idle"] /\ job' = [job EXCEPT ![w] = NoAction]
      /\ to' = [to EXCEPT ![w] = "CONFIRMED"] /\ report' = [report EXCEPT ![w] = NoReport]
  BY DEF Restart
<1>2. /\ Tables' /\ step'[w] = "idle" /\ report'[w] = NoReport
      /\ \A v \in Worker : v # w =>
           step'[v] = step[v] /\ job'[v] = job[v] /\ to'[v] = to[v] /\ report'[v] = report[v]
  BY <1>1 DEF Unlock, PollerInvariant, Tables
<1>3. \A b \in Action : LockMoves(w, b) /\ RowMoves(w, b) /\ holder'[b] # w
  BY <1>1, ConstantsFit DEF Unlock, LockMoves, RowMoves
<1>4. Carries(w)' /\ ReportIsReal(w)'
  BY <1>2 DEF Carries, ReportIsReal, PollSteps, Open, NoReport, Terminal
<1> QED
  BY <1>2, <1>3, <1>4, OneWorkerMoves

-----------------------------------------------------------------------------
(* Everyone else.                                                          *)

LEMMA CancelHolds ==
  ASSUME PollerInvariant, NEW a \in Action, Cancel(a)
  PROVE  PollerInvariant'
<1>1. PICK outcome \in {"EXPIRED", "CANCELLED"} : state' = [state EXCEPT ![a] = outcome]
  BY DEF Cancel
<1>2. /\ state[a] = "CONFIRMED" /\ holder[a] = Nobody
      /\ UNCHANGED <<row, holder, step, job, to, report>>
  BY DEF Cancel
<1>3. Tables' /\ state'[a] = outcome /\ \A b \in Action : b # a => state'[b] = state[b]
  BY <1>1, <1>2 DEF PollerInvariant, Tables
<1>4. \A w \in Worker : step[w] \in Open => job[w] \in Action /\ job[w] # a
  BY <1>2, LockedByOne
<1>5. \A w \in Worker : Carries(w)'
  BY <1>2, <1>3, <1>4 DEF PollerInvariant, Carries
<1>6. \A w \in Worker : ReportIsReal(w)'
  <2>1. \A b \in Action : state[b] \in Terminal => state'[b] = state[b]
    BY <1>2, <1>3 DEF Terminal
  <2> QED
    BY <1>2, <2>1 DEF PollerInvariant, ReportIsReal
<1>7. \A b \in Action : RowFits(b)'
  BY <1>2, <1>3 DEF PollerInvariant, RowFits
<1>8. LocksAreUsed'
  BY <1>2 DEF PollerInvariant, LocksAreUsed
<1> QED
  BY <1>3, <1>5, <1>6, <1>7, <1>8 DEF PollerInvariant

LEMMA ForeignHolds ==
  ASSUME PollerInvariant, NEW a \in Action, ForeignInsert(a)
  PROVE  PollerInvariant'
<1>1. PICK r \in {"equivalent", "other"} : row' = [row EXCEPT ![a] = r]
  BY DEF ForeignInsert
<1>2. /\ state[a] = "CONFIRMED" /\ row[a] = "none"
      /\ UNCHANGED <<state, holder, step, job, to, report>>
      /\ \A w \in Worker : ~Inserting(w, a)
  BY DEF ForeignInsert
<1>3. Tables' /\ row'[a] = r /\ \A b \in Action : b # a => row'[b] = row[b]
  BY <1>1, <1>2 DEF PollerInvariant, Tables
<1>4. ASSUME NEW w \in Worker PROVE Carries(w)'
  <2>1. Carries(w)
    BY DEF PollerInvariant
  <2>2. CASE job[w] = a
    <3>1. step[w] # "inserted" /\ ~(step[w] = "in_doubt" /\ to[w] = "SUCCEEDED")
      BY <1>2, <2>2 DEF Inserting
    <3>2. ~(step[w] = "decided" /\ to[w] = "SUCCEEDED")
      BY <1>2, <2>1, <2>2 DEF Carries
    <3> QED
      BY <1>2, <2>1, <3>1, <3>2 DEF Carries
  <2>3. CASE job[w] # a
    BY <1>2, <1>3, <2>1, <2>3 DEF Carries, Open
  <2> QED
    BY <2>2, <2>3
<1>5. \A w \in Worker : ReportIsReal(w)'
  BY <1>2 DEF PollerInvariant, ReportIsReal
<1>6. \A b \in Action : RowFits(b)'
  BY <1>2, <1>3 DEF PollerInvariant, RowFits
<1>7. LocksAreUsed'
  BY <1>2 DEF PollerInvariant, LocksAreUsed
<1> QED
  BY <1>3, <1>4, <1>5, <1>6, <1>7 DEF PollerInvariant

(* Steps that leave actions, rows, locks and transactions alone.           *)
LEMMA ClockHolds ==
  ASSUME PollerInvariant, UNCHANGED <<state, row, holder, step, job, to, report>>
  PROVE  PollerInvariant'
<1>1. Tables' /\ LocksAreUsed'
  BY DEF PollerInvariant, Tables, LocksAreUsed
<1>2. ASSUME NEW w \in Worker PROVE Carries(w)' /\ ReportIsReal(w)'
  BY DEF PollerInvariant, Carries, ReportIsReal
<1>3. \A a \in Action : RowFits(a)'
  BY DEF PollerInvariant, RowFits
<1> QED
  BY <1>1, <1>2, <1>3 DEF PollerInvariant

(* The invariant is inductive.                                             *)
LEMMA PollerInductive ==
  ASSUME PollerInvariant, [PollNext]_pollVars
  PROVE  PollerInvariant'
<1>1. ASSUME NEW w \in Worker, Advance(w) \/ LoseAck(w) \/ Restart(w)
      PROVE  PollerInvariant'
  BY <1>1, PollHolds, ClaimHolds, ProbeHolds, InsertHolds, CommitHolds, SettleHolds, RecoverHolds,
     ObserveHolds, OutageHolds, LoseAckHolds, RestartHolds DEF Advance
<1>2. ASSUME NEW a \in Action, Lapse(a) PROVE PollerInvariant'
  BY <1>2, ClockHolds DEF Lapse
<1>3. ASSUME NEW a \in Action, ForeignInsert(a) PROVE PollerInvariant'
  BY <1>3, ForeignHolds
<1>4. ASSUME NEW a \in Action, Cancel(a) PROVE PollerInvariant'
  BY <1>4, CancelHolds
<1>5. CASE Tick \/ DatabaseDown \/ DatabaseUp
  BY <1>5, ClockHolds DEF Tick, DatabaseDown, DatabaseUp, tableVars
<1>6. CASE UNCHANGED pollVars
  BY <1>6, ClockHolds DEF pollVars, tableVars
<1> QED
  BY <1>1, <1>2, <1>3, <1>4, <1>5, <1>6, ConstantsFit DEF PollNext

(* A succeeded action has the row it was confirmed for, and a decision a   *)
(* worker returns is what the database says.                               *)
THEOREM OutcomesAreReal == PollSpec => []OutcomeIsReal
<1>1. PollerInvariant => OutcomeIsReal
  BY DEF PollerInvariant, OutcomeIsReal, RowFits, ReportIsReal
<1>2. PollerInvariant /\ [PollNext]_pollVars => PollerInvariant'
  BY PollerInductive
<1>3. PollInit => PollerInvariant
  BY PollerInit
<1> QED
  BY <1>1, <1>2, <1>3, PTL DEF PollSpec
=============================================================================

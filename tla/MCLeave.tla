------------------------------- MODULE MCLeave -------------------------------
(* Requests around the dates that matter: the Grand Final Friday of 2026   *)
(* and a request that touches it, Easter, the turn of the year where the   *)
(* V4 calendar ends, a week of 2027 with an unresolved Friday, and a       *)
(* Sunday on which nobody works.                                           *)
EXTENDS LeaveAuthority

CONSTANTS alex, sydney

MCJurisdiction == [e \in Employee |-> IF e = sydney THEN "AU-NSW" ELSE "AU-VIC"]
Weekdays == 0 .. 4
MCPattern ==
  {[work_days |-> Weekdays, hours_per_day |-> 760], [work_days |-> {0, 1, 2}, hours_per_day |-> 760]}
Dates(y1, m1, d1, y2, m2, d2) ==
  [employee |-> alex, start |-> Day(y1, m1, d1), end |-> Day(y2, m2, d2)]
MCRequest ==
  {Dates(2026, 9, 24, 2026, 9, 28), Dates(2026, 9, 28, 2026, 9, 29),
   Dates(2026, 12, 29, 2027, 1, 4), Dates(2027, 9, 23, 2027, 9, 27),
   Dates(2026, 4, 5, 2026, 4, 5), [Dates(2026, 9, 28, 2026, 9, 29) EXCEPT !.employee = sydney]}
=============================================================================

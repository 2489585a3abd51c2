------------------------------ MODULE Calendar ------------------------------
(***************************************************************************)
(* The part of Go's package time that the Panel's schedules use            *)
(* (proxy/traffic.go, subscription/usage.go, server/traffic.go,            *)
(* server/renewal.go).  All of them work in the fixed zone Asia/Shanghai,  *)
(* so local time is a shift and is left out.  Days are numbered from the   *)
(* first of January of FirstYear and months likewise; an instant is a      *)
(* half-day, 2 * day for midnight and 2 * day + 1 for noon.                *)
(***************************************************************************)
EXTENDS Integers, FiniteSetsExt

CONSTANTS FirstYear, FirstWeekday, Years

ASSUME CalendarAssumption ==
  FirstYear \in Nat /\ FirstWeekday \in 1..7 /\ Years \in Nat \ {0}

LastMonth == 12 * Years - 1

Leap(y) == y % 4 = 0 /\ (y % 100 # 0 \/ y % 400 = 0)

\* time.Date(year, month + 1, 0).Day()
MonthLength(m) ==
  LET month == (m % 12) + 1
  IN  CASE month = 2 -> IF Leap(FirstYear + (m \div 12)) THEN 29 ELSE 28
        [] month \in {4, 6, 9, 11} -> 30
        [] OTHER -> 31

MonthStart[m \in 0..LastMonth + 1] ==
  IF m = 0 THEN 0 ELSE MonthStart[m - 1] + MonthLength(m - 1)

\* time.Date, which carries a day beyond the end of the month into the next one.
Date(m, day) == MonthStart[m] + day - 1

CivilMonth == [day \in 0..MonthStart[LastMonth + 1] - 1 |->
                 CHOOSE m \in 0..LastMonth : MonthStart[m] <= day /\ day < MonthStart[m + 1]]

MonthOf(day) == CivilMonth[day]
DayOf(day) == day - MonthStart[MonthOf(day)] + 1
WeekdayOf(day) == ((day + FirstWeekday - 1) % 7) + 1

\* Time.AddDate(0, n, 0)
AddMonths(day, n) == Date(MonthOf(day) + n, DayOf(day))

DayAt(t) == t \div 2
=============================================================================

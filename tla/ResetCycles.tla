----------------------------- MODULE ResetCycles -----------------------------
(***************************************************************************)
(* When the usage of Clients, Subscribers and Servers starts a new cycle.  *)
(* The code computes from the current time t the last reset that is not in *)
(* the future, and for display the next one.  Below are these functions,   *)
(* and what they are meant to return, found by searching the calendar.     *)
(***************************************************************************)
EXTENDS Calendar

CONSTANTS ResetDays    \* days of the month that schedules use

ASSUME ResetDaysAssumption == ResetDays \subseteq 1..31

-----------------------------------------------------------------------------
(* Monthly resets.                                                         *)

\* clientMonthlyBoundary, subscriberMonthlyBoundary, monthlyTrafficBoundary.
MonthlyBoundary(m, day, half) == 2 * Date(m, Min({day, MonthLength(m)})) + half

\* Mistake: the month before is a month back from today.
CycleStartByAddDate(t, day, half) ==
  LET m == MonthOf(DayAt(t))
      boundary == MonthlyBoundary(m, day, half)
  IN  IF t < boundary THEN MonthlyBoundary(MonthOf(AddMonths(DayAt(t), -1)), day, half)
      ELSE boundary

\* trafficCycleStart and the monthly case of currentClientCycleStart: the month
\* before is found from the first of this one.
MonthlyCycleStart(t, day, half) ==
  LET m == MonthOf(DayAt(t))
      boundary == MonthlyBoundary(m, day, half)
  IN  IF t < boundary THEN MonthlyBoundary(MonthOf(Date(m - 1, 1)), day, half) ELSE boundary

\* The monthly case of nextClientResetAt.
NextMonthlyReset(t, day, half) ==
  MonthlyBoundary(MonthOf(DayAt(MonthlyCycleStart(t, day, half))) + 1, day, half)

\* currentSubscriberCycleStart: the month before is localNow.AddDate(0, -1, 0).
SubscriberCycleStart(t, day, half) ==
  LET m == MonthOf(DayAt(t))
      boundary == MonthlyBoundary(m, day, half)
  IN  IF t < boundary THEN MonthlyBoundary(MonthOf(AddMonths(DayAt(t), -1)), day, half)
      ELSE boundary

\* nextSubscriberReset: current.AddDate(0, 1, 0).
NextSubscriberReset(t, day, half) ==
  MonthlyBoundary(MonthOf(AddMonths(DayAt(SubscriberCycleStart(t, day, half)), 1)), day, half)

-----------------------------------------------------------------------------
(* Daily and weekly resets of Clients.                                     *)

DailyCycleStart(t, half) ==
  LET boundary == 2 * DayAt(t) + half
  IN  IF t < boundary THEN boundary - 2 ELSE boundary

WeeklyCycleStart(t, weekday, half) ==
  LET boundary == 2 * (DayAt(t) - ((WeekdayOf(DayAt(t)) - weekday + 7) % 7)) + half
  IN  IF t < boundary THEN boundary - 14 ELSE boundary

-----------------------------------------------------------------------------
(* What the schedules mean.                                                *)

\* "A month that lacks the day uses its last day" (ServerForm.vue).
IsMonthlyReset(t, day, half) ==
  /\ t % 2 = half
  /\ LET length == MonthLength(MonthOf(DayAt(t)))
     IN  DayOf(DayAt(t)) = IF day > length THEN length ELSE day

IsWeeklyReset(t, weekday, half) == t % 2 = half /\ WeekdayOf(DayAt(t)) = weekday

\* The resets within two months before and after t.
LastMonthly(t, day, half) ==
  Max({u \in (t - 64)..t : u >= 0 /\ IsMonthlyReset(u, day, half)})
NextMonthly(t, day, half) == Min({u \in (t + 1)..(t + 64) : IsMonthlyReset(u, day, half)})

Halves == {0, 1}

\* The instants at which the two are compared: the calendar without its first and last two months.
Instants == (2 * MonthStart[1])..(2 * MonthStart[LastMonth - 1] - 1)

\* Servers and Clients.
MonthlyCycleRight == [t \in Instants |->
  \A day \in ResetDays, half \in Halves :
    /\ MonthlyCycleStart(t, day, half) = LastMonthly(t, day, half)
    /\ NextMonthlyReset(t, day, half) = NextMonthly(t, day, half)]

ShortCycleRight == [t \in Instants |->
  \A half \in Halves :
    /\ DailyCycleStart(t, half) = Max({u \in (t - 2)..t : u % 2 = half})
    /\ \A weekday \in 1..7 :
         WeeklyCycleStart(t, weekday, half) =
           Max({u \in (t - 14)..t : IsWeeklyReset(u, weekday, half)})]

\* Subscribers, for the reset days that every month has.
SubscriberCycleRight == [t \in Instants |->
  \A day \in ResetDays \cap 1..28, half \in Halves :
    /\ SubscriberCycleStart(t, day, half) = LastMonthly(t, day, half)
    /\ NextSubscriberReset(t, day, half) = NextMonthly(t, day, half)]
=============================================================================

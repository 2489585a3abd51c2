---- MODULE RenewalCycles ----
\* Subscriptions that renew and traffic cycles that reset, with the same clock:
\* `today' of Renewal is the day on which ResetCycles looks for its cycles.
EXTENDS ResetCycles, Renewal

\* The cycle that the code finds began at the last reset that has come, at the end of
\* every month and in a leap year too, whatever the weekday, and the reset it announces
\* is the one that comes: trafficCycleStart, currentClientCycleStart and
\* nextClientResetAt, and for reset days that every month has
\* currentSubscriberCycleStart and nextSubscriberReset.
CyclesAreCurrent ==
  \A t \in {2 * today, 2 * today + 1} :
    MonthlyCycleRight[t] /\ ShortCycleRight[t] /\ SubscriberCycleRight[t]

\* Subscribers: a cycle does not begin in the future.  One that does sets the usage of
\* the running cycle to zero before it ends (resetSubscriberCycleIfDueTx).
SubscriberCycleHasBegun ==
  \A day \in ResetDays, half \in Halves :
    SubscriberCycleStart(2 * today, day, half) <= 2 * today
====

\* No renewals: only the calendar.
SPECIFICATION RenewalSpec
CONSTANTS
  FirstYear = 2027
  FirstWeekday = 5
  Years = 2
  ResetDays = {1, 15, 28, 29, 30, 31}
  Dates = {30}
  Periods = {6}
  MaxUpdates = 0
INVARIANTS
  SubscriberCycleHasBegun
CHECK_DEADLOCK FALSE

SPECIFICATION Spec
CONSTANTS
  Tickets = {t1, t2}
  Owners = {s1, s2}
  MainSE = s1
  None = None
  Hours = {9, 10, 17}
  NagHours = {9, 10}
  MonthDays = 2
  FirstWeekday = 6
  Horizon = 3
  Targets <- SomeTargets
  UrgentPriority = "P1"
  MaxExtra = 1
  MaxWorld = 2
  MaxFaults = 1
SYMMETRY Symmetric
PROPERTIES
  NagOnTheHour
  DueIsTold
  ReviewOnceAMonth
  CandidatesTold
  ClocksOnlyRise
CHECK_DEADLOCK FALSE

SPECIFICATION SweepFairSpec
CONSTANTS
  Tickets = {t1}
  Tasks = {k1}
  Sweeper = sweeper
  MaxRuns = 3
  MaxMoves = 1
  MaxFaults = 1
  None = None
PROPERTIES
  EventuallyMirrored
  EventuallyReflected
  SweepCatchesUp
CHECK_DEADLOCK FALSE

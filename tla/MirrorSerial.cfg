SPECIFICATION SerialSpec
CONSTANTS
  Tickets = {t1}
  Tasks = {k1}
  Sweeper = sweeper
  MaxRuns = 6
  MaxMoves = 3
  MaxFaults = 1
  None = None
INVARIANTS
  InSync
  CreateOnce
CHECK_DEADLOCK FALSE

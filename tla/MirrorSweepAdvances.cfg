SPECIFICATION SerialSpec
CONSTANTS
  Tickets = {t1}
  Tasks = {k1}
  Sweeper = sweeper
  MaxRuns = 3
  MaxMoves = 0
  MaxFaults = 0
  None = None
INVARIANTS
  OnlyPeopleMove
CHECK_DEADLOCK FALSE

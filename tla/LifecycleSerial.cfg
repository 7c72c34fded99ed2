SPECIFICATION SerialSpec
CONSTANTS
  Tickets = {t1}
  Tasks = {k1, k2}
  ReopenWindow = 1
  MaxDay = 2
  MaxRuns = 4
  None = None
INVARIANTS
  LogIsChain
  CardFollowsStatus
PROPERTIES
  ReopenWithinWindow
  ContractSpec
CHECK_DEADLOCK FALSE

SPECIFICATION SerialSpec
CONSTANTS
  Tickets = {t1}
  PRs = {p1, p2}
  Releases = {r1}
  Tasks = {k1}
  Nudger = nudger
  MaxRuns = 5
  MaxFaults = 1
  None = None
INVARIANTS
  ToldOrWaiting
  ReplyAfterAllShipped
  NoMissedDeploy
  NoStrandedHold
PROPERTIES
  ReplyOnlyWhenResolved
CHECK_DEADLOCK FALSE

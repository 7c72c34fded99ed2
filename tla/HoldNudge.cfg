SPECIFICATION PassFairSpec
CONSTANTS
  Tickets = {t1}
  PRs = {p1,p2}
  Releases = {r1}
  Tasks = {k1}
  Nudger = nudger
  MaxRuns = 3
  MaxFaults = 1
  None = None
INVARIANTS
  ShippedOnlyIfDeployed
PROPERTIES
  NudgeNet
  PassServesAll
CHECK_DEADLOCK FALSE

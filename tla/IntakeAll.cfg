SPECIFICATION Spec
CONSTANTS
  SEs = {s1, s2}
  SeUser = s1
  Reports = {r1, r2}
  Topics = {a}
  Threads = {h1, h2}
  Internal = {h2}
  MaxOrgs = 2
  Tasks = {k1, k2}
  MaxRuns = 4
  MaxRaces = 2
  MaxWorld = 1
  MaxFaults = 1
  None = None
  Present = Present
SYMMETRY Symmetric
INVARIANTS
  PendingUntilDone
  OneOutcome
  ToldItsTicket
PROPERTIES
  OrgsKept
CHECK_DEADLOCK FALSE

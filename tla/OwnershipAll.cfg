SPECIFICATION Spec
CONSTANTS
  Tickets = {t1}
  SEs = {s1, s2}
  Devs = {d1, d2}
  Mapped = {s1, d1}
  Outsider = outsider
  Tasks = {k1, k2}
  MaxRuns = 4
  MaxRaces = 2
  MaxMoves = 2
  MaxFaults = 1
  None = None
  Present = Present
  Quiet = Quiet
SYMMETRY Symmetric
INVARIANTS
  HandoffTold
  OwnersAgree
PROPERTIES
  SeOwnerKept
  MovedOff
  SettledIsTold
CHECK_DEADLOCK FALSE

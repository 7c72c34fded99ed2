SPECIFICATION Spec
CONSTANTS
  Tickets = {t1}
  Tasks = {k1, k2}
  ReopenWindow = 1
  MaxDay = 2
  MaxRuns = 2
  None = None
SYMMETRY TaskSymmetry
INVARIANTS
  NoDoublePost
CHECK_DEADLOCK FALSE

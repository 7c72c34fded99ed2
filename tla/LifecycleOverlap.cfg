SPECIFICATION Spec
CONSTANTS
  Tickets = {t1}
  Tasks = {k1, k2, k3}
  ReopenWindow = 0
  MaxDay = 1
  MaxRuns = 3
  None = None
SYMMETRY TaskSymmetry
INVARIANTS
  StampsExplainStatus
  AuditExplainsStatus
  ResolvedIsTold
CHECK_DEADLOCK FALSE

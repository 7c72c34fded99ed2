SPECIFICATION Spec
CONSTANTS
  Tickets = {t1}
  Orgs = {o1, o2, o3, o4}
  Csms = {c1}
  Days = {d1}
  Choices <- SomeChoices
  Critical = {t1}
  None = None
  Several = 3
  Many = 4
  Tasks = {k1, k2}
  MaxRuns = 4
  MaxRaces = 2
  MaxFaults = 1
SYMMETRY Symmetric
INVARIANTS
  SubtypeFits
  SuggestedInTime
  LinearFollows
  AuditLeadsHere
  NobodyOvertaken
PROPERTIES
  CardFresh
CHECK_DEADLOCK FALSE

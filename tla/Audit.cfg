SPECIFICATION Spec
CONSTANTS
  Objects = {"o1", "o2", "o3"}
  Constraints = {"c1", "c2"}
  KindOf <- MCKindOf
  NamespaceOf <- MCNamespaceOf
  ClusterWide = ""
  Excluded = {"n2"}
  Cached = {"o1", "o3"}
  CKindOf <- MCCKindOf
  MatchKinds <- MCMatchKinds
  AllKinds = "*"
  constraintViolationsLimit = 1
  auditChunkSize = 1
  Steps = 2
  MaxAudits = 3
  Scenarios <- MCScenarios
INVARIANTS TotalsExact ByPodKept
PROPERTIES StepsBackOnce ResultsArrive
CHECK_DEADLOCK FALSE

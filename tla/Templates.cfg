SPECIFICATION Spec
CONSTANTS
  k1 = k1
  c1 = c1
  Kinds = {k1}
  Constraints = {c1}
  KindOf <- MCKindOf
  Scenarios <- MCScenarios
INVARIANTS RestReconciled RestReported
PROPERTIES QuietAfterStop Settles
CHECK_DEADLOCK FALSE

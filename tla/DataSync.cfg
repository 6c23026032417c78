SPECIFICATION Spec
CHECK_DEADLOCK FALSE
CONSTANTS
  Kinds = {"P", "Q"}
  Objects = {"p1", "q1"}
  Namespaces = {"a", "b"}
  KindOf <- MCKindOf
  NamespaceOf <- MCNamespaceOf
  Configs <- FourConfigs
  NoConfig <- MCNoConfig
  Unregistered = {}
  MaxConfigs = 3
  MaxChanges = 1
  MaxFailures = 1
INVARIANTS Complete NothingStaleAlone
PROPERTIES Resynced

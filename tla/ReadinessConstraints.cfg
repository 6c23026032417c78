SPECIFICATION Spec
CONSTRAINT Starting
CONSTANTS
  Keys = {"T1", "c1"}
  KindOf <- MCKindOf
  Retries = 0
  TemplateKinds = {"T1"}
  DataKinds = {}
  SyncOnly <- NoEntries
  Objects = {"c1"}
  Mutators = {}
  Roots = {"templates"}
  Breakable = {"T1", "c1"}
  Deletable = {"T1", "c1"}
  Generations = 2
INVARIANTS ReadySound
PROPERTIES ReadyUnlessLost

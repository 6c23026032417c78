SPECIFICATION Spec
CONSTRAINT Starting
CONSTANTS
  Keys = {"D1", "d1", "a1"}
  KindOf <- MCKindOf
  Retries = 0
  TemplateKinds = {}
  DataKinds = {"D1"}
  SyncOnly <- OneEntry
  Objects = {"d1"}
  Mutators = {"a1"}
  Roots = {"config", "Assign"}
  Breakable = {"D1", "a1"}
  Deletable = {"D1", "a1"}
  Generations = 2
INVARIANTS ReadySound
PROPERTIES ReadyUnlessLost

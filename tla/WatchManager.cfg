SPECIFICATION Spec
CHECK_DEADLOCK FALSE
CONSTANTS
  Registrars = {r1, r2}
  ByConfig = r2
  NoRegistrar = NoRegistrar
  Uses <- Mixed
  Kinds = {"P", "Q"}
  Objects = {"p1"}
  KindOf <- MCKindOf
  Unregistered = {"Q"}
  Replays = {g1, g2}
  NoReplay = NoReplay
  Attempts = 1
  MaxCalls <- ThreeAndTwo
  MaxChanges = 1
SYMMETRY ReplaySymmetry
CONSTRAINT Running
INVARIANTS NothingLost InformersMatchWatches IntentIsWatched

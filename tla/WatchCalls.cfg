SPECIFICATION Spec
CHECK_DEADLOCK FALSE
CONSTANTS
  Registrars = {r1, r2}
  ByConfig = r2
  NoRegistrar = NoRegistrar
  Uses <- Production
  Kinds = {"P"}
  Objects = {"p1"}
  KindOf <- MCKindOf
  Unregistered = {}
  Replays = {g1, g2}
  NoReplay = NoReplay
  Attempts = 2
  MaxCalls <- Two
  MaxChanges = 1
PROPERTIES CallsReturn ChangesArrive

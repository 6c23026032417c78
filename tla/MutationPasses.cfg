SPECIFICATION Spec
CONSTRAINT OneCall
CHECK_DEADLOCK FALSE
CONSTANTS
  GVKs = {"Pod"}
  Mutators <- ChainAndChase
  Objs <- MCObjs
  Failed = Failed
  Effect <- MCEffect
  Invalid <- Refused
  Callers = {c1}
  Controllers = {0, 1}
  MaxChanges = 3
  MaxEvents = 0
  MaxFailures = 0
INVARIANTS Idempotent GivesUpOnlyOnRivals WritesItsLocation

SPECIFICATION Spec
CHECK_DEADLOCK FALSE
CONSTANTS
  GVKs = {"Pod"}
  Mutators <- FewRivals
  Objs = {}
  Failed = Failed
  Effect <- NoEffect
  Invalid <- Refused
  Callers = {}
  Controllers = {0}
  MaxChanges = 3
  MaxEvents = 1
  MaxFailures = 1
INVARIANTS InSync ConflictsComeFromUpdates RestInSync
PROPERTIES Settles

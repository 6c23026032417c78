SPECIFICATION SchemaSpec
CONSTANTS
  GVKs = {"Pod", "Job"}
  Mutators <- MCMutators
INVARIANTS TreesExact FlagsComplete

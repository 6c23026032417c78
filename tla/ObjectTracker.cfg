SPECIFICATION Spec
CONSTANTS
  Keys = {"a1", "b1", "b2"}
  KindOf <- MCKindOf
  Retries = 1
  Checkers = {p1, p2}
  RepeatExpect = FALSE
INVARIANTS SatisfiedSound KindsExact SatisfiedAtomic NothingStranded
PROPERTIES ImplementsExpectations

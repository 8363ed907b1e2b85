SPECIFICATION Spec
CONSTANTS
  Programs <- ManyPrograms
  MaxTests = 2
INVARIANT SameAsPython
INVARIANT DispatchesCurrent
INVARIANT Verified
CHECK_DEADLOCK FALSE

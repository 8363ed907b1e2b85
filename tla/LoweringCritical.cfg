SPECIFICATION Spec
CONSTANTS
  Programs <- CriticalPrograms
  MaxTests = 2
INVARIANT ExitOnEveryPath
CHECK_DEADLOCK FALSE

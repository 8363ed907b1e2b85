SPECIFICATION Spec
CONSTANTS
  Dims = {1, 2}
  Bits <- MCBits
  Globals <- MCGlobals
  Functions <- MCFunctions
  Calls <- MCCalls
INVARIANT SignatureSuffices
INVARIANT SameAsHost
CHECK_DEADLOCK FALSE

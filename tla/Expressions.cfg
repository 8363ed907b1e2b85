SPECIFICATION Spec
CONSTANTS
  Dims = {1, 2}
  Bits <- MCBits
  Globals <- MCGlobals
  Functions <- MCFunctions
  Programs <- MCPrograms
  Envs <- MCEnvs
  Profiles = {"default", "catseq"}
INVARIANT Emitted
INVARIANT SameAsPython
INVARIANT ZeroDivisorsRefused
CHECK_DEADLOCK FALSE

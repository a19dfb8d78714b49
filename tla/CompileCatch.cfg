CONSTANTS
  IntBits = 6
  NarrowMax = 7
  ImmMax = 3
  UpvalueMax = 4
  maxFrames = 6
  MaxDepth = 6
  Builtins <- MCBuiltins
  Programs <- CatchPrograms
SPECIFICATION Spec
INVARIANT MeansTheSame

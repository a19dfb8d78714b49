CONSTANTS
  IntBits = 6
  NarrowMax = 7
  ImmMax = 3
  UpvalueMax = 4
  maxFrames = 6
  MaxDepth = 6
  Builtins <- MCBuiltins
  Programs <- AllPrograms
SPECIFICATION Spec
INVARIANTS MeansTheSame StackAsPlanned OpenUpvaluesLive TriesSound
PROPERTY Terminates

CONSTANTS
    Closures = {c1}
    Locals = 0
    MaxFrames = 3
    MaxDepth = 3
    MaxStack = 5
    MaxTemps = 1
    MaxTrys = 2
SPECIFICATION Spec
INVARIANTS
    TryStackExact
    RunsOwnFrames
    NoCodeRunsPastAFault

CONSTANTS
    Threads = {t1, t2, t3}
    Values = {v1, v2}
    MaxQueue = 2
    Nil = nil
    True = true
    Error = error
SPECIFICATION FairSpec
INVARIANTS
    WakeupsSuffice
PROPERTIES
    ImplementsFIFO
    ReleasesSleepers

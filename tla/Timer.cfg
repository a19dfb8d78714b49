CONSTANTS
    Scripts = {main}
    Threads = {t1, t2, t3}
    States = {s1, s2}
    First = s1
    MaxCalls = 7
SPECIFICATION FairSpec
INVARIANT ThreadsBounded
PROPERTIES StopSilences NoTickAfterStop
CHECK_DEADLOCK FALSE

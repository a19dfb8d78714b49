CONSTANTS
    Main = main
    Workers = {w1, w2}
    Backoff = 1
SPECIFICATION FairSpec
INVARIANTS
    CountersExact
    StopTheWorld
    RequestHasOwner
    BackoffBounded
PROPERTIES
    AttemptEnds
    ParkedResumes

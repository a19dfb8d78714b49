CONSTANTS
    MainVM = main
    Tasks = {a1}
    Workers = {w1}
    Timers = {t1}
    None = none
SPECIFICATION Spec
INVARIANTS
    ResumedExactlyOnce
    RetainsBalanced
    ExitsWhenIdle
PROPERTIES
    FirstWriterWins
    ProgramEnds
    SettledResumes
CHECK_DEADLOCK FALSE

CONSTANTS
    Workers = {w1, w2}
    MaxJobs = 5
SPECIFICATION FairSpec
CHECK_DEADLOCK FALSE
INVARIANTS
    TypeOK
    CountsJobs
    DrainedWhenClosed
    ConfiguredFirst
    PanicsOnlyOnInterrupt
PROPERTIES
    InterruptEnds

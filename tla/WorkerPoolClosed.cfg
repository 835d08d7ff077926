CONSTANTS
    Workers = {w1, w2}
    MaxJobs = 3
SPECIFICATION Spec
CHECK_DEADLOCK FALSE
INVARIANTS
    ClosedPoolIsNop

CONSTANTS
    NULL = NULL
    Requests = {r1, r2, r3}
    Devices = {d1}
    NoDevice = NoDevice
    Peers = {p1}
    Tokens = 2
    Interval = 2
    MaxBurst = 2
    TTL = 7
    GCInterval = 2
    CallInputs <- MCAllKinds
    MaxStall = 1
    LastArrival = 9
    MaxTime = 9
SYMMETRY RequestSymmetry
SPECIFICATION Spec
CHECK_DEADLOCK FALSE
INVARIANTS
    TypeOK
    RateBound
    WaitersKeepTheirBucket

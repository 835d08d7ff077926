CONSTANTS
    NULL = NULL
    Requests = {r1, r2}
    Devices = {d1}
    NoDevice = NoDevice
    Peers = {p1}
    Tokens = 1
    Interval = 6
    MaxBurst = 50
    TTL = 3
    GCInterval = 1
    CallInputs <- MCEndless
    MaxStall = 1
    LastArrival = 6
    MaxTime = 6
SPECIFICATION Spec
CHECK_DEADLOCK FALSE
INVARIANTS
    TokensPerInterval

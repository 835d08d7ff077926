CONSTANTS
    NULL = NULL
    Requests = {r1, r2}
    Devices = {d1}
    NoDevice = NoDevice
    Peers = {p1}
    Fields = {temperature}
    Tokens = 1
    Interval = 3
    MaxBurst = 50
    TTL = 1
    GCInterval = 1
    CallInputs <- MCMixed
    MaxStall = 1
    LastArrival = 0
    MaxTime = 5
SPECIFICATION FairPipelineSpec
CHECK_DEADLOCK FALSE
INVARIANTS
    PipelineTypeOK
    AnswerTellsEffect
    ApisAgree
    LogTellsAnswer
PROPERTIES
    EventuallyAnswered
    IdleEntriesGo

CONSTANTS
    NULL = NULL
    FileInputs <- MCFileInputs
    EnvInputs <- MCEnvInputs
    MaxBurst = 50
    Requests = {r1, r2}
    Hijacked = {r2}
    MaxRetries = 2
    MaxStarts = 3
SPECIFICATION FairSpec
CHECK_DEADLOCK FALSE
INVARIANTS
    TypeOK
    ServesMigrated
    LimiterAdmits
PROPERTIES
    EndsWhenTold

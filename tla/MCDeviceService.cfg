CONSTANTS
    NULL = NULL
    NaN = NaN
    ZeroTime = ZeroTime
    Blank = Blank
    Devices = {d1, d2}
    Requests = {r1, r2}
    TicksPerSecond = 2
    MinTemp <- MCMinTemp
    MaxTemp = 1
    MinBatt = 0
    MaxBatt = 1
    TempInputs <- MCTempInputs
    BattInputs <- MCBattInputs
    TimeInputs <- MCTimeInputs
SPECIFICATION FairSpec
CHECK_DEADLOCK FALSE
INVARIANTS
    TypeOK
    AlertsFollowConfig
    FallbackAlertsOnlyTemperature
    AlertBackedByMetric
    StoredOnce
    StoredValuesInRange
PROPERTIES
    AlertsAppendOnly
    MetricsAppendOnly
    EventuallyAnswered

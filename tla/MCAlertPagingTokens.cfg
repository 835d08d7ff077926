CONSTANTS
    NULL = NULL
    Blank = Blank
    ZeroTime = ZeroTime
    Garbled = Garbled
    Devices = {d1, d2}
    Reasons = {"TEMPERATURE_HIGH"}
    TicksPerSecond = 2
    DefaultPageSize = 1
    MaxPageSize = 2
    MinJSONTs = 0
    MaxJSONTs = 2
    MaxAlerts = 2
    AlertTimes <- MCAlertTimes
    StartInputs <- MCStartInputs
    EndInputs <- MCEndInputs
    SizeInputs <- MCSizeInputs
    OddTokens <- MCOddTokens
SPECIFICATION Spec
INVARIANTS
    NoPanic

SPECIFICATION Spec
CONSTANTS
    Paths = {a, b}
    LargePaths = {b}
    LargeParts = 1
    PackCap = 1
    NoEntry = NoEntry
    None = None
    Allowed = {"cancel"}
    MaxTime = 2
    MaxVer = 1
    MaxBackups = 2
    MaxFaults = 0
PROPERTY CancelationForgotten
CHECK_DEADLOCK FALSE

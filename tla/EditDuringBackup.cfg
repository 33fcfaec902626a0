SPECIFICATION Spec
CONSTANTS
    Paths = {a, b}
    LargePaths = {b}
    LargeParts = 1
    PackCap = 1
    NoEntry = NoEntry
    None = None
    Allowed = {"edit"}
    MaxTime = 3
    MaxVer = 2
    MaxBackups = 2
    MaxFaults = 0
INVARIANT IncrementalSound
CHECK_DEADLOCK FALSE

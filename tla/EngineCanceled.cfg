SPECIFICATION Spec
CONSTANTS
    Paths = {a, b}
    LargePaths = {b}
    LargeParts = 1
    PackCap = 1
    NoEntry = NoEntry
    None = None
    Allowed = {"crash", "undoCrash", "readError", "delete", "rollback", "cancel", "forceFull"}
    MaxTime = 3
    MaxVer = 2
    MaxBackups = 2
    MaxFaults = 1
INVARIANT IncrementalListed
CHECK_DEADLOCK FALSE

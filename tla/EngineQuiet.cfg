SPECIFICATION Spec
CONSTANTS
    Paths = {a, b}
    LargePaths = {}
    LargeParts = 1
    PackCap = 1
    NoEntry = NoEntry
    None = None
    Allowed = {"crash", "delete", "rollback"}
    MaxTime = 3
    MaxVer = 2
    MaxBackups = 3
    MaxFaults = 1
SYMMETRY SmallFileSymmetry
INVARIANTS TypeOK IncrementalInv IncrementalSound
PROPERTIES SnapshotMatchesFs ImplementsService
CHECK_DEADLOCK FALSE

SPECIFICATION FairSpec
CONSTANTS
    Paths = {a, b}
    LargePaths = {b}
    LargeParts = 2
    PackCap = 1
    NoEntry = NoEntry
    None = None
    Allowed = {"crash", "storeError", "readError", "edit", "editDirty", "dirtyStart", "delete", "rollback", "cloudrm", "sameSecond"}
    MaxTime = 2
    MaxVer = 1
    MaxBackups = 2
    MaxFaults = 1
INVARIANTS NoDangling StorageInv
PROPERTIES DirtyJournalResolved EngineReturns
CHECK_DEADLOCK FALSE

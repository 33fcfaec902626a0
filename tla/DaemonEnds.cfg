SPECIFICATION HFairSpec
CONSTANTS
    Jobs = {j1, j2}
    Clients = {c1}
    Timers = {t}
    None = None
    Dirs = 1
    Allowed = {"backup", "restore", "delete", "wipe", "checkConn", "hello", "prune", "cloud", "database"}
    StartDirty = TRUE
    MaxRequests = 3
    MaxHellos = 1
    MaxCancels = 1
    MaxFaults = 1
INVARIANTS TypeOK QuiescentIdle SerialInv OverlapIsARace
PROPERTIES EventsDelivered WorkEnds
CHECK_DEADLOCK FALSE

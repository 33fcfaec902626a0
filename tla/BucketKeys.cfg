SPECIFICATION FairSpec
CONSTANTS
    Machines = {"m1"}
    Buckets = {"b1", "b2"}
    Passwords = {"w1", "w2"}
    Procs = {p1, p2}
    Host <- OneHost
    None = None
    NoBucket = NoBucket
    NoPassword = NoPassword
    Allowed = {"hello", "backup", "check", "change", "config", "command", "wipe", "crash", "error", "outage"}
    Choices <- SmallChoices
    Changes <- SmallChanges
    StartBuckets <- SmallBuckets
    StartFiles <- SmallFiles
    MaxCalls = 3
    MaxFaults = 1
INVARIANTS TypeOK ObjectsReadable KeyInv
PROPERTIES KeysSurvive CallsEnd
CHECK_DEADLOCK FALSE

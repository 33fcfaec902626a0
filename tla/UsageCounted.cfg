SPECIFICATION Spec
CONSTANTS
    Procs = {p1, p2}
    None = None
    Window = 1
    Allowed = {"during", "crash", "error", "tidyError"}
    MaxDay = 2
    MaxBytes = 2
    MaxCalls = 2
    MaxBackups = 1
    MaxFaults = 1
INVARIANTS TypeOK NeverOvercounted NothingLost ShownStays
CHECK_DEADLOCK FALSE
SYMMETRY CallerSymmetry

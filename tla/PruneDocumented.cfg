SPECIFICATION Spec
CONSTANTS
    Bounds <- HourBounds
    StartTime <- YearsEnd
    StartInfos <- SomeInfos
    MaxSnaps = 4
    MaxTicks = 0
    MaxTime <- YearsEnd
INVARIANT KeepsAsDocumented
CHECK_DEADLOCK FALSE

SPECIFICATION Spec
CONSTANTS
    Bounds <- SmallBounds
    StartTime = 12
    StartInfos = {0, 1, 2, 3, 4, 5, 6, 7, 8, 9, 10, 11, 12}
    MaxSnaps = 4
    MaxTicks = 2
    MaxTime = 14
INVARIANTS TypeOK PruneInv KeepsAreOldestAndNewest
PROPERTIES NewestKept RangesCovered
CHECK_DEADLOCK FALSE

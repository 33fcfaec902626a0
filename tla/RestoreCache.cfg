SPECIFICATION FairSpec
CONSTANTS
    Chunks = {1, 2, 3}
    Foreign = {4}
    Size <- SmallSize
    MaxCacheSizeOnDisk = 3
    Order <- SmallOrder
    Kind <- SmallKind
    Dir <- SmallDir
    Top = Top
    ChunkExtents <- SmallExtents
    StartsWith <- SmallPrefix
    Selections = {{}, {"d/e"}}
    MaxRestores = 2
    MaxFaults = 2
INVARIANTS TypeOK RestoreInv ModesAreFinal DirectoryWithinLimit
PROPERTIES KeepsPromise RestoreEnds
CHECK_DEADLOCK FALSE

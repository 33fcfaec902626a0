SPECIFICATION FairSpec
CONSTANTS
    MaxLineLengthBytes = 3
    MaxLinesToReturnInSingleCall = 1
    Lengths = {0, 2, 6}
    MaxLines = 4
    MaxTruncations = 2
    MaxFaults = 1
INVARIANTS TypeOK LinesExact LogInv
PROPERTIES EverythingArrives
CHECK_DEADLOCK FALSE

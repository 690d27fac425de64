SPECIFICATION MCSpec
CONSTANTS
    Disks <- TwoAndMedium
    FaultyAttempts <- First
    MaxAttempts = 2
    Size <- Sizes
    Tolerance = 10
    Medium <- OnlyThree
    Lines <- Typed
    MaxKeys = 3
CHECK_DEADLOCK FALSE
INVARIANTS
    NothingUnconfirmed
    Unwound
    InstalledWorks
    RerunStarts
    PamVerdict
    ScanRight

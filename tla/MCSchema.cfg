SPECIFICATION MCSpec
CONSTANTS
    Ports = {"eth0", "eth1"}
    Addresses = {"a1", "a2"}
    Releases <- TwoReleases
    Typed <- ShapeLines
    Files <- HandEdited
    MaxChanges = 2
CHECK_DEADLOCK FALSE
INVARIANTS
    SoundAccepted
    ChangesTold
    SavedReadsBack
    LoadedAsWritten
    FaultsMended
PROPERTIES
    LinesAddNoFault

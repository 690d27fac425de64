SPECIFICATION MCSpec
CONSTANTS
    Ifs = {"eth0"}
    Opers = {"up", "down"}
    Counted = {"eth0"}
    Clearers = {"c1"}
    PersistEvery = 9
    Faults = {"overrun"}
    History = 2
    MaxMoves = 2
    MaxOctets = 0
    MaxTime = 1
    MaxQueue = 2
    MaxClears = 1
    MaxRestarts = 1
CHECK_DEADLOCK FALSE
INVARIANTS
    CountsTransitions
    ReportsSinceClear
    MonitorKeeps
    SessionKept
    CodeIsTrue
    SocketReached
PROPERTIES
    Resynchronised
    CallsReturn

SPECIFICATION Spec
CONSTANTS
    Configs = {empty, dflt, c1, bad}
    None = None
    Other = Other
    Empty = empty
    Defaults = dflt
    Valid = {empty, dflt, c1}
    Edits = {empty, c1}
    HandEdits = {bad}
    Garbage = garbage
    Sessions = {s1}
    Faults = {}
    HISTORY = 2
    KEEP = 1
    MaxGeneration = 2
    MaxCrashes = 1
    MaxReboots = 1
INVARIANT NewestIsKept
CHECK_DEADLOCK FALSE

SPECIFICATION FairSpec
CONSTANTS
    Configs = {empty, dflt, c1, bad}
    None = None
    Other = Other
    Empty = empty
    Defaults = dflt
    Valid = {empty, dflt, c1}
    Edits = {c1}
    HandEdits = {garbage}
    Garbage = garbage
    Sessions = {s1}
    Faults = {}
    HISTORY = 2
    KEEP = 2
    MaxGeneration = 1
    MaxCrashes = 1
    MaxReboots = 0
PROPERTY DefaultsAnnounced

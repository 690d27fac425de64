SPECIFICATION FairSpec
CONSTANTS
    Configs = {empty, dflt, c1, bad}
    None = None
    Other = Other
    Empty = empty
    Defaults = dflt
    Valid = {empty, dflt, c1}
    Edits = {c1}
    HandEdits = {garbage}
    Garbage = garbage
    Sessions = {s1}
    Faults = {"archive", "remember", "arm"}
    HISTORY = 2
    KEEP = 2
    MaxGeneration = 2
    MaxCrashes = 2
    MaxReboots = 1
INVARIANT TypeOK
INVARIANT EditsDurable
INVARIANT PromiseGuarded
INVARIANT OnlyPromisedWindows
PROPERTY ArchivedIsKept
PROPERTY ImplementsCommitConfirmLive
PROPERTY NeverDead

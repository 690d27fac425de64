SPECIFICATION Spec
CONSTANTS
    Configs = {empty, dflt, c1, bad}
    None = None
    Other = Other
    Empty = empty
    Defaults = dflt
    Valid = {empty, dflt, c1}
    Edits = {c1}
    HandEdits = {bad}
    Garbage = garbage
    Sessions = {s1, s2}
    Faults = {"session", "forget"}
    HISTORY = 2
    KEEP = 1
    MaxGeneration = 2
    MaxCrashes = 1
    MaxReboots = 0
SYMMETRY SessionSymmetry
INVARIANT NoLostUpdate
INVARIANT HistoryTruthful
INVARIANT OnlyValidApplied
PROPERTY PromotedIsApplied
PROPERTY ImplementsCommitConfirm

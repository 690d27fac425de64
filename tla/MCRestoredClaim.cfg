SPECIFICATION Spec
CONSTANTS
    Configs = {c1, c2}
    None = None
    Other = Other
    N = 2
    RememberFails = FALSE
    MaxCalls = 2
SYMMETRY Symmetry
INVARIANT RestoredMeansPrevious
CHECK_DEADLOCK FALSE

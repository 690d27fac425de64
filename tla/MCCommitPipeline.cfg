SPECIFICATION Spec
CONSTANTS
    Configs = {c1, c2, c3}
    None = None
    Other = Other
    N = 3
    RememberFails = TRUE
    MaxCalls = 3
SYMMETRY Symmetry
INVARIANT TypeOK
INVARIANT MeetsContract
INVARIANT PointsWereWhole
INVARIANT RestoredEach

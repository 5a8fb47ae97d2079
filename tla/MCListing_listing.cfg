SPECIFICATION Spec
CONSTANTS
    Id <- MCId
    Patcher = {p1, p2}
    MaxLimit = 2
    DefaultLimit = 1
    Skew = 0
    MaxTime = 1
    None = None
SYMMETRY Symmetry
CHECK_DEADLOCK FALSE
INVARIANTS
    TypeOK
    NothingSkipped
    RepeatsExplained
PROPERTIES
    RegressOnlyOnOverlap

SPECIFICATION StudioSpec
CONSTANTS
    Requests = {r1, r2, r3, r4}
    Limit = 2
    MaxLost = 1
SYMMETRY RequestSymmetry
INVARIANTS
    OnlyOverlapExceedsLimit
    OneJobPerPlan

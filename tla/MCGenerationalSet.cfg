SPECIFICATION SetSpec
CONSTANTS
    T = {v1, v2, v3, v4}
    Sizes = {0, 1, 3, 4}
    MaxInserts = 6
SYMMETRY Perms
INVARIANTS
    DedupWindow
    SizeBound

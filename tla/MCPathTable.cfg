SPECIFICATION Spec
CONSTANTS
    b1 = b1
    b2 = b2
    b3 = b3
    b4 = b4
    i1 = i1
    i2 = i2
    Dest = {d1}
    Neighbor = {n1, n2}
    Iface = {i1, i2}
    Blob = {b1, b2, b3, b4}
    Emitted <- EmittedDef
    PathTime <- PathTimeDef
    WireHops = {0, 127, 128, 255}
    PATHFINDER_M = 128
    MAX_RANDOM_BLOBS = 3
    PERSIST_RANDOM_BLOBS = 2
    NoPath = NoPath
    Junk = Junk
    MAX_LISTED = 1
    MaxTime = 2
INVARIANTS
    QueriesAgree
    VerdictIsCurrent
PROPERTIES
    NeverReplacedByOlder
    ReplayProtected

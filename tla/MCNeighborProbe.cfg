SPECIFICATION FairSpec
CONSTANTS
    n1 = n1
    n2 = n2
    Neighbor = {n1, n2}
    Known = {n1}
    Purpose <- MCPurpose
    Route <- MCRoute
    None = None
    MAX_RECEIPTS = 1
    MaxSent = 3
    MIN_PKTS = 1
    MaxEvents = 2
INVARIANTS
    Accounted
PROPERTIES
    NoStaleDemotion
    Concludes
CHECK_DEADLOCK FALSE

SPECIFICATION FairSpec
CONSTANTS
    Dest = {d1, d2}
    MaxGen = 2
    HopCounts = {1, 2, 3}
    announce_table_maxsize = 1
    path_table_maxsize = 1
    PATHFINDER_R = 1
    LOCAL_REBROADCASTS_MAX = 2
    MaxEvents = 3
    NoEntry = NoEntry
INVARIANTS
    TypeOK
    TableBound
    NoAmplification
PROPERTIES
    Drains
CHECK_DEADLOCK FALSE

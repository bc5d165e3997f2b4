SPECIFICATION FairSpec
CONSTANTS
    A = A
    D = D
    r1 = r1
    r2 = r2
    m1 = m1
    m2 = m2
    Relay = {r1, r2}
    Medium = {m1, m2}
    Hears <- MixedHears
    Routes <- MixedRoutes
    Plans = {{"LR", "KEEP"}, {"MSG"}}
    Patient = TRUE
    MaxChanges = 0
    MaxHops = 3
    PATHFINDER_M = 128
    None = None
PROPERTIES
    LinkComesUp
    MessageProven
CHECK_DEADLOCK FALSE

SPECIFICATION Spec
CONSTANTS
    A = A
    D = D
    r1 = r1
    r2 = r2
    m1 = m1
    m2 = m2
    Relay = {r1, r2}
    Medium = {m1, m2}
    Hears <- OneWayHears
    Routes <- MixedRoutes
    Plans = {{"LR"}, {"MSG"}}
    Patient = FALSE
    MaxChanges = 1
    MaxHops = 3
    PATHFINDER_M = 128
    None = None
INVARIANTS
    TypeOK
    RelayedOnce
    FilteredIsRelayed
    CarriedIsValidated
CHECK_DEADLOCK FALSE

SPECIFICATION FairSpec
CONSTANTS
    r1 = r1
    r2 = r2
    Req = {r1, r2}
    Kind <- MCKind
    Mtu = {1, 2}
    DefaultMtu = 1
    HwMtu = {0, 1, 2}
    Strategy = "PROVE_APP"
    MaxFaults = 1
    MaxTeardowns = 2
INVARIANTS
    Consistent
    AnsweredIsServed
PROPERTIES
    ClosedForGood
    CloseReaches
    Answered
CHECK_DEADLOCK FALSE

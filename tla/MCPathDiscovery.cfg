SPECIFICATION FairSpec
CONSTANTS
    relay = relay
    asker = asker
    o = o
    m1 = m1
    m2 = m2
    d = d
    None = None
    d2 = d2
    Node = {relay, asker, o}
    Medium = {m1, m2}
    On <- MCOn
    Transport = {relay, asker}
    Owner = o
    Client = {asker}
    Dest = {d, d2}
    Mode <- MCMode
    Limited <- MCLimited
    Grace = 0
    MAX_QUEUED_ANNOUNCES = 1
    MaxAnnounces = 3
    MAX_PR_TAGS = 4
    MAX_QUEUED_DISCOVERY_PRS = 1
    MaxTags = 2
    MaxFaults = 1
INVARIANTS
    Contained
PROPERTIES
    Discovers
CHECK_DEADLOCK FALSE

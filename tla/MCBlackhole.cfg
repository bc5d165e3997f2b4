SPECIFICATION BlackholeSpec
CONSTANTS
    i1 = i1
    i2 = i2
    d1 = d1
    d2 = d2
    d3 = d3
    Identity = {i1, i2}
    Dest = {d1, d2, d3}
    Owner <- OwnerDef
    MaxTime = 3
INVARIANTS
    BlackholeTypeOK
    NoBlackholedPath
PROPERTIES
    RestartKeepsList

CONSTANTS
    c1 = c1
    c2 = c2
    c3 = c3
    r1 = r1
    r2 = r2
    s = s
    d = d
    k = k
    Connects <- ThreeConnects
    Resolves <- TwoResolves
    Servers <- OneServer
    Devices <- OneDevice
    Wanted <- LessThenMore
    MaxFaults = 1
    MaxBusy = 2
    None = None
SPECIFICATION Spec
CHECK_DEADLOCK FALSE
SYMMETRY Symmetric
INVARIANTS
    TypeOK
    MemoryIsBacked
    AuthorizedAsApproved
    SupersededTokensRefused
PROPERTIES
    ImplementsLedger

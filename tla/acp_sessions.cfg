CONSTANTS
    c1 = c1
    c2 = c2
    c3 = c3
    k1 = k1
    k2 = k2
    Calls <- ThreeCalls
    Sessions <- TwoSessions
    Jobs <- TurnAndTwo
    Reported = {"Ready", "Closed"}
    Limit = 1
    None = None
SPECIFICATION FairSpec
CHECK_DEADLOCK FALSE
INVARIANTS
    TypeOK
    OneCallPerSession
    CountsAreExact
    OnlyDroppedTurnsLinger
PROPERTIES
    ImplementsLine
    EveryCallReturns

CONSTANTS
    p1 = p1
    p2 = p2
    t1 = t1
    t2 = t2
    t3 = t3
    Processes <- TwoProcesses
    Threads <- ThreeThreads
    ProcessOf <- TwoOfThreeInP1
    MaxEvents = 4
    MaxLegacy = 1
    Faults = {"nothing", "part", "read", "unlock"}
    Nobody = Nobody
SPECIFICATION FairSpec
CHECK_DEADLOCK FALSE
INVARIANTS
    TypeOK
    JournalVerifies
PROPERTIES
    ImplementsAuditLog
    OnlyLeaksBlock

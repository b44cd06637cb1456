CONSTANTS
    p1 = p1
    p2 = p2
    t1 = t1
    t2 = t2
    t3 = t3
    Processes <- TwoProcesses
    Threads <- ThreeThreads
    ProcessOf <- TwoOfThreeInP1
    MaxEvents = 3
    MaxLegacy = 0
    Faults = {"part"}
    Nobody = Nobody
SPECIFICATION FairSpec
CHECK_DEADLOCK FALSE
PROPERTIES
    RecordReturns

CONSTANTS
    u1 = u1
    u2 = u2
    u3 = u3
    o1 = o1
    o2 = o2
    Units <- ThreeUnits
    Owners <- OneOwner
    Ranks = {1}
    RequestedStatuses = {"ready", "cancelled"}
    DueTimes = {0, 2}
    Ttls = {1}
    MaxTime = 2
    RetryPolicy <- ImpatientUnits
    AttemptBound = 2
    None = None
SPECIFICATION Spec
SYMMETRY UnitSymmetry
CHECK_DEADLOCK FALSE
INVARIANTS
    TypeOK
    LeaseMatchesStatus
    RetryBudgetHolds
    DependenciesAcyclic
PROPERTIES
    FinishedIsFinal

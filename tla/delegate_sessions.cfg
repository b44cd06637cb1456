CONSTANTS
    k1 = k1
    k2 = k2
    o1 = o1
    Children <- TwoChildren
    Operators <- OneOperator
    Modes <- OneInline
    MaxActive = 1
    MaxFaults = 1
    Home = Home
    None = None
SPECIFICATION Spec
CHECK_DEADLOCK FALSE
INVARIANTS
    TypeOK
    OneRunnerPerChild
    FirstRunsWithinLimit
    OnlyLostChildrenLinger
    OutcomesMatchStates
PROPERTIES
    FinishedIsFinal
    ResultsAreAnnounced

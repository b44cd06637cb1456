CONSTANTS
    c1 = c1
    c2 = c2
    c3 = c3
    c4 = c4
    broad = broad
    narrow = narrow
    read = read
    write = write
    slack = slack
    Calls <- MCCalls3
    Manifests <- MCManifests
    PackIds <- MCPackIds
    Capabilities <- MCCapabilities
    Connectors <- MCConnectors
    Demands <- MCDemands
    Ttls = {0, 1}
    Thresholds = {0, 1}
    RevocableIds = {1, 2}
    MaxGeneration = 7
    MaxTime = 1
    NoToken = NoToken
SPECIFICATION Spec
SYMMETRY CallSymmetry
CHECK_DEADLOCK FALSE
INVARIANTS
    TypeOK
    GrantsAreJustified
    AnswersHaveEvidence
    EvidenceIsTruthful
    RevokedCallsNeverRun
PROPERTIES
    RevocationIsFinal
    FreshTokensAreLive

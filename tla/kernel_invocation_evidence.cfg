CONSTANTS
    c1 = c1
    c2 = c2
    c3 = c3
    c4 = c4
    broad = broad
    narrow = narrow
    read = read
    write = write
    slack = slack
    Calls <- MCCalls3
    Manifests <- OneManifest
    PackIds <- MCPackIds
    Capabilities <- MCCapabilities
    Connectors <- MCConnectors
    Demands <- OneDemand
    Ttls = {0}
    Thresholds = {1}
    RevocableIds = {1}
    MaxGeneration = 7
    MaxTime = 0
    NoToken = NoToken
SPECIFICATION Spec
SYMMETRY CallSymmetry
CHECK_DEADLOCK FALSE
INVARIANTS
    InvocationsLeaveEvidence

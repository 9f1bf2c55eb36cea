SPECIFICATION Spec
CONSTANTS
    Clusters = {c1}
    NoCluster = NoCluster
    Bodies = {b1}
    Handlers = {h1, h2}
    MaxRules = 2
    MaxRequests = 4
    SyncLimit = 1000
    UnconditionalUpdate = TRUE
    Faults = TRUE
    NoRow = NoRow
SYMMETRY HandlerSymmetry
INVARIANTS TypeOK StaleHasCause
CHECK_DEADLOCK FALSE

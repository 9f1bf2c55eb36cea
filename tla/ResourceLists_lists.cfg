SPECIFICATION FairSpec
CONSTANTS
    Spaces = {n1}
    Names = {x}
    Vals = {v1, v2}
    Kind <- Deploy
    Handlers = {h1}
    Workers = {w1, w2}
    MaxEvents = 2
    MaxCrashes = 1
    Faults = FALSE
    All = All
    Count = Count
    None = None
INVARIANT StaleHasCause
PROPERTY IndexFollows
CHECK_DEADLOCK FALSE

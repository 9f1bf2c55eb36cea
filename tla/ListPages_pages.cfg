SPECIFICATION MCSpec
CONSTANTS
    Pages <- MCPages
    Clusters = {c1, c2}
    All = All
    Chosen = Chosen
    None = None
    c1 = c1
    MaxGets = 1
    MaxActs = 2
    MaxChanges = 1
    MaxRetries = 1
INVARIANTS SkeletonHasRequest StaleHasCause MisdirectedHasCause OneAtATime LabelHasRequest
CHECK_DEADLOCK FALSE

SPECIFICATION Spec
CONSTANTS
    Pages <- MCPages
    MaxParts = 2
    None = None
    MaxGets = 2
    MaxSaves = 2
INVARIANTS SkeletonHasRequest BlankHasCause OneAtATime StaleHasCause
PROPERTIES TypedTextIsKept PageComesBack
CHECK_DEADLOCK FALSE

SPECIFICATION MCSpec
CONSTANTS
    Queries <- AllViews
    Vals = {v1, v2}
    None = None
    v1 = v1
    MaxGets = 2
    MaxChanges = 2
    MaxJob = 3
INVARIANTS TypeOK LoadingHasRequest StaleHasCause OneAnalysis ReportHasCause
PROPERTY EndIsShown
CHECK_DEADLOCK FALSE

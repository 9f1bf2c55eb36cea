SPECIFICATION MCSpec
CONSTANTS
    Tabs = {t1, t2}
    Users = {u1, u2}
    u1 = u1
    None = None
    MaxLogins = 1
    MaxFaults = 1
INVARIANTS SignedOutEverywhere IdentityHasCause
PROPERTY CheckEnds
CHECK_DEADLOCK FALSE

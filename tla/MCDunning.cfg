SPECIFICATION FairSpec
CONSTANTS
    t1 = t1
    p1 = p1
    p2 = p2
    NoTenant = NoTenant
    Tenant <- Tenants
    Proc <- TwoProcs
    Days <- FewDays
    MaxTriggers = 2
    MaxFaults = 2
INVARIANTS
    NoEarlyCancel
    SubFollowsTenant
PROPERTIES
    LockHolds
    PastDueEnds
CHECK_DEADLOCK FALSE

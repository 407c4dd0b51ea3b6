SPECIFICATION Spec
CONSTANTS
    t1 = t1
    p1 = p1
    p2 = p2
    NoTenant = NoTenant
    Tenant <- Tenants
    Proc <- OneProc
    Days <- AllDays
    MaxTriggers = 1
    MaxFaults = 0
PROPERTIES
    OnlyPastDueCanceled
CHECK_DEADLOCK FALSE

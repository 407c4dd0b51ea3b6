SPECIFICATION FairSpec
CONSTANTS
    e1 = e1
    e2 = e2
    t1 = t1
    Event <- OneEvent
    Tenant <- Tenants
    TenantOf <- Owner
    Effect <- Effects
    MaxAttempts = 3
    MaxDeliveries = 3
    MaxFaults = 1
    MaxCrashes = 2
INVARIANTS
    TypeOK
    OneLiveJob
    FailedIsDeadLettered
PROPERTIES
    ProcessedIsFinal
    EveryEventSettles
CHECK_DEADLOCK FALSE

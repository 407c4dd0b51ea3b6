SPECIFICATION Spec
CONSTANTS
    e1 = e1
    e2 = e2
    t1 = t1
    Event <- OneEvent
    Tenant <- Tenants
    TenantOf <- Owner
    Effect <- Effects
    MaxAttempts = 3
    MaxDeliveries = 3
    MaxFaults = 0
    MaxCrashes = 0
INVARIANTS
    PendingHasJob
CHECK_DEADLOCK FALSE

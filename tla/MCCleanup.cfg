SPECIFICATION FairSpec
CONSTANTS
    s1 = s1
    s2 = s2
    t1 = t1
    NoServer = NoServer
    NoTenant = NoTenant
    Server <- Servers
    Tenant <- Tenants
    Kept = {}
    MaxJobs = 1
    MaxFaults = 2
    MaxCrashes = 1
INVARIANTS
    TypeOK
    RunsExclude
PROPERTIES
    HoldsRespected
    RetentionEnforced

SPECIFICATION Spec
CONSTANTS
    s1 = s1
    s2 = s2
    t1 = t1
    NoServer = NoServer
    NoTenant = NoTenant
    Server <- Servers
    Tenant <- Tenants
    Kept = {}
    MaxJobs = 1
    MaxFaults = 0
    MaxCrashes = 0
PROPERTY
    HoldKeepsAll

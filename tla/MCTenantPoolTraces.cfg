\* A client checked out a second time is traced twice.
SPECIFICATION Spec
CONSTANTS
    c1 = c1
    c2 = c2
    r1 = r1
    r2 = r2
    t1 = t1
    t2 = t2
    NoTenant = NoTenant
    NoConn = NoConn
    Conn <- Conns
    Req <- Reqs
    Tenant <- Tenants
    Modes <- TenantModes
    MaxWraps = 2
INVARIANTS
    OneTracePerQuery

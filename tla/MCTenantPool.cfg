\* Every usage of the pool, two slots shared by two requests.
SPECIFICATION FairSpec
CONSTANTS
    c1 = c1
    c2 = c2
    r1 = r1
    r2 = r2
    t1 = t1
    t2 = t2
    NoTenant = NoTenant
    NoConn = NoConn
    Conn <- Conns
    Req <- Reqs
    Tenant <- Tenants
    Modes <- AllModes
    MaxWraps = 1
INVARIANTS
    TypeOK
    NoConnectionLeak
    OwnContext
PROPERTIES
    LeaksOnlyByFailedClear
    EveryRequestEnds

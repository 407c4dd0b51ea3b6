SPECIFICATION Spec
CONSTANTS
    u1 = u1
    u2 = u2
    n1 = n1
    n2 = n2
    p1 = p1
    p2 = p2
    NoUser = NoUser
    NoId = NoId
    Mock = Mock
    User <- OneUser
    Name <- Names
    NameOf <- NameOfOne
    Apps <- BothApps
    Proc <- OneProc
    MaxRequests = 3
    MaxRows = 2
    MaxBoxes = 2
    MaxFaults = 1
INVARIANTS
    NoOrphanEver
CHECK_DEADLOCK FALSE

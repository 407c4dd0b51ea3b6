SPECIFICATION Spec
CONSTANTS
    u1 = u1
    u2 = u2
    n1 = n1
    n2 = n2
    p1 = p1
    p2 = p2
    NoUser = NoUser
    NoId = NoId
    Mock = Mock
    User <- Users
    Name <- Names
    NameOf <- NameOfUsers
    Apps <- AppSets
    Proc <- TwoProcs
    MaxRequests = 3
    MaxRows = 2
    MaxBoxes = 2
    MaxFaults = 1
SYMMETRY Symmetry
INVARIANTS
    StatusAgrees
    NoOrphan
PROPERTIES
    ProvisionedRuns
CHECK_DEADLOCK FALSE

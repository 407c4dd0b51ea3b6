SPECIFICATION Spec
CONSTANTS
    u1 = u1
    u2 = u2
    i1 = i1
    i2 = i2
    User = {u1, u2}
    Inst = {i1, i2}
    Owner <- MCOwner
    PlanOf <- MCPlanOf
    Admin = {u1}
    Manual = {"BUSINESS"}
    Scaled <- MCScaled
    Server = {s1}
    Proc = {q1, q2}
    NoItem = NoItem
    MaxRuns = 1
    MaxRequests = 4
    MaxFaults = 2
INVARIANTS
    LimitsMeant
CHECK_DEADLOCK FALSE

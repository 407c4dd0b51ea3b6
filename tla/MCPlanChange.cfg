SPECIFICATION Spec
CONSTANTS
    starter = starter
    pro = pro
    enterprise = enterprise
    Plan <- MCPlan
    NoPlan = NoPlan
    Price <- MCPrice
    Period = 3
    Proc = {p1, p2}
    MaxChanges = 2
    MaxPreviews = 1
    MaxFaults = 1
INVARIANTS
    TypeOK
    MoneyTelescopes
    PlansAgree
SYMMETRY
    MCSymmetry
CHECK_DEADLOCK FALSE

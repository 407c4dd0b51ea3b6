SPECIFICATION Spec
CONSTANTS
    starter = starter
    pro = pro
    enterprise = enterprise
    Plan <- MCPlan
    NoPlan = NoPlan
    Price <- MCPrice
    Period = 3
    Proc = {p1}
    MaxChanges = 1
    MaxPreviews = 1
    MaxFaults = 0
PROPERTY
    InvalidationReachesPreview
CHECK_DEADLOCK FALSE

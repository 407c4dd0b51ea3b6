SPECIFICATION Spec
CONSTANTS
    Task = {t1}
    PlannerPlans <- MCPlans
    MaxAttempts = 6
    MaxCalls = 1
    MaxFaults = 0
PROPERTY
    ReviewSeesLastChange
CHECK_DEADLOCK FALSE

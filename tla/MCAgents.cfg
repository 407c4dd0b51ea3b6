SPECIFICATION FairSpec
CONSTANTS
    Task = {t1, t2}
    PlannerPlans <- MCPlans
    MaxAttempts = 6
    MaxCalls = 1
    MaxFaults = 1
INVARIANTS
    PlanIsRun
PROPERTY
    KeepsItsPlan
CHECK_DEADLOCK FALSE

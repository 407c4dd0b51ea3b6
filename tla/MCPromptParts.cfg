SPECIFICATION Spec
CONSTANTS
    Request = {r1}
    Chunks <- MCChunks
    Facts <- MCFacts
    TopCode = 4
    TopFacts = 1
    Cap = 6
    Budget <- MCBudget
    Window = 14
    FileCap = 1
    Keep = 2
    Input <- MCInput
    Says <- MCSays
    MaxMessages = 3
    MaxFaults = 1
INVARIANTS
    PartsKeepBudgets
CHECK_DEADLOCK FALSE

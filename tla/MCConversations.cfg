SPECIFICATION FairSpec
CONSTANTS
    Req = {q1, q2}
    Conv = {c1}
    NoConv = NoConv
    Wordy = {c1}
    Server = {s1}
    Limit = 1
    SumOver = 2
    Keep = 1
    MaxFaults = 1
INVARIANTS
    TypeOK
    SavedOnce
PROPERTIES
    WorkersCatchUp
CHECK_DEADLOCK FALSE

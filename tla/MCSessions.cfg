SPECIFICATION Spec
CONSTANTS
    u1 = u1
    d1 = d1
    d2 = d2
    p1 = p1
    p2 = p2
    s1 = s1
    s2 = s2
    User <- MCUser
    Device <- MCDevice
    Proc <- MCProc
    Secret <- MCSecret
    NoSecret = NoSecret
    NoUser = NoUser
    NoDevice = NoDevice
    LoginLimit = 2
    BackupLimit = 2
    MaxTokens = 3
    MaxRequests = 6
    MaxWrong = 2
    MaxResets = 1
    MaxFaults = 1
SYMMETRY Symmetry
INVARIANTS
    TypeOK
    EndedStaysEnded
    SessionKept
    SecondFactorWorks
CHECK_DEADLOCK FALSE

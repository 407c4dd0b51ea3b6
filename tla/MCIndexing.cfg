SPECIFICATION Spec
CONSTANTS
    a = a
    b = b
    File = {f1}
    NoFile = NoFile
    Content <- MCContent
    Words <- MCWords
    ChunkSize = 3
    Overlap = 1
    Proc = {p1, p2}
    MaxMtime = 3
    MaxRuns = 2
    MaxFaults = 1
INVARIANTS
    TablesAgree
    IndexIsCurrent
SYMMETRY
    MCSymmetry
CHECK_DEADLOCK FALSE

SPECIFICATION Spec
CONSTANTS
    a = a
    b = b
    File = {f1, f2}
    NoFile = NoFile
    Content <- MCContent
    Words <- MCWords
    ChunkSize = 3
    Overlap = 1
    Proc = {p1}
    MaxMtime = 3
    MaxRuns = 0
    MaxFaults = 0
CHECK_DEADLOCK FALSE
PROPERTIES
    SkipsOnlyIndexed

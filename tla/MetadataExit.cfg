SPECIFICATION FairSpec
CONSTANTS
    File = {f1, f2}
    Content <- MCContent
    Process = {p1, p2}
    Mortal = {p1}
    Object = {o1}
    MaxStarts = 2
    MaxStreams = 2
INVARIANTS
    TypeOK
PROPERTIES
    RootAndBlocksKept
    ExitInitialises
CHECK_DEADLOCK FALSE

SPECIFICATION Spec
CONSTANTS
    File = {f1}
    Content <- MCContent
    Process = {p1}
    Mortal = {}
    Object = {o1}
    MaxStarts = 1
    MaxStreams = 1
PROPERTIES
    InitialisedRootKept
CHECK_DEADLOCK FALSE

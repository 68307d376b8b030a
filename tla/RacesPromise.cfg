SPECIFICATION RaceSpec
CONSTANTS
    Node = {1, 2, 3}
    MemberList <- MCMemberList
    Candidate = {1, 3}
    RetryCountLE = 1
    MaxElections = 1
    Lossy = FALSE
    Mortal = {}
    Recycled = {}
    Racing = {2}
CHECK_DEADLOCK FALSE
PROPERTIES
    AcceptorKeepsPromise

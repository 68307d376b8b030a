SPECIFICATION Spec
CONSTANTS
    Node = {1, 2, 3}
    MemberList <- MCMemberList
    Candidate = {1, 3}
    RetryCountLE = 1
    MaxElections = 1
    Lossy = FALSE
    Mortal = {}
    Recycled = {}
CHECK_DEADLOCK FALSE
INVARIANTS
    Agreement

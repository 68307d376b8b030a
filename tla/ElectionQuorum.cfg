SPECIFICATION ScheduledSpec
CONSTANTS
    Node = {1, 2, 3, 4, 5}
    MemberList <- MCMemberList
    Candidate = {1, 4, 5}
    RetryCountLE = 2
    MaxElections = 1
    Lossy = FALSE
    Mortal = {}
    Recycled = {}
CHECK_DEADLOCK FALSE
INVARIANTS
    CommitAcceptedByMajority

SPECIFICATION FairSpec
CONSTANTS
    Node = {1, 2}
    MemberList <- MCMemberList
    Candidate = {1, 2}
    RetryCountLE = 2
    MaxElections = 1
    Lossy = TRUE
    Mortal = {1}
    Recycled = {2}
CHECK_DEADLOCK FALSE
INVARIANTS
    CommitBackedByMajority
    LeaderStoodForElection
    AttemptsBounded
PROPERTIES
    ElectionReturns

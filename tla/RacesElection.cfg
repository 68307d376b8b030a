SPECIFICATION RaceFairSpec
CONSTANTS
    Node = {1, 2, 3}
    MemberList <- MCMemberList
    Candidate = {1, 3}
    RetryCountLE = 1
    MaxElections = 1
    Lossy = FALSE
    Mortal = {1}
    Recycled = {}
    Racing = {1, 2}
CHECK_DEADLOCK FALSE
INVARIANTS
    RaceTypeOK
    CommitBackedByMajority
PROPERTIES
    ImplementsQuorumCommit
    CommitLearned

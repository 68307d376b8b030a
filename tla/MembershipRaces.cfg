SPECIFICATION Spec
CONSTANTS
    Host = {"self", "other"}
    LocalHost = "self"
    IdOf <- MCIdOf
    Heap = {1, 2, 3}
    Value <- MCValue
    WildCount <- MCWildCount
    MaxCalls = 5
INVARIANTS
    TypeOK
    VectorHoldsLiveMembers
    StateNamesRecentLeader
    LeaderIsAnnouncedMember
CHECK_DEADLOCK FALSE

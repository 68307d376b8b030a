SPECIFICATION FairSpec
CONSTANTS
    Node = {1, 2}
    HostName <- MCPlain
    Adds <- MCAllAdd
    Mortal = {1}
    MaxStarts = 2
    MaxConnections = 2
    MaxMessages = 1
INVARIANTS
    TypeOK
    SocketHeldOnce
PROPERTIES
    ImplementsOrderedChannel
    PendingAttached
    DeadSocketDropped
CHECK_DEADLOCK FALSE

SPECIFICATION FairSpec
CONSTANTS
    Sender = {"main", "receiver"}
    PerPacket = {1, 4}
    Segment = {36, 92}
    MaxPackets = 2
INVARIANTS
    TypeOK
    QueueServesOneCaller
    HeardIsSent
PROPERTIES
    SentIsHeard
CHECK_DEADLOCK FALSE

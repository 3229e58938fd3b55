SPECIFICATION FairSpec
CONSTANTS
    u1 = u1
    s1 = s1
    Users <- OneUser
    Streams <- OneStream
    QueueCap = 1
    AcceptCap = 1
    MaxPackets = 3
    MaxAccepts = 1
CHECK_DEADLOCK FALSE
PROPERTIES
    EngineAnswers
    ConnectionEnds

SPECIFICATION Spec
CONSTANTS
    u1 = u1
    s1 = s1
    Users <- OneUser
    Streams <- OneStream
    QueueCap = 1
    AcceptCap = 1
    MaxPackets = 2
    MaxAccepts = 2
CHECK_DEADLOCK FALSE
INVARIANTS
    TypeOK
    OpenFindsStream
    StreamsAgree
    ClosedIsClean

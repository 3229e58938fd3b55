SPECIFICATION FairSpec
CONSTANTS
    o1 = o1
    o2 = o2
    u1 = u1
    s1 = s1
    p1 = p1
    Openers <- OneOpener
    Users <- OneUser
    Streams <- OneStream
    PeerStreams <- PeerStream
    QueueCap = 1
    MaxBatch = 1
    MaxConnects = 1
CHECK_DEADLOCK FALSE
PROPERTIES
    HandlersStop
    SessionEnds

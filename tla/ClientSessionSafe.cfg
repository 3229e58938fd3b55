SPECIFICATION Spec
CONSTANTS
    o1 = o1
    o2 = o2
    u1 = u1
    s1 = s1
    p1 = p1
    Openers <- TwoOpeners
    Users <- OneUser
    Streams <- OneStream
    PeerStreams <- PeerStream
    QueueCap = 1
    MaxBatch = 1
    MaxConnects = 2
CHECK_DEADLOCK FALSE
SYMMETRY AnyOpener
INVARIANTS
    TypeOK
    CloseInOrder
    NoLockCycle
    ClosedIsClean

SPECIFICATION Spec
CONSTANTS
    h1 = h1
    h2 = h2
    c1 = c1
    c2 = c2
    c3 = c3
    p1 = p1
    p2 = p2
    p3 = p3
    k1 = k1
    k2 = k2
    s1 = s1
    None = None
    Ids <- TwoIds
    Conns <- ThreeConns
    Peers <- ThreePeers
    Hosts <- TwoHosts
    HostOf <- FromTwoHosts
    Gatherings <- Pairs
    Streams <- OneStream
    QueueCap = 1
    AcceptCap = 1
CHECK_DEADLOCK FALSE
INVARIANTS
    NoDangling
    MappedHasConnection
    OneConnectionPerHost
    AnswersGoHome
    LiveIsTracked

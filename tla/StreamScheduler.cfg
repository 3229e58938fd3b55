SPECIFICATION FairSpec
CONSTANTS
    s1 = s1
    s2 = s2
    Streams <- TwoStreams
    MaxFresh = 2
    MaxFlight = 1
    MaxWindow = 2
    MaxCredit = 2
INVARIANTS
    TypeOK
    NoStreamForgotten
    SendbufFullAssert
PROPERTIES
    LoopEnds
    Served

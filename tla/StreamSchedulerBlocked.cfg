SPECIFICATION Spec
CONSTANTS
    s1 = s1
    s2 = s2
    Streams <- TwoStreams
    MaxFresh = 1
    MaxFlight = 1
    MaxWindow = 1
    MaxCredit = 1
INVARIANTS
    BlockedNeedsCredit

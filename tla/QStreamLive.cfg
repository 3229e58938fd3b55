SPECIFICATION FairSpec
CONSTANTS
    w1 = w1
    w2 = w2
    Writers <- OneWriter
    WriteSizes = {1, 3}
    ReadSizes = {}
    ReadSlack = {}
    FlushMax = 1
    SentCap = 1
    UpdateCap = 1
    CounterMod = 16
    MaxWritten = 3
    MaxResent = 0
    MaxReceived = 0
PROPERTIES
    EgressProgress WriteReturns CloseReturns
\* A closed stream stops.
CHECK_DEADLOCK FALSE

SPECIFICATION FairSpec
CONSTANTS
    w1 = w1
    w2 = w2
    Writers <- OneWriter
    WriteSizes = {}
    ReadSizes = {0, 1, 2}
    ReadSlack = {0, 1}
    FlushMax = 1
    SentCap = 1
    UpdateCap = 1
    CounterMod = 16
    MaxWritten = 0
    MaxResent = 0
    MaxReceived = 3
INVARIANTS
    IngressNoGap ReaderWakeup
PROPERTIES
    IngressIsPipe ReadReturns
\* A closed stream stops.
CHECK_DEADLOCK FALSE

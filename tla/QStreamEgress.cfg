SPECIFICATION Spec
CONSTANTS
    w1 = w1
    w2 = w2
    Writers <- OneWriter
    WriteSizes = {0, 1, 2}
    ReadSizes = {}
    ReadSlack = {}
    FlushMax = 1
    SentCap = 2
    UpdateCap = 1
    CounterMod = 16
    MaxWritten = 3
    MaxResent = 1
    MaxReceived = 0
INVARIANTS
    EgressNoGap WriterWakeup CloseAfterAck
PROPERTIES
    EgressIsPipe
\* A closed stream stops.
CHECK_DEADLOCK FALSE

\* A lost datagram, and yet everything is delivered in order.
SPECIFICATION FairUserSpec
CONSTANTS
    MaxParts = 2
    MaxTotal = 2
    End = {"client", "server"}
    Workload <- OneStream
    Closers = {}
    AckArray = 8
    OldAcks = 8
    LongAck = 63
    ShortAck = 31
    AckRedundancy = 2
    MaxBitMask = 16
    GoodBitMask = 4
    MaxSerial = 5
    MaxLoss = 1
    MaxRepeat = 0
    MaxEarly = 0
    MaxIdle = 0
    MaxPing = 0
PROPERTIES DeliversAll ShowsAll
\* All work may be done and every budget of faults used up.
CHECK_DEADLOCK FALSE

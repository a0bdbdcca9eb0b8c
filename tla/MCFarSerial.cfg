\* A serial that inputStatistics turns down.
SPECIFICATION Spec
CONSTANTS
    End = {"client", "server"}
    Workload <- OneCommon
    Closers = {}
    AckArray = 8
    OldAcks = 8
    LongAck = 63
    ShortAck = 31
    AckRedundancy = 2
    MaxBitMask = 1
    GoodBitMask = 0
    MaxSerial = 3
    MaxLoss = 0
    MaxRepeat = 1
    MaxEarly = 0
    MaxIdle = 0
    MaxPing = 0
INVARIANTS NotReprocessed
\* All work may be done and every budget of faults used up.
CHECK_DEADLOCK FALSE

\* Loss, retransmission, latency measurements, and a receiver that may close.
SPECIFICATION Spec
CONSTANTS
    End = {"client", "server"}
    Workload <- OneStream
    Closers = {"server"}
    AckArray = 8
    OldAcks = 8
    LongAck = 63
    ShortAck = 31
    AckRedundancy = 2
    MaxBitMask = 16
    GoodBitMask = 4
    MaxSerial = 3
    MaxLoss = 1
    MaxRepeat = 0
    MaxEarly = 0
    MaxIdle = 0
    MaxPing = 1
INVARIANTS NothingForgotten NotReprocessed DeferredWaits ControlWordOwner PredecessorNumbered
\* All work may be done and every budget of faults used up.
CHECK_DEADLOCK FALSE

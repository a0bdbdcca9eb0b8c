\* Masks and rings so short that messages are left behind and the rings wrap, at
\* both ends; the acknowledgements of one come on the heartbeats of the other.
SPECIFICATION Spec
CONSTANTS
    End = {"client", "server"}
    Workload <- OneCommon
    Closers = {}
    AckArray = 1
    OldAcks = 2
    LongAck = 1
    ShortAck = 0
    AckRedundancy = 2
    MaxBitMask = 1
    GoodBitMask = 0
    MaxSerial = 3
    MaxLoss = 0
    MaxRepeat = 1
    MaxEarly = 1
    MaxIdle = 0
    MaxPing = 0
INVARIANTS TypeOK HandedInOrder NoneLeftOut AckedIsSafe RingMatchesMask
PROPERTIES NeverNewAgain
\* All work may be done and every budget of faults used up.
CHECK_DEADLOCK FALSE

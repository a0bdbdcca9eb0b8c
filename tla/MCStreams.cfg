\* Messages of one part to three, urgent ones overtaking the others.
SPECIFICATION UserSpec
CONSTANTS
    MaxParts = 3
    MaxTotal = 3
    End = {"client", "server"}
    Workload <- TwoStreams
    Closers = {}
    AckArray = 8
    OldAcks = 8
    LongAck = 63
    ShortAck = 31
    AckRedundancy = 2
    MaxBitMask = 16
    GoodBitMask = 4
    MaxSerial = 3
    MaxLoss = 0
    MaxRepeat = 0
    MaxEarly = 0
    MaxIdle = 0
    MaxPing = 0
INVARIANTS ShownInOrder
PROPERTIES OpenerThere
\* All work may be done and every budget of faults used up.
CHECK_DEADLOCK FALSE

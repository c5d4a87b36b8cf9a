CONSTANTS
    Keys = {k1, k2}
    NoKey = NoKey
    MaxMessages = 3
    MaxDepth = 2
    MaxAttempts = 2
SPECIFICATION FairSpec
INVARIANTS FifoPerKey Accounted
PROPERTIES AcknowledgedStays FlushEnds LimiterIsLine
CHECK_DEADLOCK FALSE

SPECIFICATION FairSpec
CONSTANTS
    NULL = NULL
    Consumers = {f5, f6}
    Idle = idle
    buf_size = 3
    MaxKeys = 3
    MaxNest = 2
    MaxFails = 2
INVARIANTS
    TypeOK
    FifoUnlessRaced
    NoWaitUnlessRaced
CHECK_DEADLOCK FALSE
PROPERTY EveryKeyDelivered

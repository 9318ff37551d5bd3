SPECIFICATION BootSpec
CONSTANTS
    NULL = NULL
    Threads = {t1}
    Idle = idle
    Prio <- MCPrio
    Quiet = {}
    MaxBurst = 1
    MaxNest = 1
    MaxFrames = 10
INVARIANT FailsOnlyIfEarlyOrHit
PROPERTIES
    ReachesKernelInit
    EveryThreadRuns
    PrintEndsOrFails
CHECK_DEADLOCK FALSE

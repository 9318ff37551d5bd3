SPECIFICATION Spec
CONSTANTS
    NULL = NULL
    Threads = {t1, t2}
    Idle = idle
    Prio <- MCPrio
    Quiet = {"checked"}
    MaxBurst = 1
    MaxNest = 1
    MaxFrames = 10
INVARIANT MutualExclusion
PROPERTY ImplementsRoundRobin
CHECK_DEADLOCK FALSE

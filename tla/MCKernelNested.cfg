SPECIFICATION Spec
CONSTANTS
    NULL = NULL
    Threads = {t1}
    Idle = idle
    Prio <- MCPrio
    Quiet = {}
    MaxBurst = 1
    MaxNest = 2
    MaxFrames = 10
INVARIANTS
    TypeOK
    QuantumLeft
    ReadyExact
    OwnStack
    FailsOnlyIfHit
    WaiterIsCurrent
CHECK_DEADLOCK FALSE

SPECIFICATION ReadySpec
CONSTANTS
    NULL = NULL
    Heads = {head}
    Nodes = {t1, t2, t3, idle}
    Threads = {t1, t2, t3}
    Idle = idle
    ReadyHead = head
    Prio <- MCPrio
INVARIANT NoThreadLost
CHECK_DEADLOCK FALSE
PROPERTY ImplementsRoundRobin

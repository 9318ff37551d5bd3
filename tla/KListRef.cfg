SPECIFICATION Spec
CONSTANTS
    NULL = NULL
    Heads = {ready, waiters}
    Nodes = {a, b, c, d, e}
INVARIANTS
    ListMatchesSequence
    QueriesMatchSequence

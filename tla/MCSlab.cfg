SPECIFICATION Spec
CONSTANTS
    CacheSizes <- MCSizes
    PGSIZE = 16
    SlabHeader = 4
    Requests = {1, 4, 16, 32}
    MaxTaken = 7
INVARIANTS
    SlabsTile
    LiveDisjoint
    FreeListExact
    LiveListed
CHECK_DEADLOCK FALSE

SPECIFICATION Spec
CONSTANTS
    NPages = 7
    Base = 5
    MaxLevel = 2
    MaxRequest = 3
    MaxMapped = 2
INVARIANTS
    PagesPartitioned
    LevelsExact
    BusyIffHeld
    NoFragmentation
    MergeStaysInTable
PROPERTY ImplementsPageAllocator
CHECK_DEADLOCK FALSE

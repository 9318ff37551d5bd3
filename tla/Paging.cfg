SPECIFICATION PSpec
CONSTANTS
    NPages = 4
    Base = 5
    MaxLevel = 2
    MaxRequest = 1
    MaxMapped = 0
    Threads = {boot, t1}
    Boot = boot
    NV = 2
    MaxSlabs = 2
    PerTable = 1
    VmaPages = {0, 1}
    NullPages = {1}
    None = None
INVARIANTS
    
    
    HeapStays
 
CHECK_DEADLOCK FALSE

\* Two arrays: a buffer of two blocks that values move in and out of, and long lists
\* that load_cache pins, read by two queries at a time.
SPECIFICATION Spec
CONSTANTS
    r1 = r1
    r2 = r2
    Values = {"a", "b"}
    Size <- SizeOf
    NoValue = NoValue
    SetBlockInc = 2
    MaxKey = 2
    Readers = {r1, r2}
    FirstEntryNum = 2
    SizeRange = 16
    StaleReads = {FALSE}
    Setups <- EvictAndPin
INVARIANTS
    LRUListSound
    
    SizeExact
    RoomIsMade
    
PROPERTIES
    
    KeepsItsMap
CHECK_DEADLOCK FALSE

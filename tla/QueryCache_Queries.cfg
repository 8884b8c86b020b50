\* Two queries at a time, updates and transactions, over the end of the clock.
SPECIFICATION Spec
CONSTANTS
    Patterns <- ThreePatterns
    ItemSize <- ThreeSizes
    TotalLimit = 3
    MaxTime = 3
    Clients = {c1, c2}
    Narrowing = {FALSE}
    Transactions = TRUE
    MaxVersion = 1
    MaxClock = 4
INVARIANTS
    TotalExact
    
    WithinLimit
PROPERTIES
    EvictsOldest
SYMMETRY EitherClient
CHECK_DEADLOCK FALSE

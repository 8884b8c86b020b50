SPECIFICATION Spec
CONSTANTS
    LITERAL_FIRST_ID <- LiteralFirst
    InitSize = 6
    Triples <- FewTriples
    TxnTriples <- EntityTriples
    Careful = TRUE
    MaxVersions = 2
    MaxWrites = 2
INVARIANTS
    IndexesAgree
    LayoutSound
    LookupsAgree
    
CHECK_DEADLOCK FALSE

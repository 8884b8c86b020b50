\* Updates of one database, saves, crashes and one moment to go back to.
SPECIFICATION Spec
CONSTANTS
    Literals <- MCLiterals
    Predicates <- MCPredicates
    Triples <- MCTriples
    Builds <- MCBuilds
    MaxBatch = 2
    MaxUnsaved = 2
    MaxLog = 2
    MaxDrift = 1
    SelfLoops = FALSE
    RemovalsOnly = TRUE
    None = None
INVARIANTS
    IDsExact
    KeepsMeaning

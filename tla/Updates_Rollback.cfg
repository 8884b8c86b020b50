\* One moment to go back to, and a log with removals of triples that were not there.
SPECIFICATION Spec
CONSTANTS
    Literals <- MCLiterals
    Predicates <- MCPredicates
    Triples <- MCTriples
    Builds <- MCBuilds
    MaxBatch = 2
    MaxUnsaved = 2
    MaxLog = 2
    MaxDrift = 1
    SelfLoops = FALSE
    RemovalsOnly = FALSE
    None = None
INVARIANTS
    KeepsMeaning

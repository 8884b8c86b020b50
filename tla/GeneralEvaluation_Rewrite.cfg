\* README-shaped trees: the OPTIONALs and MINUSes stand last in their groups.
SPECIFICATION Spec
CONSTANTS
    Var <- MCVar
    Queries <- MCQueries
    Graphs <- MCGraphs
    Ordered = TRUE
INVARIANTS
    SameAnswer
    BlocksLinked
CHECK_DEADLOCK FALSE

\* Nested groups.
SPECIFICATION Spec
CONSTANTS
    Var <- MCVar
    Queries <- NestedQueries
    Graphs <- MCGraphs
    Ordered = TRUE
INVARIANTS
    SameAnswer
CHECK_DEADLOCK FALSE

---------------------------- MODULE TempResultSet -----------------------------
(***************************************************************************)
(* The intermediate results of a query (Query/TempResult.cpp).  A          *)
(* TempResultSet is a list of tables, each with its own columns; rows that *)
(* bind the same variables are in one table (findCompatibleResult), so it  *)
(* is a function from the columns to a bag of rows.  A table may have no   *)
(* row, and a TempResultSet no table.                                      *)
(***************************************************************************)
EXTENDS Sparql

NoTables == <<>>

SumBags(S, bag(_)) ==
    MapThenFoldSet(LAMBDA b, c : b (+) c, EmptyBag, bag,
                   LAMBDA T : CHOOSE e \in T : TRUE, S)
Rows(x, V) == IF V \in DOMAIN x THEN x[V] ELSE EmptyBag
Pool(x, y) == [V \in DOMAIN x \cup DOMAIN y |-> Rows(x, V) (+) Rows(y, V)]
Flatten(x) == SumBags(DOMAIN x, LAMBDA V : x[V])

\* Sorting on the common columns and looking up the bounds of a row's equals.
Equal(m, n, common) == \A v \in common : m[v] = n[v]
JoinRows(B, C, common) ==
    MergeAll(B, C, {p \in (DOMAIN B) \X (DOMAIN C) : Equal(p[1], p[2], common)})

\* TempResultSet::doJoin, TempResult::doJoin
doJoin(x, y) ==
    LET pairs == (DOMAIN x) \X (DOMAIN y) IN
    [V \in {p[1] \cup p[2] : p \in pairs} |->
        SumBags({p \in pairs : p[1] \cup p[2] = V},
                LAMBDA p : JoinRows(x[p[1]], y[p[2]], p[1] \cap p[2]))]

\* TempResultSet::doUnion leaves out the tables without rows.
Filled(x) == [V \in {W \in DOMAIN x : x[W] # EmptyBag} |-> x[V]]
doUnion(x, y) == Pool(Filled(x), Filled(y))

\* TempResultSet::doOptional, TempResult::doOptional.  A table with no common
\* column binds every row, even a table without rows.
doOptional(x, y) ==
    LET bound(a) == {m \in DOMAIN x[a] :
                        \E b \in DOMAIN y :
                            \/ a \cap b = {}
                            \/ \E n \in DOMAIN y[b] : Equal(m, n, a \cap b)}
    IN  Pool(doJoin(x, y), [a \in DOMAIN x |-> Only(x[a], DOMAIN x[a] \ bound(a))])

\* TempResultSet::doMinus, TempResult::doMinus.  A table with a common column
\* and no rows takes every row away.
doMinus(x, y) ==
    IF DOMAIN y = {} THEN Filled(x)
    ELSE [a \in DOMAIN x |->
             Only(x[a], {m \in DOMAIN x[a] :
                           \A b \in DOMAIN y :
                               \/ a \cap b = {}
                               \/ /\ y[b] # EmptyBag
                                  /\ \A n \in DOMAIN y[b] : ~Equal(m, n, a \cap b)})]

\* Where the two go wrong: the code's answer is not SPARQL's.
OptionalLoses(x, y) ==
    \E a \in DOMAIN Filled(x), b \in DOMAIN y : a \cap b = {} /\ y[b] = EmptyBag
MinusDrops(x, y) ==
    \E a \in DOMAIN Filled(x), b \in DOMAIN y : a \cap b # {} /\ y[b] = EmptyBag
===============================================================================

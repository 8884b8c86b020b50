------------------------- MODULE MCGeneralEvaluation --------------------------
(* Instances of GeneralEvaluation for TLC: trees of the shapes in the       *)
(* repository's README over four triple patterns.                           *)
EXTENDS GeneralEvaluation

MCVar == {"x", "y", "z"}
a == <<"x", "p", "y">>
b == <<"x", "q", "z">>
c == <<"y", "r", "z">>
d == <<"x", "s", "1">>

MCGraphs == {
    {<<"1", "p", "2">>, <<"2", "p", "1">>, <<"1", "q", "1">>, <<"2", "r", "1">>, <<"1", "s", "1">>},
    {<<"1", "p", "1">>, <<"1", "p", "2">>, <<"2", "q", "1">>, <<"1", "r", "2">>, <<"2", "s", "1">>},
    {<<"1", "p", "1">>, <<"2", "p", "2">>, <<"1", "q", "2">>, <<"2", "q", "2">>, <<"2", "r", "2">>, <<"1", "s", "1">>, <<"2", "s", "1">>},
    {<<"1", "p", "2">>, <<"2", "r", "1">>, <<"1", "s", "1">>}}

T(t) == TripleItem(t)
Basic == {<<T(a)>>, <<T(b)>>, <<T(d)>>, <<T(b), T(d)>>, <<T(c)>>, <<T(a), T(b)>>}
U(G, H) == {UnionItem(<<g, h>>) : g \in G, h \in H}
O(G) == {OptionalItem(g) : g \in G}
M(G) == {MinusItem(g) : g \in G}
S2(I, J) == {<<i, j>> : i \in I, j \in J}
S3(I, J, K) == {<<i, j, k>> : i \in I, j \in J, k \in K}
Ts == {T(a), T(b), T(d)}
BU == U(Basic, Basic)

MCQueries ==
    S2(Ts, BU) \cup S2(BU, Ts)
    \cup S3({T(d)}, {T(c)}, BU) \cup S3({T(a)}, BU, U({<<T(b)>>}, Basic))
    \cup S3(Ts, BU, O({<<T(c)>>, <<T(b)>>}))
    \cup S2({T(a)}, U(S2({T(b)}, O(Basic)), Basic))
    \cup S2(Ts, O(S2(Ts, O(Basic) \cup M(Basic)) \cup S2(Ts, BU)))
    \cup S3(Ts, O(Basic), O(Basic) \cup M(Basic))

\* Two nested groups with an OPTIONAL each, as in q2.1 of the README.
NestedQueries ==
    S2({GroupItem(<<T(a), OptionalItem(<<T(d)>>)>>)},
       {GroupItem(<<T(b), OptionalItem(<<T(d)>>)>>)})
===============================================================================

-------------------------------- MODULE Sparql --------------------------------
(***************************************************************************)
(* Group graph patterns and what SPARQL says they answer: the reference    *)
(* the rewriting and the evaluation of a query are checked against.        *)
(*                                                                         *)
(* A triple pattern is <<subject, predicate, object>>.  A group is a       *)
(* sequence of items: a triple, a BGP (a set of triples), a UNION of       *)
(* groups, an OPTIONAL, a MINUS or a nested group.  A solution maps some   *)
(* of the variables to nodes; an answer is a bag of solutions.             *)
(***************************************************************************)
EXTENDS Integers, Sequences, FiniteSetsExt, SequencesExt, Bags, TLC

CONSTANT Var   \* the variables; they stand for subjects and objects only

TripleItem(t)  == [type |-> "triple", patterns |-> {t}]
BGPItem(P)     == [type |-> "bgp", patterns |-> P]
UnionItem(us)  == [type |-> "union", unions |-> us]
OptionalItem(g) == [type |-> "optional", group |-> g]
MinusItem(g)   == [type |-> "minus", group |-> g]
GroupItem(g)   == [type |-> "group", group |-> g]

VarsOf(P) == UNION {{t[1], t[3]} : t \in P} \cap Var

\* The bag of the merged solutions of the given pairs from two bags.
MergeAll(B, C, pairs) ==
    [k \in {p[1] @@ p[2] : p \in pairs} |->
        MapThenSumSet(LAMBDA p : B[p[1]] * C[p[2]], {p \in pairs : p[1] @@ p[2] = k})]

Only(B, S) == [m \in S |-> B[m]]

Compatible(m, n) == \A v \in DOMAIN m \cap DOMAIN n : m[v] = n[v]
Partners(m, C) == {n \in DOMAIN C : Compatible(m, n)}

Join(B, C) ==
    MergeAll(B, C, {p \in (DOMAIN B) \X (DOMAIN C) : Compatible(p[1], p[2])})
LeftJoin(B, C) ==
    Join(B, C) (+) Only(B, {m \in DOMAIN B : Partners(m, C) = {}})
Minus(B, C) ==
    Only(B, {m \in DOMAIN B :
               \A n \in Partners(m, C) : DOMAIN m \cap DOMAIN n = {}})

Unit == SetToBag({<<>>})   \* the one solution that binds nothing

Nodes(graph) == UNION {{e[1], e[3]} : e \in graph}
Value(m, x) == IF x \in Var THEN m[x] ELSE x
Matches(P, graph) ==
    {m \in [VarsOf(P) -> Nodes(graph)] :
        \A t \in P : <<Value(m, t[1]), t[2], Value(m, t[3])>> \in graph}

RECURSIVE Answer(_, _)
Answer(group, graph) ==
    FoldLeft(LAMBDA B, item :
        CASE item.type \in {"triple", "bgp"} ->
                Join(B, SetToBag(Matches(item.patterns, graph)))
          [] item.type = "group"    -> Join(B, Answer(item.group, graph))
          [] item.type = "optional" -> LeftJoin(B, Answer(item.group, graph))
          [] item.type = "minus"    -> Minus(B, Answer(item.group, graph))
          [] item.type = "union"    ->
                Join(B, FoldLeft(LAMBDA C, u : C (+) Answer(u, graph),
                                 EmptyBag, item.unions)),
        Unit, group)

(***************************************************************************)
(* Well-designed queries: a variable that an OPTIONAL or a MINUS shares    *)
(* with the rest of the query is bound by every solution of what stands    *)
(* before it in its group.                                                 *)
(***************************************************************************)
RECURSIVE Mentioned(_)
Mentioned(group) ==
    UNION {CASE group[i].type \in {"triple", "bgp"} -> VarsOf(group[i].patterns)
             [] group[i].type = "union" ->
                   UNION {Mentioned(group[i].unions[j]) : j \in DOMAIN group[i].unions}
             [] OTHER -> Mentioned(group[i].group) : i \in DOMAIN group}

\* group_pattern_resultset_minimal_varset
RECURSIVE Certain(_)
Certain(group) ==
    UNION {CASE group[i].type \in {"triple", "bgp"} -> VarsOf(group[i].patterns)
             [] group[i].type = "union" ->
                   {v \in Var : \A j \in DOMAIN group[i].unions :
                                    v \in Certain(group[i].unions[j])}
             [] group[i].type = "group" -> Certain(group[i].group)
             [] OTHER -> {} : i \in DOMAIN group}

Others(group, i) == RemoveAt(group, i)

RECURSIVE WellDesigned(_, _)
WellDesigned(group, outside) ==
    \A i \in DOMAIN group :
        LET item == group[i]
            rest == outside \cup Mentioned(Others(group, i))
        IN  CASE item.type \in {"triple", "bgp"} -> TRUE
              [] item.type = "union" ->
                    \A j \in DOMAIN item.unions : WellDesigned(item.unions[j], rest)
              [] item.type = "group" -> WellDesigned(item.group, rest)
              [] OTHER ->
                    /\ Mentioned(item.group) \cap rest
                           \subseteq Certain(SubSeq(group, 1, i - 1))
                    /\ WellDesigned(item.group, rest)
===============================================================================

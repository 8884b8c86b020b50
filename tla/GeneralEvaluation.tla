-------------------------- MODULE GeneralEvaluation ---------------------------
(***************************************************************************)
(* One query from its parsed tree to its result                            *)
(* (Query/GeneralEvaluation.cpp): triples are combined into BGPs and       *)
(* UNIONs unfolded, then highLevelOpt goes through the groups from the     *)
(* innermost out and pushes BGPs into UNIONs and OPTIONALs, and the tree   *)
(* that comes out is evaluated.  Costs are estimates from samples of the   *)
(* data: any plan that has a cost may be the cheapest.                     *)
(*                                                                         *)
(* The query cache, FILTER, BIND, aggregates and triples without a         *)
(* variable (isBGPconnected ends the process) are left out.                *)
(***************************************************************************)
EXTENDS TempResultSet

CONSTANTS
    Queries,   \* groups of triples, UNIONs, OPTIONALs, MINUSes and groups
    Graphs,    \* sets of triples without variables
    Ordered    \* whether OPTIONAL and MINUS stand behind the rest of a group

VARIABLES
    graph,   \* the database
    query,   \* the tree as parsed
    tree,    \* query_tree
    phase,   \* "parsed", "opt", "rewritten", "answered" or "undefined"
    todo,    \* the groups highLevelOpt has yet to go through
    seen,    \* the group when its common sub-BGPs were extracted
    at,      \* the next item of the group to decide on, 0 before that
    merged,  \* its BGPs that have been pushed into a UNION altogether
    result   \* what the evaluation returned

vars == <<graph, query, tree, phase, todo, seen, at, merged, result>>

Share(s, t) == VarsOf({s}) \cap VarsOf({t}) # {}
isBGPconnected(P, Q) == \E s \in P, t \in Q : Share(s, t)

\* "input query is linked by var": what PlanGenerator can plan and estimate.
Linked(P) ==
    P # {} /\ \A Q \in (SUBSET P) \ {{}, P} : isBGPconnected(Q, P \ Q)

Of(group, type) == {i \in DOMAIN group : group[i].type = type}
BGPs(group) == Of(group, "bgp")

(***************************************************************************)
(* combineBGPunfoldUnion.                                                  *)
(***************************************************************************)
RECURSIVE getRootPatternBlockID(_, _)
getRootPatternBlockID(block, i) ==
    IF block[i] = i THEN i ELSE getRootPatternBlockID(block, block[i])

\* The pairs of triples that share a variable with only triples and UNIONs
\* between them, in the order of the two loops.
Pairs(group) ==
    LET n == Len(group)
        linked(i, j) == /\ j < i
                        /\ {i, j} \subseteq Of(group, "triple")
                        /\ j..i \subseteq Of(group, "triple") \cup Of(group, "union")
                        /\ isBGPconnected(group[i].patterns, group[j].patterns)
    IN  SelectSeq([k \in 1..n * n |-> <<1 + ((k - 1) \div n), 1 + ((k - 1) % n)>>],
                  LAMBDA p : linked(p[1], p[2]))

Blocks(group) ==
    FoldLeft(LAMBDA b, p : [b EXCEPT ![getRootPatternBlockID(b, p[1])] =
                                         getRootPatternBlockID(b, p[2])],
             [i \in DOMAIN group |-> i], Pairs(group))

CombineBGP(group) ==
    LET block == Blocks(group)
        root(i) == getRootPatternBlockID(block, i)
        kept == SelectSeq([i \in DOMAIN group |-> i],
                          LAMBDA i : group[i].type = "triple" => root(i) = i)
    IN  [k \in DOMAIN kept |->
            IF group[kept[k]].type # "triple" THEN group[kept[k]]
            ELSE BGPItem(UNION {group[i].patterns :
                                  i \in {j \in Of(group, "triple") : root(j) = kept[k]}})]

OnlyUnion(group) == Len(group) = 1 /\ group[1].type = "union"
Unfold(unions) ==
    SelectSeq(unions, LAMBDA u : ~OnlyUnion(u))
    \o FlattenSeq([k \in DOMAIN SelectSeq(unions, OnlyUnion) |->
                      SelectSeq(unions, OnlyUnion)[k][1].unions])

RECURSIVE combineBGPunfoldUnion(_)
combineBGPunfoldUnion(group) ==
    LET inner == [i \in DOMAIN group |->
            CASE group[i].type = "triple" -> group[i]
              [] group[i].type = "union" ->
                    UnionItem(Unfold([j \in DOMAIN group[i].unions |->
                                         combineBGPunfoldUnion(group[i].unions[j])]))
              [] OTHER -> [group[i] EXCEPT !.group = combineBGPunfoldUnion(@)]]
    IN  IF OnlyUnion(inner) THEN inner ELSE CombineBGP(inner)

(***************************************************************************)
(* The groups of a tree, children before parents; a path is a sequence of  *)
(* <<item, branch>>.                                                       *)
(***************************************************************************)
Children(item) ==
    CASE item.type = "union" -> item.unions
      [] item.type \in {"group", "optional", "minus"} -> <<item.group>>
      [] OTHER -> <<>>

RECURSIVE PostOrder(_)
PostOrder(group) ==
    LET below(i, j) == LET inner == PostOrder(Children(group[i])[j])
                       IN  [k \in DOMAIN inner |-> <<<<i, j>>>> \o inner[k]]
        under(i) == FlattenSeq([j \in DOMAIN Children(group[i]) |-> below(i, j)])
    IN  FlattenSeq([i \in DOMAIN group |-> under(i)]) \o <<<<>>>>

At(group, path) ==
    FoldLeft(LAMBDA g, s : Children(g[s[1]])[s[2]], group, path)

RECURSIVE Put(_, _, _)
Put(group, path, g) ==
    IF path = <<>> THEN g
    ELSE LET i == path[1][1] j == path[1][2]
             child == Put(Children(group[i])[j], Tail(path), g)
         IN  IF group[i].type = "union" THEN [group EXCEPT ![i].unions[j] = child]
             ELSE [group EXCEPT ![i].group = child]

(***************************************************************************)
(* highLevelOpt: what is pushed where.                                     *)
(***************************************************************************)
Firsts(union) ==
    {union.unions[j][Min(BGPs(union.unions[j]))].patterns :
        j \in {k \in DOMAIN union.unions : BGPs(union.unions[k]) # {}}}

\* extractLargestCommonSubBGP, of UNIONs whose every branch has a BGP.
CommonSubBGP(union) ==
    IF \A j \in DOMAIN union.unions : BGPs(union.unions[j]) # {}
    THEN {t \in UNION Firsts(union) : \A P \in Firsts(union) : t \in P}
    ELSE {}

\* Every BGP that unionCostModel has estimated: the first BGPs are those
\* extracted on entry, the others those of the UNION as it is now.
UnionEstimates(A, before, now) ==
    LET D == CommonSubBGP(before) IN
    {A} \cup Firsts(before)
        \cup UNION {{u[k].patterns : k \in BGPs(u) \ {Min(BGPs(u))}} :
                       u \in {now.unions[j] : j \in {k \in DOMAIN now.unions :
                                                       BGPs(now.unions[k]) # {}}}}
        \cup {A \cup P : P \in {Q \in Firsts(before) : isBGPconnected(A, Q)}}
        \cup IF D = {} THEN {}
             ELSE {A \cup D, D} \cup UNION {{P \ D, A \cup (P \ D)} : P \in Firsts(before)}

Estimable(A, before, now) ==
    \A j \in Of(now, "union") :
        \A P \in UnionEstimates(A, before[j], now[j]) : Linked(P)

Connected(group, A) == {k \in BGPs(group) : isBGPconnected(A, group[k].patterns)}

\* Mutant: a branch with no BGP it is connected with goes without it.
PushIntoConnected(group, A) ==
    IF Connected(group, A) = {} THEN group
    ELSE [group EXCEPT ![Min(Connected(group, A))].patterns = @ \cup A]

\* Mutant: into the first BGP, connected or not.
PushIntoFirst(group, A) ==
    IF BGPs(group) = {} THEN Append(group, BGPItem(A))
    ELSE [group EXCEPT ![Min(BGPs(group))].patterns = @ \cup A]

\* Plan 1, in one branch: into the first BGP it is connected with.
PushInto(group, A) ==
    IF Connected(group, A) = {} THEN Append(group, BGPItem(A))
    ELSE [group EXCEPT ![Min(Connected(group, A))].patterns = @ \cup A]

\* Plan 2, in one branch: the common part out of its first BGP.
Subtract(group, D) ==
    [group EXCEPT ![Min(BGPs(group))].patterns = @ \ D]

\* Plan 3, in one branch: the common part out of its BGPs up to the one
\* that takes the outer BGP.
Exchange(group, A, D) ==
    LET hits == {k \in BGPs(group) : isBGPconnected(A, group[k].patterns \ D)}
        scanned == {k \in BGPs(group) : hits = {} \/ k <= Min(hits)}
        reduced == [k \in DOMAIN group |->
                       IF k \in scanned THEN BGPItem(group[k].patterns \ D) ELSE group[k]]
    IN  PushInto(reduced, A)

Branches(union, new(_)) ==
    UnionItem([j \in DOMAIN union.unions |-> new(union.unions[j])])

\* The group after BGP i has been pushed into UNION j by a plan.
PushDown(group, i, j, plan, D) ==
    LET A == group[i].patterns IN
    CASE plan = 1 -> [group EXCEPT ![j] = Branches(@, LAMBDA g : PushInto(g, A))]
      [] plan = 2 -> [group EXCEPT ![i].patterns = @ \cup D,
                                   ![j] = Branches(@, LAMBDA g : Subtract(g, D))]
      [] plan = 3 -> [group EXCEPT ![i].patterns = D,
                                   ![j] = Branches(@, LAMBDA g : Exchange(g, A, D))]

\* The group after BGP i has been added to the first BGP of some OPTIONALs.
PushOptional(group, i, S) ==
    [k \in DOMAIN group |->
        IF k \notin S THEN group[k]
        ELSE [group[k] EXCEPT !.group[Min(BGPs(group[k].group))].patterns =
                                 @ \cup group[i].patterns]]

(***************************************************************************)
(* queryEvaluationAfterOpt.  `above` is the result of the nearest level of *)
(* rewriting_evaluation_stack that has one.  Faults are the steps at which *)
(* the code's result is no longer SPARQL's, or is not defined.             *)
(***************************************************************************)
Candidates(above, v) ==
    UNION {{m[v] : m \in DOMAIN above[V]} : V \in {W \in DOMAIN above : v \in W}}

\* DoQuery under the candidate lists that fillCandList sets.
DoQuery(P, above) ==
    VarsOf(P) :> SetToBag({m \in Matches(P, graph) :
                             \A v \in VarsOf(P) : \/ Candidates(above, v) = {}
                                                  \/ m[v] \in Candidates(above, v)})

\* The tree in the evaluation stack is a copy, and SubGroupPattern's copy
\* constructor leaves group_pattern out: nested groups arrive empty.
RECURSIVE Copy(_)
Copy(group) ==
    [i \in DOMAIN group |->
        CASE group[i].type = "group" -> GroupItem(<<>>)
          [] group[i].type = "union" ->
                UnionItem([j \in DOMAIN group[i].unions |-> Copy(group[i].unions[j])])
          [] group[i].type \in {"optional", "minus"} -> [group[i] EXCEPT !.group = Copy(@)]
          [] OTHER -> group[i]]

Start == [tables |-> NoTables, faults |-> {}, began |-> FALSE, stale |-> FALSE]

\* A result without tables counts as nothing evaluated yet.
JoinResult(acc, sub) ==
    [acc EXCEPT !.tables = IF DOMAIN @ = {} THEN sub.tables ELSE doJoin(@, sub.tables),
                !.faults = @ \cup sub.faults
                             \cup IF acc.began /\ DOMAIN acc.tables = {} /\ DOMAIN sub.tables # {}
                                  THEN {"reset"} ELSE {},
                !.began = TRUE]

Nothing(x) ==
    \/ DOMAIN x = {}
    \/ Cardinality(DOMAIN x) = 1 /\ \A V \in DOMAIN x : x[V] = EmptyBag

RECURSIVE queryEvaluationAfterOpt(_, _)
queryEvaluationAfterOpt(group, above) ==
    LET inner(acc, g) ==   \* below an OPTIONAL the stack keeps a freed result
            LET sub == queryEvaluationAfterOpt(g, above)
            IN  [sub EXCEPT !.faults = @ \cup IF acc.stale THEN {"stale"} ELSE {}]
        branch(acc, g, out) ==
            LET sub == inner(acc, g)
            IN  [tables |-> IF DOMAIN out.tables = {} THEN sub.tables
                            ELSE doUnion(out.tables, sub.tables),
                 faults |-> out.faults \cup sub.faults]
        bgp(acc, P) ==
            IF VarsOf(P) = {} THEN [acc EXCEPT !.tables = NoTables, !.began = TRUE]
            ELSE JoinResult(acc, [tables |-> DoQuery(P, above),
                                  faults |-> IF Linked(P) THEN {} ELSE {"unlinked"}])
        left(acc, g, op(_, _), wrong(_, _)) ==
            LET sub == queryEvaluationAfterOpt(g, acc.tables)
            IN  [acc EXCEPT !.tables = op(@, sub.tables), !.stale = TRUE,
                            !.faults = @ \cup sub.faults
                                         \cup IF wrong(acc.tables, sub.tables) THEN {"lost"} ELSE {}]
    IN  FoldLeft(LAMBDA acc, item :
            CASE item.type = "bgp"   -> bgp(acc, item.patterns)
              [] item.type = "group" -> JoinResult(acc, inner(acc, item.group))
              [] item.type = "union" ->
                    JoinResult(acc, FoldLeft(LAMBDA out, g : branch(acc, g, out), Start, item.unions))
              [] item.type \in {"optional", "minus"} /\ Nothing(acc.tables) -> acc
              [] item.type = "optional" -> left(acc, item.group, doOptional, OptionalLoses)
              [] item.type = "minus"    -> left(acc, item.group, doMinus, MinusDrops),
            Start, group)
-------------------------------------------------------------------------------
RECURSIVE OptionalsLast(_)
OptionalsLast(group) ==
    LET weak == Of(group, "optional") \cup Of(group, "minus") IN
    /\ \A i \in DOMAIN group \ weak, j \in weak : i < j
    /\ \A i \in DOMAIN group : \A j \in DOMAIN Children(group[i]) :
          OptionalsLast(Children(group[i])[j])

Init ==
    /\ graph \in Graphs
    /\ query \in {q \in Queries : WellDesigned(q, {}) /\ (Ordered => OptionalsLast(q))}
    /\ tree = query /\ phase = "parsed"
    /\ todo = <<>> /\ seen = <<>> /\ at = 0 /\ merged = {} /\ result = Start

Group == At(tree, Head(todo))
InGroup == phase = "opt" /\ todo # <<>>
Pending == {i \in BGPs(Group) : i >= at}
Deciding == InGroup /\ at > 0 /\ Pending # {}
Current == Min(Pending)
Fine == Estimable(Group[Current].patterns, seen, Group)

\* rewriteQuery: combineBGPunfoldUnion, and into highLevelOpt.
Combine ==
    /\ phase = "parsed"
    /\ tree' = combineBGPunfoldUnion(tree)
    /\ todo' = PostOrder(tree') /\ phase' = "opt"
    /\ UNCHANGED <<graph, query, seen, at, merged, result>>

\* A group whose children are done: its common sub-BGPs are extracted.
Extract ==
    /\ InGroup /\ at = 0
    /\ seen' = Group /\ at' = 1 /\ merged' = {}
    /\ UNCHANGED <<graph, query, tree, phase, todo, result>>

\* The cheapest plan pushes the BGP into a UNION.
PushUnion ==
    /\ Deciding /\ Fine
    /\ \E j \in Of(Group, "union") :
          LET D == CommonSubBGP(seen[j]) IN
          \E plan \in IF D = {} THEN {1} ELSE 1..3 :
              /\ tree' = Put(tree, Head(todo), PushDown(Group, Current, j, plan, D))
              /\ merged' = IF plan = 1 THEN merged \cup {Current} ELSE merged
    /\ at' = Current + 1
    /\ UNCHANGED <<graph, query, phase, todo, seen, result>>

\* It leaves the UNIONs alone; some of the OPTIONALs with a BGP that this
\* one is connected with take it.
PushOptionals ==
    /\ Deciding /\ Fine
    /\ \E S \in SUBSET {k \in Of(Group, "optional") :
                           Connected(Group[k].group, Group[Current].patterns) # {}} :
          tree' = Put(tree, Head(todo), PushOptional(Group, Current, S))
    /\ at' = Current + 1
    /\ UNCHANGED <<graph, query, phase, todo, seen, merged, result>>

\* An estimate of a BGP that is empty or not linked: the planner reads past
\* its tables.
Undefined ==
    /\ Deciding /\ ~Fine
    /\ phase' = "undefined"
    /\ UNCHANGED <<graph, query, tree, todo, seen, at, merged, result>>

\* The BGPs pushed down altogether are removed.
Leave ==
    /\ InGroup /\ at > 0 /\ Pending = {}
    /\ LET kept == SelectSeq([i \in DOMAIN Group |-> i], LAMBDA i : i \notin merged)
       IN  tree' = Put(tree, Head(todo), [k \in DOMAIN kept |-> Group[kept[k]]])
    /\ todo' = Tail(todo) /\ at' = 0 /\ merged' = {} /\ seen' = <<>>
    /\ phase' = IF Tail(todo) = <<>> THEN "rewritten" ELSE phase
    /\ UNCHANGED <<graph, query, result>>

Evaluate ==
    /\ phase = "rewritten"
    /\ result' = queryEvaluationAfterOpt(Copy(tree), NoTables)
    /\ phase' = "answered"
    /\ UNCHANGED <<graph, query, tree, todo, seen, at, merged>>

Next ==
    \/ Combine \/ Extract \/ PushUnion \/ PushOptionals \/ Undefined
    \/ Leave \/ Evaluate

Spec == Init /\ [][Next]_vars
-------------------------------------------------------------------------------
(* Whatever plan the costs choose, a query is answered as SPARQL says its  *)
(* original tree is, unless the evaluation met one of the faults.          *)
SameAnswer ==
    phase = "answered" /\ result.faults = {} =>
        Flatten(result.tables) = Answer(query, graph)

(* Every BGP of a tree that is evaluated is linked by its variables, which *)
(* PlanGenerator takes for granted: no rewriting takes one apart or adds   *)
(* to one what it is not connected with.                                   *)
BlocksLinked ==
    phase \in {"rewritten", "answered"} =>
        \A k \in DOMAIN PostOrder(tree) :
            LET g == At(tree, PostOrder(tree)[k])
            IN  \A i \in BGPs(g) : Linked(g[i].patterns)
===============================================================================

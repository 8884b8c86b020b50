---------------------------- MODULE VersionData -----------------------------
(***************************************************************************)
(* What a transaction writes to one key (Util/Version.cpp): an array       *)
(*                                                                         *)
(*     size, added, removed, -, pair added first, ..., pair removed first  *)
(*                                                                         *)
(* in which added pairs grow from the front and removed ones from the back *)
(* until they would meet; the array is then doubled.                       *)
(***************************************************************************)
EXTENDS Integers, SequencesExt

CONSTANT InitSize      \* init_size

ASSUME InitSizeAssumption == InitSize \in Nat /\ InitSize >= 4

Fresh == <<InitSize>> \o [i \in 1..(InitSize - 1) |-> 0]

Size(d)    == d[1]
Added(d)   == d[2]
Removed(d) == d[3]

\* The first of 2 * Size(d), 4 * Size(d), ... that is not smaller than need.
Grown(d, need) ==
    LET grow[size \in Nat] == IF size < need THEN grow[2 * size] ELSE size
    IN  grow[2 * Size(d)]

\* Mutant: the pairs at the back stay where they were.
ExpandFront(d, n) ==
    LET need == 4 + 2 * (Added(d) + Removed(d) + n)
        size == Grown(d, need)
    IN  IF need <= Size(d) THEN d
        ELSE [i \in 1..size |->
                IF i = 1 THEN size ELSE IF i <= Size(d) THEN d[i] ELSE 0]

\* expand: room for n more pairs; what is at the back moves with the end.
Expand(d, n) ==
    LET need == 4 + 2 * (Added(d) + Removed(d) + n)
        size == Grown(d, need)
    IN  IF need <= Size(d) THEN d
        ELSE [i \in 1..size |->
                IF i = 1 THEN size
                ELSE IF i <= 4 + 2 * Added(d) THEN d[i]
                ELSE IF i >= size - 2 * Removed(d) THEN d[i - size + Size(d)]
                ELSE 0]

\* add
AddPair(d, x) ==
    LET e == Expand(d, 1)
    IN  [e EXCEPT ![2] = @ + 1,
                  ![5 + 2 * Added(e)] = x[1], ![6 + 2 * Added(e)] = x[2]]

\* remove
DelPair(d, x) ==
    LET e == Expand(d, 1)
    IN  [e EXCEPT ![3] = @ + 1,
                  ![Size(e) - 2 * Removed(e)] = x[1],
                  ![Size(e) - 1 - 2 * Removed(e)] = x[2]]

AddedPairs(d) == [i \in 1..Added(d) |-> <<d[3 + 2*i], d[4 + 2*i]>>]
RemovedPairs(d) ==
    [i \in 1..Removed(d) |-> <<d[Size(d) + 2 - 2*i], d[Size(d) + 1 - 2*i]>>]

NoChange == [add |-> {}, del |-> {}]

\* Mutant: what is added is added even when a removal is pending.
GetVersionUncancelled(acc, d) ==
    LET added == [acc EXCEPT !.add = @ \cup ToSet(AddedPairs(d))]
        cancel(a, x) == IF x \in a.add THEN [a EXCEPT !.add = @ \ {x}]
                                       ELSE [a EXCEPT !.del = @ \cup {x}]
    IN  FoldLeft(cancel, added, RemovedPairs(d))

\* get_version: all that was added, then all that was removed, each cancelling
\* what is pending the other way from earlier versions or from this one.
GetVersion(acc, d) ==
    LET adding(a, x) == IF x \in a.del THEN [a EXCEPT !.del = @ \ {x}]
                                       ELSE [a EXCEPT !.add = @ \cup {x}]
        removing(a, x) == IF x \in a.add THEN [a EXCEPT !.add = @ \ {x}]
                                         ELSE [a EXCEPT !.del = @ \cup {x}]
    IN  FoldLeft(removing, FoldLeft(adding, acc, AddedPairs(d)), RemovedPairs(d))

\* The sets a reader of these versions, oldest first, works with
\* (IVEntry::getLatestVersion; with one transaction at a time every level
\* reads them all).
ReadVersions(vl) == FoldLeft(GetVersion, NoChange, vl)
=============================================================================

----------------------------- MODULE ListValue ------------------------------
(***************************************************************************)
(* The values of the three index arrays of KVstore and the functions that  *)
(* rewrite them (KVstore/KVstore.cpp).  A value is an array of integers:   *)
(*                                                                         *)
(*   subID2values  num, preNum, entityNum, (pid, offset)*, oid*            *)
(*   objID2values  num, preNum,            (pid, offset)*, sid*            *)
(*   preID2values  num, sid*, oid*                                         *)
(*                                                                         *)
(* offset counts from the start of the array, and the code updates counts, *)
(* offsets and elements by hand.  The first two layouts differ only in     *)
(* their head, of H = 3 or 2 numbers.  A key without a value is NULL.      *)
(*                                                                         *)
(* Sequences count from 1, the offsets in a value from 0 as in the code.   *)
(***************************************************************************)
EXTENDS Integers, FiniteSets, SequencesExt

CONSTANT LITERAL_FIRST_ID   \* IDs from here on are literals

NULL    == <<>>
INVALID == 0       \* binarySearch: not found

SHead == 3
OHead == 2

IsEntity(id) == id < LITERAL_FIRST_ID
EntityNum(ids) == Len(SelectSeq(ids, IsEntity))

-----------------------------------------------------------------------------
(* Reading a value                                                         *)

Pairs(H, v)   == [i \in 1..v[2] |-> <<v[H + 2*i - 1], v[H + 2*i]>>]
Elems(H, v)   == SubSeq(v, H + 2 * v[2] + 1, Len(v))
Pids(H, v)    == [i \in 1..v[2] |-> v[H + 2*i - 1]]
ListEnd(H, v) == H + 2 * v[2] + v[1]

\* Where the elements of the i-th predicate end.
OffsetNext(H, v, i) == IF i = v[2] THEN ListEnd(H, v) ELSE v[H + 2*i + 2]

ElemsOf(H, v, i) == SubSeq(v, v[H + 2*i] + 1, OffsetNext(H, v, i))

\* binarySearch: a position of key in an ascending list.
BinarySearch(key, list) ==
    LET find[lr \in (1..Len(list) + 1) \X (0..Len(list))] ==
            LET mid == lr[1] + (lr[2] - lr[1]) \div 2 IN
            IF lr[1] > lr[2] THEN INVALID
            ELSE IF key = list[mid] THEN mid
            ELSE IF key < list[mid] THEN find[<<lr[1], mid - 1>>]
            ELSE find[<<mid + 1, lr[2]>>]
    IN  find[<<1, Len(list)>>]

\* How many leading members of list come before x: where the loops that look
\* for the place of x stop.
Before(list, x, Less(_, _)) ==
    LET stop == SelectInSeq(list, LAMBDA y : ~Less(y, x))
    IN  IF stop = 0 THEN Len(list) ELSE stop - 1

Lt(x, y) == x < y
LexLt(x, y) == x[1] < y[1] \/ (x[1] = y[1] /\ x[2] < y[2])

-----------------------------------------------------------------------------
(* Writing a value with a head of H numbers                                *)

Layout(H, head, pairs, elems) ==
    SubSeq(head, 1, H) \o FlattenSeq(pairs) \o elems

Entities(H, v) == IF H = SHead THEN v[3] ELSE 0

\* n is added to the offsets of the pairs at positions in I.
Shifted(pairs, I, n) ==
    [i \in 1..Len(pairs) |->
        IF i \in I THEN <<pairs[i][1], pairs[i][2] + n>> ELSE pairs[i]]

\* Mutant: the elements of later predicates are not moved for the new element.
InsertUnderNewShort(H, v, p, x, e) ==
    LET n    == v[2]
        k    == Before(Pids(H, v), p, Lt)
        old  == IF k = n THEN ListEnd(H, v) ELSE v[H + 2*k + 2]
    IN  Layout(H, <<v[1] + 1, n + 1, Entities(H, v) + e>>,
               InsertAt(Shifted(Pairs(H, v), 1..n, 2), k + 1, <<p, old + 2>>),
               InsertAt(Elems(H, v), old - (H + 2*n) + 1, x))

\* The first x of predicate p: a pair goes in before the larger predicates.
InsertUnderNew(H, v, p, x, e) ==
    LET n    == v[2]
        k    == Before(Pids(H, v), p, Lt)
        old  == IF k = n THEN ListEnd(H, v) ELSE v[H + 2*k + 2]
        pairs == Shifted(Shifted(Pairs(H, v), 1..k, 2), k+1..n, 3)
    IN  Layout(H, <<v[1] + 1, n + 1, Entities(H, v) + e>>,
               InsertAt(pairs, k + 1, <<p, old + 2>>),
               InsertAt(Elems(H, v), old - (H + 2*n) + 1, x))

\* One more x of the i-th predicate.
InsertUnderOld(H, v, i, x, e) ==
    LET n  == v[2]
        at == v[H + 2*i] + Before(ElemsOf(H, v, i), x, Lt)
    IN  Layout(H, <<v[1] + 1, n, Entities(H, v) + e>>,
               Shifted(Pairs(H, v), i+1..n, 1),
               InsertAt(Elems(H, v), at - (H + 2*n) + 1, x))

\* Single insertion of <<p, x>>; that it is not there is for the caller to see.
InsertElem(H, v, p, x) ==
    LET e == IF IsEntity(x) THEN 1 ELSE 0
        i == BinarySearch(p, Pids(H, v))
    IN  IF v = NULL
        THEN Layout(H, <<1, 1, e>>, << <<p, H + 2>> >>, <<x>>)
        ELSE IF i = INVALID THEN InsertUnderNew(H, v, p, x, e)
        ELSE InsertUnderOld(H, v, i, x, e)

\* The last x of the i-th predicate: its pair goes too.
RemoveLastUnder(H, v, i, e) ==
    LET n == v[2]
    IN  Layout(H, <<v[1] - 1, n - 1, Entities(H, v) - e>>,
               RemoveAt(Shifted(Shifted(Pairs(H, v), 1..i-1, -2), i+1..n, -3), i),
               RemoveAt(Elems(H, v), v[H + 2*i] - (H + 2*n) + 1))

\* One of several x of the i-th predicate.  The loop that looks for x goes on
\* into the elements of later predicates.
RemoveUnder(H, v, i, x, e) ==
    LET n  == v[2]
        at == v[H + 2*i] + Before(SubSeq(v, v[H + 2*i] + 1, Len(v)), x, Lt)
    IN  Layout(H, <<v[1] - 1, n, Entities(H, v) - e>>,
               Shifted(Pairs(H, v), i+1..n, -1),
               RemoveAt(Elems(H, v), at - (H + 2*n) + 1))

\* Single removal of <<p, x>>, which is there; NULL means the key is removed.
RemoveElem(H, v, p, x) ==
    LET e == IF IsEntity(x) THEN 1 ELSE 0
        i == BinarySearch(p, Pids(H, v))
    IN  IF v = NULL \/ v[1] = 1 THEN NULL
        ELSE IF OffsetNext(H, v, i) - v[H + 2*i] = 1
             THEN RemoveLastUnder(H, v, i, e)
             ELSE RemoveUnder(H, v, i, x, e)

-----------------------------------------------------------------------------
(* Batches: data is a sequence of pairs <<pid, x>>                         *)


\* The members of a set in the order of Less.
Sorted(S, Less(_, _)) ==
    [i \in 1..Cardinality(S) |->
        CHOOSE x \in S : Cardinality({y \in S : Less(y, x)}) = i - 1]

Ascending(S) == Sorted(S, Lt)
DataPids(data) == {data[i][1] : i \in 1..Len(data)}

\* The vector (insertion) or set (removal) that a batch holds for p.
DataOf(data, p) ==
    LET own == SelectSeq(data, LAMBDA d : d[1] = p)
    IN  [i \in 1..Len(own) |-> own[i][2]]

\* Two ascending lists merged; one that is at the head of both is written once.
Merge(a, b, Less(_, _)) ==
    LET m[ij \in (1..Len(a) + 1) \X (1..Len(b) + 1)] ==
            LET i == ij[1]  j == ij[2] IN
            IF i > Len(a) THEN SubSeq(b, j, Len(b))
            ELSE IF j > Len(b) \/ Less(a[i], b[j])
                 THEN <<a[i]>> \o m[<<i + 1, j>>]
            ELSE IF Less(b[j], a[i]) THEN <<b[j]>> \o m[<<i, j + 1>>]
            ELSE <<a[i]>> \o m[<<i + 1, j + 1>>]
    IN  m[<<1, 1>>]

\* The offsets of consecutive lists, the first of which starts at from.
Offsets(lists, from) ==
    LET off[i \in 1..Len(lists)] ==
            IF i = 1 THEN from ELSE off[i - 1] + Len(lists[i - 1])
    IN  off

\* A value written from scratch: lists[i] is what pids[i] has.
FromLists(H, pids, lists, from) ==
    LET elems == FlattenSeq(lists)
        off   == Offsets(lists, from)
    IN  Layout(H, <<Len(elems), Len(pids), EntityNum(elems)>>,
               [i \in 1..Len(pids) |-> <<pids[i], off[i]>>], elems)

\* The list of p in v, or none.
ListOf(H, v, p) ==
    LET i == BinarySearch(p, Pids(H, v))
    IN  IF i = INVALID THEN <<>> ELSE ElemsOf(H, v, i)

InsertData(H, v, data) ==
    IF v = NULL
    THEN LET pids == Ascending(DataPids(data))
         IN  FromLists(H, pids, [i \in 1..Len(pids) |-> DataOf(data, pids[i])],
                       H + 2 * Len(pids))
    ELSE LET pids == Merge(Ascending(DataPids(data)), Pids(H, v), Lt)
         IN  FromLists(H, pids,
                       [i \in 1..Len(pids) |-> Merge(DataOf(data, pids[i]),
                                                     ListOf(H, v, pids[i]), Lt)],
                       H + 2 * Len(pids))

\* Mutant: the offsets still count the pairs of the predicates that are gone.
RemoveDataShort(H, v, data) ==
    LET pids  == Pids(H, v)
        left  == [i \in 1..Len(pids) |->
                     SelectSeq(ElemsOf(H, v, i),
                               LAMBDA x : <<pids[i], x>> \notin ToSet(data))]
        keep  == SelectSeq([i \in 1..Len(pids) |-> i], LAMBDA i : left[i] # <<>>)
        value == FromLists(H, [k \in 1..Len(keep) |-> pids[keep[k]]],
                           [k \in 1..Len(keep) |-> left[keep[k]]],
                           H + 2 * Len(pids))
    IN  IF v = NULL \/ keep = <<>> THEN NULL ELSE value

\* The elements are written as if every predicate stayed, and the offsets are
\* moved at the end by the pairs that turned out to be gone.
RemoveData(H, v, data) ==
    LET pids  == Pids(H, v)
        left  == [i \in 1..Len(pids) |->
                     SelectSeq(ElemsOf(H, v, i),
                               LAMBDA x : <<pids[i], x>> \notin ToSet(data))]
        keep  == SelectSeq([i \in 1..Len(pids) |-> i], LAMBDA i : left[i] # <<>>)
        gone  == Len(pids) - Len(keep)
        value == FromLists(H, [k \in 1..Len(keep) |-> pids[keep[k]]],
                           [k \in 1..Len(keep) |-> left[keep[k]]],
                           H + 2 * Len(pids) - 2 * gone)
    IN  IF v = NULL \/ keep = <<>> THEN NULL ELSE value

-----------------------------------------------------------------------------
(* preID2values: pairs <<sid, oid>> in lexicographic order                 *)

PPairs(v) == [i \in 1..v[1] |-> <<v[1 + i], v[1 + v[1] + i]>>]
PLayout(num, pairs) ==
    <<num>> \o [i \in 1..Len(pairs) |-> pairs[i][1]]
            \o [i \in 1..Len(pairs) |-> pairs[i][2]]

\* Mutant: the place is looked for by subject alone.
InsertPairBySubject(v, s, o) ==
    IF v = NULL THEN PLayout(1, << <<s, o>> >>)
    ELSE PLayout(v[1] + 1,
                 InsertAt(PPairs(v),
                          Before(PPairs(v), <<s, o>>, LAMBDA x, y : x[1] < y[1]) + 1,
                          <<s, o>>))

\* updateInsert_p2values
InsertPair(v, s, o) ==
    IF v = NULL THEN PLayout(1, << <<s, o>> >>)
    ELSE PLayout(v[1] + 1,
                 InsertAt(PPairs(v), Before(PPairs(v), <<s, o>>, LexLt) + 1,
                          <<s, o>>))

\* updateRemove_p2values
RemovePair(v, s, o) ==
    IF v = NULL \/ v[1] = 1 THEN NULL
    ELSE PLayout(v[1] - 1,
                 RemoveAt(PPairs(v), Before(PPairs(v), <<s, o>>, LexLt) + 1))

\* Insert_p2values
InsertPairs(v, data) ==
    LET merged == IF v = NULL THEN data ELSE Merge(data, PPairs(v), LexLt)
    IN  PLayout(Len(merged), merged)

\* Remove_p2values
RemovePairs(v, data) ==
    LET left == SelectSeq(PPairs(v), LAMBDA d : d \notin ToSet(data))
    IN  IF v = NULL \/ left = <<>> THEN NULL ELSE PLayout(Len(left), left)

-----------------------------------------------------------------------------
(* Building from the file's triples, sorted and with repetitions           *)

\* One of a run of equal triples.
Unrepeated(data) ==
    LET last == SelectSeq([i \in 1..Len(data) |-> i],
                          LAMBDA i : i = Len(data) \/ data[i] # data[i + 1])
    IN  [k \in 1..Len(last) |-> data[last[k]]]

\* The part of build_subID2values and build_objID2values that is for one key.
\* An offset is counted from the first element until the head is known.
BuildList(H, data) ==
    LET own  == Unrepeated(data)
        pids == Unrepeated([i \in 1..Len(own) |-> own[i][1]])
        off(p) == SelectInSeq(own, LAMBDA d : d[1] = p) - 1
        elems == [i \in 1..Len(own) |-> own[i][2]]
    IN  Layout(H, <<Len(elems), Len(pids), EntityNum(elems)>>,
               [i \in 1..Len(pids) |-> <<pids[i], off(pids[i]) + H + 2 * Len(pids)>>],
               elems)

\* build_preID2values, for one key.
BuildPairs(data) == PLayout(Len(Unrepeated(data)), Unrepeated(data))

-----------------------------------------------------------------------------
(* The functions of KVstore on one value.  s: v is of subID2values,        *)
(* o: of objID2values, p: of preID2values.                                 *)

updateInsert_s2values(v, p, o) == InsertElem(SHead, v, p, o)
updateRemove_s2values(v, p, o) == RemoveElem(SHead, v, p, o)
updateInsert_o2values(v, p, s) == InsertElem(OHead, v, p, s)
updateRemove_o2values(v, p, s) == RemoveElem(OHead, v, p, s)
updateInsert_p2values(v, s, o) == InsertPair(v, s, o)
updateRemove_p2values(v, s, o) == RemovePair(v, s, o)

Insert_s2values(v, data) == InsertData(SHead, v, data)
Remove_s2values(v, data) == RemoveData(SHead, v, data)
Insert_o2values(v, data) == InsertData(OHead, v, data)
Remove_o2values(v, data) == RemoveData(OHead, v, data)

Insert_p2values(v, data) == InsertPairs(v, data)
Remove_p2values(v, data) == RemovePairs(v, data)

\* Util::sort and Util::removeDuplicate
SortedSet(list) == Ascending(ToSet(list))

PairList(H, v) ==
    FlattenSeq([i \in 1..v[2] |->
        [j \in 1..Len(ElemsOf(H, v, i)) |-> <<v[H + 2*i - 1], ElemsOf(H, v, i)[j]>>]])

getpreIDlistBysubID(v)         == IF v = NULL THEN <<>> ELSE Pids(SHead, v)
getobjIDlistBysubID(v)         == IF v = NULL THEN <<>> ELSE SortedSet(Elems(SHead, v))
getobjIDlistBysubIDpreID(v, p) == IF v = NULL THEN <<>> ELSE ListOf(SHead, v, p)
getpreIDobjIDlistBysubID(v)    == IF v = NULL THEN <<>> ELSE PairList(SHead, v)

getpreIDlistByobjID(v)         == IF v = NULL THEN <<>> ELSE Pids(OHead, v)
getsubIDlistByobjID(v)         == IF v = NULL THEN <<>> ELSE SortedSet(Elems(OHead, v))
getsubIDlistByobjIDpreID(v, p) == IF v = NULL THEN <<>> ELSE ListOf(OHead, v, p)
getpreIDsubIDlistByobjID(v)    == IF v = NULL THEN <<>> ELSE PairList(OHead, v)

getsubIDlistBypreID(v) ==
    IF v = NULL THEN <<>> ELSE SortedSet(SubSeq(v, 2, 1 + v[1]))
getobjIDlistBypreID(v) ==
    IF v = NULL THEN <<>> ELSE SortedSet(SubSeq(v, 2 + v[1], Len(v)))
getsubIDobjIDlistBypreID(v) == IF v = NULL THEN <<>> ELSE PPairs(v)

\* intersect: what two ascending lists share.
Intersect(a, b) == SelectSeq(a, LAMBDA x : x \in ToSet(b))

\* The predicates between a subject with value sv and an object o with value
\* ov: those of both, if o is among the subject's objects of it.
getpreIDlistBysubIDobjID(sv, ov, o) ==
    SelectSeq(Intersect(getpreIDlistBysubID(sv), getpreIDlistByobjID(ov)),
              LAMBDA p : BinarySearch(o, getobjIDlistBysubIDpreID(sv, p)) # INVALID)

\* exist_triple and existThisTriple
ExistTriple(v, p, o) ==
    BinarySearch(o, getobjIDlistBysubIDpreID(v, p)) # INVALID

\* getEntityDegree and the like: the number a value starts with.
Degree(v) == IF v = NULL THEN 0 ELSE v[1]

\* How many elements a predicate has in a value.
PredicateDegree(H, v, p) ==
    IF v = NULL THEN 0
    ELSE LET i == BinarySearch(p, Pids(H, v))
         IN  IF i = INVALID THEN 0 ELSE OffsetNext(H, v, i) - v[H + 2*i]
getSubjectPredicateDegree(v, p) == PredicateDegree(SHead, v, p)
getObjectPredicateDegree(v, p)  == PredicateDegree(OHead, v, p)
=============================================================================

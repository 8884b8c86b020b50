---------------------------- MODULE IVBlockManager ----------------------------
(***************************************************************************)
(* The value file of an index array and its free blocks                    *)
(* (KVstore/IVArray/IVBlockManager.cpp).  Blocks are numbered from 1, and  *)
(* 0 is no block.  Lengths are counted in blocks' worth of bytes, so a     *)
(* value of length n fills n blocks.                                       *)
(*                                                                         *)
(* The manager is a record: byBase is index_len_map, byLen is              *)
(* len_index_map, cur is cur_block_num, and file is the value file: each   *)
(* written block has the next block of its value, the value it holds a     *)
(* piece of, and how many pieces are left from it on.                      *)
(***************************************************************************)
EXTENDS Integers, FiniteSetsExt, Functions, SequencesExt

CONSTANTS Values,
          Size,         \* value -> how many blocks it fills
          NoValue,      \* a null char*, or a value that cannot be made out
          SetBlockInc   \* SETBLOCKINC: how many blocks the file grows by

ASSUME SizeAssumption == Size \in [Values -> Nat \ {0}]
ASSUME NoValueAssumption == NoValue \notin Values
ASSUME SetBlockIncAssumption == SetBlockInc \in Nat \ {0}

Piece == [next : Nat, val : Values, left : Nat]

AllocBlock(bm, n) ==
    LET len  == Max({n, SetBlockInc})
        base == bm.cur + 1
    IN  [bm EXCEPT !.byBase = (base :> len) @@ @,
                   !.byLen  = @ \cup {<<len, base>>},
                   !.cur    = @ + len]

\* The constructor in build mode.
Built(n) == AllocBlock([byBase |-> <<>>, byLen |-> {}, cur |-> 0,
                        file |-> <<>>], n)

\* SaveFreeBlockList, then the constructor in open mode: len_index_map is
\* made again from index_len_map.
Reopened(bm) ==
    [bm EXCEPT !.byLen = {<<bm.byBase[b], b>> : b \in DOMAIN bm.byBase}]

\* The smallest extent of at least n blocks, the lowest of several
\* (set::lower_bound on <<length, base>>).
Fitting(bm, n) == {e \in bm.byLen : e[1] >= n}
LowerBound(es) == CHOOSE e \in es :
    \A f \in es : e[1] < f[1] \/ (e[1] = f[1] /\ e[2] <= f[2])

\* getWhereToWrite when an extent fits: its first n blocks are taken.
Take(bm, n) ==
    LET e    == LowerBound(Fitting(bm, n))
        rest == e[1] - n
        r    == e[2] + n
    IN  [bm EXCEPT
            !.byBase = LET m == IF rest > 0 THEN (r :> rest) @@ @ ELSE @
                       IN  RestrictDomain(m, LAMBDA b : b # e[2]),
            !.byLen  = ((IF rest > 0 THEN @ \cup {<<rest, r>>} ELSE @) \ {e})]

\* getWhereToWrite: when nothing fits the file grows first.
Grown(bm, n) == IF Fitting(bm, n) = {} THEN AllocBlock(bm, n) ELSE bm

\* WriteValue: the block the value starts at, and the manager afterwards.
WhereTo(bm, v) == LowerBound(Fitting(Grown(bm, Size[v]), Size[v]))[2]
WriteValue(bm, v) ==
    LET n == Size[v]
        b == WhereTo(bm, v)
        pieces == [i \in b..(b + n - 1) |->
                     [next |-> IF i = b + n - 1 THEN 0 ELSE i + 1,
                      val  |-> v,
                      left |-> b + n - i]]
    IN  [Take(Grown(bm, n), n) EXCEPT !.file = pieces @@ @]

\* The blocks a walk along the next pointers visits.
Chain(bm, index) ==
    LET from[b \in {0} \cup DOMAIN bm.file] ==
            IF b = 0 THEN <<>> ELSE <<b>> \o from[bm.file[b].next]
    IN  from[index]

\* ReadValue: the first block says how long the value is and the walk ends
\* there or at the end of the chain.  It is the value that was written only
\* if every block still holds that value's piece.
ReadValue(bm, index) ==
    IF index = 0 THEN NoValue
    ELSE LET c == Chain(bm, index)
             h == bm.file[index]
         IN  IF /\ Len(c) >= h.left
                /\ h.left = Size[h.val]
                /\ \A i \in 1..h.left : /\ bm.file[c[i]].val = h.val
                                        /\ bm.file[c[i]].left = h.left - i + 1
             THEN h.val ELSE NoValue

\* The longest run of blocks that ends right before the extent <<base, len>>
\* and is free (index_len_map.lower_bound, --it) is joined to it.  The pair
\* erased from len_index_map is read out of the map node just freed; when
\* the memory has been used again by then it is not the pair meant, and the
\* pair stays.
MergeBefore(x, stale) ==
    LET before == {b \in DOMAIN x.byBase : b < x.base}
        p == Max(before)
    IN  IF before # {} /\ p + x.byBase[p] = x.base
        THEN [x EXCEPT !.base   = p,
                       !.len    = @ + x.byBase[p],
                       !.byBase = RestrictDomain(@, LAMBDA b : b # p),
                       !.byLen  = IF stale THEN @ ELSE @ \ {<<x.byBase[p], p>>}]
        ELSE x

\* Mutant: the extent behind stays in index_len_map.
MergeAfterKeeping(x) ==
    LET after == {b \in DOMAIN x.byBase : b > x.base}
        a == Min(after)
    IN  IF after # {} /\ x.base + x.len = a
        THEN [x EXCEPT !.len = @ + x.byBase[a], !.byLen = @ \ {<<x.byBase[a], a>>}]
        ELSE x

\* The same with the extent that begins right behind it.
MergeAfter(x) ==
    LET after == {b \in DOMAIN x.byBase : b > x.base}
        a == Min(after)
    IN  IF after # {} /\ x.base + x.len = a
        THEN [x EXCEPT !.len    = @ + x.byBase[a],
                       !.byBase = RestrictDomain(@, LAMBDA b : b # a),
                       !.byLen  = @ \ {<<x.byBase[a], a>>}]
        ELSE x

\* map::insert does not replace an extent of the same base.
Insert(x) == [x EXCEPT !.byBase = @ @@ (x.base :> x.len),
                       !.byLen  = @ \cup {<<x.len, x.base>>}]

\* FreeBlocks, one turn of its loop: a block whose successor is index + 1 is
\* taken for the middle of a run, any other one ends the run.
FreeTurn(x, index, next, stale) ==
    IF next = index + 1 THEN [x EXCEPT !.len = @ + 1]
    ELSE [Insert(MergeAfter(MergeBefore(x, stale)))
              EXCEPT !.len = 0, !.base = next]

FreeBlocks(bm, index, stale) ==
    IF index = 0 THEN bm
    ELSE LET x == FoldLeft(LAMBDA y, b : FreeTurn(y, index, bm.file[b].next, stale),
                           [byBase |-> bm.byBase, byLen |-> bm.byLen,
                            base |-> index, len |-> 1],
                           Chain(bm, index))
         IN  [bm EXCEPT !.byBase = x.byBase, !.byLen = x.byLen]

-----------------------------------------------------------------------------
\* The blocks the free list gives away.
FreeBlocksOf(bm) == UNION {b..(b + bm.byBase[b] - 1) : b \in DOMAIN bm.byBase}

\* The two maps hold the same extents, and no block is in two of them.
FreeListSound(bm) ==
    /\ bm.byLen = {<<bm.byBase[b], b>> : b \in DOMAIN bm.byBase}
    /\ \A b, c \in DOMAIN bm.byBase : b < c => b + bm.byBase[b] <= c
    /\ FreeBlocksOf(bm) \subseteq 1..bm.cur
===============================================================================

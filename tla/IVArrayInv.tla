----------------------------- MODULE IVArrayInv -----------------------------
(* What must hold of an index array. *)
EXTENDS IVArray

TypeOK ==
    /\ setup \in Setups
    /\ \E i \in 0..setup.maxKey : DOMAIN array = 0..(FirstEntryNum * 2^i - 1)
    /\ \A k \in DOMAIN array : array[k] \in Entry
    /\ head \in Keys \cup {NoKey} /\ tail \in Keys \cup {NoKey}
    /\ curSize \in 0..(SizeRange - 1)
    /\ process \in {"run", "exit", "wild"}
    /\ DOMAIN ivfile \subseteq DOMAIN array
    /\ \A k \in DOMAIN ivfile : ivfile[k] \in Nat
    /\ loading \in BOOLEAN
    /\ copying \in [setup.readers -> Keys \cup {NoKey}]
    /\ miscounted \in BOOLEAN

\* What a search for k finds.
Lookup(k) ==
    IF ~IsUsed(Store, k) THEN NoValue
    ELSE IF array[k].cached THEN array[k].value
    ELSE ReadValue(bm, array[k].store)

\* The array is the map it promises KVstore: a search finds what the last
\* insert or modify left, and neither searches, evictions and pins nor
\* saving, closing and loading change what any key holds.
Map == INSTANCE KVMap WITH None <- NoValue, map <- [k \in Keys |-> Lookup(k)]
KeepsItsMap == Map!Spec

\* The entries SwapOut may take.
Listed == {k \in DOMAIN array : array[k].cached /\ ~array[k].pinned}

\* As long as the server runs, walking the list from its head visits exactly
\* the entries that are in memory and not pinned, prevID undoes nextID, and
\* cache_tail_id is the last (SwapOut, AddInCache, UpdateTime and
\* RemoveFromLRUQueue relink it by hand).
LRUListSound ==
    LET n == Cardinality(Listed)
        walk[i \in 1..n] == IF i = 1 THEN head ELSE array[walk[i - 1]].next
    IN  Running =>
          /\ n = 0 => head = NoKey /\ tail = NoKey
          /\ n > 0 => /\ {walk[i] : i \in 1..n} = Listed
                      /\ tail = walk[n] /\ array[tail].next = NoKey
                      /\ array[head].prev = NoKey
                      /\ \A i \in 2..n : array[walk[i]].prev = walk[i - 1]

\* CurCacheSize is the length of what SwapOut could free, so AddInCache
\* swaps out no more than it has to; until a key is removed, which puts its
\* length on the wrong side, or a pinned value is modified, whose length was
\* never counted and is taken off all the same.
SizeExact ==
    process = "run" /\ ~miscounted =>
        curSize = SumFunctionOnSet([k \in Listed |-> LenOf(array[k].value)], Listed)
                      % SizeRange

\* A value that fits the buffer always gets into it: as long as the buffer
\* is counted, making room for one never ends the server (AddInCache, "ensure there is
\* enough room in main memory").
RoomIsMade == ~miscounted => process # "exit"

\* A key whose value is only in the file still needs its blocks.
Needs(k) == array[k].used /\ array[k].store # 0
            /\ ~(array[k].dirty /\ array[k].value # NoValue)
BlocksOf(k) == ToSet(Chain(bm, array[k].store))

\* The free list and the entries share the file out: both maps of the free
\* list hold the same, disjoint extents, and no block that a key still needs
\* is in one of them or belongs to another key ("File record which block is
\* free").
FreeIsFree ==
    /\ FreeListSound(bm)
    /\ \A k \in DOMAIN array : Needs(k) =>
         /\ BlocksOf(k) \cap FreeBlocksOf(bm) = {}
         /\ \A j \in DOMAIN array \ {k} :
              Needs(j) => BlocksOf(j) \cap BlocksOf(k) = {}

\* The value a search found in memory is still there when the search copies
\* it (the assert(false) of IVArray::search after getBstr), and UpdateTime
\* relinks an entry that has a successor ("since array[_key] is not tail, nextp
\* will not be NULL").
CopyFindsValue ==
    /\ process # "wild"
    /\ \A r \in setup.readers : copying[r] # NoKey => array[copying[r]].value # NoValue

\* A key that is removed gives back every block its value was in ("the key
\* is deleted, so free series of blocks").
RemoveFreesAll ==
    [][\A k \in DOMAIN array :
         (Needs(k) /\ ~array'[k].used) => BlocksOf(k) \subseteq FreeBlocksOf(bm')]_vars
=============================================================================

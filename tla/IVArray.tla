------------------------------- MODULE IVArray -------------------------------
(***************************************************************************)
(* One index array of KVstore below its versions: the entries, the LRU     *)
(* list that decides which values stay in memory, and the value file       *)
(* (KVstore/IVArray/IVArray.cpp).                                          *)
(*                                                                         *)
(* Queries search at the same time; each search that hits the cache        *)
(* copies the value out after it has given CacheLock back, so it is two    *)
(* steps.  An update runs alone (Database::update_lock), and KVstore reads *)
(* a key before it inserts, modifies or removes it, so such an update is   *)
(* the search and the change in one step.                                  *)
(*                                                                         *)
(* The methods are operators on the record Store of all that an array      *)
(* keeps; process is what has become of the server: it runs, it has called *)
(* exit(0), or it has written outside an array.                            *)
(***************************************************************************)
EXTENDS IVBlockManager

CONSTANTS MaxKey, Readers,
          FirstEntryNum,  \* how many entries a new array has
          SizeRange,      \* 2^32: CurCacheSize is an unsigned
          StaleReads,     \* what a read of a freed map node may find
          Setups          \* the sizes an array is opened with, and its use:
                          \*   cache    MAX_CACHE_SIZE
                          \*   border   VList::LENGTH_BORDER
                          \*   removes  whether updates ever empty a key's list
                          \*   readers  the queries that run beside each other
                          \*   maxKey, maxBlocks  how far keys and file grow (bounds)

ASSUME ArrayAssumption ==
    /\ MaxKey \in Nat /\ FirstEntryNum \in Nat \ {0} /\ SizeRange \in Nat \ {0}
    /\ StaleReads \subseteq BOOLEAN
    /\ Setups \subseteq [cache : Nat, border : Nat, removes : BOOLEAN,
                         readers : SUBSET Readers, maxKey : 0..MaxKey, maxBlocks : Nat]

Keys == 0..MaxKey
NoKey == -1

VARIABLES
    setup,    \* the member of Setups this array has
    array,    \* IVArray::array
    head,     \* cache_head->nextID
    tail,     \* cache_tail_id
    curSize,  \* CurCacheSize
    bm,       \* the block manager
    process,
    ivfile,   \* IVfile: key -> block its value starts at
    loading,  \* Database::load_cache is running
    copying,  \* reader -> key it is about to copy out of the cache
    miscounted  \* whether, since the array was opened, a key has been
                \* removed or a pinned value modified

vars == <<setup, array, head, tail, curSize, bm, process, ivfile, loading,
          copying, miscounted>>

MaxCacheSize == setup.cache
LengthBorder == setup.border

Store == [array |-> array, head |-> head, tail |-> tail, curSize |-> curSize,
          bm |-> bm, process |-> process]

\* maxBlocks bounds what a step may make of the value file.
Become(s) ==
    /\ s.bm.cur <= setup.maxBlocks
    /\ setup' = setup
    /\ array' = s.array /\ head' = s.head /\ tail' = s.tail
    /\ curSize' = s.curSize /\ bm' = s.bm /\ process' = s.process

Entry == [store : Nat, used : BOOLEAN, dirty : BOOLEAN, cached : BOOLEAN,
          pinned : BOOLEAN, prev : Int, next : Int, value : Values \cup {NoValue}]

NewEntry == [store |-> 0, used |-> FALSE, dirty |-> TRUE, cached |-> FALSE,
             pinned |-> FALSE, prev |-> NoKey, next |-> NoKey, value |-> NoValue]

\* A loop: what Op makes of s with one element of xs after the other.
Each(Op(_, _), s, xs) ==
    LET after[i \in 0..Len(xs)] == IF i = 0 THEN s ELSE Op(after[i - 1], xs[i])
    IN  after[Len(xs)]

LenOf(v) == IF v = NoValue THEN 0 ELSE Size[v]
IsLong(v) == LenOf(v) > LengthBorder

\* IVEntry::release
Release(e) == [e EXCEPT !.value = NoValue, !.prev = NoKey, !.next = NoKey]

\* setNext and setPrev of an entry or, for NoKey, of what is left of the
\* array: cache_head for setNext, nothing for setPrev.
SetNext(s, k, n) == IF k = NoKey THEN [s EXCEPT !.head = n]
                    ELSE [s EXCEPT !.array[k].next = n]
SetPrev(s, k, p) == [s EXCEPT !.array[k].prev = p]
Outside(s) == [s EXCEPT !.process = "wild"]

WriteBack(s, k) ==
    LET v == s.array[k].value
    IN  [s EXCEPT !.array[k].store = WhereTo(s.bm, v), !.bm = WriteValue(s.bm, v)]

\* Mutant: a dirty value is dropped without being written.
SwapOutUnwritten(s) ==
    LET k == s.head
        n == s.array[k].next
        t == SetNext(s, NoKey, n)
        u == IF n # NoKey THEN SetPrev(t, n, NoKey) ELSE [t EXCEPT !.tail = NoKey]
    IN  IF k = NoKey THEN [s EXCEPT !.process = "exit"]
        ELSE [u EXCEPT !.curSize = (@ - LenOf(s.array[k].value)) % SizeRange,
                       !.array[k] = [Release(@) EXCEPT !.cached = FALSE]]

\* Mutant: the length of what leaves is not taken off CurCacheSize.
SwapOutUncounted(s) ==
    LET k == s.head
        n == s.array[k].next
        t == SetNext(s, NoKey, n)
        u == IF n # NoKey THEN SetPrev(t, n, NoKey) ELSE [t EXCEPT !.tail = NoKey]
        w == IF s.array[k].dirty THEN WriteBack(u, k) ELSE u
    IN  IF k = NoKey THEN [s EXCEPT !.process = "exit"]
        ELSE [w EXCEPT !.array[k] = [Release(@) EXCEPT !.cached = FALSE]]

\* SwapOut, and AddInCache's exit(0) when there is nothing to swap out.
SwapOut(s) ==
    LET k == s.head
        n == s.array[k].next
        t == SetNext(s, NoKey, n)
        u == IF n # NoKey THEN SetPrev(t, n, NoKey) ELSE [t EXCEPT !.tail = NoKey]
        w == IF s.array[k].dirty THEN WriteBack(u, k) ELSE u
    IN  IF k = NoKey THEN [s EXCEPT !.process = "exit"]
        ELSE [w EXCEPT !.curSize = (@ - LenOf(s.array[k].value)) % SizeRange,
                       !.array[k] = [Release(@) EXCEPT !.cached = FALSE]]

HasRoom(s, len) == s.curSize + len <= MaxCacheSize

\* AddInCache's loop: there are at most Cardinality(Keys) values to swap out.
Evict(s, len) == IF HasRoom(s, len) \/ s.process # "run" THEN s ELSE SwapOut(s)
MakeRoom(s, len) == Each(Evict, s, [i \in 1..(setup.maxKey + 2) |-> len])

AddInCache(s, k, v) ==
    LET t == MakeRoom(s, LenOf(v))
        u == SetPrev(SetNext(t, t.tail, k), k, t.tail)
    IN  IF LenOf(v) > MaxCacheSize THEN s
        ELSE IF t.process # "run" THEN t
        ELSE [SetNext(u, k, NoKey) EXCEPT
                !.tail = k,
                !.curSize = (@ + LenOf(v)) % SizeRange,
                !.array[k].value = v,
                !.array[k].cached = TRUE]

\* UpdateTime.  An entry that is not the tail is taken to have a successor.
UpdateTime(s, k) ==
    LET p == s.array[k].prev
        n == s.array[k].next
        t == SetPrev(SetNext(s, p, n), n, p)
        u == SetPrev(SetNext(SetNext(t, s.tail, k), k, NoKey), k, s.tail)
    IN  IF s.array[k].pinned \/ k = s.tail THEN s
        ELSE IF n = NoKey THEN Outside(s)
        ELSE [u EXCEPT !.tail = k]

\* Mutant: cache_tail_id is not moved back.
RemoveKeepingTail(s, k) ==
    LET p == s.array[k].prev
        n == s.array[k].next
        t == SetNext(s, p, n)
        u == IF n # NoKey THEN SetPrev(t, n, p) ELSE t
    IN  IF ~s.array[k].cached \/ s.array[k].pinned THEN s
        ELSE [u EXCEPT !.array[k].cached = FALSE,
                       !.array[k].prev = NoKey, !.array[k].next = NoKey]

\* The neighbours of an entry, or the ends, are linked to each other.
Bypass(s, k) ==
    LET p == s.array[k].prev
        n == s.array[k].next
        t == SetNext(s, p, n)
    IN  IF n # NoKey THEN SetPrev(t, n, p) ELSE [t EXCEPT !.tail = p]

RemoveFromLRUQueue(s, k) ==
    IF ~s.array[k].cached \/ s.array[k].pinned THEN s
    ELSE [Bypass(s, k) EXCEPT !.array[k].cached = FALSE,
                              !.array[k].prev = NoKey, !.array[k].next = NoKey]

-----------------------------------------------------------------------------
(* The methods.                                                            *)

IsUsed(s, k) == k \in DOMAIN s.array /\ s.array[k].used

\* search: a hit moves the entry to the end of the list, a miss reads the
\* value and, unless it is long, keeps it.
Search(s, k) ==
    LET v == ReadValue(s.bm, s.array[k].store)
    IN  IF ~IsUsed(s, k) THEN s
        ELSE IF s.array[k].cached THEN UpdateTime(s, k)
        ELSE IF v = NoValue \/ IsLong(v) THEN s
        ELSE AddInCache(s, k, v)

\* The array doubles when the key is behind its end.  IVEntry::Copy copies
\* everything but CachePinFlag.
Expanded(s, k) ==
    LET n == Cardinality(DOMAIN s.array)
    IN  IF k \in DOMAIN s.array THEN s
        ELSE [s EXCEPT !.array =
                [i \in 0..(2 * n - 1) |->
                    IF i < n THEN [@[i] EXCEPT !.pinned = FALSE] ELSE NewEntry]]

\* Writes a value that has not been in memory.
WriteThrough(s, k, v) ==
    [s EXCEPT !.array[k].store = WhereTo(s.bm, v), !.bm = WriteValue(s.bm, v)]

InsertValue(s, k, v) ==
    LET t == Expanded(s, k)
        u == IF IsLong(v) THEN WriteThrough(t, k, v) ELSE AddInCache(t, k, v)
    IN  IF u.process # "run" THEN u
        ELSE [u EXCEPT !.array[k].used = TRUE, !.array[k].dirty = TRUE]

Unpinned(s, k) == [s EXCEPT !.array[k].pinned = FALSE]

\* Mutant: the old value's length is not taken off CurCacheSize.
ModifyUncounted(s, k, v) ==
    LET t == Unpinned(RemoveFromLRUQueue(s, k), k)
    IN  AddInCache([t EXCEPT !.array[k] = Release(@)], k, v)

\* modify: a value in memory is replaced there; otherwise its blocks are
\* freed, though the entry keeps their number.
ModifyCached(s, k, v) ==
    LET t == Unpinned(RemoveFromLRUQueue(s, k), k)
        u == [t EXCEPT !.array[k] = Release(@),
                       !.curSize = (@ - LenOf(t.array[k].value)) % SizeRange]
    IN  AddInCache(u, k, v)

ModifyValue(s, k, v, stale) ==
    LET t == [s EXCEPT !.array[k].dirty = TRUE]
    IN  IF s.array[k].cached THEN ModifyCached(t, k, v)
        ELSE AddInCache([t EXCEPT !.bm = FreeBlocks(@, s.array[k].store, stale)], k, v)

\* Mutant: the blocks of a value that is in memory are kept.
RemoveKeepingBlocks(s, k, stale) ==
    LET t == [s EXCEPT !.bm = IF s.array[k].cached THEN @
                              ELSE FreeBlocks(@, s.array[k].store, stale),
                       !.array[k].used = FALSE, !.array[k].dirty = TRUE,
                       !.array[k].store = 0]
        u == [RemoveFromLRUQueue(t, k) EXCEPT !.array[k].cached = FALSE]
    IN  [Unpinned(u, k) EXCEPT !.array[k] = Release(@)]

\* remove, which adds the length of a cached value to CurCacheSize.
RemoveValue(s, k, stale) ==
    LET t == [s EXCEPT !.bm = FreeBlocks(@, s.array[k].store, stale),
                       !.array[k].used = FALSE, !.array[k].dirty = TRUE,
                       !.array[k].store = 0]
        len == LenOf(s.array[k].value)
        u == IF ~s.array[k].cached THEN t
             ELSE [RemoveFromLRUQueue(t, k) EXCEPT
                     !.curSize = (@ + len) % SizeRange,
                     !.array[k].cached = FALSE]
    IN  [Unpinned(u, k) EXCEPT !.array[k] = Release(@)]

\* PinCache
Pin(s, k) ==
    LET v == ReadValue(s.bm, s.array[k].store)
        t == RemoveFromLRUQueue(s, k)
    IN  IF ~IsUsed(s, k) THEN s
        ELSE IF s.array[k].cached THEN [t EXCEPT !.array[k].pinned = TRUE]
        ELSE IF v = NoValue THEN s
        ELSE [s EXCEPT !.array[k].value = v, !.array[k].cached = TRUE,
                       !.array[k].pinned = TRUE]

\* save, as what it makes of the store and of the IVfile.
SaveOne(x, k) ==
    LET e == x.store.array[k]
        s == IF e.used /\ e.value # NoValue THEN WriteBack(x.store, k) ELSE x.store
    IN  IF ~e.dirty THEN x
        ELSE [store |-> [s EXCEPT !.array[k].dirty = FALSE],
              ivfile |-> (k :> s.array[k].store) @@ x.ivfile]

Saved(s) ==
    Each(SaveOne, [store |-> s, ivfile |-> ivfile],
         [i \in 1..Cardinality(DOMAIN s.array) |-> i - 1])

\* The constructor in open mode.
Opened(x) ==
    [array |-> [k \in DOMAIN x.store.array |->
                  [NewEntry EXCEPT !.store = x.ivfile[k], !.dirty = FALSE,
                                   !.used = x.ivfile[k] > 0]],
     head |-> NoKey, tail |-> NoKey, curSize |-> 0,
     bm |-> Reopened(x.store.bm), process |-> "run"]

-----------------------------------------------------------------------------
Init ==
    /\ setup \in Setups
    /\ array = [k \in 0..(FirstEntryNum - 1) |-> NewEntry]
    /\ head = NoKey /\ tail = NoKey
    /\ curSize = 0
    /\ bm = Built(SetBlockInc)
    /\ process = "run"
    /\ ivfile = <<>>
    /\ loading = FALSE
    /\ copying = [r \in setup.readers |-> NoKey]
    /\ miscounted = FALSE

Running == process = "run"
Serving == Running /\ ~loading
\* Mutant: updates run beside queries.
AloneOrNot == Serving

\* Database::update_lock is taken for writing only when no query holds it.
Alone == Serving /\ \A r \in setup.readers : copying[r] = NoKey

\* A query looks for k: under CacheLock it reads the value, or finds it in
\* memory and goes on to copy it.
Look(r, k) ==
    /\ Serving
    /\ copying[r] = NoKey
    /\ IsUsed(Store, k)
    /\ Become(Search(Store, k))
    /\ copying' = [copying EXCEPT ![r] = IF array[k].cached THEN k ELSE NoKey]
    /\ UNCHANGED <<ivfile, loading, miscounted>>

\* getBstr, after CacheLock has been given back.
CopyOut(r) ==
    /\ Serving
    /\ copying[r] # NoKey
    /\ copying' = [copying EXCEPT ![r] = NoKey]
    /\ UNCHANGED <<setup, array, head, tail, curSize, bm, process, ivfile, loading,
                   miscounted>>

\* KVstore gives out IDs in sequence, so a new key is at most the next one.
InsertKey(k, v) ==
    /\ Alone
    /\ ~IsUsed(Store, k) /\ k <= setup.maxKey /\ k <= Cardinality(DOMAIN array)
    /\ Become(InsertValue(Store, k, v))
    /\ UNCHANGED <<ivfile, loading, copying, miscounted>>

ModifyKey(k, v) ==
    /\ Alone
    /\ IsUsed(Store, k)
    /\ LET s == Search(Store, k)
       IN  \E stale \in StaleReads :
             Become(IF s.process = "run" THEN ModifyValue(s, k, v, stale) ELSE s)
    /\ miscounted' = (miscounted \/ array[k].pinned)
    /\ UNCHANGED <<ivfile, loading, copying>>

RemoveKey(k) ==
    /\ Alone
    /\ setup.removes
    /\ IsUsed(Store, k)
    /\ LET s == Search(Store, k)
       IN  \E stale \in StaleReads :
             Become(IF s.process = "run" THEN RemoveValue(s, k, stale) ELSE s)
    /\ miscounted' = TRUE
    /\ UNCHANGED <<ivfile, loading, copying>>

\* Database::load_cache looks at a list and pins it if it is long.
LoadKey(k) ==
    /\ Running /\ loading
    /\ IsUsed(Store, k)
    /\ LET s == Search(Store, k)
           v == IF s.array[k].cached THEN s.array[k].value
                ELSE ReadValue(s.bm, s.array[k].store)
       IN  Become(IF s.process = "run" /\ IsLong(v) THEN Pin(s, k) ELSE s)
    /\ UNCHANGED <<ivfile, loading, copying, miscounted>>

Loaded ==
    /\ Running /\ loading
    /\ loading' = FALSE
    /\ UNCHANGED <<setup, array, head, tail, curSize, bm, process, ivfile, copying,
                   miscounted>>

Save ==
    /\ Alone
    /\ LET x == Saved(Store) IN Become(x.store) /\ ivfile' = x.ivfile
    /\ UNCHANGED <<loading, copying, miscounted>>

\* KVstore::close saves the array and deletes it; the next Database::load
\* opens it again.
CloseAndOpen ==
    /\ Alone
    /\ LET x == Saved(Store) IN Become(Opened(x)) /\ ivfile' = x.ivfile
    /\ loading' = TRUE /\ miscounted' = FALSE
    /\ UNCHANGED copying

Next ==
    \/ \E r \in setup.readers : CopyOut(r) \/ \E k \in Keys : Look(r, k)
    \/ \E k \in Keys : RemoveKey(k) \/ LoadKey(k)
    \/ \E k \in Keys, v \in Values : InsertKey(k, v) \/ ModifyKey(k, v)
    \/ Loaded \/ Save \/ CloseAndOpen

Spec == Init /\ [][Next]_vars
=============================================================================

---------------------------- MODULE TripleStore -----------------------------
(***************************************************************************)
(* The triples of a database in the three index arrays of KVstore: updates *)
(* one by one and in batches (Database::insertTriple, batch_insert, ...),  *)
(* the updates of a transaction, which go to versions beside the values,   *)
(* and the checkpoint that merges the versions in (KVstore::*_vacuum).     *)
(*                                                                         *)
(* TxnStore has the concurrency of transactions and abstracts values to    *)
(* sets of writers; here transactions run one at a time and values and     *)
(* versions are the arrays of integers the code works on.                  *)
(***************************************************************************)
EXTENDS ListValue, VersionData

CONSTANTS
    Triples,      \* the triples <<sid, pid, oid>> that come up
    TxnTriples,   \* those that transactions write
    Careful,      \* clients of transactions keep to CarefulInsert and -Remove
    MaxVersions,  \* bound on the versions of a key
    MaxWrites     \* bound on the updates of a transaction

VARIABLES
    values,   \* array -> key -> stored value
    vers,     \* array -> key -> versions, oldest first
    writes,   \* Transaction::WriteSet of the running transaction
    dirty,    \* Txn_manager::DirtyKeys
    failed,   \* an assert() has failed
    stored,   \* the triples that all ended updates leave  (these two are what
    seen      \* the triples the running transaction works with  the store is for)

codeVars == <<values, vers, writes, dirty, failed>>
vars == <<codeVars, stored, seen>>

Arrays == {"sub", "obj", "pre"}

\* The key of a triple in an array, and the pair it is there.
Key(a, t) == CASE a = "sub" -> t[1] [] a = "obj" -> t[3] [] a = "pre" -> t[2]
Pair(a, t) == CASE a = "sub" -> <<t[2], t[3]>>
                [] a = "obj" -> <<t[2], t[1]>>
                [] a = "pre" -> <<t[1], t[3]>>

KeysOf(a, B) == {Key(a, t) : t \in B}
Keys(a) == KeysOf(a, Triples)

\* The pairs of the triples of B that are of key k, in the order of the
\* comparison the array's data is sorted with (spo, ops, pso).
DataFor(a, k, B) ==
    Sorted({Pair(a, t) : t \in {u \in B : Key(a, u) = k}}, LexLt)

PairSeq(S) == Sorted(S, LexLt)

InsertOne(a, v, d) ==
    CASE a = "sub" -> updateInsert_s2values(v, d[1], d[2])
      [] a = "obj" -> updateInsert_o2values(v, d[1], d[2])
      [] a = "pre" -> updateInsert_p2values(v, d[1], d[2])
RemoveOne(a, v, d) ==
    CASE a = "sub" -> updateRemove_s2values(v, d[1], d[2])
      [] a = "obj" -> updateRemove_o2values(v, d[1], d[2])
      [] a = "pre" -> updateRemove_p2values(v, d[1], d[2])
InsertMany(a, v, data) ==
    IF data = <<>> THEN v
    ELSE CASE a = "sub" -> Insert_s2values(v, data)
           [] a = "obj" -> Insert_o2values(v, data)
           [] a = "pre" -> Insert_p2values(v, data)
RemoveMany(a, v, data) ==
    IF data = <<>> THEN v
    ELSE CASE a = "sub" -> Remove_s2values(v, data)
           [] a = "obj" -> Remove_o2values(v, data)
           [] a = "pre" -> Remove_p2values(v, data)

Build(a, k, B) ==
    CASE a = "sub" -> BuildList(SHead, DataFor(a, k, B))
      [] a = "obj" -> BuildList(OHead, DataFor(a, k, B))
      [] a = "pre" -> BuildPairs(DataFor(a, k, B))

\* A database built from any of the triples.
Init ==
    /\ \E B \in SUBSET Triples :
       /\ stored = B /\ seen = B
       /\ values = [a \in Arrays |-> [k \in Keys(a) |->
                       IF k \in KeysOf(a, B) THEN Build(a, k, B) ELSE NULL]]
    /\ vers = [a \in Arrays |-> [k \in Keys(a) |-> <<>>]]
    /\ writes = {}
    /\ dirty = [a \in Arrays |-> {}]
    /\ failed = FALSE

-----------------------------------------------------------------------------
(* Updates outside transactions                                            *)

\* Nothing that a transaction wrote waits for the checkpoint.
Settled == \A a \in Arrays : \A k \in Keys(a) : vers[a][k] = <<>>

\* Updates outside transactions look at the stored values alone, so clients
\* that use both take a checkpoint in between.
Direct == ~failed /\ Settled

\* What is stored is B from here on, and the next transaction starts from it.
Ends(B) == stored' = B /\ seen' = B

Stored(t) == ExistTriple(values["sub"][t[1]], t[2], t[3])

\* insertTriple, with updateTupleslist_insert
InsertTriple(t) ==
    /\ Direct
    /\ ~Stored(t)
    /\ Ends(stored \cup {t})
    /\ values' = [a \in Arrays |->
                    [values[a] EXCEPT ![Key(a, t)] = InsertOne(a, @, Pair(a, t))]]
    /\ UNCHANGED <<vers, writes, dirty, failed>>

\* removeTriple, with updateTupleslist_remove
RemoveTriple(t) ==
    /\ Direct
    /\ Stored(t)
    /\ Ends(stored \ {t})
    /\ values' = [a \in Arrays |->
                    [values[a] EXCEPT ![Key(a, t)] = RemoveOne(a, @, Pair(a, t))]]
    /\ UNCHANGED <<vers, writes, dirty, failed>>

\* The sum of the update_num of an array's keys.
UpdateNum(a, more, less) ==
    FoldSet(LAMBDA k, n : n + Degree(more[a][k]) - Degree(less[a][k]), 0, Keys(a))

\* assert(update_num_o == update_num_p), assert(update_num_s == update_num_o)
NumsDiffer(more, less) ==
    Cardinality({UpdateNum(a, more, less) : a \in Arrays}) > 1

BatchInsert(B) ==
    /\ Direct
    /\ Ends(stored \cup B)
    /\ values' = [a \in Arrays |-> [k \in Keys(a) |->
                     InsertMany(a, values[a][k], DataFor(a, k, B))]]
    /\ failed' = NumsDiffer(values', values)
    /\ UNCHANGED <<vers, writes, dirty>>

BatchRemove(B) ==
    /\ Direct
    /\ Ends(stored \ B)
    /\ values' = [a \in Arrays |-> [k \in Keys(a) |->
                     RemoveMany(a, values[a][k], DataFor(a, k, B))]]
    /\ failed' = NumsDiffer(values, values')
    /\ UNCHANGED <<vers, writes, dirty>>

-----------------------------------------------------------------------------
(* Transactions                                                            *)

\* A stored value with the changes c of its versions.
Merged(a, v, c) ==
    RemoveMany(a, InsertMany(a, v, PairSeq(c.add)), PairSeq(c.del))

\* What the running transaction reads of a key.
View(a, k) == Merged(a, values[a][k], ReadVersions(vers[a][k]))

Sees(t) == ExistTriple(View("sub", t[1]), t[2], t[3])

\* The running transaction has locked the key: the last version is its own.
Owns(a, k) == k \in KeysOf(a, writes)

Own(a, k) == IF Owns(a, k) THEN Last(vers[a][k]) ELSE Fresh

CarefulRemove(t) == Sees(t)
CarefulInsert(t) ==
    ~Sees(t) /\ Pair("sub", t) \notin ToSet(RemovedPairs(Own("sub", t[1])))

\* The private version of a key, made by GetExclusiveLock when it is locked
\* first, takes one pair more.
Written(a, k, d, Write(_, _)) ==
    LET vl == vers[a][k]
    IN  IF Owns(a, k) THEN [vl EXCEPT ![Len(vl)] = Write(@, d)]
        ELSE Append(vl, Write(Fresh, d))

TxnWrite(t, Write(_, _)) ==
    /\ ~failed
    /\ t \in TxnTriples
    /\ Added(Own("sub", t[1])) + Removed(Own("sub", t[1])) < MaxWrites
    /\ \A a \in Arrays : Owns(a, Key(a, t)) \/ Len(vers[a][Key(a, t)]) < MaxVersions
    /\ vers' = [a \in Arrays |->
                  [vers[a] EXCEPT ![Key(a, t)] =
                      Written(a, Key(a, t), Pair(a, t), Write)]]
    /\ writes' = writes \cup {t}
    /\ UNCHANGED <<values, dirty, failed, stored>>

TxnInsert(t) ==
    /\ Careful => CarefulInsert(t)
    /\ TxnWrite(t, AddPair)
    /\ seen' = seen \cup {t}

TxnRemove(t) ==
    /\ Careful => CarefulRemove(t)
    /\ TxnWrite(t, DelPair)
    /\ seen' = seen \ {t}

\* The versions stay, committed; their keys are to be cleaned.
TxnCommit ==
    /\ writes # {}
    /\ dirty' = [a \in Arrays |-> dirty[a] \cup KeysOf(a, writes)]
    /\ writes' = {}
    /\ Ends(seen)
    /\ UNCHANGED <<values, vers, failed>>

\* The private versions are popped.
TxnRollback ==
    /\ writes # {}
    /\ vers' = [a \in Arrays |-> [k \in Keys(a) |->
                   IF Owns(a, k) THEN Front(vers[a][k]) ELSE vers[a][k]]]
    /\ writes' = {}
    /\ Ends(stored)
    /\ UNCHANGED <<values, dirty, failed>>

\* Mutant: the versions of a key stay after they are merged.
CleanedNever(a, k) == k \in dirty[a] /\ FALSE

\* The versions of a literal are not found in objID2values and stay.
Cleaned(a, k) == k \in dirty[a] /\ IsEntity(k)

\* assert(false) in o2values_literal_vacuum
LiteralGone(k) ==
    /\ ~IsEntity(k)
    /\ values["obj"][k] # NULL
    /\ View("obj", k) = NULL

\* Checkpoint: each dirty key's value is read as a transaction would and
\* stored; its versions are dropped.  DirtyKeys is never emptied.
Checkpoint ==
    /\ ~failed
    /\ writes = {}
    /\ \E a \in Arrays : dirty[a] # {}
    /\ values' = [a \in Arrays |-> [k \in Keys(a) |->
                     IF k \in dirty[a] THEN View(a, k) ELSE values[a][k]]]
    /\ vers' = [a \in Arrays |-> [k \in Keys(a) |->
                   IF Cleaned(a, k) THEN <<>> ELSE vers[a][k]]]
    /\ failed' = \E k \in dirty["obj"] : LiteralGone(k)
    /\ UNCHANGED <<writes, dirty, stored, seen>>

Next ==
    \/ \E t \in Triples : InsertTriple(t) \/ RemoveTriple(t) \/ TxnInsert(t) \/ TxnRemove(t)
    \/ \E B \in (SUBSET Triples) \ {{}} : BatchInsert(B) \/ BatchRemove(B)
    \/ TxnCommit \/ TxnRollback \/ Checkpoint

Spec == Init /\ [][Next]_vars

-----------------------------------------------------------------------------
(* Properties                                                              *)

\* Keys stay in their arrays, and the two ends of a version never meet.
TypeOK ==
    /\ writes \subseteq Triples /\ failed \in BOOLEAN
    /\ \A a \in Arrays :
        /\ dirty[a] \subseteq Keys(a)
        /\ DOMAIN values[a] = Keys(a) /\ DOMAIN vers[a] = Keys(a)

\* The triples that an array with these values holds.
Held(a, val) ==
    {t \in Triples :
        LET v == val[Key(a, t)]
        IN  v # NULL /\ Pair(a, t) \in
               ToSet(CASE a = "sub" -> getpreIDobjIDlistBysubID(v)
                       [] a = "obj" -> getpreIDsubIDlistByobjID(v)
                       [] a = "pre" -> getsubIDobjIDlistBypreID(v))}

Viewed(a) == [k \in Keys(a) |-> View(a, k)]

\* Every array holds the triples that the updates say, stored and as the
\* running transaction sees it: no update reaches one array and not another.
IndexesAgree ==
    \A a \in Arrays :
        /\ Settled => Held(a, values[a]) = stored
        /\ Held(a, Viewed(a)) = seen

\* A value with a head of H numbers is laid out as the readers assume: counts
\* that are exact, ascending predicates, lists one behind the other, none
\* empty, each ascending.
ListSound(H, v) ==
    LET Asc(q) == \A i \in 1..Len(q) - 1 : q[i] < q[i + 1] IN
    /\ v[1] > 0 /\ Len(v) = ListEnd(H, v)
    /\ H = SHead => v[3] = EntityNum(Elems(H, v))
    /\ Asc(Pids(H, v))
    /\ v[H + 2] = H + 2 * v[2]
    /\ \A i \in 1..v[2] : /\ v[H + 2*i] < OffsetNext(H, v, i)
                          /\ Asc(ElemsOf(H, v, i))

PairsSound(v) ==
    /\ v[1] > 0 /\ Len(v) = 1 + 2 * v[1]
    /\ \A i \in 1..v[1] - 1 : LexLt(PPairs(v)[i], PPairs(v)[i + 1])

\* Whatever sequence of single, batch and transactional updates wrote it, each
\* value, stored or as a transaction sees it, is well formed, the two lists of a
\* version fit into its array, and no assertion of batch_insert, batch_remove or
\* the vacuum fails.
LayoutSound ==
    /\ ~failed
    /\ \A a \in Arrays : \A k \in Keys(a) : \A v \in {values[a][k], View(a, k)} :
        v # NULL => CASE a = "sub" -> ListSound(SHead, v)
                      [] a = "obj" -> ListSound(OHead, v)
                      [] a = "pre" -> PairsSound(v)
    /\ \A a \in Arrays : \A k \in Keys(a) : \A d \in ToSet(vers[a][k]) :
        Len(d) = Size(d) /\ 4 + 2 * (Added(d) + Removed(d)) <= Size(d)

\* The look-ups of KVstore, over any of the arrays, agree with the set T.
LookupsSound(sub, obj, pre, T) ==
    LET Asc(S) == Ascending(S) IN
    /\ \A s \in Keys("sub") :
        LET of == {t \in T : t[1] = s} IN
        /\ getpreIDlistBysubID(sub[s]) = Asc({t[2] : t \in of})
        /\ getobjIDlistBysubID(sub[s]) = Asc({t[3] : t \in of})
        /\ getpreIDobjIDlistBysubID(sub[s]) = PairSeq({<<t[2], t[3]>> : t \in of})
        /\ \A p \in Keys("pre") :
            LET objs == {t[3] : t \in {u \in of : u[2] = p}} IN
            /\ getobjIDlistBysubIDpreID(sub[s], p) = Asc(objs)
            /\ getSubjectPredicateDegree(sub[s], p) = Cardinality(objs)
        /\ \A o \in Keys("obj") :
              getpreIDlistBysubIDobjID(sub[s], obj[o], o) =
                  Asc({t[2] : t \in {u \in of : u[3] = o}})
        /\ Degree(sub[s]) = Cardinality(of)
    /\ \A o \in Keys("obj") :
        LET of == {t \in T : t[3] = o} IN
        /\ getpreIDlistByobjID(obj[o]) = Asc({t[2] : t \in of})
        /\ getsubIDlistByobjID(obj[o]) = Asc({t[1] : t \in of})
        /\ getpreIDsubIDlistByobjID(obj[o]) = PairSeq({<<t[2], t[1]>> : t \in of})
        /\ \A p \in Keys("pre") :
            LET subs == {t[1] : t \in {u \in of : u[2] = p}} IN
            /\ getsubIDlistByobjIDpreID(obj[o], p) = Asc(subs)
            /\ getObjectPredicateDegree(obj[o], p) = Cardinality(subs)
        /\ Degree(obj[o]) = Cardinality(of)
    /\ \A p \in Keys("pre") :
        LET of == {t \in T : t[2] = p} IN
        /\ getsubIDlistBypreID(pre[p]) = Asc({t[1] : t \in of})
        /\ getobjIDlistBypreID(pre[p]) = Asc({t[3] : t \in of})
        /\ getsubIDobjIDlistBypreID(pre[p]) = PairSeq({<<t[1], t[3]>> : t \in of})
        /\ Degree(pre[p]) = Cardinality(of)

\* Every look-up gives what the set of triples says, in a transaction and,
\* with no versions to merge, outside.
LookupsAgree ==
    LookupsSound(Viewed("sub"), Viewed("obj"), Viewed("pre"), seen)

\* What waits for the checkpoint is what it will do: additions of what is not
\* stored, removals of what is.  (A removal from a key that has no value reads
\* a length that nobody has set.)
PendingExact ==
    \A t \in Triples : \A a \in Arrays :
        LET c == ReadVersions(vers[a][Key(a, t)]) IN
        /\ Pair(a, t) \in c.add => t \notin Held(a, values[a])
        /\ Pair(a, t) \in c.del => t \in Held(a, values[a])
=============================================================================

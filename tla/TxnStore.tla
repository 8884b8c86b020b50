------------------------------ MODULE TxnStore ------------------------------
(***************************************************************************)
(* The transactional store: Txn_manager running transactions against the   *)
(* three index arrays of KVstore, one IVEntry per key.                     *)
(*                                                                         *)
(* Each transaction is driven by one client thread.  Between two calls of  *)
(* the code that are atomic (a method of IVEntry holds the entry's rwLatch *)
(* throughout) any other transaction may step, so a statement, a commit    *)
(* and a rollback are sequences of steps:                                  *)
(*                                                                         *)
(*   Begin -> idle -> { Read | Lock* Write* | Lock* Undo* }                *)
(*         -> CommitShared* CommitExclusive* | AbortShared* AbortExclusive* *)
(*                                                                         *)
(* A key is a subject, predicate or object ID in its own array, and a      *)
(* triple is the set of its three keys.  Rank(k) is the position of the    *)
(* key's array in the order the code works through the arrays: predicate,  *)
(* subject, object.                                                        *)
(***************************************************************************)
EXTENDS IVEntry, FiniteSets

CONSTANTS Keys, Rank,
          MaxTxn,      \* how many transactions begin (bounds Txn_manager::cnt)
          BeginLevels, \* the isolation levels the clients ask for
          Reads,       \* TID -> the keys its queries read
          Writes       \* TID -> the triples its updates insert or remove

TIDs == 1..MaxTxn

ASSUME MaxTxnAssumption  == MaxTxn \in Nat /\ MaxTxn + 1 < INVALID
ASSUME LevelsAssumption  == BeginLevels \subseteq Levels
ASSUME KeysAssumption    == Rank \in [Keys -> {1, 2, 3}]
ASSUME ReadsAssumption   == Reads \in [TIDs -> SUBSET Keys]
ASSUME WritesAssumption  == Writes \in [TIDs -> SUBSET SUBSET Keys]

VARIABLES
    cnt,          \* Txn_manager::cnt, the next TID
    ckptReaders,  \* shared holders of Txn_manager::checkpoint_lock
    dirtyKeys,    \* Txn_manager::DirtyKeys
    base,         \* key -> writers merged into the stored value
    vList,        \* key -> IVEntry::vList
    glatch,       \* key -> IVEntry::glatch
    iso,          \* TID -> Transaction::isolation
    state,        \* TID -> Transaction::state
    cid,          \* TID -> Transaction::CommitID
    readSet,      \* TID -> Transaction::ReadSet
    writeSet,     \* TID -> Transaction::WriteSet
    phase,        \* TID -> what the client's thread is doing
    todo,         \* TID -> keys the current loop has still to visit
    held,         \* TID -> keys try_exclusive_lock got for the current triple
    triple,       \* TID -> keys of the triple being written
    seen,         \* TID -> every read so far: key and other writers seen
    crashed       \* an assert() of KVstore has failed

mgrVars   == <<cnt, ckptReaders, dirtyKeys>>
entryVars == <<base, vList, glatch>>
txnVars   == <<iso, state, cid, readSet, writeSet>>
ctlVars   == <<phase, todo, held, triple>>
vars == <<mgrVars, entryVars, txnVars, ctlVars, seen, crashed>>

Phases == {"none", "idle", "lock", "undo", "write",
           "commitShared", "commitExclusive",
           "abortShared", "abortExclusive", "ended"}
States == {"WAITING", "RUNNING", "COMMITTED", "ABORTED"}

TypeOK ==
    /\ cnt \in 1..(MaxTxn + 1)
    /\ ckptReaders \in Int
    /\ dirtyKeys \in SUBSET Keys
    /\ base \in [Keys -> SUBSET TIDs]
    /\ vList \in [Keys -> Seq(VersionType(TIDs))]
    /\ glatch \in [Keys -> GLatchType]
    /\ iso \in [TIDs -> Levels]
    /\ state \in [TIDs -> States]
    /\ cid \in [TIDs -> 0..(MaxTxn + 1)]
    /\ readSet \in [TIDs -> SUBSET Keys]
    /\ writeSet \in [TIDs -> SUBSET Keys]
    /\ phase \in [TIDs -> Phases]
    /\ todo \in [TIDs -> SUBSET Keys]
    /\ held \in [TIDs -> SUBSET Keys]
    /\ triple \in [TIDs -> SUBSET Keys]
    /\ seen \in [TIDs -> SUBSET [key : Keys, from : SUBSET TIDs]]
    /\ crashed \in BOOLEAN

Init ==
    /\ cnt = 1 /\ ckptReaders = 0 /\ dirtyKeys = {}
    /\ base = [k \in Keys |-> {}]
    /\ vList = [k \in Keys |-> <<DummyVersion>>]
    /\ glatch = [k \in Keys |-> Unlatched]
    /\ iso = [t \in TIDs |-> "SNAPSHOT"]
    /\ state = [t \in TIDs |-> "WAITING"]
    /\ cid = [t \in TIDs |-> 0]
    /\ readSet = [t \in TIDs |-> {}]
    /\ writeSet = [t \in TIDs |-> {}]
    /\ phase = [t \in TIDs |-> "none"]
    /\ todo = [t \in TIDs |-> {}]
    /\ held = [t \in TIDs |-> {}]
    /\ triple = [t \in TIDs |-> {}]
    /\ seen = [t \in TIDs |-> {}]
    /\ crashed = FALSE

\* The key a loop over the arrays visits next (within one array the order is
\* that of an unordered_set).
IsNext(t, k) == k \in todo[t] /\ \A j \in todo[t] : Rank[k] <= Rank[j]

SR(t) == iso[t] = "SERIALIZABLE"

-----------------------------------------------------------------------------
(* Txn_manager::Begin                                                      *)

Begin(t) ==
    /\ ~crashed
    /\ t = cnt
    /\ cnt' = cnt + 1
    /\ ckptReaders' = ckptReaders + 1
    /\ \E level \in BeginLevels : iso' = [iso EXCEPT ![t] = level]
    /\ cid' = [cid EXCEPT ![t] = t]
    /\ state' = [state EXCEPT ![t] = "RUNNING"]
    /\ phase' = [phase EXCEPT ![t] = "idle"]
    /\ UNCHANGED <<dirtyKeys, entryVars, readSet, writeSet, todo, held,
                   triple, seen, crashed>>

-----------------------------------------------------------------------------
(* A statement (Txn_manager::Query).  A statement whose transaction has    *)
(* become ABORTED goes on with its remaining reads and triples before the  *)
(* query returns and Query aborts, so nothing here asks for RUNNING.       *)

\* IVArray::search on behalf of the index reads of KVstore.
Read(t, k) ==
    LET firstRead == k \notin readSet[t] IN
    /\ phase[t] = "idle" /\ k \in Reads[t] /\ ~crashed
    /\ \/ /\ CanRead(vList[k], glatch[k], t, iso[t], firstRead)
          /\ seen' = [seen EXCEPT ![t] = @ \cup
               {[key  |-> k,
                 from |-> (base[k] \cup ReadVersion(vList[k], t, iso[t]))
                             \ {t}]}]
          /\ \/ /\ ReadLatches(vList[k], t, iso[t], firstRead)
                /\ glatch' = [glatch EXCEPT ![k] = LatchShared(@, t)]
                /\ readSet' = [readSet EXCEPT ![t] = @ \cup {k}]
             \/ /\ ~ReadLatches(vList[k], t, iso[t], firstRead)
                /\ UNCHANGED <<glatch, readSet>>
          /\ UNCHANGED state
       \/ /\ ~CanRead(vList[k], glatch[k], t, iso[t], firstRead)
          /\ state' = [state EXCEPT ![t] = "ABORTED"]
          /\ UNCHANGED <<glatch, readSet, seen>>
    /\ UNCHANGED <<mgrVars, base, vList, iso, cid, writeSet, ctlVars, crashed>>

\* insertTriple and removeTriple: lock the three keys of a triple, ...
StartTriple(t) ==
    /\ phase[t] = "idle" /\ ~crashed
    /\ \E tr \in Writes[t] :
          /\ triple' = [triple EXCEPT ![t] = tr]
          /\ todo' = [todo EXCEPT ![t] = tr \ writeSet[t]]
    /\ held' = [held EXCEPT ![t] = {}]
    /\ phase' = [phase EXCEPT ![t] = "lock"]
    /\ UNCHANGED <<mgrVars, entryVars, txnVars, seen, crashed>>

\* try_exclusive_lock, one key that is not in the write set
Lock(t, k) ==
    LET hasRead == k \in readSet[t] IN
    /\ phase[t] = "lock" /\ IsNext(t, k) /\ ~crashed
    /\ \/ /\ CanGetExclusiveLatch(vList[k], glatch[k], t, iso[t], hasRead)
          /\ vList' = [vList EXCEPT ![k] = NewVersion(@, t)]
          /\ glatch' = [glatch EXCEPT ![k] =
                          ExclusiveLatch(@, t, iso[t], hasRead)]
          /\ todo' = [todo EXCEPT ![t] = @ \ {k}]
          /\ held' = [held EXCEPT ![t] = @ \cup {k}]
          /\ UNCHANGED <<phase, crashed>>
       \/ /\ ~CanGetExclusiveLatch(vList[k], glatch[k], t, iso[t], hasRead)
          /\ phase' = [phase EXCEPT ![t] = "undo"]
          /\ todo' = [todo EXCEPT ![t] = held[t]]
          /\ crashed' = UpgradeAsserts(vList[k], glatch[k], t, iso[t], hasRead)
          /\ UNCHANGED <<vList, glatch, held>>
    /\ UNCHANGED <<mgrVars, base, txnVars, triple, seen>>

Locked(t) ==
    /\ phase[t] = "lock" /\ todo[t] = {} /\ ~crashed
    /\ phase' = [phase EXCEPT ![t] = "write"]
    /\ todo' = [todo EXCEPT ![t] = triple[t]]
    /\ UNCHANGED <<mgrVars, entryVars, txnVars, held, triple, seen, crashed>>

\* try_exclusive_lock, the keys it got before the one it did not get
Undo(t, k) ==
    LET hasRead == k \in readSet[t] IN
    /\ phase[t] = "undo" /\ IsNext(t, k) /\ ~crashed
    /\ \/ /\ CanInvalidate(glatch[k], t, iso[t], hasRead)
          /\ vList' = [vList EXCEPT ![k] = Pop(@)]
          /\ glatch' = [glatch EXCEPT ![k] =
                          InvalidateLatch(@, iso[t], hasRead)]
          /\ todo' = [todo EXCEPT ![t] = @ \ {k}]
          /\ UNCHANGED crashed
       \/ /\ ~CanInvalidate(glatch[k], t, iso[t], hasRead)
          /\ crashed' = TRUE
          /\ UNCHANGED <<vList, glatch, todo>>
    /\ UNCHANGED <<mgrVars, base, txnVars, phase, held, triple, seen>>

\* Mutant: the triple is tried again until it can be locked.
UndoneRetries(t) ==
    /\ phase[t] = "undo" /\ todo[t] = {} /\ ~crashed
    /\ phase' = [phase EXCEPT ![t] = "lock"]
    /\ todo' = [todo EXCEPT ![t] = triple[t] \ writeSet[t]]
    /\ held' = [held EXCEPT ![t] = {}]
    /\ UNCHANGED <<mgrVars, entryVars, txnVars, triple, seen, crashed>>

\* Mutant: the failed statement gives checkpoint_lock back.
UndoneUnlocks(t) ==
    /\ phase[t] = "undo" /\ todo[t] = {} /\ ~crashed
    /\ state' = [state EXCEPT ![t] = "ABORTED"]
    /\ ckptReaders' = ckptReaders - 1
    /\ phase' = [phase EXCEPT ![t] = "idle"]
    /\ held' = [held EXCEPT ![t] = {}]
    /\ UNCHANGED <<cnt, dirtyKeys, entryVars, iso, cid, readSet, writeSet, todo,
                   triple, seen, crashed>>

Undone(t) ==
    /\ phase[t] = "undo" /\ todo[t] = {} /\ ~crashed
    /\ state' = [state EXCEPT ![t] = "ABORTED"]
    /\ phase' = [phase EXCEPT ![t] = "idle"]
    /\ held' = [held EXCEPT ![t] = {}]
    /\ UNCHANGED <<mgrVars, entryVars, iso, cid, readSet, writeSet, todo,
                   triple, seen, crashed>>

\* updateTupleslist_insert and _remove: s2values, o2values, p2values
Write(t, k) ==
    /\ phase[t] = "write" /\ k \in todo[t] /\ ~crashed
    /\ \A j \in todo[t] : Rank[k] # 1 /\ Rank[j] # 1 => Rank[k] <= Rank[j]
    /\ Rank[k] = 1 => \A j \in todo[t] : Rank[j] = 1
    /\ vList' = [vList EXCEPT ![k] = WriteVersion(@, t)]
    /\ todo' = [todo EXCEPT ![t] = @ \ {k}]
    /\ UNCHANGED <<mgrVars, base, glatch, txnVars, phase, held, triple, seen,
                   crashed>>

\* ... and the triple enters the write set.
Written(t) ==
    /\ phase[t] = "write" /\ todo[t] = {} /\ ~crashed
    /\ writeSet' = [writeSet EXCEPT ![t] = @ \cup triple[t]]
    /\ phase' = [phase EXCEPT ![t] = "idle"]
    /\ held' = [held EXCEPT ![t] = {}]
    /\ UNCHANGED <<mgrVars, entryVars, iso, state, cid, readSet, todo, triple,
                   seen, crashed>>

-----------------------------------------------------------------------------
(* Commit and rollback                                                     *)

\* The keys whose shared latches ReleaseAllLocks and TransactionInvalid give
\* back: read but not written.
SharedOnly(t) == IF SR(t) THEN readSet[t] \ writeSet[t] ELSE {}

\* Mutant: the commit ID is the TID after the next.
CommitIDAfterNext == cnt + 1

\* Txn_manager::ArrangeCommitID: the next TID, without taking it.
ArrangeCommitID == cnt

\* Txn_manager::Commit up to the first release
StartCommit(t) ==
    /\ phase[t] = "idle" /\ state[t] = "RUNNING" /\ ~crashed
    /\ cid' = [cid EXCEPT ![t] = ArrangeCommitID]
    /\ todo' = [todo EXCEPT ![t] = SharedOnly(t)]
    /\ phase' = [phase EXCEPT ![t] = "commitShared"]
    /\ UNCHANGED <<mgrVars, entryVars, iso, state, readSet, writeSet, held,
                   triple, seen, crashed>>

\* Txn_manager::Abort, called by Rollback, or by Query for an ABORTED one
StartAbort(t) ==
    /\ phase[t] = "idle" /\ state[t] \in {"RUNNING", "ABORTED"} /\ ~crashed
    /\ todo' = [todo EXCEPT ![t] = SharedOnly(t)]
    /\ phase' = [phase EXCEPT ![t] = "abortShared"]
    /\ UNCHANGED <<mgrVars, entryVars, txnVars, held, triple, seen, crashed>>

\* release_shared_latch in ReleaseAllLocks and TransactionInvalid.  A false
\* result is only asserted on after the loops; what the loops still do then
\* is left out.
ReleaseShared(t, k) ==
    /\ phase[t] \in {"commitShared", "abortShared"} /\ IsNext(t, k) /\ ~crashed
    /\ \/ /\ CanUnlatchShared(glatch[k])
          /\ glatch' = [glatch EXCEPT ![k] = UnlatchShared(@)]
          /\ todo' = [todo EXCEPT ![t] = @ \ {k}]
          /\ UNCHANGED crashed
       \/ /\ ~CanUnlatchShared(glatch[k])
          /\ crashed' = TRUE
          /\ UNCHANGED <<glatch, todo>>
    /\ UNCHANGED <<mgrVars, base, vList, txnVars, phase, held, triple, seen>>

SharedReleased(t) ==
    /\ phase[t] \in {"commitShared", "abortShared"} /\ todo[t] = {} /\ ~crashed
    /\ todo' = [todo EXCEPT ![t] = writeSet[t]]
    /\ phase' = [phase EXCEPT ![t] = IF @ = "commitShared"
                                     THEN "commitExclusive"
                                     ELSE "abortExclusive"]
    /\ UNCHANGED <<mgrVars, entryVars, txnVars, held, triple, seen, crashed>>

\* release_exclusive_latch in ReleaseAllLocks
CommitKey(t, k) ==
    /\ phase[t] = "commitExclusive" /\ IsNext(t, k) /\ ~crashed
    /\ \/ /\ CanUnLatch(glatch[k], t, iso[t])
          /\ vList' = [vList EXCEPT ![k] = Stamp(@, cid[t])]
          /\ glatch' = [glatch EXCEPT ![k] = UnLatch(@, iso[t])]
          /\ todo' = [todo EXCEPT ![t] = @ \ {k}]
          /\ UNCHANGED crashed
       \/ /\ ~CanUnLatch(glatch[k], t, iso[t])
          /\ crashed' = TRUE
          /\ UNCHANGED <<vList, glatch, todo>>
    /\ UNCHANGED <<mgrVars, base, txnVars, phase, held, triple, seen>>

\* Txn_manager::Commit after ReleaseAllLocks
FinishCommit(t) ==
    /\ phase[t] = "commitExclusive" /\ todo[t] = {} /\ ~crashed
    /\ state' = [state EXCEPT ![t] = "COMMITTED"]
    /\ dirtyKeys' = dirtyKeys \cup writeSet[t]
    /\ ckptReaders' = ckptReaders - 1
    /\ phase' = [phase EXCEPT ![t] = "ended"]
    /\ UNCHANGED <<cnt, entryVars, iso, cid, readSet, writeSet, todo, held,
                   triple, seen, crashed>>

\* invalid_values(..., has_read = false) in TransactionInvalid
AbortKey(t, k) ==
    /\ phase[t] = "abortExclusive" /\ IsNext(t, k) /\ ~crashed
    /\ \/ /\ CanInvalidate(glatch[k], t, iso[t], FALSE)
          /\ vList' = [vList EXCEPT ![k] = Pop(@)]
          /\ glatch' = [glatch EXCEPT ![k] = InvalidateLatch(@, iso[t], FALSE)]
          /\ todo' = [todo EXCEPT ![t] = @ \ {k}]
          /\ UNCHANGED crashed
       \/ /\ ~CanInvalidate(glatch[k], t, iso[t], FALSE)
          /\ crashed' = TRUE
          /\ UNCHANGED <<vList, glatch, todo>>
    /\ UNCHANGED <<mgrVars, base, txnVars, phase, held, triple, seen>>

\* Txn_manager::Abort after TransactionInvalid
FinishAbort(t) ==
    /\ phase[t] = "abortExclusive" /\ todo[t] = {} /\ ~crashed
    /\ state' = [state EXCEPT ![t] = "ABORTED"]
    /\ ckptReaders' = ckptReaders - 1
    /\ phase' = [phase EXCEPT ![t] = "ended"]
    /\ UNCHANGED <<cnt, dirtyKeys, entryVars, iso, cid, readSet, writeSet,
                   todo, held, triple, seen, crashed>>

-----------------------------------------------------------------------------
(* Txn_manager::Checkpoint: with checkpoint_lock held exclusively, merge   *)
(* what a READ_COMMITTED transaction of TID INVALID sees of every dirty    *)
(* key into its stored value and start its version list anew.              *)

Checkpoint ==
    /\ ckptReaders = 0 /\ ~crashed
    /\ base' = [k \in Keys |->
                  IF k \in dirtyKeys
                  THEN base[k] \cup ReadVersion(vList[k], INVALID,
                                                "READ_COMMITTED")
                  ELSE base[k]]
    /\ vList' = [k \in Keys |->
                  IF k \in dirtyKeys THEN <<DummyVersion>> ELSE vList[k]]
    /\ UNCHANGED <<mgrVars, glatch, txnVars, ctlVars, seen, crashed>>

-----------------------------------------------------------------------------

TxnStep(t) ==
    \/ StartTriple(t) \/ Locked(t) \/ Undone(t) \/ Written(t)
    \/ StartCommit(t) \/ StartAbort(t) \/ SharedReleased(t)
    \/ FinishCommit(t) \/ FinishAbort(t)
    \/ \E k \in Keys :
          \/ Read(t, k) \/ Lock(t, k) \/ Undo(t, k) \/ Write(t, k)
          \/ ReleaseShared(t, k) \/ CommitKey(t, k) \/ AbortKey(t, k)

Next == Checkpoint \/ \E t \in TIDs : Begin(t) \/ TxnStep(t)

Spec == Init /\ [][Next]_vars

-----------------------------------------------------------------------------
(* Fairness: the thread that runs a call keeps running until the call      *)
(* returns; what a client calls next, and whether, is up to the client.    *)

Running(t) ==
    \/ Locked(t) \/ Undone(t) \/ Written(t)
    \/ SharedReleased(t) \/ FinishCommit(t) \/ FinishAbort(t)
    \/ \E k \in Keys :
          \/ Lock(t, k) \/ Undo(t, k) \/ Write(t, k)
          \/ ReleaseShared(t, k) \/ CommitKey(t, k) \/ AbortKey(t, k)

FairSpec == Spec /\ \A t \in TIDs : WF_vars(Running(t))

-----------------------------------------------------------------------------
(* What the phases mean for the entries                                    *)

\* The keys whose last version is t's private one.
Owned(t) ==
    CASE phase[t] \in {"idle", "commitShared", "abortShared"} -> writeSet[t]
      [] phase[t] \in {"lock", "write"} -> writeSet[t] \cup held[t]
      [] phase[t] = "undo" -> writeSet[t] \cup todo[t]
      [] phase[t] \in {"commitExclusive", "abortExclusive"} -> todo[t]
      [] OTHER -> {}

\* The keys a serializable t has a shared latch on.
Shared(t) ==
    CASE phase[t] \in {"idle", "lock", "write", "undo"} -> readSet[t] \ Owned(t)
      [] phase[t] \in {"commitShared", "abortShared"} -> todo[t]
      [] OTHER -> {}

Active(t) == phase[t] \notin {"none", "ended"}

\* The writers a key shows to everybody: merged, or in a committed version.
Content(k) == base[k] \cup
    UNION {vList[k][i].data :
             i \in {j \in 1..Len(vList[k]) : vList[k][j].begin # INVALID}}

-----------------------------------------------------------------------------
(* Properties                                                              *)

\* Only the last version may be private; the one before it is then still
\* open to the future, and only its owner has written into it.
WellFormed(vl) ==
    /\ vl # <<>>
    /\ \A i \in 1..(Len(vl) - 1) : vl[i].begin # INVALID
    /\ IF Last(vl).begin = INVALID
       THEN /\ Len(vl) > 1
            /\ vl[Len(vl) - 1].end = INVALID
            /\ Last(vl).end \in TIDs
            /\ Last(vl).data \subseteq {Last(vl).end}
       ELSE Last(vl).end = INVALID

\* Writers exclude one another, whatever their levels: a key ends in the
\* private version of the one transaction that holds it, and in a committed
\* version open to the future if nobody does.
VersionOwner ==
    \A k \in Keys :
        /\ WellFormed(vList[k])
        /\ \A t \in TIDs : k \in Owned(t) <=> Private(Last(vList[k]), t)

\* The committed versions of a key follow one another without gap or
\* overlap, in the order of their commit IDs, and none is from the future.
VersionChain ==
    \A k \in Keys : LET vl == vList[k] IN
        \A i \in 1..Len(vl) : vl[i].begin # INVALID =>
            /\ vl[i].begin <= cnt
            /\ i > 1 => /\ vl[i - 1].begin <= vl[i].begin
                        /\ vl[i - 1].end = vl[i].begin

\* The latch of a key says exactly which serializable transactions hold it:
\* one exclusively and nobody else, or as many as rcnt shared ones; so no
\* assert of KVstore and GLatch about who releases a latch fails.
LatchExact ==
    /\ ~crashed
    /\ \A k \in Keys :
        LET owners  == {t \in TIDs : SR(t) /\ k \in Owned(t)}
            sharing == {t \in TIDs : k \in Shared(t)}
        IN IF owners = {}
           THEN glatch[k] = [tid |-> INVALID, rcnt |-> Cardinality(sharing)]
           ELSE /\ sharing = {}
                /\ \A t \in owners : glatch[k] = [tid |-> t, rcnt |-> 1]

\* A transaction ends with all its writes in place and none pending, or with
\* none of them left anywhere.
AllOrNothing ==
    \A t \in TIDs : phase[t] = "ended" =>
        \A k \in Keys :
            IF state[t] = "COMMITTED" /\ k \in writeSet[t]
            THEN t \in Content(k)
            ELSE /\ t \notin base[k]
                 /\ \A i \in 1..Len(vList[k]) : t \notin vList[k][i].data

\* Checkpoint never finds checkpoint_lock free while a transaction is running:
\* every transaction holds it from Begin to its end (KVstore.cpp:5603).
CheckpointAlone == ckptReaders = 0 => \A t \in TIDs : ~Active(t)

\* While a serializable transaction has a shared latch on a key, no other
\* serializable transaction changes what the key shows.
LatchProtects ==
    [][\A t \in TIDs, k \in Keys : k \in Shared(t) /\ k \in Shared(t)' =>
          \A w \in Content(k)' \ Content(k) : ~SR(w)]_vars

\* Latches and versions are tried, never waited for: every statement, commit
\* and rollback comes to its end whatever the other transactions do.
EveryCallReturns ==
    \A t \in TIDs : phase[t] \notin {"none", "idle", "ended"}
                      ~> phase[t] \in {"idle", "ended"}

-----------------------------------------------------------------------------
(* The store implements CommitStore: Content is what a key shows, the owner *)
(* of a private head is its writer, and a transaction's fate is decided     *)
(* when Commit or Abort begins.  Checkpoint is a step that changes nothing. *)

Fate(t) ==
    CASE phase[t] \in {"commitShared", "commitExclusive"} -> "commit"
      [] phase[t] \in {"abortShared", "abortExclusive"} -> "abort"
      [] phase[t] = "ended" ->
           IF state[t] = "COMMITTED" THEN "commit" ELSE "abort"
      [] OTHER -> "open"

Abstract == INSTANCE CommitStore WITH
    Nobody  <- INVALID,
    content <- [k \in Keys |-> Content(k)],
    writer  <- [k \in Keys |-> IF Last(vList[k]).begin = INVALID
                               THEN Last(vList[k]).end ELSE INVALID],
    fate    <- [t \in TIDs |-> Fate(t)]

\* Versions, latches, statements that undo themselves and checkpoints add up
\* to single-writer keys, published after the decision and never before: no
\* committed write is taken back by an abort, a later version or a checkpoint,
\* and nobody reads a write before its transaction has begun to commit.
ImplementsCommitStore == Abstract!Spec

-----------------------------------------------------------------------------
(* What the isolation levels promise (Util/Transaction.h:17-18)            *)

\* SNAPSHOT: a transaction that reads a key twice sees the same writers.
RepeatableRead ==
    \A t \in TIDs : iso[t] = "SNAPSHOT" =>
        \A r1, r2 \in seen[t] : r1.key = r2.key => r1.from = r2.from

\* SERIALIZABLE: of two committed transactions one comes after the other, so
\* that they cannot each have read a key before the other's write to it.
Missed(t, u) == \E r \in seen[t] : r.key \in writeSet[u] /\ u \notin r.from
Serializable ==
    \A t, u \in TIDs :
        /\ t # u /\ state[t] = "COMMITTED" /\ state[u] = "COMMITTED"
        /\ SR(t) /\ SR(u)
        => ~(Missed(t, u) /\ Missed(u, t))
=============================================================================

-------------------------- MODULE TxnStore_proofs ---------------------------
(***************************************************************************)
(* Proofs of the safety of TxnStore, in layers: each invariant is proved   *)
(* from the ones before it.                                                *)
(*                                                                         *)
(* Types and checkpoints come first.  Then writers exclude one another,    *)
(* and the committed versions of a key follow one another: VersionOwner    *)
(* and VersionChain.  First what the operations of an entry do to a list   *)
(* of versions and what every step does to the keys that a transaction     *)
(* owns.  Then the chain: the commit ID of a transaction is the next TID   *)
(* at the time it begins to commit, and nobody else stamps a version of a  *)
(* key it owns between then and its own stamp: that is CommitIDInv.        *)
(*                                                                         *)
(* Then latches: LatchExact is an invariant of TxnStore, and while a       *)
(* serializable transaction has a shared latch on a key no other           *)
(* serializable transaction changes what the key shows.                    *)
(***************************************************************************)
EXTENDS TxnStoreInv, SequenceTheorems, FiniteSetTheorems, TLAPS

-----------------------------------------------------------------------------
(* Version lists                                                           *)

\* Replacing one element (or none, if the index is out of range) of a list.
LEMMA ReplaceOne ==
    ASSUME NEW S, NEW vl \in Seq(S), NEW n \in Int, NEW e,
           n \in 1..Len(vl) => e \in S
    PROVE  /\ [vl EXCEPT ![n] = e] \in Seq(S)
           /\ Len([vl EXCEPT ![n] = e]) = Len(vl)
           /\ \A i \in 1..Len(vl) :
                 [vl EXCEPT ![n] = e][i] = IF i = n THEN e ELSE vl[i]
  <1>1. CASE n \in 1..Len(vl)
    BY <1>1, ExceptSeq
  <1>2. CASE n \notin 1..Len(vl)
    <2>1. [vl EXCEPT ![n] = e] = vl
      BY <1>2, LenProperties
    <2>2. QED
      BY <1>2, <2>1
  <1>3. QED
    BY <1>1, <1>2

\* The list without its last element.
LEMMA PopFacts ==
    ASSUME NEW S, NEW vl \in Seq(S)
    PROVE  /\ Pop(vl) \in Seq(S)
           /\ vl # <<>> => Len(Pop(vl)) = Len(vl) - 1
           /\ \A i \in 1..(Len(vl) - 1) : Pop(vl)[i] = vl[i]
  <1> DEFINE n == Len(vl)
  <1>1. n \in Nat /\ (vl # <<>> => n > 0)
    BY LenProperties
  <1>2. \A i \in 1..(n - 1) : vl[i] \in S
    BY <1>1, ElementOfSeq
  <1>3. /\ SubSeq(vl, 1, n - 1) \in Seq(S)
        /\ Len(SubSeq(vl, 1, n - 1)) = IF 1 <= n - 1 THEN n - 1 - 1 + 1 ELSE 0
        /\ \A i \in 1..(n - 1 - 1 + 1) : SubSeq(vl, 1, n - 1)[i] = vl[1 + i - 1]
    <2> HIDE DEF n
    <2>1. n - 1 \in Int
      BY <1>1
    <2>2. QED
      BY <1>2, <2>1, SubSeqProperties
  <1>4. \A i \in 1..(n - 1) : SubSeq(vl, 1, n - 1)[i] = vl[i]
    <2> HIDE DEF n
    <2> QED BY <1>1, <1>3
  <1>5. vl # <<>> => Len(SubSeq(vl, 1, n - 1)) = n - 1
    <2> HIDE DEF n
    <2> QED BY <1>1, <1>3
  <1>6. QED
    BY <1>3, <1>4, <1>5, Zenon DEF Pop

\* The list with t's private version at its end.
LEMMA NewVersionFacts ==
    ASSUME NEW W, NEW vl \in Seq(VersionType(W)), NEW t \in Nat
    PROVE  /\ NewVersion(vl, t) \in Seq(VersionType(W))
           /\ Len(NewVersion(vl, t)) = Len(vl) + 1
           /\ NewVersion(vl, t)[Len(vl) + 1] = Version(INVALID, t, {})
           /\ \A i \in 1..Len(vl) : NewVersion(vl, t)[i] = vl[i]
  <1>1. Version(INVALID, t, {}) \in VersionType(W)
    BY InvalidAssumption DEF VersionType, Version
  <1>2. QED
    BY <1>1, AppendProperties DEF NewVersion

\* The list with t among the writers of its last version.
LEMMA WriteVersionFacts ==
    ASSUME NEW W, NEW vl \in Seq(VersionType(W)), NEW t \in W
    PROVE  /\ WriteVersion(vl, t) \in Seq(VersionType(W))
           /\ Len(WriteVersion(vl, t)) = Len(vl)
           /\ \A i \in 1..Len(vl) : WriteVersion(vl, t)[i] =
                IF i = Len(vl)
                THEN Version(vl[i].begin, vl[i].end, vl[i].data \cup {t})
                ELSE vl[i]
  <1> DEFINE n == Len(vl)
             e == Version(vl[n].begin, vl[n].end, vl[n].data \cup {t})
  <1>0. n \in Int
    BY LenProperties
  <1>1. n \in 1..n => e \in VersionType(W)
    <2>1. n \in 1..n => vl[n] \in VersionType(W)
      BY ElementOfSeq
    <2>2. QED
      BY <2>1 DEF VersionType, Version
  <1>2. /\ [vl EXCEPT ![n] = e] \in Seq(VersionType(W))
        /\ Len([vl EXCEPT ![n] = e]) = Len(vl)
        /\ \A i \in 1..Len(vl) :
              [vl EXCEPT ![n] = e][i] = IF i = n THEN e ELSE vl[i]
    <2> HIDE DEF e
    <2> QED BY <1>0, <1>1, ReplaceOne
  <1>3. WriteVersion(vl, t) = [vl EXCEPT ![n] = e]
    BY Zenon DEF WriteVersion
  <1>4. QED
    BY Zenon, <1>2, <1>3

\* The list whose last version has been stamped with c.
LEMMA StampFacts ==
    ASSUME NEW W, NEW vl \in Seq(VersionType(W)), NEW c \in Nat
    PROVE  /\ Stamp(vl, c) \in Seq(VersionType(W))
           /\ Len(Stamp(vl, c)) = Len(vl)
           /\ \A i \in 1..Len(vl) : Stamp(vl, c)[i] =
                IF i = Len(vl) THEN Version(c, INVALID, vl[i].data)
                ELSE IF i = Len(vl) - 1 THEN Version(vl[i].begin, c, vl[i].data)
                ELSE vl[i]
  <1> DEFINE n == Len(vl)
             e1 == Version(c, INVALID, vl[n].data)
             v1 == [vl EXCEPT ![n] = e1]
             e2 == Version(v1[n - 1].begin, c, v1[n - 1].data)
  <1>0. n \in Nat
    BY LenProperties
  <1>1. n \in 1..n => e1 \in VersionType(W)
    <2>1. n \in 1..n => vl[n] \in VersionType(W)
      BY ElementOfSeq
    <2>2. QED
      BY <2>1, InvalidAssumption DEF VersionType, Version
  <1>2. /\ v1 \in Seq(VersionType(W))
        /\ Len(v1) = n
        /\ \A i \in 1..n : v1[i] = IF i = n THEN e1 ELSE vl[i]
    <2> HIDE DEF e1
    <2> QED BY <1>0, <1>1, ReplaceOne
  <1>3. n - 1 \in 1..Len(v1) => e2 \in VersionType(W)
    <2> HIDE DEF v1
    <2>1. n - 1 \in 1..Len(v1) => v1[n - 1] \in VersionType(W)
      BY <1>2, ElementOfSeq
    <2>2. QED
      BY <2>1 DEF VersionType, Version
  <1>4. /\ [v1 EXCEPT ![n - 1] = e2] \in Seq(VersionType(W))
        /\ Len([v1 EXCEPT ![n - 1] = e2]) = n
        /\ \A i \in 1..n : [v1 EXCEPT ![n - 1] = e2][i] =
              IF i = n - 1 THEN e2 ELSE v1[i]
    <2> HIDE DEF v1, e2
    <2>1. n - 1 \in Int
      BY <1>0
    <2> QED BY <1>2, <1>3, <2>1, ReplaceOne
  <1>5. Stamp(vl, c) = [v1 EXCEPT ![n - 1] = e2]
    BY DEF Stamp
  <1>6. \A i \in 1..n : Stamp(vl, c)[i] =
          IF i = n THEN e1
          ELSE IF i = n - 1 THEN Version(vl[i].begin, c, vl[i].data)
          ELSE vl[i]
    <2>1. \A i \in 1..n : i = n - 1 => e2 = Version(vl[i].begin, c, vl[i].data)
      <3> HIDE DEF v1, e1
      <3> QED BY <1>0, <1>2
    <2> HIDE DEF v1, e1, e2
    <2> QED BY <1>0, <1>2, <1>4, <1>5, <2>1
  <1>7. Stamp(vl, c) \in Seq(VersionType(W)) /\ Len(Stamp(vl, c)) = n
    BY Zenon, <1>4, <1>5
  <1>8. QED
    BY Zenon, <1>6, <1>7

-----------------------------------------------------------------------------
(* Types                                                                   *)

\* What a read returns was written by transactions.
LEMMA ReadVersionType ==
    ASSUME NEW vl \in Seq(VersionType(TIDs)), NEW t, NEW level
    PROVE  ReadVersion(vl, t, level) \subseteq TIDs
  <1>1. \A i \in 1..Len(vl) : vl[i] \in VersionType(TIDs)
    BY ElementOfSeq
  <1>2. \A i \in 1..Len(vl) : vl[i].data \subseteq TIDs
    BY <1>1 DEF VersionType
  <1>3. LatestVisible(vl, t) \subseteq 1..Len(vl)
    BY DEF LatestVisible
  <1>4. ProperVisible(vl, t) \subseteq 1..Len(vl)
    BY DEF ProperVisible
  <1>5. QED
    BY <1>2, <1>3, <1>4 DEF ReadVersion

\* Latching changes a latch into a latch.
LEMMA LatchTypes ==
    ASSUME NEW l \in GLatchType, NEW t \in Nat, NEW level, NEW hasRead
    PROVE  /\ LatchShared(l, t) \in GLatchType
           /\ UnlatchShared(l) \in GLatchType
           /\ ExclusiveLatch(l, t, level, hasRead) \in GLatchType
           /\ InvalidateLatch(l, level, hasRead) \in GLatchType
           /\ UnLatch(l, level) \in GLatchType
  BY InvalidAssumption
  DEF GLatchType, LatchShared, UnlatchShared, ExclusiveLatch, Upgrade,
      LatchExclusive, InvalidateLatch, Downgrade, UnlatchExclusive, UnLatch

LEMMA InitTypeOK == Init => TypeOK
  <1>1. <<DummyVersion>> \in Seq(VersionType(TIDs))
    BY InvalidAssumption DEF DummyVersion, Version, VersionType
  <1>2. Unlatched \in GLatchType
    BY InvalidAssumption DEF Unlatched, GLatchType
  <1> SUFFICES ASSUME Init PROVE TypeOK
    OBVIOUS
  <1>3. /\ vList \in [Keys -> Seq(VersionType(TIDs))]
        /\ glatch \in [Keys -> GLatchType]
    BY <1>1, <1>2 DEF Init
  <1>4. cnt \in 1..(MaxTxn + 1) /\ cid \in [TIDs -> 0..(MaxTxn + 1)]
    BY MaxTxnAssumption DEF Init
  <1>5. crashed \in BOOLEAN
    BY DEF Init
  <1>6. QED
    BY <1>3, <1>4, <1>5 DEF Init, TypeOK, Levels, States, Phases

LEMMA NextTypeOK == TypeOK /\ [Next]_vars => TypeOK'
  <1> SUFFICES ASSUME TypeOK, [Next]_vars PROVE TypeOK'
    OBVIOUS
  <1>0. TIDs \subseteq Nat /\ TIDs \subseteq 0..(MaxTxn + 1)
    BY MaxTxnAssumption DEF TIDs
  <1>a. /\ vList \in [Keys -> Seq(VersionType(TIDs))]
        /\ glatch \in [Keys -> GLatchType]
        /\ readSet \in [TIDs -> SUBSET Keys]
        /\ todo \in [TIDs -> SUBSET Keys]
        /\ held \in [TIDs -> SUBSET Keys]
        /\ phase \in [TIDs -> Phases]
        /\ "undo" \in Phases
    BY DEF TypeOK, Phases
  <1> USE DEF TypeOK, mgrVars, entryVars, txnVars, ctlVars, Phases, States
  <1>1. CASE Checkpoint
    <2>1. \A k \in Keys : ReadVersion(vList[k], INVALID, "READ_COMMITTED")
                            \subseteq TIDs
      BY ReadVersionType
    <2>2. base' \in [Keys -> SUBSET TIDs]
      BY <1>1, <2>1 DEF Checkpoint
    <2>3. <<DummyVersion>> \in Seq(VersionType(TIDs))
      BY InvalidAssumption DEF DummyVersion, Version, VersionType
    <2>4. vList' \in [Keys -> Seq(VersionType(TIDs))]
      BY <1>1, <2>3 DEF Checkpoint
    <2>5. QED
      BY <1>1, <2>2, <2>4 DEF Checkpoint
  <1>2. ASSUME NEW t \in TIDs, Begin(t) PROVE TypeOK'
    BY <1>0, <1>2, MaxTxnAssumption, LevelsAssumption DEF Begin, TIDs
  <1>3. ASSUME NEW t \in TIDs, NEW k \in Keys, Read(t, k) PROVE TypeOK'
    <2>1. ReadVersion(vList[k], t, iso[t]) \subseteq TIDs
      BY ReadVersionType
    <2>2. LatchShared(glatch[k], t) \in GLatchType
      BY <1>0, LatchTypes
    <2>3. glatch' \in [Keys -> GLatchType]
      <3>1. \/ glatch' = glatch
            \/ glatch' = [glatch EXCEPT ![k] = LatchShared(glatch[k], t)]
        BY <1>3 DEF Read
      <3> HIDE DEF TypeOK, Phases
      <3>2. QED
        BY <1>a, <2>2, <3>1
    <2>4. seen' \in [TIDs -> SUBSET [key : Keys, from : SUBSET TIDs]]
      <3> DEFINE r == [key  |-> k,
                       from |-> (base[k] \cup ReadVersion(vList[k], t, iso[t]))
                                   \ {t}]
      <3>1. r \in [key : Keys, from : SUBSET TIDs]
        BY <2>1
      <3>2. \/ seen' = seen
            \/ seen' = [seen EXCEPT ![t] = @ \cup {r}]
        BY <1>3 DEF Read
      <3>3. seen \in [TIDs -> SUBSET [key : Keys, from : SUBSET TIDs]]
        OBVIOUS
      <3> HIDE DEF r, TypeOK, Phases
      <3>4. QED
        BY <3>1, <3>2, <3>3
    <2>5. readSet' \in [TIDs -> SUBSET Keys]
      <3>1. \/ readSet' = readSet
            \/ readSet' = [readSet EXCEPT ![t] = @ \cup {k}]
        BY <1>3, Zenon DEF Read
      <3> HIDE DEF TypeOK, Phases
      <3>2. QED
        BY <3>1, <1>a
    <2>6. QED
      BY <1>3, <2>3, <2>4, <2>5 DEF Read
  <1>4. ASSUME NEW t \in TIDs, StartTriple(t) PROVE TypeOK'
    <2>1. PICK tr \in Writes[t] : triple' = [triple EXCEPT ![t] = tr]
                              /\ todo' = [todo EXCEPT ![t] = tr \ writeSet[t]]
      BY <1>4 DEF StartTriple
    <2>2. tr \subseteq Keys
      BY <2>1, WritesAssumption
    <2>3. triple' \in [TIDs -> SUBSET Keys] /\ todo' \in [TIDs -> SUBSET Keys]
      BY <2>1, <2>2
    <2>4. QED
      BY <1>4, <2>3 DEF StartTriple
  <1>5. ASSUME NEW t \in TIDs, NEW k \in Keys, Lock(t, k) PROVE TypeOK'
    <2>1. NewVersion(vList[k], t) \in Seq(VersionType(TIDs))
      BY <1>0, NewVersionFacts
    <2>2. vList' \in [Keys -> Seq(VersionType(TIDs))]
      <3>1. \/ vList' = vList
            \/ vList' = [vList EXCEPT ![k] = NewVersion(vList[k], t)]
        BY <1>5 DEF Lock
      <3> HIDE DEF TypeOK, Phases
      <3>2. QED
        BY <1>a, <2>1, <3>1
    <2>3. ExclusiveLatch(glatch[k], t, iso[t], k \in readSet[t]) \in GLatchType
      BY <1>0, LatchTypes
    <2>4. glatch' \in [Keys -> GLatchType]
      <3>1. \/ glatch' = glatch
            \/ glatch' = [glatch EXCEPT ![k] =
                             ExclusiveLatch(glatch[k], t, iso[t], k \in readSet[t])]
        BY <1>5 DEF Lock
      <3> HIDE DEF TypeOK, Phases
      <3>2. QED
        BY <1>a, <2>3, <3>1
    <2>5. crashed' \in BOOLEAN
      BY <1>5 DEF Lock, UpgradeAsserts
    <2>6. phase' \in [TIDs -> Phases] /\ held' \in [TIDs -> SUBSET Keys]
      <3>1. \/ phase' = phase /\ held' = [held EXCEPT ![t] = @ \cup {k}]
            \/ phase' = [phase EXCEPT ![t] = "undo"] /\ held' = held
        BY <1>5 DEF Lock
      <3> HIDE DEF TypeOK, Phases
      <3>2. phase' \in [TIDs -> Phases]
        BY <3>1, <1>a
      <3>3. held' \in [TIDs -> SUBSET Keys]
        BY <3>1, <1>a
      <3>4. QED
        BY <3>2, <3>3
    <2>7. todo' \in [TIDs -> SUBSET Keys]
      <3>1. \/ todo' = [todo EXCEPT ![t] = @ \ {k}]
            \/ todo' = [todo EXCEPT ![t] = held[t]]
        BY <1>5 DEF Lock
      <3> HIDE DEF TypeOK, Phases
      <3>2. QED
        BY <3>1, <1>a
    <2>8. QED
      BY <1>5, <2>2, <2>4, <2>5, <2>6, <2>7 DEF Lock
  <1>6. ASSUME NEW t \in TIDs, Locked(t) PROVE TypeOK'
    BY <1>6 DEF Locked
  <1>7. ASSUME NEW t \in TIDs, NEW k \in Keys, Undo(t, k) PROVE TypeOK'
    <2>1. Pop(vList[k]) \in Seq(VersionType(TIDs))
      BY PopFacts
    <2>2. vList' \in [Keys -> Seq(VersionType(TIDs))]
      <3>1. \/ vList' = vList
            \/ vList' = [vList EXCEPT ![k] = Pop(vList[k])]
        BY <1>7 DEF Undo
      <3> HIDE DEF TypeOK, Phases
      <3>2. QED
        BY <1>a, <2>1, <3>1
    <2>3. InvalidateLatch(glatch[k], iso[t], k \in readSet[t]) \in GLatchType
      BY <1>0, LatchTypes
    <2>4. glatch' \in [Keys -> GLatchType]
      <3>1. \/ glatch' = glatch
            \/ glatch' = [glatch EXCEPT ![k] =
                             InvalidateLatch(glatch[k], iso[t], k \in readSet[t])]
        BY <1>7 DEF Undo
      <3> HIDE DEF TypeOK, Phases
      <3>2. QED
        BY <1>a, <2>3, <3>1
    <2>5. todo' \in [TIDs -> SUBSET Keys]
      <3>1. \/ todo' = [todo EXCEPT ![t] = @ \ {k}]
            \/ todo' = todo
        BY <1>7 DEF Undo
      <3> HIDE DEF TypeOK, Phases
      <3>2. QED
        BY <3>1, <1>a
    <2>6. crashed' \in BOOLEAN
      BY <1>7 DEF Undo
    <2>7. QED
      BY <1>7, <2>2, <2>4, <2>5, <2>6 DEF Undo
  <1>8. ASSUME NEW t \in TIDs, Undone(t) PROVE TypeOK'
    BY <1>8 DEF Undone
  <1>9. ASSUME NEW t \in TIDs, NEW k \in Keys, Write(t, k) PROVE TypeOK'
    <2>1. WriteVersion(vList[k], t) \in Seq(VersionType(TIDs))
      BY WriteVersionFacts
    <2>2. vList' \in [Keys -> Seq(VersionType(TIDs))]
      <3>1. \/ vList' = vList
            \/ vList' = [vList EXCEPT ![k] = WriteVersion(vList[k], t)]
        BY <1>9 DEF Write
      <3> HIDE DEF TypeOK, Phases
      <3>2. QED
        BY <1>a, <2>1, <3>1
    <2>3. QED
      BY <1>9, <2>2 DEF Write
  <1>10. ASSUME NEW t \in TIDs, Written(t) PROVE TypeOK'
    BY <1>10 DEF Written
  <1>11. ASSUME NEW t \in TIDs, StartCommit(t) PROVE TypeOK'
    BY <1>11 DEF StartCommit, SharedOnly, ArrangeCommitID
  <1>12. ASSUME NEW t \in TIDs, StartAbort(t) PROVE TypeOK'
    BY <1>12 DEF StartAbort, SharedOnly
  <1>13. ASSUME NEW t \in TIDs, NEW k \in Keys, ReleaseShared(t, k)
         PROVE  TypeOK'
    <2>1. UnlatchShared(glatch[k]) \in GLatchType
      BY <1>0, LatchTypes
    <2>2. glatch' \in [Keys -> GLatchType]
      <3>1. \/ glatch' = glatch
            \/ glatch' = [glatch EXCEPT ![k] = UnlatchShared(glatch[k])]
        BY <1>13 DEF ReleaseShared
      <3> HIDE DEF TypeOK, Phases
      <3>2. QED
        BY <1>a, <2>1, <3>1
    <2>3. todo' \in [TIDs -> SUBSET Keys]
      <3>1. \/ todo' = [todo EXCEPT ![t] = @ \ {k}]
            \/ todo' = todo
        BY <1>13 DEF ReleaseShared
      <3> HIDE DEF TypeOK, Phases
      <3>2. QED
        BY <3>1, <1>a
    <2>4. crashed' \in BOOLEAN
      BY <1>13 DEF ReleaseShared
    <2>5. QED
      BY <1>13, <2>2, <2>3, <2>4 DEF ReleaseShared
  <1>14. ASSUME NEW t \in TIDs, SharedReleased(t) PROVE TypeOK'
    BY <1>14 DEF SharedReleased
  <1>15. ASSUME NEW t \in TIDs, NEW k \in Keys, CommitKey(t, k) PROVE TypeOK'
    <2>1. Stamp(vList[k], cid[t]) \in Seq(VersionType(TIDs))
      BY StampFacts
    <2>2. vList' \in [Keys -> Seq(VersionType(TIDs))]
      <3>1. \/ vList' = vList
            \/ vList' = [vList EXCEPT ![k] = Stamp(vList[k], cid[t])]
        BY <1>15 DEF CommitKey
      <3> HIDE DEF TypeOK, Phases
      <3>2. QED
        BY <1>a, <2>1, <3>1
    <2>3. UnLatch(glatch[k], iso[t]) \in GLatchType
      BY <1>0, LatchTypes
    <2>4. glatch' \in [Keys -> GLatchType]
      <3>1. \/ glatch' = glatch
            \/ glatch' = [glatch EXCEPT ![k] = UnLatch(glatch[k], iso[t])]
        BY <1>15 DEF CommitKey
      <3> HIDE DEF TypeOK, Phases
      <3>2. QED
        BY <1>a, <2>3, <3>1
    <2>5. todo' \in [TIDs -> SUBSET Keys]
      <3>1. \/ todo' = [todo EXCEPT ![t] = @ \ {k}]
            \/ todo' = todo
        BY <1>15 DEF CommitKey
      <3> HIDE DEF TypeOK, Phases
      <3>2. QED
        BY <3>1, <1>a
    <2>6. crashed' \in BOOLEAN
      BY <1>15 DEF CommitKey
    <2>7. QED
      BY <1>15, <2>2, <2>4, <2>5, <2>6 DEF CommitKey
  <1>16. ASSUME NEW t \in TIDs, FinishCommit(t) PROVE TypeOK'
    BY <1>16 DEF FinishCommit
  <1>17. ASSUME NEW t \in TIDs, NEW k \in Keys, AbortKey(t, k) PROVE TypeOK'
    <2>1. Pop(vList[k]) \in Seq(VersionType(TIDs))
      BY PopFacts
    <2>2. vList' \in [Keys -> Seq(VersionType(TIDs))]
      <3>1. \/ vList' = vList
            \/ vList' = [vList EXCEPT ![k] = Pop(vList[k])]
        BY <1>17 DEF AbortKey
      <3> HIDE DEF TypeOK, Phases
      <3>2. QED
        BY <1>a, <2>1, <3>1
    <2>3. InvalidateLatch(glatch[k], iso[t], FALSE) \in GLatchType
      BY <1>0, LatchTypes
    <2>4. glatch' \in [Keys -> GLatchType]
      <3>1. \/ glatch' = glatch
            \/ glatch' = [glatch EXCEPT ![k] = InvalidateLatch(glatch[k], iso[t], FALSE)]
        BY <1>17 DEF AbortKey
      <3> HIDE DEF TypeOK, Phases
      <3>2. QED
        BY <1>a, <2>3, <3>1
    <2>5. todo' \in [TIDs -> SUBSET Keys]
      <3>1. \/ todo' = [todo EXCEPT ![t] = @ \ {k}]
            \/ todo' = todo
        BY <1>17 DEF AbortKey
      <3> HIDE DEF TypeOK, Phases
      <3>2. QED
        BY <3>1, <1>a
    <2>6. crashed' \in BOOLEAN
      BY <1>17 DEF AbortKey
    <2>7. QED
      BY <1>17, <2>2, <2>4, <2>5, <2>6 DEF AbortKey
  <1>18. ASSUME NEW t \in TIDs, FinishAbort(t) PROVE TypeOK'
    BY <1>18 DEF FinishAbort
  <1>19. CASE UNCHANGED vars
    BY <1>19 DEF vars
  <1>20. QED
    BY <1>1, <1>2, <1>3, <1>4, <1>5, <1>6, <1>7, <1>8, <1>9, <1>10, <1>11,
       <1>12, <1>13, <1>14, <1>15, <1>16, <1>17, <1>18, <1>19
    DEF Next, TxnStep

\* Every variable of the store always has its type.
THEOREM TypeCorrect == Spec => []TypeOK
  BY InitTypeOK, NextTypeOK, PTL DEF Spec

-----------------------------------------------------------------------------
(* The phases                                                              *)

LEMMA InitPhaseInv == Init => PhaseInv
  BY MaxTxnAssumption DEF Init, PhaseInv, TIDs

\* A loop that visits a key, or fails an assert, keeps to its phase.
LEMMA LoopPhaseInv ==
    ASSUME TypeOK, PhaseInv, NEW t \in TIDs, NEW k \in Keys,
           phase[t] \notin {"lock", "write"},
           \/ todo' = [todo EXCEPT ![t] = @ \ {k}]
           \/ todo' = todo,
           UNCHANGED <<cnt, iso, state, readSet, writeSet, phase, held, triple>>
    PROVE  PhaseInv'
  <1>1. CASE todo' = [todo EXCEPT ![t] = @ \ {k}]
    BY <1>1 DEF TypeOK, PhaseInv, SharedOnly, SR
  <1>2. CASE todo' = todo
    BY <1>2 DEF TypeOK, PhaseInv, SharedOnly, SR
  <1>3. QED
    BY <1>1, <1>2

LEMMA NextPhaseInv == TypeOK /\ PhaseInv /\ [Next]_vars => PhaseInv'
  <1> SUFFICES ASSUME TypeOK, PhaseInv, [Next]_vars PROVE PhaseInv'
    OBVIOUS
  <1> USE DEF TypeOK, PhaseInv, SharedOnly, SR,
              mgrVars, entryVars, txnVars, ctlVars
  <1>1. CASE Checkpoint
    BY <1>1 DEF Checkpoint
  <1>2. ASSUME NEW t \in TIDs, Begin(t) PROVE PhaseInv'
    BY <1>2 DEF Begin, TIDs
  <1>3. ASSUME NEW t \in TIDs, StartTriple(t) PROVE PhaseInv'
    BY <1>3 DEF StartTriple
  <1>4. ASSUME NEW t \in TIDs, Locked(t) PROVE PhaseInv'
    BY <1>4 DEF Locked
  <1>5. ASSUME NEW t \in TIDs, Undone(t) PROVE PhaseInv'
    BY <1>5 DEF Undone
  <1>6. ASSUME NEW t \in TIDs, Written(t) PROVE PhaseInv'
    BY <1>6 DEF Written
  <1>7. ASSUME NEW t \in TIDs, StartCommit(t) PROVE PhaseInv'
    BY <1>7 DEF StartCommit
  <1>8. ASSUME NEW t \in TIDs, StartAbort(t) PROVE PhaseInv'
    BY <1>8 DEF StartAbort
  <1>9. ASSUME NEW t \in TIDs, SharedReleased(t) PROVE PhaseInv'
    BY <1>9 DEF SharedReleased
  <1>10. ASSUME NEW t \in TIDs, FinishCommit(t) PROVE PhaseInv'
    BY <1>10 DEF FinishCommit
  <1>11. ASSUME NEW t \in TIDs, FinishAbort(t) PROVE PhaseInv'
    BY <1>11 DEF FinishAbort
  <1>12. ASSUME NEW t \in TIDs, NEW k \in Keys, Read(t, k) PROVE PhaseInv'
    <2>1. /\ phase[t] = "idle"
          /\ UNCHANGED <<cnt, iso, writeSet, phase, todo, held, triple>>
      BY <1>12 DEF Read
    <2>2. /\ \/ state' = state
             \/ state' = [state EXCEPT ![t] = "ABORTED"]
          /\ \/ readSet' = readSet
             \/ readSet' = [readSet EXCEPT ![t] = @ \cup {k}]
      BY <1>12, Zenon DEF Read
    <2>3. /\ state'[t] # "COMMITTED"
          /\ \A u \in TIDs : u # t => state'[u] = state[u]
      BY <2>1, <2>2
    <2>4. \A u \in TIDs : u # t => readSet'[u] = readSet[u]
      BY <2>1, <2>2
    <2>5. QED
      BY <2>1, <2>3, <2>4
  <1>13. ASSUME NEW t \in TIDs, NEW k \in Keys, Lock(t, k) PROVE PhaseInv'
    <2>1. /\ phase[t] = "lock" /\ k \in todo[t]
          /\ UNCHANGED <<cnt, iso, state, readSet, writeSet, triple>>
      BY <1>13 DEF Lock, IsNext
    <2>2. CASE /\ todo' = [todo EXCEPT ![t] = @ \ {k}]
               /\ held' = [held EXCEPT ![t] = @ \cup {k}]
               /\ phase' = phase
      BY <2>1, <2>2
    <2>3. CASE /\ todo' = [todo EXCEPT ![t] = held[t]]
               /\ phase' = [phase EXCEPT ![t] = "undo"]
               /\ held' = held
      BY <2>1, <2>3
    <2>4. QED
      BY <1>13, <2>2, <2>3, Zenon DEF Lock
  <1>14. ASSUME NEW t \in TIDs, NEW k \in Keys, Undo(t, k) PROVE PhaseInv'
    <2>1. /\ \/ todo' = [todo EXCEPT ![t] = @ \ {k}]
             \/ todo' = todo
          /\ UNCHANGED <<cnt, iso, state, readSet, writeSet, phase, held, triple>>
      BY <1>14 DEF Undo
    <2>2. phase[t] \notin {"lock", "write"}
      BY <1>14 DEF Undo
    <2> HIDE DEF TypeOK, PhaseInv
    <2>3. QED
      BY <2>1, <2>2, LoopPhaseInv
  <1>15. ASSUME NEW t \in TIDs, NEW k \in Keys, Write(t, k) PROVE PhaseInv'
    BY <1>15 DEF Write
  <1>16. ASSUME NEW t \in TIDs, NEW k \in Keys, ReleaseShared(t, k) PROVE PhaseInv'
    <2>1. /\ \/ todo' = [todo EXCEPT ![t] = @ \ {k}]
             \/ todo' = todo
          /\ UNCHANGED <<cnt, iso, state, readSet, writeSet, phase, held, triple>>
      BY <1>16 DEF ReleaseShared
    <2>2. phase[t] \notin {"lock", "write"}
      BY <1>16 DEF ReleaseShared
    <2> HIDE DEF TypeOK, PhaseInv
    <2>3. QED
      BY <2>1, <2>2, LoopPhaseInv
  <1>17. ASSUME NEW t \in TIDs, NEW k \in Keys, CommitKey(t, k) PROVE PhaseInv'
    <2>1. /\ \/ todo' = [todo EXCEPT ![t] = @ \ {k}]
             \/ todo' = todo
          /\ UNCHANGED <<cnt, iso, state, readSet, writeSet, phase, held, triple>>
      BY <1>17 DEF CommitKey
    <2>2. phase[t] \notin {"lock", "write"}
      BY <1>17 DEF CommitKey
    <2> HIDE DEF TypeOK, PhaseInv
    <2>3. QED
      BY <2>1, <2>2, LoopPhaseInv
  <1>18. ASSUME NEW t \in TIDs, NEW k \in Keys, AbortKey(t, k) PROVE PhaseInv'
    <2>1. /\ \/ todo' = [todo EXCEPT ![t] = @ \ {k}]
             \/ todo' = todo
          /\ UNCHANGED <<cnt, iso, state, readSet, writeSet, phase, held, triple>>
      BY <1>18 DEF AbortKey
    <2>2. phase[t] \notin {"lock", "write"}
      BY <1>18 DEF AbortKey
    <2> HIDE DEF TypeOK, PhaseInv
    <2>3. QED
      BY <2>1, <2>2, LoopPhaseInv
  <1>19. CASE UNCHANGED vars
    BY <1>19 DEF vars
  <1>20. QED
    BY <1>1, <1>2, <1>3, <1>4, <1>5, <1>6, <1>7, <1>8, <1>9, <1>10, <1>11, <1>12, <1>13, <1>14, <1>15, <1>16, <1>17, <1>18, <1>19
    DEF Next, TxnStep

-----------------------------------------------------------------------------
(* checkpoint_lock                                                         *)

ActiveSet == {t \in TIDs : Active(t)}

\* Only Begin and the ends of Commit and Abort change who is active.
LEMMA ActiveMoves ==
    ASSUME TypeOK, PhaseInv, [Next]_vars
    PROVE  \/ /\ ckptReaders' = ckptReaders
              /\ ActiveSet' = ActiveSet
           \/ \E t \in TIDs \ ActiveSet :
                /\ ckptReaders' = ckptReaders + 1
                /\ ActiveSet' = ActiveSet \cup {t}
           \/ \E t \in ActiveSet :
                /\ ckptReaders' = ckptReaders - 1
                /\ ActiveSet' = ActiveSet \ {t}
  <1> DEFINE Same == ckptReaders' = ckptReaders /\ ActiveSet' = ActiveSet
  <1> USE DEF TypeOK, ActiveSet, Active, mgrVars, entryVars, txnVars, ctlVars
  <1>1. CASE Checkpoint
    BY <1>1 DEF Checkpoint
  <1>2. ASSUME NEW t \in TIDs, Begin(t)
        PROVE  /\ t \in TIDs \ ActiveSet
               /\ ckptReaders' = ckptReaders + 1
               /\ ActiveSet' = ActiveSet \cup {t}
    BY <1>2 DEF Begin, PhaseInv, TIDs
  <1>3. ASSUME NEW t \in TIDs, FinishCommit(t) \/ FinishAbort(t)
        PROVE  /\ t \in ActiveSet
               /\ ckptReaders' = ckptReaders - 1
               /\ ActiveSet' = ActiveSet \ {t}
    BY <1>3 DEF FinishCommit, FinishAbort
  <1>4. ASSUME NEW t \in TIDs, StartTriple(t) PROVE Same
    BY <1>4 DEF StartTriple
  <1>5. ASSUME NEW t \in TIDs, Locked(t) PROVE Same
    BY <1>5 DEF Locked
  <1>6. ASSUME NEW t \in TIDs, Undone(t) PROVE Same
    BY <1>6 DEF Undone
  <1>7. ASSUME NEW t \in TIDs, Written(t) PROVE Same
    BY <1>7 DEF Written
  <1>8. ASSUME NEW t \in TIDs, StartCommit(t) PROVE Same
    BY <1>8 DEF StartCommit
  <1>9. ASSUME NEW t \in TIDs, StartAbort(t) PROVE Same
    BY <1>9 DEF StartAbort
  <1>10. ASSUME NEW t \in TIDs, SharedReleased(t) PROVE Same
    BY <1>10 DEF SharedReleased
  <1>11. ASSUME NEW t \in TIDs, NEW k \in Keys, Read(t, k) PROVE Same
    BY <1>11 DEF Read
  <1>12. ASSUME NEW t \in TIDs, NEW k \in Keys, Lock(t, k) PROVE Same
    <2>1. /\ phase[t] = "lock"
          /\ ckptReaders' = ckptReaders
          /\ phase' = phase \/ phase' = [phase EXCEPT ![t] = "undo"]
      BY <1>12, Zenon DEF Lock
    <2>2. QED
      BY <2>1
  <1>13. ASSUME NEW t \in TIDs, NEW k \in Keys, Undo(t, k) PROVE Same
    BY <1>13 DEF Undo
  <1>14. ASSUME NEW t \in TIDs, NEW k \in Keys, Write(t, k) PROVE Same
    BY <1>14 DEF Write
  <1>15. ASSUME NEW t \in TIDs, NEW k \in Keys, ReleaseShared(t, k) PROVE Same
    BY <1>15 DEF ReleaseShared
  <1>16. ASSUME NEW t \in TIDs, NEW k \in Keys, CommitKey(t, k) PROVE Same
    BY <1>16 DEF CommitKey
  <1>17. ASSUME NEW t \in TIDs, NEW k \in Keys, AbortKey(t, k) PROVE Same
    BY <1>17 DEF AbortKey
  <1>18. CASE UNCHANGED vars
    BY <1>18 DEF vars
  <1> HIDE DEF ActiveSet
  <1>19. QED
    BY <1>1, <1>2, <1>3, <1>4, <1>5, <1>6, <1>7, <1>8, <1>9, <1>10, <1>11, <1>12, <1>13, <1>14, <1>15, <1>16, <1>17, <1>18
    DEF Next, TxnStep

LEMMA ActiveFinite == IsFiniteSet(ActiveSet)
  <1>1. IsFiniteSet(TIDs)
    BY MaxTxnAssumption, FS_Interval DEF TIDs
  <1>2. QED
    BY <1>1, FS_Subset DEF ActiveSet

LEMMA InitReadersInv == Init => ReadersInv
  BY FS_EmptySet DEF Init, ReadersInv, Active

LEMMA NextReadersInv ==
    TypeOK /\ PhaseInv /\ ReadersInv /\ [Next]_vars => ReadersInv'
  <1> SUFFICES ASSUME TypeOK, PhaseInv, ReadersInv, [Next]_vars
               PROVE  ckptReaders' = Cardinality(ActiveSet')
    BY DEF ReadersInv, ActiveSet
  <1>1. ckptReaders = Cardinality(ActiveSet)
    BY DEF ReadersInv, ActiveSet
  <1>2. IsFiniteSet(ActiveSet) /\ ckptReaders \in Int
    BY ActiveFinite DEF TypeOK
  <1>3. CASE ckptReaders' = ckptReaders /\ ActiveSet' = ActiveSet
    BY <1>1, <1>3
  <1>4. ASSUME NEW t \in TIDs \ ActiveSet,
               ckptReaders' = ckptReaders + 1,
               ActiveSet' = ActiveSet \cup {t}
        PROVE  ckptReaders' = Cardinality(ActiveSet')
    BY <1>1, <1>2, <1>4, FS_AddElement
  <1>5. ASSUME NEW t \in ActiveSet,
               ckptReaders' = ckptReaders - 1,
               ActiveSet' = ActiveSet \ {t}
        PROVE  ckptReaders' = Cardinality(ActiveSet')
    BY <1>1, <1>2, <1>5, FS_RemoveElement
  <1>6. QED
    BY <1>3, <1>4, <1>5, ActiveMoves

\* Checkpoint runs alone: whenever checkpoint_lock is free for it, no
\* transaction is between Begin and its end.
THEOREM CheckpointRunsAlone == Spec => []CheckpointAlone
  <1>1. Init => TypeOK /\ PhaseInv /\ ReadersInv
    BY InitTypeOK, InitPhaseInv, InitReadersInv
  <1>2. TypeOK /\ PhaseInv /\ ReadersInv /\ [Next]_vars
          => (TypeOK /\ PhaseInv /\ ReadersInv)'
    BY NextTypeOK, NextPhaseInv, NextReadersInv
  <1>3. ReadersInv => CheckpointAlone
    <2> SUFFICES ASSUME ReadersInv, ckptReaders = 0
                 PROVE  ActiveSet = {}
      BY DEF CheckpointAlone, ActiveSet
    <2>1. Cardinality(ActiveSet) = 0
      BY DEF ReadersInv, ActiveSet
    <2>2. QED
      BY <2>1, ActiveFinite, FS_EmptySet
  <1>4. QED
    BY <1>1, <1>2, <1>3, PTL DEF Spec

-----------------------------------------------------------------------------
(* Lists                                                                   *)

\* A TID is not the number that stands for "none".
LEMMA TIDFacts == \A t \in TIDs : t \in Nat /\ t # INVALID
  BY InvalidAssumption, MaxTxnAssumption DEF TIDs

\* An entry starts, and starts anew after a checkpoint, owned by nobody.
LEMMA DummyOwner == /\ WellFormed(<<DummyVersion>>)
                    /\ \A t \in TIDs : ~Private(Last(<<DummyVersion>>), t)
  BY InvalidAssumption DEF WellFormed, Last, DummyVersion, Version, Private

\* Appending a private version to a list whose last version is committed.
LEMMA NewVersionOwner ==
    ASSUME NEW vl \in Seq(VersionType(TIDs)), NEW t \in TIDs,
           WellFormed(vl), Last(vl).begin # INVALID
    PROVE  /\ WellFormed(NewVersion(vl, t))
           /\ \A u \in TIDs : Private(Last(NewVersion(vl, t)), u) <=> u = t
  <1> DEFINE nl == NewVersion(vl, t)
             n == Len(vl)
  <1>1. n \in Nat /\ n > 0
    BY LenProperties DEF WellFormed
  <1>2. /\ nl \in Seq(VersionType(TIDs))
        /\ Len(nl) = n + 1
        /\ nl[n + 1] = Version(INVALID, t, {})
        /\ \A i \in 1..n : nl[i] = vl[i]
    BY TIDFacts, NewVersionFacts
  <1>3. vl[n].end = INVALID /\ vl[n].begin # INVALID
    BY DEF WellFormed, Last
  <1>4. \A i \in 1..(n - 1) : vl[i].begin # INVALID
    BY DEF WellFormed
  <1> HIDE DEF nl, n
  <1>5. nl # <<>>
    BY <1>1, <1>2
  <1>6. Last(nl) = Version(INVALID, t, {}) /\ nl[Len(nl) - 1] = vl[n]
    BY <1>1, <1>2 DEF Last
  <1>7. \A i \in 1..(Len(nl) - 1) : nl[i].begin # INVALID
    BY <1>1, <1>2, <1>3, <1>4
  <1>8. WellFormed(nl)
    BY <1>1, <1>2, <1>3, <1>5, <1>6, <1>7 DEF WellFormed, Version
  <1>9. \A u \in TIDs : Private(Last(nl), u) <=> u = t
    BY <1>6 DEF Private, Version
  <1>10. QED
    BY <1>8, <1>9 DEF nl

\* Dropping the private version leaves a list that nobody owns.
LEMMA PopOwner ==
    ASSUME NEW vl \in Seq(VersionType(TIDs)),
           WellFormed(vl), Last(vl).begin = INVALID
    PROVE  /\ WellFormed(Pop(vl))
           /\ \A u \in TIDs : ~Private(Last(Pop(vl)), u)
  <1> DEFINE nl == Pop(vl)
             n == Len(vl)
  <1>1. n \in Nat /\ n > 1
    BY LenProperties DEF WellFormed
  <1>2. /\ nl \in Seq(VersionType(TIDs))
        /\ Len(nl) = n - 1
        /\ \A i \in 1..(n - 1) : nl[i] = vl[i]
    BY PopFacts DEF WellFormed
  <1>3. vl[n - 1].end = INVALID
    BY DEF WellFormed, Last
  <1>4. \A i \in 1..(n - 1) : vl[i].begin # INVALID
    BY DEF WellFormed
  <1> HIDE DEF nl, n
  <1>5. nl # <<>>
    BY <1>1, <1>2
  <1>6. Last(nl) = vl[n - 1] /\ Last(nl).begin # INVALID
    BY <1>1, <1>2, <1>4 DEF Last
  <1>7. \A i \in 1..(Len(nl) - 1) : nl[i].begin # INVALID
    BY <1>1, <1>2, <1>4
  <1>8. WellFormed(nl)
    BY <1>3, <1>5, <1>6, <1>7 DEF WellFormed
  <1>9. \A u \in TIDs : ~Private(Last(nl), u)
    BY <1>6 DEF Private
  <1>10. QED
    BY <1>8, <1>9 DEF nl

\* Its owner writes into the private version.
LEMMA WriteVersionOwner ==
    ASSUME NEW vl \in Seq(VersionType(TIDs)), NEW t \in TIDs,
           WellFormed(vl), Private(Last(vl), t)
    PROVE  /\ WellFormed(WriteVersion(vl, t))
           /\ \A u \in TIDs : Private(Last(WriteVersion(vl, t)), u) <=> u = t
  <1> DEFINE nl == WriteVersion(vl, t)
             n == Len(vl)
  <1>1. n \in Nat /\ n > 1
    BY LenProperties DEF WellFormed, Private
  <1>2. /\ nl \in Seq(VersionType(TIDs))
        /\ Len(nl) = n
        /\ \A i \in 1..n : nl[i] =
             IF i = n THEN Version(vl[i].begin, vl[i].end, vl[i].data \cup {t})
             ELSE vl[i]
    BY WriteVersionFacts
  <1>3. /\ vl[n].begin = INVALID /\ vl[n].end = t /\ vl[n].data \subseteq {t}
        /\ vl[n - 1].end = INVALID
    BY DEF WellFormed, Last, Private
  <1>4. \A i \in 1..(n - 1) : vl[i].begin # INVALID
    BY DEF WellFormed
  <1> HIDE DEF nl, n
  <1>5. nl # <<>>
    BY <1>1, <1>2
  <1>6. Last(nl) = Version(INVALID, t, vl[n].data \cup {t})
    <2>1. n \in 1..n
      BY <1>1
    <2>2. nl[n] = Version(vl[n].begin, vl[n].end, vl[n].data \cup {t})
      BY <1>2, <2>1
    <2>3. QED
      BY <1>2, <1>3, <2>2 DEF Last
  <1>7. nl[n - 1] = vl[n - 1] /\ \A i \in 1..(n - 1) : nl[i].begin # INVALID
    <2>1. \A i \in 1..(n - 1) : i \in 1..n /\ i # n
      BY <1>1
    <2>2. \A i \in 1..(n - 1) : nl[i] = vl[i]
      BY <1>2, <2>1
    <2>3. n - 1 \in 1..(n - 1)
      BY <1>1
    <2>4. QED
      BY <1>4, <2>2, <2>3
  <1>8. WellFormed(nl)
    BY <1>1, <1>2, <1>3, <1>5, <1>6, <1>7 DEF WellFormed, Version
  <1>9. \A u \in TIDs : Private(Last(nl), u) <=> u = t
    BY <1>6 DEF Private, Version
  <1>10. QED
    BY <1>8, <1>9 DEF nl

\* Stamping the private version leaves a list that nobody owns.
LEMMA StampOwner ==
    ASSUME NEW vl \in Seq(VersionType(TIDs)), NEW c \in Nat, c # INVALID,
           WellFormed(vl), Last(vl).begin = INVALID
    PROVE  /\ WellFormed(Stamp(vl, c))
           /\ \A u \in TIDs : ~Private(Last(Stamp(vl, c)), u)
  <1> DEFINE nl == Stamp(vl, c)
             n == Len(vl)
  <1>1. n \in Nat /\ n > 1
    BY LenProperties DEF WellFormed
  <1>2. /\ nl \in Seq(VersionType(TIDs))
        /\ Len(nl) = n
        /\ \A i \in 1..n : nl[i] =
             IF i = n THEN Version(c, INVALID, vl[i].data)
             ELSE IF i = n - 1 THEN Version(vl[i].begin, c, vl[i].data)
             ELSE vl[i]
    BY StampFacts
  <1>3. \A i \in 1..(n - 1) : vl[i].begin # INVALID
    BY DEF WellFormed
  <1> HIDE DEF nl, n
  <1>4. nl # <<>>
    BY <1>1, <1>2
  <1>5. Last(nl) = Version(c, INVALID, vl[n].data)
    BY <1>1, <1>2 DEF Last
  <1>6. \A i \in 1..(n - 1) : nl[i].begin # INVALID
    <2> TAKE i \in 1..(n - 1)
    <2>1. i \in 1..n /\ i # n
      BY <1>1
    <2>2. nl[i] = vl[i] \/ nl[i] = Version(vl[i].begin, c, vl[i].data)
      BY <1>2, <2>1
    <2>3. QED
      BY <1>3, <2>2 DEF Version
  <1>7. WellFormed(nl)
    BY <1>2, <1>4, <1>5, <1>6 DEF WellFormed, Version
  <1>8. \A u \in TIDs : ~Private(Last(nl), u)
    BY <1>5 DEF Private, Version
  <1>9. QED
    BY <1>7, <1>8 DEF nl
-----------------------------------------------------------------------------
(* Keys                                                                    *)

\* A step that makes no difference to who owns what.
LEMMA NobodyMoves ==
    ASSUME VersionOwner, vList' = vList,
           \A u \in TIDs : Owned(u)' = Owned(u)
    PROVE  VersionOwner'
  BY DEF VersionOwner

\* A step of t on the list of one key, which t owns afterwards, ...
LEMMA OneListOwned ==
    ASSUME TypeOK, VersionOwner, NEW t \in TIDs, NEW k \in Keys, NEW vl,
           vList' = [vList EXCEPT ![k] = vl],
           WellFormed(vl),
           \A u \in TIDs : Private(Last(vl), u) <=> u = t,
           \A u \in TIDs \ {t} : Owned(u)' = Owned(u) /\ k \notin Owned(u),
           Owned(t)' = Owned(t) \cup {k}
    PROVE  VersionOwner'
  <1>1. vList'[k] = vl /\ \A j \in Keys \ {k} : vList'[j] = vList[j]
    BY DEF TypeOK
  <1>2. \A u \in TIDs : k \in Owned(u)' <=> Private(Last(vList'[k]), u)
    BY <1>1
  <1>3. \A j \in Keys \ {k}, u \in TIDs : j \in Owned(u)' <=> j \in Owned(u)
    OBVIOUS
  <1>4. QED
    BY <1>1, <1>2, <1>3 DEF VersionOwner

\* ... or which nobody does.
LEMMA OneListFree ==
    ASSUME TypeOK, VersionOwner, NEW t \in TIDs, NEW k \in Keys, NEW vl,
           vList' = [vList EXCEPT ![k] = vl],
           WellFormed(vl),
           \A u \in TIDs : ~Private(Last(vl), u),
           \A u \in TIDs \ {t} : Owned(u)' = Owned(u) /\ k \notin Owned(u),
           Owned(t)' = Owned(t) \ {k}
    PROVE  VersionOwner'
  <1>1. vList'[k] = vl /\ \A j \in Keys \ {k} : vList'[j] = vList[j]
    BY DEF TypeOK
  <1>2. \A u \in TIDs : k \in Owned(u)' <=> Private(Last(vList'[k]), u)
    BY <1>1
  <1>3. \A j \in Keys \ {k}, u \in TIDs : j \in Owned(u)' <=> j \in Owned(u)
    OBVIOUS
  <1>4. QED
    BY <1>1, <1>2, <1>3 DEF VersionOwner

\* An owner is the only one.
LEMMA OneOwner ==
    ASSUME VersionOwner, NEW t \in TIDs, NEW k \in Keys, k \in Owned(t)
    PROVE  /\ WellFormed(vList[k])
           /\ Private(Last(vList[k]), t)
           /\ \A u \in TIDs \ {t} : k \notin Owned(u)
  BY DEF VersionOwner, Private

\* At first nobody owns a key.
LEMMA InitVersionOwner == Init => VersionOwner
  BY DummyOwner DEF Init, VersionOwner, Owned

\* What a transaction owns depends on its own thread only.
LEMMA OthersOwn ==
    ASSUME NEW t \in TIDs,
           \A u \in TIDs \ {t} : /\ phase'[u] = phase[u] /\ todo'[u] = todo[u]
                                 /\ held'[u] = held[u]
                                 /\ writeSet'[u] = writeSet[u]
    PROVE  \A u \in TIDs \ {t} : Owned(u)' = Owned(u)
  BY DEF Owned

\* The steps between the loops leave the entries alone and change nobody's
\* keys.
LEMMA ThreadSteps ==
    ASSUME TypeOK, PhaseInv, NEW t \in TIDs,
           \/ Begin(t) \/ StartTriple(t) \/ Locked(t) \/ Undone(t)
           \/ Written(t) \/ StartCommit(t) \/ StartAbort(t)
           \/ SharedReleased(t) \/ FinishCommit(t) \/ FinishAbort(t)
    PROVE  /\ UNCHANGED <<base, vList, glatch, readSet, seen, crashed>>
           /\ ~crashed /\ cnt' \in {cnt, cnt + 1}
           /\ \A u \in TIDs \ {t} : /\ phase'[u] = phase[u]
                                    /\ todo'[u] = todo[u]
                                    /\ held'[u] = held[u]
                                    /\ triple'[u] = triple[u]
                                    /\ writeSet'[u] = writeSet[u]
                                    /\ state'[u] = state[u]
                                    /\ iso'[u] = iso[u]
                                    /\ cid'[u] = cid[u]
           /\ \A u \in TIDs : Owned(u)' = Owned(u)
  <1> USE DEF TypeOK, mgrVars, entryVars, txnVars, ctlVars
  <1> SUFFICES /\ UNCHANGED <<base, vList, glatch, readSet, seen, crashed>>
               /\ ~crashed /\ cnt' \in {cnt, cnt + 1}
               /\ \A u \in TIDs \ {t} : /\ phase'[u] = phase[u]
                                        /\ todo'[u] = todo[u]
                                        /\ held'[u] = held[u]
                                        /\ triple'[u] = triple[u]
                                        /\ writeSet'[u] = writeSet[u]
                                        /\ state'[u] = state[u]
                                        /\ iso'[u] = iso[u]
                                        /\ cid'[u] = cid[u]
               /\ Owned(t)' = Owned(t)
    BY OthersOwn
  <1>1. CASE Begin(t)
    BY <1>1 DEF Begin, Owned, PhaseInv, TIDs
  <1>2. CASE StartTriple(t)
    BY <1>2 DEF StartTriple, Owned
  <1>3. CASE Locked(t)
    BY <1>3 DEF Locked, Owned
  <1>4. CASE Undone(t)
    BY <1>4 DEF Undone, Owned
  <1>5. CASE Written(t)
    BY <1>5 DEF Written, Owned, PhaseInv
  <1>6. CASE StartCommit(t)
    BY <1>6 DEF StartCommit, Owned
  <1>7. CASE StartAbort(t)
    BY <1>7 DEF StartAbort, Owned
  <1>8. CASE SharedReleased(t)
    BY <1>8 DEF SharedReleased, Owned
  <1>9. CASE FinishCommit(t)
    BY <1>9 DEF FinishCommit, Owned
  <1>10. CASE FinishAbort(t)
    BY <1>10 DEF FinishAbort, Owned
  <1>11. QED
    BY <1>1, <1>2, <1>3, <1>4, <1>5, <1>6, <1>7, <1>8, <1>9, <1>10

LEMMA ThreadMoves ==
    ASSUME TypeOK, PhaseInv, VersionOwner, NEW t \in TIDs,
           \/ Begin(t) \/ StartTriple(t) \/ Locked(t) \/ Undone(t)
           \/ Written(t) \/ StartCommit(t) \/ StartAbort(t)
           \/ SharedReleased(t) \/ FinishCommit(t) \/ FinishAbort(t)
    PROVE  VersionOwner'
  BY ThreadSteps, NobodyMoves

\* So do the steps that only read or give shared latches back.
LEMMA QuietSteps ==
    ASSUME TypeOK, NEW t \in TIDs, NEW k \in Keys,
           Read(t, k) \/ ReleaseShared(t, k)
    PROVE  /\ UNCHANGED <<cnt, ckptReaders, dirtyKeys, base, vList, iso, cid,
                          writeSet, phase, held, triple>>
           /\ ~crashed
           /\ \A u \in TIDs \ {t} : /\ todo'[u] = todo[u]
                                    /\ readSet'[u] = readSet[u]
                                    /\ state'[u] = state[u]
           /\ \A u \in TIDs : Owned(u)' = Owned(u)
  <1> USE DEF TypeOK, mgrVars, entryVars, txnVars, ctlVars
  <1>1. CASE Read(t, k)
    <2>1. /\ UNCHANGED <<cnt, ckptReaders, dirtyKeys, base, vList, iso, cid,
                         writeSet, phase, held, triple, todo>>
          /\ ~crashed
          /\ readSet' = readSet \/ readSet' = [readSet EXCEPT ![t] = @ \cup {k}]
          /\ state' = state \/ state' = [state EXCEPT ![t] = "ABORTED"]
      BY <1>1, Zenon DEF Read
    <2>2. QED
      BY <2>1 DEF Owned
  <1>2. CASE ReleaseShared(t, k)
    <2>1. /\ UNCHANGED <<cnt, ckptReaders, dirtyKeys, base, vList, iso, cid,
                         writeSet, phase, held, triple, readSet, state>>
          /\ ~crashed
          /\ phase[t] \in {"commitShared", "abortShared"}
          /\ todo' = todo \/ todo' = [todo EXCEPT ![t] = @ \ {k}]
      BY <1>2, Zenon DEF ReleaseShared
    <2>2. \A u \in TIDs \ {t} : todo'[u] = todo[u]
      BY <2>1
    <2>3. Owned(t)' = Owned(t)
      BY <2>1 DEF Owned
    <2>4. \A u \in TIDs \ {t} : Owned(u)' = Owned(u)
      BY <2>1, <2>2, OthersOwn
    <2>5. QED
      BY <2>1, <2>2, <2>3, <2>4
  <1>3. QED
    BY <1>1, <1>2

LEMMA QuietMoves ==
    ASSUME TypeOK, VersionOwner, NEW t \in TIDs, NEW k \in Keys,
           Read(t, k) \/ ReleaseShared(t, k)
    PROVE  VersionOwner'
  BY QuietSteps, NobodyMoves

\* Locking a key that nobody owns appends a version to its list; a failure
\* starts to undo.
LEMMA LockSteps ==
    ASSUME TypeOK, PhaseInv, VersionOwner, NEW t \in TIDs, NEW k \in Keys,
           Lock(t, k)
    PROVE  LET hasRead == k \in readSet[t] IN
           /\ UNCHANGED <<cnt, ckptReaders, dirtyKeys, base, iso, state, cid,
                          readSet, writeSet, triple, seen>>
           /\ phase[t] = "lock" /\ ~crashed
           /\ k \notin Owned(t)
           /\ \A u \in TIDs \ {t} : /\ phase'[u] = phase[u]
                                    /\ todo'[u] = todo[u]
                                    /\ Owned(u)' = Owned(u)
           /\ \/ /\ \A u \in TIDs : k \notin Owned(u)
                 /\ WellFormed(vList[k]) /\ Last(vList[k]).begin # INVALID
                 /\ CanGetExclusiveLatch(vList[k], glatch[k], t, iso[t], hasRead)
                 /\ vList' = [vList EXCEPT ![k] = NewVersion(vList[k], t)]
                 /\ glatch' = [glatch EXCEPT ![k] =
                         ExclusiveLatch(glatch[k], t, iso[t], hasRead)]
                 /\ phase' = phase /\ ~crashed'
                 /\ Owned(t)' = Owned(t) \cup {k}
              \/ /\ UNCHANGED <<vList, glatch>>
                 /\ phase' = [phase EXCEPT ![t] = "undo"]
                 /\ crashed' = UpgradeAsserts(vList[k], glatch[k], t, iso[t],
                                              hasRead)
                 /\ Owned(t)' = Owned(t)
  <1> DEFINE hasRead == k \in readSet[t]
  <1> USE DEF TypeOK, mgrVars, entryVars, txnVars, ctlVars
  <1>1. /\ phase[t] = "lock" /\ k \in todo[t] /\ writeSet' = writeSet
        /\ UNCHANGED <<cnt, ckptReaders, dirtyKeys, base, iso, state, cid,
                       readSet, writeSet, triple, seen>>
        /\ ~crashed
    BY DEF Lock, IsNext
  <1>2. k \notin Owned(t)
    BY <1>1 DEF Owned, PhaseInv
  <1>3. CASE /\ CanGetExclusiveLatch(vList[k], glatch[k], t, iso[t], hasRead)
             /\ vList' = [vList EXCEPT ![k] = NewVersion(vList[k], t)]
             /\ glatch' = [glatch EXCEPT ![k] =
                             ExclusiveLatch(glatch[k], t, iso[t], hasRead)]
             /\ todo' = [todo EXCEPT ![t] = @ \ {k}]
             /\ held' = [held EXCEPT ![t] = @ \cup {k}]
             /\ phase' = phase /\ crashed' = crashed
    <2>1. WellFormed(vList[k]) /\ ~Private(Last(vList[k]), t)
      BY <1>2 DEF VersionOwner
    <2>2. Last(vList[k]).begin # INVALID
      BY <1>3, <2>1 DEF CheckVersion, Private, CanGetExclusiveLatch
    <2>3. \A u \in TIDs \ {t} : todo'[u] = todo[u] /\ held'[u] = held[u]
      BY <1>3
    <2>4. \A u \in TIDs \ {t} : Owned(u)' = Owned(u)
      BY <1>1, <1>3, <2>3, OthersOwn
    <2>5. \A u \in TIDs : k \notin Owned(u)
      BY <2>2 DEF VersionOwner, Private
    <2>6. Owned(t)' = Owned(t) \cup {k}
      BY <1>1, <1>3 DEF Owned
    <2> HIDE DEF TypeOK
    <2>7. QED
      BY <1>1, <1>2, <1>3, <2>1, <2>2, <2>3, <2>4, <2>5, <2>6
  <1>4. CASE /\ phase' = [phase EXCEPT ![t] = "undo"]
             /\ todo' = [todo EXCEPT ![t] = held[t]]
             /\ crashed' = UpgradeAsserts(vList[k], glatch[k], t, iso[t], hasRead)
             /\ vList' = vList /\ held' = held /\ glatch' = glatch
    <2>1. \A u \in TIDs \ {t} : phase'[u] = phase[u] /\ todo'[u] = todo[u]
      BY <1>4
    <2>2. Owned(t)' = Owned(t)
      BY <1>1, <1>4 DEF Owned
    <2>3. \A u \in TIDs \ {t} : Owned(u)' = Owned(u)
      BY <1>1, <1>4, <2>1, OthersOwn
    <2> HIDE DEF TypeOK
    <2>4. QED
      BY <1>1, <1>2, <1>4, <2>1, <2>2, <2>3
  <1>5. QED
    BY <1>3, <1>4, Zenon DEF Lock

LEMMA LockMoves ==
    ASSUME TypeOK, PhaseInv, VersionOwner, NEW t \in TIDs, NEW k \in Keys,
           Lock(t, k)
    PROVE  VersionOwner'
  <1> DEFINE vl == NewVersion(vList[k], t)
  <1>1. CASE vList' = vList /\ Owned(t)' = Owned(t)
    BY <1>1, LockSteps, NobodyMoves
  <1>2. CASE /\ \A u \in TIDs : k \notin Owned(u)
             /\ WellFormed(vList[k]) /\ Last(vList[k]).begin # INVALID
             /\ vList' = [vList EXCEPT ![k] = vl]
             /\ Owned(t)' = Owned(t) \cup {k}
    <2>1. vList[k] \in Seq(VersionType(TIDs))
      BY DEF TypeOK
    <2>2. WellFormed(vl) /\ \A u \in TIDs : Private(Last(vl), u) <=> u = t
      BY <1>2, <2>1, NewVersionOwner
    <2>3. \A u \in TIDs \ {t} : Owned(u)' = Owned(u)
      BY LockSteps
    <2> HIDE DEF vl
    <2>4. QED
      BY <1>2, <2>2, <2>3, OneListOwned
  <1>3. QED
    BY <1>1, <1>2, LockSteps

\* A writer owns the key it writes.
LEMMA WriteSteps ==
    ASSUME TypeOK, PhaseInv, VersionOwner, NEW t \in TIDs, NEW k \in Keys,
           Write(t, k)
    PROVE  /\ UNCHANGED <<cnt, ckptReaders, dirtyKeys, base, glatch, iso, state,
                          cid, readSet, writeSet, phase, held, triple, seen,
                          crashed>>
           /\ phase[t] = "write" /\ k \in todo[t] /\ ~crashed
           /\ todo' = [todo EXCEPT ![t] = @ \ {k}]
           /\ vList' = [vList EXCEPT ![k] = WriteVersion(vList[k], t)]
           /\ k \in Owned(t)
           /\ WellFormed(vList[k]) /\ Private(Last(vList[k]), t)
           /\ \A u \in TIDs \ {t} : k \notin Owned(u)
           /\ \A u \in TIDs : Owned(u)' = Owned(u)
  <1> USE DEF TypeOK, mgrVars, entryVars, txnVars, ctlVars
  <1>1. /\ phase[t] = "write" /\ k \in todo[t] /\ ~crashed
        /\ vList' = [vList EXCEPT ![k] = WriteVersion(vList[k], t)]
        /\ todo' = [todo EXCEPT ![t] = @ \ {k}]
        /\ UNCHANGED <<cnt, ckptReaders, dirtyKeys, base, glatch, iso, state,
                       cid, readSet, writeSet, phase, held, triple, seen,
                       crashed>>
    BY DEF Write
  <1>2. k \in Owned(t)
    BY <1>1 DEF Owned, PhaseInv
  <1>3. /\ WellFormed(vList[k]) /\ Private(Last(vList[k]), t)
        /\ \A u \in TIDs \ {t} : k \notin Owned(u)
    BY <1>2, OneOwner
  <1>4. \A u \in TIDs : Owned(u)' = Owned(u)
    <2>1. \A u \in TIDs \ {t} : todo'[u] = todo[u]
      BY <1>1
    <2>2. Owned(t)' = Owned(t)
      BY <1>1 DEF Owned
    <2>3. QED
      BY <1>1, <2>1, <2>2, OthersOwn
  <1> HIDE DEF TypeOK
  <1>5. QED
    BY <1>1, <1>2, <1>3, <1>4

LEMMA WriteMoves ==
    ASSUME TypeOK, PhaseInv, VersionOwner, NEW t \in TIDs, NEW k \in Keys,
           Write(t, k)
    PROVE  VersionOwner'
  <1> DEFINE vl == WriteVersion(vList[k], t)
  <1>1. /\ vList[k] \in Seq(VersionType(TIDs))
        /\ WellFormed(vList[k]) /\ Private(Last(vList[k]), t)
        /\ vList' = [vList EXCEPT ![k] = vl]
        /\ Owned(t)' = Owned(t) \cup {k}
        /\ \A u \in TIDs \ {t} : Owned(u)' = Owned(u) /\ k \notin Owned(u)
    BY WriteSteps DEF TypeOK
  <1>2. WellFormed(vl) /\ \A u \in TIDs : Private(Last(vl), u) <=> u = t
    BY <1>1, WriteVersionOwner
  <1> HIDE DEF vl
  <1>3. QED
    BY <1>1, <1>2, OneListOwned

\* The loops that give keys back stamp or drop the private version of a key
\* their transaction owns.
LEMMA GiveBackSteps ==
    ASSUME TypeOK, PhaseInv, VersionOwner, NEW t \in TIDs, NEW k \in Keys,
           Undo(t, k) \/ CommitKey(t, k) \/ AbortKey(t, k)
    PROVE  LET hasRead == phase[t] = "undo" /\ k \in readSet[t] IN
           /\ UNCHANGED <<cnt, ckptReaders, dirtyKeys, base, iso, state, cid,
                          readSet, writeSet, phase, held, triple, seen>>
           /\ phase[t] \in {"undo", "commitExclusive", "abortExclusive"}
           /\ k \in todo[t] /\ ~crashed
           /\ k \in Owned(t)
           /\ WellFormed(vList[k]) /\ Private(Last(vList[k]), t)
           /\ \A u \in TIDs \ {t} : /\ k \notin Owned(u)
                                    /\ todo'[u] = todo[u]
                                    /\ Owned(u)' = Owned(u)
           /\ phase[t] = "undo" => k \notin writeSet[t]
           /\ \/ /\ UNCHANGED <<vList, glatch, todo>> /\ crashed'
                 /\ ~CanInvalidate(glatch[k], t, iso[t], hasRead)
                 /\ Owned(t)' = Owned(t)
              \/ /\ CanInvalidate(glatch[k], t, iso[t], hasRead)
                 /\ glatch' = [glatch EXCEPT ![k] =
                                 InvalidateLatch(glatch[k], iso[t], hasRead)]
                 /\ vList' = [vList EXCEPT ![k] =
                                IF phase[t] = "commitExclusive"
                                THEN Stamp(vList[k], cid[t]) ELSE Pop(vList[k])]
                 /\ todo' = [todo EXCEPT ![t] = @ \ {k}]
                 /\ ~crashed'
                 /\ Owned(t)' = Owned(t) \ {k}
  <1> DEFINE hasRead == phase[t] = "undo" /\ k \in readSet[t]
             Fails == /\ UNCHANGED <<vList, glatch, todo>> /\ crashed'
                      /\ ~CanInvalidate(glatch[k], t, iso[t], hasRead)
             GivesBack ==
                 /\ CanInvalidate(glatch[k], t, iso[t], hasRead)
                 /\ glatch' = [glatch EXCEPT ![k] =
                                 InvalidateLatch(glatch[k], iso[t], hasRead)]
                 /\ vList' = [vList EXCEPT ![k] =
                                IF phase[t] = "commitExclusive"
                                THEN Stamp(vList[k], cid[t]) ELSE Pop(vList[k])]
                 /\ todo' = [todo EXCEPT ![t] = @ \ {k}]
                 /\ ~crashed'
  <1> USE DEF mgrVars, entryVars, txnVars, ctlVars
  <1>1. /\ phase[t] \in {"undo", "commitExclusive", "abortExclusive"}
        /\ k \in todo[t] /\ ~crashed
        /\ UNCHANGED <<cnt, ckptReaders, dirtyKeys, base, iso, state, cid,
                       readSet, writeSet, phase, held, triple, seen>>
    BY DEF Undo, CommitKey, AbortKey, IsNext
  <1>2. k \in Owned(t)
    BY <1>1 DEF Owned
  <1>3. /\ WellFormed(vList[k]) /\ Private(Last(vList[k]), t)
        /\ \A u \in TIDs \ {t} : k \notin Owned(u)
    BY <1>2, OneOwner
  <1>4. phase[t] = "undo" => k \notin writeSet[t]
    BY <1>1 DEF PhaseInv
  <1>5. Fails \/ GivesBack
    <2>1. CASE Undo(t, k)
      <3>1. phase[t] = "undo" /\ hasRead = (k \in readSet[t])
        BY <2>1 DEF Undo
      <3>2. QED
        BY <2>1, <3>1 DEF Undo
    <2>2. CASE CommitKey(t, k)
      <3>1. phase[t] = "commitExclusive" /\ hasRead = FALSE
        BY <2>2 DEF CommitKey
      <3>2. QED
        BY <2>2, <3>1 DEF CommitKey, CanUnLatch, UnLatch, CanInvalidate,
                          InvalidateLatch
    <2>3. CASE AbortKey(t, k)
      <3>1. phase[t] = "abortExclusive" /\ hasRead = FALSE
        BY <2>3 DEF AbortKey
      <3>2. QED
        BY <2>3, <3>1 DEF AbortKey
    <2>4. QED
      BY <2>1, <2>2, <2>3
  <1>6. \A u \in TIDs \ {t} : todo'[u] = todo[u]
    BY <1>5 DEF TypeOK
  <1>7. \A u \in TIDs \ {t} : Owned(u)' = Owned(u)
    BY <1>1, <1>6, OthersOwn
  <1>8. Fails => Owned(t)' = Owned(t)
    BY <1>1 DEF Owned
  <1>9. GivesBack => Owned(t)' = Owned(t) \ {k}
    <2>1. GivesBack => todo'[t] = todo[t] \ {k}
      BY DEF TypeOK
    <2> HIDE DEF GivesBack
    <2>2. QED
      BY <1>1, <1>4, <2>1 DEF Owned
  <1>10. QED
    BY <1>1, <1>2, <1>3, <1>4, <1>5, <1>6, <1>7, <1>8, <1>9

LEMMA GiveBackMoves ==
    ASSUME TypeOK, PhaseInv, VersionOwner, NEW t \in TIDs, NEW k \in Keys,
           Undo(t, k) \/ CommitKey(t, k) \/ AbortKey(t, k)
    PROVE  VersionOwner'
  <1> DEFINE vl == IF phase[t] = "commitExclusive" THEN Stamp(vList[k], cid[t])
                                                   ELSE Pop(vList[k])
  <1>1. /\ k \in Owned(t)
        /\ WellFormed(vList[k]) /\ Private(Last(vList[k]), t)
        /\ \A u \in TIDs \ {t} : k \notin Owned(u) /\ Owned(u)' = Owned(u)
    BY GiveBackSteps
  <1>2. CASE vList' = vList /\ Owned(t)' = Owned(t)
    BY <1>1, <1>2, NobodyMoves
  <1>3. CASE vList' = [vList EXCEPT ![k] = vl] /\ Owned(t)' = Owned(t) \ {k}
    <2>1. /\ vList[k] \in Seq(VersionType(TIDs))
          /\ cid[t] \in Nat /\ cid[t] # INVALID
      BY MaxTxnAssumption, InvalidAssumption DEF TypeOK
    <2>2. /\ WellFormed(Stamp(vList[k], cid[t]))
          /\ \A u \in TIDs : ~Private(Last(Stamp(vList[k], cid[t])), u)
      BY <1>1, <2>1, StampOwner DEF Private
    <2>3. /\ WellFormed(Pop(vList[k]))
          /\ \A u \in TIDs : ~Private(Last(Pop(vList[k])), u)
      BY <1>1, <2>1, PopOwner DEF Private
    <2>4. WellFormed(vl) /\ \A u \in TIDs : ~Private(Last(vl), u)
      BY <2>2, <2>3
    <2> HIDE DEF vl
    <2>5. QED
      BY <1>1, <1>3, <2>4, OneListFree
  <1>4. QED
    BY <1>2, <1>3, GiveBackSteps

\* A checkpoint runs alone, so nobody owns a key then, and it drops nobody's
\* version.
LEMMA CheckpointSteps ==
    ASSUME CheckpointAlone, Checkpoint
    PROVE  /\ \A u \in TIDs : /\ phase[u] \in {"none", "ended"}
                              /\ Owned(u) = {} /\ Owned(u)' = {}
           /\ \A k \in Keys : \/ /\ vList'[k] = vList[k] /\ base'[k] = base[k]
                              \/ /\ vList'[k] = <<DummyVersion>>
                                 /\ base'[k] = base[k] \cup
                                      ReadVersion(vList[k], INVALID,
                                                  "READ_COMMITTED")
           /\ UNCHANGED <<cnt, glatch, iso, state, cid, readSet, writeSet,
                          phase, todo, held, seen, crashed>>
           /\ ~crashed
  <1>1. \A u \in TIDs : phase[u] \in {"none", "ended"}
    BY DEF Checkpoint, CheckpointAlone, Active
  <1>2. UNCHANGED <<cnt, glatch, iso, state, cid, readSet, writeSet,
                    phase, todo, held, seen, crashed>> /\ ~crashed
    BY DEF Checkpoint, mgrVars, txnVars, ctlVars
  <1>3. \A u \in TIDs : Owned(u) = {} /\ Owned(u)' = {}
    BY <1>1, <1>2 DEF Owned
  <1>4. QED
    BY <1>1, <1>2, <1>3 DEF Checkpoint

LEMMA CheckpointMoves ==
    ASSUME VersionOwner, CheckpointAlone, Checkpoint
    PROVE  VersionOwner'
  BY CheckpointSteps, DummyOwner DEF VersionOwner

\* Writers exclude one another, whatever their levels.
THEOREM WritersExclude == Spec => []VersionOwner
  <1> DEFINE Inv == TypeOK /\ PhaseInv /\ VersionOwner
  <1>1. Init => Inv
    BY InitTypeOK, InitPhaseInv, InitVersionOwner
  <1>2. Inv /\ CheckpointAlone /\ [Next]_vars => Inv'
    <2> SUFFICES ASSUME Inv, CheckpointAlone, [Next]_vars
                 PROVE  VersionOwner'
      BY NextTypeOK, NextPhaseInv
    <2>1. CASE UNCHANGED vars
      BY <2>1, NobodyMoves DEF vars, entryVars, txnVars, ctlVars, Owned
    <2>2. QED
      BY <2>1, ThreadMoves, QuietMoves, LockMoves, WriteMoves, GiveBackMoves,
         CheckpointMoves
      DEF Next, TxnStep
  <1>3. QED
    BY <1>1, <1>2, CheckpointRunsAlone, PTL DEF Spec

-----------------------------------------------------------------------------
(* Lists of committed versions                                             *)

\* A version has the IDs and the writers it was made of.
LEMMA VersionFields ==
    ASSUME NEW b, NEW e, NEW d
    PROVE  /\ Version(b, e, d).begin = b
           /\ Version(b, e, d).end = e
           /\ Version(b, e, d).data = d
  BY DEF Version

\* The committed versions of one list follow one another, none after c.
Chain(vl, c) ==
    \A i \in 1..Len(vl) : vl[i].begin # INVALID =>
        /\ vl[i].begin <= c
        /\ i > 1 => /\ vl[i - 1].begin <= vl[i].begin
                    /\ vl[i - 1].end = vl[i].begin

\* A list that starts anew has no predecessor to follow.
LEMMA DummyChain == ASSUME NEW c \in Nat PROVE Chain(<<DummyVersion>>, c)
  BY DEF Chain, DummyVersion, Version

\* A private version is not part of the chain.
LEMMA NewVersionChain ==
    ASSUME NEW vl \in Seq(VersionType(TIDs)), NEW t \in TIDs, NEW c \in Nat,
           Chain(vl, c)
    PROVE  Chain(NewVersion(vl, t), c)
  <1> DEFINE nl == NewVersion(vl, t)
             n == Len(vl)
  <1>1. n \in Nat
    BY LenProperties
  <1>2. /\ Len(nl) = n + 1
        /\ nl[n + 1] = Version(INVALID, t, {})
        /\ \A i \in 1..n : nl[i] = vl[i]
    BY TIDFacts, NewVersionFacts
  <1> HIDE DEF nl
  <1>3. SUFFICES ASSUME NEW i \in 1..Len(nl), nl[i].begin # INVALID
                 PROVE  /\ nl[i].begin <= c
                        /\ i > 1 => /\ nl[i - 1].begin <= nl[i].begin
                                    /\ nl[i - 1].end = nl[i].begin
    BY DEF Chain, nl
  <1>4. i \in 1..n
    BY <1>1, <1>2, <1>3 DEF Version
  <1>5. i > 1 => i - 1 \in 1..n
    BY <1>1, <1>4
  <1> HIDE DEF n
  <1>6. QED
    BY <1>2, <1>3, <1>4, <1>5 DEF Chain, n

\* The first versions of a chain are a chain.
LEMMA PopChain ==
    ASSUME NEW vl \in Seq(VersionType(TIDs)), vl # <<>>, NEW c \in Nat,
           Chain(vl, c)
    PROVE  Chain(Pop(vl), c)
  <1> DEFINE nl == Pop(vl)
             n == Len(vl)
  <1>1. n \in Nat /\ n > 0
    BY LenProperties
  <1>2. Len(nl) = n - 1 /\ \A i \in 1..(n - 1) : nl[i] = vl[i]
    BY PopFacts
  <1> HIDE DEF nl
  <1>3. SUFFICES ASSUME NEW i \in 1..Len(nl), nl[i].begin # INVALID
                 PROVE  /\ nl[i].begin <= c
                        /\ i > 1 => /\ nl[i - 1].begin <= nl[i].begin
                                    /\ nl[i - 1].end = nl[i].begin
    BY DEF Chain, nl
  <1>4. i \in 1..n /\ i \in 1..(n - 1) /\ (i > 1 => i - 1 \in 1..(n - 1))
    BY <1>1, <1>2, <1>3
  <1> HIDE DEF n
  <1>5. QED
    BY <1>2, <1>3, <1>4 DEF Chain, n

\* Writing changes no ID of a version.
LEMMA WriteVersionChain ==
    ASSUME NEW vl \in Seq(VersionType(TIDs)), NEW t \in TIDs, NEW c \in Nat,
           Chain(vl, c)
    PROVE  Chain(WriteVersion(vl, t), c)
  <1> DEFINE nl == WriteVersion(vl, t)
             n == Len(vl)
  <1>1. n \in Nat
    BY LenProperties
  <1>2. /\ Len(nl) = n
        /\ \A i \in 1..n : nl[i] =
             IF i = n THEN Version(vl[i].begin, vl[i].end, vl[i].data \cup {t})
             ELSE vl[i]
    BY WriteVersionFacts
  <1> HIDE DEF nl
  <1>3. \A i \in 1..n : nl[i].begin = vl[i].begin /\ nl[i].end = vl[i].end
    <2> TAKE i \in 1..n
    <2>1. \/ nl[i] = Version(vl[i].begin, vl[i].end, vl[i].data \cup {t})
          \/ nl[i] = vl[i]
      BY <1>2
    <2> HIDE DEF n
    <2>2. QED
      BY <2>1, VersionFields
  <1>4. SUFFICES ASSUME NEW i \in 1..n, nl[i].begin # INVALID
                 PROVE  /\ nl[i].begin <= c
                        /\ i > 1 => /\ nl[i - 1].begin <= nl[i].begin
                                    /\ nl[i - 1].end = nl[i].begin
    BY <1>2 DEF Chain, nl
  <1>5. i > 1 => i - 1 \in 1..n
    BY <1>1, <1>4
  <1> HIDE DEF n
  <1>6. QED
    BY <1>3, <1>4, <1>5 DEF Chain, n

\* A stamp that is no earlier than the versions before it extends the chain
\* and closes the version it follows.
LEMMA StampChain ==
    ASSUME NEW vl \in Seq(VersionType(TIDs)), NEW d \in Nat, NEW c \in Nat,
           WellFormed(vl), Last(vl).begin = INVALID, Chain(vl, c), d <= c,
           \A i \in 1..(Len(vl) - 1) : vl[i].begin <= d
    PROVE  Chain(Stamp(vl, d), c)
  <1> DEFINE nl == Stamp(vl, d)
             n == Len(vl)
  <1>1. n \in Nat /\ n > 1
    BY LenProperties DEF WellFormed
  <1>2. /\ Len(nl) = n
        /\ \A i \in 1..n : nl[i] =
             IF i = n THEN Version(d, INVALID, vl[i].data)
             ELSE IF i = n - 1 THEN Version(vl[i].begin, d, vl[i].data)
             ELSE vl[i]
    BY StampFacts
  <1>3. \A i \in 1..(n - 1) : vl[i].begin # INVALID
    BY DEF WellFormed
  <1> HIDE DEF nl
  <1>4. SUFFICES ASSUME NEW i \in 1..n
                 PROVE  /\ nl[i].begin <= c
                        /\ i > 1 => /\ nl[i - 1].begin <= nl[i].begin
                                    /\ nl[i - 1].end = nl[i].begin
    BY <1>2 DEF Chain, nl
  <1>5. i > 1 => i - 1 \in 1..n
    BY <1>1, <1>4
  <1>6. CASE i = n
    <2>1. nl[i] = Version(d, INVALID, vl[i].data)
      BY <1>2, <1>6
    <2>2. nl[i - 1] = Version(vl[i - 1].begin, d, vl[i - 1].data)
      BY <1>1, <1>2, <1>5, <1>6
    <2>3. vl[i - 1].begin <= d
      BY <1>1, <1>6
    <2>4. QED
      BY <2>1, <2>2, <2>3 DEF Version
  <1>7. CASE i # n
    <2>1. nl[i].begin = vl[i].begin
      <3>1. \/ nl[i] = Version(vl[i].begin, d, vl[i].data)
            \/ nl[i] = vl[i]
        BY <1>2, <1>7
      <3> HIDE DEF n
      <3>2. QED
        BY <3>1, VersionFields
    <2>2. i \in 1..(n - 1)
      BY <1>1, <1>7
    <2>3. vl[i].begin # INVALID
      BY <1>3, <2>2
    <2>4. i > 1 => nl[i - 1] = vl[i - 1]
      BY <1>1, <1>2, <1>5, <2>2
    <2> HIDE DEF n
    <2>5. QED
      BY <2>1, <2>3, <2>4, <1>4 DEF Chain, n
  <1>8. QED
    BY <1>6, <1>7

-----------------------------------------------------------------------------
(* Keys                                                                    *)

LEMMA ChainOfKeys == VersionChain <=> \A k \in Keys : Chain(vList[k], cnt)
  BY DEF VersionChain, Chain

\* A step on the list of one key.
LEMMA OneListChain ==
    ASSUME TypeOK, VersionChain, NEW k \in Keys, NEW vl,
           vList' = [vList EXCEPT ![k] = vl], cnt' = cnt, Chain(vl, cnt)
    PROVE  VersionChain'
  <1>1. \A j \in Keys : vList'[j] = vList[j] \/ (j = k /\ vList'[j] = vl)
    BY DEF TypeOK
  <1>2. \A j \in Keys : Chain(vList[j], cnt)
    BY ChainOfKeys
  <1>3. \A j \in Keys : Chain(vList'[j], cnt')
    BY <1>1, <1>2
  <1>4. QED
    BY <1>3 DEF VersionChain, Chain

\* The committing transactions may own fewer keys than before, and the lists
\* of those they still own have not changed.
LEMMA CommitIDStays ==
    ASSUME TypeOK, CommitIDInv, cnt \in Nat, cnt' \in Nat, cnt <= cnt',
           \A u \in TIDs : phase'[u] \in {"commitShared", "commitExclusive"} =>
              /\ phase[u] \in {"commitShared", "commitExclusive"}
              /\ cid'[u] = cid[u]
              /\ Owned(u)' \subseteq Owned(u)
              /\ \A k \in Owned(u)' : vList'[k] = vList[k]
    PROVE  CommitIDInv'
  <1>1. \A u \in TIDs : cid[u] \in Nat
    BY DEF TypeOK
  <1>2. SUFFICES ASSUME NEW u \in TIDs,
                        phase'[u] \in {"commitShared", "commitExclusive"}
                 PROVE  /\ cid'[u] <= cnt'
                        /\ \A k \in Owned(u)' :
                             \A i \in 1..(Len(vList'[k]) - 1) :
                                vList'[k][i].begin <= cid'[u]
    BY DEF CommitIDInv
  <1>3. /\ cid[u] <= cnt
        /\ \A k \in Owned(u) : \A i \in 1..(Len(vList[k]) - 1) :
              vList[k][i].begin <= cid[u]
    BY <1>2 DEF CommitIDInv
  <1>4. /\ cid'[u] = cid[u]
        /\ Owned(u)' \subseteq Owned(u)
        /\ \A k \in Owned(u)' : vList'[k] = vList[k]
    BY <1>2
  <1>5. cid'[u] <= cnt'
    BY <1>1, <1>3, <1>4
  <1>6. QED
    BY <1>3, <1>4, <1>5

LEMMA InitChain == Init => VersionChain /\ CommitIDInv
  <1> SUFFICES ASSUME Init PROVE VersionChain /\ CommitIDInv
    OBVIOUS
  <1>1. cnt \in Nat
    BY DEF Init
  <1>2. \A k \in Keys : Chain(vList[k], cnt)
    BY <1>1, DummyChain DEF Init
  <1>3. CommitIDInv
    BY DEF Init, CommitIDInv
  <1>4. QED
    BY <1>2, <1>3, ChainOfKeys

-----------------------------------------------------------------------------
(* Steps                                                                   *)

\* The next TID only grows.
LEMMA CntGrows ==
    ASSUME TypeOK, cnt' \in {cnt, cnt + 1}
    PROVE  cnt \in Nat /\ cnt' \in Nat /\ cnt <= cnt'
  BY DEF TypeOK

\* A chain stays one when the next TID grows.
LEMMA QuietChain ==
    ASSUME TypeOK, VersionChain, vList' = vList, cnt' \in {cnt, cnt + 1}
    PROVE  VersionChain'
  <1>1. cnt \in Nat /\ cnt' \in Nat /\ cnt <= cnt'
    BY CntGrows
  <1>2. ASSUME NEW k \in Keys, NEW i \in 1..Len(vList[k])
        PROVE  vList[k][i].begin \in Nat
    <2>1. vList[k] \in Seq(VersionType(TIDs))
      BY DEF TypeOK
    <2>2. vList[k][i] \in VersionType(TIDs)
      BY <2>1, ElementOfSeq
    <2>3. QED
      BY <2>2 DEF VersionType
  <1>3. QED
    BY <1>1, <1>2 DEF VersionChain

\* Between the loops: Commit takes the next TID for its commit ID.
LEMMA ThreadChain ==
    ASSUME TypeOK, PhaseInv, VersionOwner, VersionChain, CommitIDInv,
           NEW t \in TIDs,
           \/ Begin(t) \/ StartTriple(t) \/ Locked(t) \/ Undone(t)
           \/ Written(t) \/ StartCommit(t) \/ StartAbort(t)
           \/ SharedReleased(t) \/ FinishCommit(t) \/ FinishAbort(t)
    PROVE  VersionChain' /\ CommitIDInv'
  <1>1. /\ vList' = vList /\ cnt' \in {cnt, cnt + 1}
        /\ \A u \in TIDs : Owned(u)' = Owned(u)
        /\ \A u \in TIDs \ {t} : phase'[u] = phase[u] /\ cid'[u] = cid[u]
    BY ThreadSteps
  <1>2. VersionChain'
    BY <1>1, QuietChain
  <1>3. cnt \in Nat /\ cnt' \in Nat /\ cnt <= cnt'
    BY <1>1, CntGrows
  <1>4. CASE phase'[t] \in {"commitShared", "commitExclusive"} =>
               /\ phase[t] \in {"commitShared", "commitExclusive"}
               /\ cid'[t] = cid[t]
    <2>1. CommitIDInv'
      BY <1>1, <1>3, <1>4, CommitIDStays
    <2>2. QED
      BY <1>2, <2>1
  <1>5. CASE StartCommit(t)
    <2>1. cid'[t] = cnt /\ cnt' = cnt
      BY <1>5 DEF StartCommit, ArrangeCommitID, TypeOK, mgrVars
    <2>2. SUFFICES ASSUME NEW u \in TIDs,
                          phase'[u] \in {"commitShared", "commitExclusive"}
                   PROVE  /\ cid'[u] <= cnt'
                          /\ \A k \in Owned(u)' :
                               \A i \in 1..(Len(vList'[k]) - 1) :
                                  vList'[k][i].begin <= cid'[u]
      BY <1>2 DEF CommitIDInv
    <2>3. CASE u = t
      <3>1. Owned(t) \subseteq Keys
        BY DEF Owned, TypeOK
      <3>2. ASSUME NEW k \in Keys, NEW i \in 1..(Len(vList[k]) - 1)
            PROVE  vList[k][i].begin <= cnt
        <4>1. vList[k] \in Seq(VersionType(TIDs))
          BY DEF TypeOK
        <4>2. i \in 1..Len(vList[k])
          BY <4>1, LenProperties
        <4>3. vList[k][i].begin # INVALID
          BY DEF VersionOwner, WellFormed
        <4>4. QED
          BY <4>2, <4>3 DEF VersionChain
      <3>3. QED
        BY <1>1, <1>3, <2>1, <2>3, <3>1, <3>2
    <2>4. CASE u # t
      BY <1>1, <2>1, <2>2, <2>4 DEF CommitIDInv
    <2>5. QED
      BY <2>3, <2>4
  <1>6. \/ StartCommit(t)
        \/ phase'[t] \in {"commitShared", "commitExclusive"} =>
               /\ phase[t] \in {"commitShared", "commitExclusive"}
               /\ cid'[t] = cid[t]
    <2> USE DEF TypeOK, txnVars, ctlVars
    <2>1. CASE \/ Begin(t) \/ StartTriple(t) \/ Locked(t) \/ Undone(t)
               \/ Written(t)
      BY <2>1 DEF Begin, StartTriple, Locked, Undone, Written
    <2>2. CASE \/ StartAbort(t) \/ SharedReleased(t) \/ FinishCommit(t)
               \/ FinishAbort(t)
      BY <2>2 DEF StartAbort, SharedReleased, FinishCommit, FinishAbort
    <2>3. QED
      BY <2>1, <2>2
  <1>7. QED
    BY <1>2, <1>4, <1>5, <1>6

LEMMA ReadOrReleaseChain ==
    ASSUME TypeOK, VersionChain, CommitIDInv, NEW t \in TIDs, NEW k \in Keys,
           Read(t, k) \/ ReleaseShared(t, k)
    PROVE  VersionChain' /\ CommitIDInv'
  <1>1. /\ vList' = vList /\ cnt' \in {cnt, cnt + 1} /\ phase' = phase
        /\ cid' = cid
        /\ \A u \in TIDs : Owned(u)' = Owned(u)
    BY QuietSteps
  <1>2. QED
    BY <1>1, QuietChain, CntGrows, CommitIDStays

LEMMA LockChain ==
    ASSUME TypeOK, PhaseInv, VersionOwner, VersionChain, CommitIDInv,
           NEW t \in TIDs, NEW k \in Keys, Lock(t, k)
    PROVE  VersionChain' /\ CommitIDInv'
  <1>1. /\ cnt' \in {cnt, cnt + 1} /\ cid' = cid
        /\ phase'[t] \in {"lock", "undo"}
        /\ \A u \in TIDs \ {t} : phase'[u] = phase[u] /\ Owned(u)' = Owned(u)
    BY LockSteps DEF TypeOK
  <1>2. CASE vList' = vList
    BY <1>1, <1>2, QuietChain, CntGrows, CommitIDStays
  <1>3. CASE /\ \A u \in TIDs : k \notin Owned(u)
             /\ vList' = [vList EXCEPT ![k] = NewVersion(vList[k], t)]
    <2>1. /\ vList[k] \in Seq(VersionType(TIDs)) /\ cnt \in Nat
          /\ cnt' = cnt /\ Chain(vList[k], cnt)
      BY LockSteps, ChainOfKeys DEF TypeOK
    <2>2. VersionChain'
      BY <1>3, <2>1, NewVersionChain, OneListChain
    <2>3. \A u \in TIDs : Owned(u) \subseteq Keys
      BY DEF Owned, TypeOK
    <2>4. \A j \in Keys \ {k} : vList'[j] = vList[j]
      BY <1>3 DEF TypeOK
    <2>5. CommitIDInv'
      BY <1>1, <1>3, <2>3, <2>4, CntGrows, CommitIDStays
    <2>6. QED
      BY <2>2, <2>5
  <1>4. QED
    BY <1>2, <1>3, LockSteps

LEMMA WriteChain ==
    ASSUME TypeOK, PhaseInv, VersionOwner, VersionChain, CommitIDInv,
           NEW t \in TIDs, NEW k \in Keys, Write(t, k)
    PROVE  VersionChain' /\ CommitIDInv'
  <1>1. /\ cnt' = cnt /\ cid' = cid /\ phase' = phase /\ phase[t] = "write"
        /\ vList' = [vList EXCEPT ![k] = WriteVersion(vList[k], t)]
        /\ \A u \in TIDs : Owned(u)' = Owned(u)
        /\ \A u \in TIDs \ {t} : k \notin Owned(u)
    BY WriteSteps
  <1>2. /\ vList[k] \in Seq(VersionType(TIDs)) /\ cnt \in Nat
        /\ Chain(vList[k], cnt)
    BY ChainOfKeys DEF TypeOK
  <1>3. VersionChain'
    BY <1>1, <1>2, WriteVersionChain, OneListChain
  <1>4. \A u \in TIDs : Owned(u) \subseteq Keys
    BY DEF Owned, TypeOK
  <1>5. \A j \in Keys \ {k} : vList'[j] = vList[j]
    BY <1>1 DEF TypeOK
  <1>6. CommitIDInv'
    BY <1>1, <1>4, <1>5, CntGrows, CommitIDStays
  <1>7. QED
    BY <1>3, <1>6

\* The stamp of a committing transaction extends the chain of the key.
LEMMA GiveBackChain ==
    ASSUME TypeOK, PhaseInv, VersionOwner, VersionChain, CommitIDInv,
           NEW t \in TIDs, NEW k \in Keys,
           Undo(t, k) \/ CommitKey(t, k) \/ AbortKey(t, k)
    PROVE  VersionChain' /\ CommitIDInv'
  <1> DEFINE vl == IF phase[t] = "commitExclusive" THEN Stamp(vList[k], cid[t])
                                                   ELSE Pop(vList[k])
  <1>1. /\ cnt' = cnt /\ cid' = cid /\ phase' = phase
        /\ k \in Owned(t)
        /\ WellFormed(vList[k]) /\ Private(Last(vList[k]), t)
        /\ \A u \in TIDs \ {t} : k \notin Owned(u) /\ Owned(u)' = Owned(u)
    BY GiveBackSteps
  <1>2. CASE vList' = vList /\ Owned(t)' = Owned(t)
    BY <1>1, <1>2, QuietChain, CntGrows, CommitIDStays
  <1>3. CASE vList' = [vList EXCEPT ![k] = vl] /\ Owned(t)' = Owned(t) \ {k}
    <2>1. /\ vList[k] \in Seq(VersionType(TIDs)) /\ cnt \in Nat
          /\ cid[t] \in Nat /\ Chain(vList[k], cnt)
      BY ChainOfKeys DEF TypeOK
    <2>2. Chain(vl, cnt)
      <3>1. CASE phase[t] = "commitExclusive"
        <4>1. /\ cid[t] <= cnt
              /\ \A i \in 1..(Len(vList[k]) - 1) : vList[k][i].begin <= cid[t]
          BY <1>1, <3>1 DEF CommitIDInv
        <4>2. Chain(Stamp(vList[k], cid[t]), cnt)
          BY <1>1, <2>1, <4>1, StampChain DEF Private
        <4>3. QED
          BY <3>1, <4>2
      <3>2. CASE phase[t] # "commitExclusive"
        BY <1>1, <2>1, <3>2, PopChain DEF WellFormed
      <3>3. QED
        BY <3>1, <3>2
    <2> HIDE DEF vl
    <2>3. VersionChain'
      BY <1>1, <1>3, <2>2, OneListChain
    <2>4. \A u \in TIDs : Owned(u) \subseteq Keys
      BY DEF Owned, TypeOK
    <2>5. \A j \in Keys \ {k} : vList'[j] = vList[j]
      BY <1>3 DEF TypeOK
    <2>6. CommitIDInv'
      BY <1>1, <1>3, <2>4, <2>5, CntGrows, CommitIDStays
    <2>7. QED
      BY <2>3, <2>6
  <1>4. QED
    BY <1>2, <1>3, GiveBackSteps

LEMMA CheckpointChain ==
    ASSUME TypeOK, VersionChain, CheckpointAlone, Checkpoint
    PROVE  VersionChain' /\ CommitIDInv'
  <1>1. /\ cnt' = cnt /\ cnt \in Nat
        /\ \A k \in Keys : vList'[k] \in {vList[k], <<DummyVersion>>}
    <2>1. /\ cnt' = cnt
          /\ \A k \in Keys : vList'[k] = vList[k] \/ vList'[k] = <<DummyVersion>>
      BY CheckpointSteps, Zenon
    <2>2. cnt \in Nat
      BY DEF TypeOK
    <2>3. QED
      BY <2>1, <2>2
  <1>2. \A k \in Keys : Chain(vList'[k], cnt')
    BY <1>1, DummyChain, ChainOfKeys
  <1>3. CommitIDInv'
    BY CheckpointSteps DEF CommitIDInv
  <1>4. QED
    BY <1>2, <1>3 DEF VersionChain, Chain

\* The committed versions of a key follow one another without gap or overlap,
\* in the order of their commit IDs, and none is later than the next TID.
THEOREM VersionsChain == Spec => []VersionChain
  <1> DEFINE Inv == VersionChain /\ CommitIDInv
  <1>1. Init => Inv
    BY InitChain
  <1>2. /\ TypeOK /\ PhaseInv /\ VersionOwner /\ CheckpointAlone
        /\ Inv /\ [Next]_vars
        => Inv'
    <2> SUFFICES ASSUME TypeOK, PhaseInv, VersionOwner, CheckpointAlone, Inv,
                        [Next]_vars
                 PROVE  Inv'
      OBVIOUS
    <2>1. CASE UNCHANGED vars
      BY <2>1 DEF vars, mgrVars, entryVars, txnVars, ctlVars, VersionChain,
                  CommitIDInv, Owned
    <2>2. QED
      BY <2>1, ThreadChain, ReadOrReleaseChain, LockChain, WriteChain,
         GiveBackChain, CheckpointChain
      DEF Next, TxnStep
  <1>3. Spec => [](TypeOK /\ PhaseInv)
    BY InitTypeOK, InitPhaseInv, NextTypeOK, NextPhaseInv, PTL DEF Spec
  <1>4. QED
    BY <1>1, <1>2, <1>3, CheckpointRunsAlone, WritersExclude, PTL DEF Spec

-----------------------------------------------------------------------------
(* Owners and sharers of a latch                                           *)

\* The serializable transactions that own a key, and those that share it.
Owners(k) == {t \in TIDs : SR(t) /\ k \in Owned(t)}
Sharers(k) == {t \in TIDs : k \in Shared(t)}

\* The latch l stands for the owners O and the sharers S.
LatchSays(l, O, S) ==
    IF O = {}
    THEN l = [tid |-> INVALID, rcnt |-> Cardinality(S)]
    ELSE /\ S = {}
         /\ \A t \in O : l = [tid |-> t, rcnt |-> 1]

-----------------------------------------------------------------------------
(* One latch                                                               *)

LEMMA SharersFinite ==
    ASSUME NEW S \in SUBSET TIDs
    PROVE  IsFiniteSet(S) /\ Cardinality(S) \in Nat
  <1>1. IsFiniteSet(TIDs)
    BY MaxTxnAssumption, FS_Interval DEF TIDs
  <1>2. QED
    BY <1>1, FS_Subset, FS_CardinalityType

\* A transaction joins the sharers, ...
LEMMA ShareLatch ==
    ASSUME NEW l, NEW S \in SUBSET TIDs, NEW t \in TIDs \ S, LatchSays(l, {}, S)
    PROVE  LatchSays(LatchShared(l, t), {}, S \cup {t})
  <1>1. /\ IsFiniteSet(S) /\ Cardinality(S) \in Nat
        /\ Cardinality(S \cup {t}) = Cardinality(S) + 1
    BY SharersFinite, FS_AddElement
  <1>2. l = [tid |-> INVALID, rcnt |-> Cardinality(S)] /\ t # INVALID
    BY TIDFacts DEF LatchSays
  <1>3. LatchShared(l, t) = [tid |-> INVALID, rcnt |-> Cardinality(S) + 1]
    BY <1>2 DEF LatchShared
  <1>4. QED
    BY <1>1, <1>3 DEF LatchSays

\* ... and leaves them.
LEMMA UnshareLatch ==
    ASSUME NEW l, NEW S \in SUBSET TIDs, NEW t \in S, LatchSays(l, {}, S)
    PROVE  /\ CanUnlatchShared(l)
           /\ LatchSays(UnlatchShared(l), {}, S \ {t})
  <1>1. /\ IsFiniteSet(S) /\ Cardinality(S) \in Nat
        /\ Cardinality(S \ {t}) = Cardinality(S) - 1
    BY SharersFinite, FS_RemoveElement
  <1>2. Cardinality(S) # 0
    BY <1>1, FS_EmptySet
  <1>3. l = [tid |-> INVALID, rcnt |-> Cardinality(S)]
    BY DEF LatchSays
  <1>4. UnlatchShared(l) = [tid |-> INVALID, rcnt |-> Cardinality(S) - 1]
    BY <1>3 DEF UnlatchShared
  <1>5. QED
    BY <1>1, <1>2, <1>3, <1>4 DEF LatchSays, CanUnlatchShared

\* A latch that nobody owns and that can be taken, taken.
LEMMA OwnLatch ==
    ASSUME NEW l, NEW S \in SUBSET TIDs, NEW t \in TIDs, LatchSays(l, {}, S),
           IF t \in S THEN CanUpgrade(l) ELSE CanLatchExclusive(l, t)
    PROVE  /\ S \ {t} = {}
           /\ LatchSays(ExclusiveLatch(l, t, "SERIALIZABLE", t \in S),
                        {t}, {})
  <1>1. IsFiniteSet(S) /\ Cardinality(S) \in Nat
    BY SharersFinite
  <1>2. l = [tid |-> INVALID, rcnt |-> Cardinality(S)] /\ t # INVALID
    BY TIDFacts DEF LatchSays
  <1>3. CASE t \in S
    <2>1. Cardinality(S) = 1
      BY <1>2, <1>3 DEF CanUpgrade
    <2>2. S = {t}
      BY <1>1, <1>3, <2>1, FS_Singleton
    <2>3. Upgrade(l, t) = [tid |-> t, rcnt |-> 1]
      BY <1>2, <2>1 DEF Upgrade
    <2>4. QED
      BY <1>3, <2>2, <2>3 DEF LatchSays, ExclusiveLatch
  <1>4. CASE t \notin S
    <2>1. Cardinality(S) = 0
      BY <1>2, <1>4 DEF CanLatchExclusive
    <2>2. S = {}
      BY <1>1, <2>1, FS_EmptySet
    <2>3. LatchExclusive(l, t) = [tid |-> t, rcnt |-> 1]
      BY <1>2 DEF LatchExclusive
    <2>4. QED
      BY <1>4, <2>2, <2>3 DEF LatchSays, ExclusiveLatch
  <1>5. QED
    BY <1>3, <1>4

\* Its owner can give a latch back, or keep sharing it.
LEMMA DisownLatch ==
    ASSUME NEW l, NEW t \in TIDs, LatchSays(l, {t}, {}), NEW hasRead \in BOOLEAN
    PROVE  /\ CanInvalidate(l, t, "SERIALIZABLE", hasRead)
           /\ LatchSays(InvalidateLatch(l, "SERIALIZABLE", hasRead), {},
                        IF hasRead THEN {t} ELSE {})
  <1>1. l = [tid |-> t, rcnt |-> 1]
    BY DEF LatchSays
  <1>2. Cardinality({t}) = 1 /\ Cardinality({}) = 0
    BY FS_Singleton, FS_EmptySet
  <1>3. CanInvalidate(l, t, "SERIALIZABLE", hasRead)
    BY <1>1 DEF CanInvalidate, CanDowngrade, CanUnlatchExclusive
  <1>4. CASE hasRead
    <2>1. Downgrade(l) = [tid |-> INVALID, rcnt |-> 1]
      BY <1>1 DEF Downgrade
    <2>2. QED
      BY <1>2, <1>3, <1>4, <2>1 DEF LatchSays, InvalidateLatch
  <1>5. CASE ~hasRead
    <2>1. UnlatchExclusive(l) = [tid |-> INVALID, rcnt |-> 0]
      BY <1>1 DEF UnlatchExclusive
    <2>2. QED
      BY <1>2, <1>3, <1>5, <2>1 DEF LatchSays, InvalidateLatch
  <1>6. QED
    BY <1>4, <1>5

-----------------------------------------------------------------------------
(* All latches                                                             *)

LEMMA LatchOfKeys ==
    LatchExact <=>
      /\ ~crashed
      /\ \A k \in Keys : LatchSays(glatch[k], Owners(k), Sharers(k))
  BY DEF LatchExact, LatchSays, Owners, Sharers

\* Nobody takes or leaves a latch.
LEMMA NoLatchMoves ==
    ASSUME LatchExact, ~crashed', glatch' = glatch,
           \A k \in Keys : Owners(k)' = Owners(k) /\ Sharers(k)' = Sharers(k)
    PROVE  LatchExact'
  <1>1. \A k \in Keys : LatchSays(glatch[k], Owners(k), Sharers(k))
    BY LatchOfKeys
  <1>2. \A k \in Keys : LatchSays(glatch'[k], Owners(k)', Sharers(k)')
    BY <1>1
  <1>3. QED
    BY <1>2 DEF LatchExact, LatchSays, Owners, Sharers

\* t takes or leaves the latch of k.
LEMMA OneLatchMoves ==
    ASSUME TypeOK, LatchExact, ~crashed', NEW t \in TIDs, NEW k \in Keys, NEW l,
           glatch' = [glatch EXCEPT ![k] = l], iso' = iso,
           \A u \in TIDs \ {t} : Owned(u)' = Owned(u) /\ Shared(u)' = Shared(u),
           \A j \in Keys \ {k} : /\ j \in Owned(t)' <=> j \in Owned(t)
                                 /\ j \in Shared(t)' <=> j \in Shared(t),
           LatchSays(l, Owners(k)', Sharers(k)')
    PROVE  LatchExact'
  <1>1. \A j \in Keys \ {k} :
          Owners(j)' = Owners(j) /\ Sharers(j)' = Sharers(j)
    BY DEF Owners, Sharers, SR
  <1>2. \A j \in Keys \ {k} : LatchSays(glatch[j], Owners(j), Sharers(j))
    BY LatchOfKeys
  <1>3. glatch'[k] = l /\ \A j \in Keys \ {k} : glatch'[j] = glatch[j]
    BY DEF TypeOK
  <1>4. \A j \in Keys : LatchSays(glatch'[j], Owners(j)', Sharers(j)')
    BY <1>1, <1>2, <1>3
  <1>5. QED
    BY <1>4 DEF LatchExact, LatchSays, Owners, Sharers

LEMMA InitLatch == Init => LatchExact /\ ReadSetInv
  <1> SUFFICES ASSUME Init PROVE LatchExact /\ ReadSetInv
    OBVIOUS
  <1>1. \A k \in Keys : Owners(k) = {} /\ Sharers(k) = {}
    BY DEF Init, Owners, Sharers, Owned, Shared
  <1>2. \A k \in Keys : LatchSays(glatch[k], Owners(k), Sharers(k))
    BY <1>1, FS_EmptySet DEF Init, LatchSays, Unlatched
  <1>3. QED
    BY <1>2, LatchOfKeys DEF Init, ReadSetInv

\* What a transaction shares depends on its own thread only.
LEMMA OthersShare ==
    ASSUME NEW t \in TIDs,
           \A u \in TIDs \ {t} : /\ phase'[u] = phase[u] /\ todo'[u] = todo[u]
                                 /\ readSet'[u] = readSet[u]
                                 /\ Owned(u)' = Owned(u)
    PROVE  \A u \in TIDs \ {t} : Shared(u)' = Shared(u)
  BY DEF Shared

\* The steps between the loops: Commit and Abort go on to give back exactly
\* the shared latches that the transaction has.
LEMMA ThreadLatch ==
    ASSUME TypeOK, PhaseInv, LatchExact, ReadSetInv, NEW t \in TIDs,
           \/ Begin(t) \/ StartTriple(t) \/ Locked(t) \/ Undone(t)
           \/ Written(t) \/ StartCommit(t) \/ StartAbort(t)
           \/ SharedReleased(t) \/ FinishCommit(t) \/ FinishAbort(t)
    PROVE  LatchExact' /\ ReadSetInv'
  <1>1. /\ UNCHANGED <<glatch, readSet, crashed>> /\ ~crashed
        /\ \A u \in TIDs \ {t} : /\ phase'[u] = phase[u] /\ todo'[u] = todo[u]
                                 /\ iso'[u] = iso[u]
        /\ \A u \in TIDs : Owned(u)' = Owned(u)
    BY ThreadSteps
  <1>2. Shared(t)' = Shared(t)
    <2> USE DEF TypeOK, txnVars, ctlVars, entryVars, mgrVars
    <2>1. CASE Begin(t)
      BY <2>1 DEF Begin, Shared, Owned, PhaseInv, TIDs
    <2>2. CASE StartTriple(t)
      BY <2>2 DEF StartTriple, Shared, Owned
    <2>3. CASE Locked(t)
      BY <2>3 DEF Locked, Shared, Owned
    <2>4. CASE Undone(t)
      BY <2>4 DEF Undone, Shared, Owned
    <2>5. CASE Written(t)
      BY <2>5 DEF Written, Shared, Owned, PhaseInv
    <2>6. CASE StartCommit(t)
      BY <2>6 DEF StartCommit, Shared, Owned, SharedOnly, ReadSetInv
    <2>7. CASE StartAbort(t)
      BY <2>7 DEF StartAbort, Shared, Owned, SharedOnly, ReadSetInv
    <2>8. CASE SharedReleased(t)
      BY <2>8 DEF SharedReleased, Shared
    <2>9. CASE FinishCommit(t)
      BY <2>9 DEF FinishCommit, Shared
    <2>10. CASE FinishAbort(t)
      BY <2>10 DEF FinishAbort, Shared
    <2>11. QED
      BY <2>1, <2>2, <2>3, <2>4, <2>5, <2>6, <2>7, <2>8, <2>9, <2>10
  <1>3. iso'[t] = iso[t] \/ (Owned(t) = {} /\ readSet[t] = {})
    <2> USE DEF TypeOK, txnVars, ctlVars, entryVars, mgrVars
    <2>1. CASE Begin(t)
      BY <2>1 DEF Begin, Owned, PhaseInv, TIDs
    <2>2. CASE ~Begin(t)
      BY <2>2 DEF StartTriple, Locked, Undone, Written, StartCommit, StartAbort,
                  SharedReleased, FinishCommit, FinishAbort
    <2>3. QED
      BY <2>1, <2>2
  <1>4. \A u \in TIDs : Shared(u)' = Shared(u)
    BY <1>1, <1>2, OthersShare
  <1>5. \A k \in Keys : Owners(k)' = Owners(k) /\ Sharers(k)' = Sharers(k)
    BY <1>1, <1>3, <1>4 DEF Owners, Sharers, SR
  <1>6. LatchExact'
    BY <1>1, <1>5, NoLatchMoves
  <1>7. ReadSetInv'
    BY <1>1, <1>3 DEF ReadSetInv, SR
  <1>8. QED
    BY <1>6, <1>7

\* The first read of a key that a serializable transaction can see takes a
\* shared latch, which is free: nobody owns a key whose last version is
\* committed.
LEMMA ReadLatch ==
    ASSUME TypeOK, VersionOwner, LatchExact, ReadSetInv,
           NEW t \in TIDs, NEW k \in Keys, Read(t, k)
    PROVE  LatchExact' /\ ReadSetInv'
  <1> DEFINE latches == ReadLatches(vList[k], t, iso[t], k \notin readSet[t])
  <1>1. /\ iso' = iso /\ phase' = phase
        /\ \A u \in TIDs \ {t} : todo'[u] = todo[u] /\ readSet'[u] = readSet[u]
        /\ \A u \in TIDs : Owned(u)' = Owned(u)
    BY QuietSteps
  <1>2. /\ phase[t] = "idle" /\ ~crashed /\ ~crashed'
        /\ \/ /\ latches
              /\ glatch' = [glatch EXCEPT ![k] = LatchShared(glatch[k], t)]
              /\ readSet' = [readSet EXCEPT ![t] = @ \cup {k}]
           \/ UNCHANGED <<glatch, readSet>>
    BY Zenon DEF Read
  <1>3. \A u \in TIDs \ {t} : Shared(u)' = Shared(u)
    BY <1>1, OthersShare
  <1>4. CASE UNCHANGED <<glatch, readSet>>
    <2>1. Shared(t)' = Shared(t)
      BY <1>1, <1>2, <1>4 DEF Shared
    <2>2. \A j \in Keys : Owners(j)' = Owners(j) /\ Sharers(j)' = Sharers(j)
      BY <1>1, <1>3, <2>1 DEF Owners, Sharers, SR
    <2>3. QED
      BY <1>1, <1>2, <1>4, <2>2, NoLatchMoves DEF ReadSetInv, SR
  <1>5. CASE /\ latches
             /\ glatch' = [glatch EXCEPT ![k] = LatchShared(glatch[k], t)]
             /\ readSet' = [readSet EXCEPT ![t] = @ \cup {k}]
    <2>1. /\ SR(t) /\ k \notin readSet[t]
          /\ Last(vList[k]).begin <= t
      BY <1>5 DEF ReadLatches, CheckHead, SR
    <2>2. Last(vList[k]).begin # INVALID
      BY <2>1, MaxTxnAssumption, InvalidAssumption DEF TIDs
    <2>3. \A u \in TIDs : k \notin Owned(u)
      BY <2>2 DEF VersionOwner, Private
    <2>4. readSet'[t] = readSet[t] \cup {k}
      BY <1>5 DEF TypeOK
    <2>5. Shared(t) = readSet[t] \ Owned(t) /\ Shared(t)' = Shared(t) \cup {k}
      BY <1>1, <1>2, <2>3, <2>4 DEF Shared
    <2>6. /\ Owners(k) = {} /\ Owners(k)' = {}
          /\ t \notin Sharers(k) /\ Sharers(k)' = Sharers(k) \cup {t}
      BY <1>1, <1>3, <2>1, <2>3, <2>5 DEF Owners, Sharers
    <2>7. LatchSays(glatch[k], {}, Sharers(k))
      BY <2>6, LatchOfKeys
    <2>8. LatchSays(LatchShared(glatch[k], t), Owners(k)', Sharers(k)')
      BY <2>6, <2>7, ShareLatch DEF Sharers
    <2>9. LatchExact'
      BY <1>1, <1>2, <1>3, <1>5, <2>5, <2>8, OneLatchMoves
    <2>10. ReadSetInv'
      BY <1>1, <2>1 DEF ReadSetInv, SR
    <2>11. QED
      BY <2>9, <2>10
  <1>6. QED
    BY <1>2, <1>4, <1>5

\* Giving a shared latch back never fails.
LEMMA ReleaseLatch ==
    ASSUME TypeOK, LatchExact, ReadSetInv,
           NEW t \in TIDs, NEW k \in Keys, ReleaseShared(t, k)
    PROVE  LatchExact' /\ ReadSetInv'
  <1>1. /\ iso' = iso /\ phase' = phase
        /\ \A u \in TIDs \ {t} : todo'[u] = todo[u] /\ readSet'[u] = readSet[u]
        /\ \A u \in TIDs : Owned(u)' = Owned(u)
    BY QuietSteps
  <1>2. /\ phase[t] \in {"commitShared", "abortShared"}
        /\ k \in todo[t] /\ readSet' = readSet
        /\ CanUnlatchShared(glatch[k]) =>
             /\ glatch' = [glatch EXCEPT ![k] = UnlatchShared(glatch[k])]
             /\ todo' = [todo EXCEPT ![t] = @ \ {k}]
             /\ ~crashed'
    BY DEF ReleaseShared, IsNext, txnVars
  <1>3. Shared(t) = todo[t] /\ Shared(t)' = todo'[t]
    BY <1>1, <1>2 DEF Shared
  <1>4. t \in Sharers(k)
    BY <1>2, <1>3 DEF Sharers
  <1>5. Owners(k) = {} /\ LatchSays(glatch[k], {}, Sharers(k))
    <2>1. LatchSays(glatch[k], Owners(k), Sharers(k))
      BY LatchOfKeys
    <2>2. QED
      BY <1>4, <2>1 DEF LatchSays
  <1>6. /\ CanUnlatchShared(glatch[k])
        /\ LatchSays(UnlatchShared(glatch[k]), {}, Sharers(k) \ {t})
    BY <1>4, <1>5, UnshareLatch DEF Sharers
  <1>7. Shared(t)' = Shared(t) \ {k}
    BY <1>2, <1>3, <1>6 DEF TypeOK
  <1>8. \A u \in TIDs \ {t} : Shared(u)' = Shared(u)
    BY <1>1, OthersShare
  <1>9. Owners(k)' = {} /\ Sharers(k)' = Sharers(k) \ {t}
    BY <1>1, <1>5, <1>7, <1>8 DEF Owners, Sharers, SR
  <1>10. LatchSays(UnlatchShared(glatch[k]), Owners(k)', Sharers(k)')
    BY <1>6, <1>9
  <1>11. LatchExact'
    BY <1>1, <1>2, <1>6, <1>7, <1>8, <1>10, OneLatchMoves
  <1>12. QED
    BY <1>1, <1>2, <1>11 DEF ReadSetInv, SR

\* Locking: a serializable transaction takes a latch nobody owns, or turns its
\* own shared latch, the only one, into an exclusive one; the assert of
\* tryupgradelatch holds.
LEMMA LockLatch ==
    ASSUME TypeOK, PhaseInv, VersionOwner, LatchExact, ReadSetInv,
           NEW t \in TIDs, NEW k \in Keys, Lock(t, k)
    PROVE  LatchExact' /\ ReadSetInv'
  <1> DEFINE hasRead == k \in readSet[t]
  <1>1. /\ UNCHANGED <<iso, readSet>>
        /\ phase[t] = "lock" /\ phase'[t] \in {"lock", "undo"} /\ ~crashed
        /\ k \notin Owned(t)
        /\ \A u \in TIDs \ {t} : /\ phase'[u] = phase[u] /\ todo'[u] = todo[u]
                                 /\ Owned(u)' = Owned(u)
    BY LockSteps DEF TypeOK
  <1>2. \A u \in TIDs \ {t} : Shared(u)' = Shared(u)
    BY <1>1, OthersShare
  <1>3. Shared(t) = readSet[t] \ Owned(t) /\ Shared(t)' = readSet[t] \ Owned(t)'
    BY <1>1 DEF Shared
  <1>4. ReadSetInv'
    BY <1>1 DEF ReadSetInv, SR
  <1>5. CASE /\ UNCHANGED <<vList, glatch>>
             /\ Owned(t)' = Owned(t)
             /\ crashed' = UpgradeAsserts(vList[k], glatch[k], t, iso[t], hasRead)
    <2>1. \A j \in Keys : Owners(j)' = Owners(j) /\ Sharers(j)' = Sharers(j)
      BY <1>1, <1>2, <1>3, <1>5 DEF Owners, Sharers, SR
    <2>2. ~crashed'
      <3>1. SUFFICES ASSUME crashed' PROVE FALSE
        OBVIOUS
      <3>2. CheckVersion(vList[k], t, iso[t]) /\ glatch[k].tid # INVALID
        BY <1>5, <3>1 DEF UpgradeAsserts
      <3>3. Last(vList[k]).begin # INVALID
        BY <1>1, <3>2 DEF CheckVersion, VersionOwner, Private
      <3>4. \A u \in TIDs : k \notin Owned(u)
        BY <3>3 DEF VersionOwner, Private
      <3>5. LatchSays(glatch[k], Owners(k), Sharers(k)) /\ Owners(k) = {}
        BY <3>4, LatchOfKeys DEF Owners
      <3>6. QED
        BY <3>2, <3>5 DEF LatchSays
    <2>3. QED
      BY <1>4, <1>5, <2>1, <2>2, NoLatchMoves
  <1>6. CASE /\ \A u \in TIDs : k \notin Owned(u)
             /\ CanGetExclusiveLatch(vList[k], glatch[k], t, iso[t], hasRead)
             /\ glatch' = [glatch EXCEPT ![k] =
                             ExclusiveLatch(glatch[k], t, iso[t], hasRead)]
             /\ ~crashed'
             /\ Owned(t)' = Owned(t) \cup {k}
    <2>1. LatchSays(glatch[k], {}, Sharers(k)) /\ Owners(k) = {}
      <3>1. LatchSays(glatch[k], Owners(k), Sharers(k)) /\ Owners(k) = {}
        BY <1>6, LatchOfKeys DEF Owners
      <3>2. QED
        BY <3>1
    <2>2. t \in Sharers(k) <=> hasRead
      BY <1>1, <1>3 DEF Sharers
    <2>3. Sharers(k)' = Sharers(k) \ {t}
      BY <1>2, <1>3, <1>6 DEF Sharers
    <2>4. LatchSays(ExclusiveLatch(glatch[k], t, iso[t], hasRead),
                    Owners(k)', Sharers(k)')
      <3>1. CASE SR(t)
        <4>1. Owners(k)' = {t}
          BY <1>1, <1>6, <3>1 DEF Owners, SR
        <4>2. IF hasRead THEN CanUpgrade(glatch[k])
                         ELSE CanLatchExclusive(glatch[k], t)
          BY <1>6, <3>1 DEF CanGetExclusiveLatch, SR
        <4>3. /\ Sharers(k) \ {t} = {}
              /\ LatchSays(ExclusiveLatch(glatch[k], t, "SERIALIZABLE", hasRead),
                           {t}, {})
          <5>1. Sharers(k) \in SUBSET TIDs
            BY DEF Sharers
          <5>2. hasRead = (t \in Sharers(k))
            BY <2>2
          <5> HIDE DEF hasRead
          <5>3. QED
            BY <2>1, <4>2, <5>1, <5>2, OwnLatch
        <4>4. QED
          BY <2>3, <3>1, <4>1, <4>3 DEF SR
      <3>2. CASE ~SR(t)
        <4>1. Owners(k)' = {} /\ readSet[t] = {}
          BY <1>1, <1>6, <3>2 DEF Owners, SR, ReadSetInv
        <4>2. Sharers(k)' = Sharers(k)
          BY <2>2, <2>3, <4>1
        <4>3. ExclusiveLatch(glatch[k], t, iso[t], hasRead) = glatch[k]
          BY <3>2 DEF ExclusiveLatch, SR
        <4>4. QED
          BY <2>1, <4>1, <4>2, <4>3
      <3>3. QED
        BY <3>1, <3>2
    <2>5. LatchExact'
      BY <1>1, <1>2, <1>3, <1>6, <2>4, OneLatchMoves
    <2>6. QED
      BY <1>4, <2>5
  <1>7. QED
    BY <1>5, <1>6, LockSteps

\* Writing moves no latch.
LEMMA WriteLatch ==
    ASSUME TypeOK, PhaseInv, VersionOwner, LatchExact, ReadSetInv,
           NEW t \in TIDs, NEW k \in Keys, Write(t, k)
    PROVE  LatchExact' /\ ReadSetInv'
  <1>1. /\ UNCHANGED <<glatch, iso, readSet, phase, crashed>> /\ ~crashed
        /\ phase[t] = "write"
        /\ todo' = [todo EXCEPT ![t] = @ \ {k}]
        /\ \A u \in TIDs : Owned(u)' = Owned(u)
    BY WriteSteps
  <1>2. \A u \in TIDs : Shared(u)' = Shared(u)
    <2>1. \A u \in TIDs \ {t} : todo'[u] = todo[u]
      BY <1>1 DEF TypeOK
    <2>2. Shared(t)' = Shared(t)
      BY <1>1 DEF Shared
    <2>3. QED
      BY <1>1, <2>1, <2>2, OthersShare
  <1>3. \A j \in Keys : Owners(j)' = Owners(j) /\ Sharers(j)' = Sharers(j)
    BY <1>1, <1>2 DEF Owners, Sharers, SR
  <1>4. QED
    BY <1>1, <1>3, NoLatchMoves DEF ReadSetInv, SR

\* Giving a key back never fails: a serializable owner has the latch
\* exclusively, and shares it afterwards if a failed statement gives back a key
\* that the transaction has read.
LEMMA GiveBackLatch ==
    ASSUME TypeOK, PhaseInv, VersionOwner, LatchExact, ReadSetInv,
           NEW t \in TIDs, NEW k \in Keys,
           Undo(t, k) \/ CommitKey(t, k) \/ AbortKey(t, k)
    PROVE  LatchExact' /\ ReadSetInv'
  <1> DEFINE hasRead == phase[t] = "undo" /\ k \in readSet[t]
             Gives == /\ glatch' = [glatch EXCEPT ![k] =
                                      InvalidateLatch(glatch[k], iso[t], hasRead)]
                      /\ ~crashed'
                      /\ Owned(t)' = Owned(t) \ {k}
  <1>1. /\ UNCHANGED <<iso, readSet, phase>>
        /\ phase[t] \in {"undo", "commitExclusive", "abortExclusive"}
        /\ k \in Owned(t)
        /\ \A u \in TIDs \ {t} : /\ k \notin Owned(u) /\ todo'[u] = todo[u]
                                 /\ Owned(u)' = Owned(u)
        /\ CanInvalidate(glatch[k], t, iso[t], hasRead) => Gives
    BY GiveBackSteps
  <1>2. \A u \in TIDs \ {t} : Shared(u)' = Shared(u)
    BY <1>1, OthersShare
  <1>3. ReadSetInv'
    BY <1>1 DEF ReadSetInv, SR
  <1>4. LatchSays(glatch[k], Owners(k), Sharers(k))
    BY LatchOfKeys
  <1>5. \/ /\ SR(t) /\ Owners(k) = {t}
           /\ \A u \in TIDs : k \notin Shared(u)
           /\ LatchSays(glatch[k], {t}, {})
        \/ /\ ~SR(t) /\ Owners(k) = {} /\ readSet[t] = {} /\ ~hasRead
           /\ LatchSays(glatch[k], {}, Sharers(k))
    <2>1. CASE SR(t)
      <3>1. Owners(k) = {t}
        BY <1>1, <2>1 DEF Owners
      <3>2. Sharers(k) = {}
        BY <1>4, <3>1 DEF LatchSays
      <3>3. LatchSays(glatch[k], {t}, {})
        BY <1>4, <3>1, <3>2
      <3>4. QED
        BY <2>1, <3>1, <3>2, <3>3 DEF Sharers
    <2>2. CASE ~SR(t)
      <3>1. Owners(k) = {} /\ readSet[t] = {}
        BY <1>1, <2>2 DEF Owners, ReadSetInv
      <3>2. LatchSays(glatch[k], {}, Sharers(k))
        BY <1>4, <3>1
      <3>3. QED
        BY <2>2, <3>1, <3>2
    <2>3. QED
      BY <2>1, <2>2
  <1>6. CanInvalidate(glatch[k], t, iso[t], hasRead)
    <2>1. CASE SR(t)
      <3>1. hasRead \in BOOLEAN /\ LatchSays(glatch[k], {t}, {})
        BY <1>5, <2>1
      <3>2. CanInvalidate(glatch[k], t, "SERIALIZABLE", hasRead)
        <4> HIDE DEF hasRead
        <4> QED BY <3>1, DisownLatch
      <3>3. QED
        BY <2>1, <3>2 DEF SR
    <2>2. CASE ~SR(t)
      BY <2>2 DEF SR, CanInvalidate
    <2>3. QED
      BY <2>1, <2>2
  <1>7. Gives
    BY <1>1, <1>6
  <1>8. Shared(t)' = Shared(t) \cup (IF hasRead THEN {k} ELSE {})
    <2>1. CASE phase[t] = "undo"
      BY <1>1, <1>7, <2>1 DEF Shared
    <2>2. CASE phase[t] # "undo"
      BY <1>1, <2>2 DEF Shared
    <2>3. QED
      BY <2>1, <2>2
  <1>9. LatchSays(InvalidateLatch(glatch[k], iso[t], hasRead),
                  Owners(k)', Sharers(k)')
    <2>1. CASE SR(t)
      <3>1. /\ hasRead \in BOOLEAN /\ LatchSays(glatch[k], {t}, {})
            /\ \A u \in TIDs : k \notin Shared(u)
        BY <1>5, <2>1
      <3>2. LatchSays(InvalidateLatch(glatch[k], "SERIALIZABLE", hasRead), {},
                      IF hasRead THEN {t} ELSE {})
        <4> HIDE DEF hasRead
        <4> QED BY <3>1, DisownLatch
      <3>3. Owners(k)' = {}
        BY <1>1, <1>7 DEF Owners
      <3>4. Sharers(k)' = IF hasRead THEN {t} ELSE {}
        <4>1. k \in Shared(t)' <=> hasRead
          BY <1>8, <3>1
        <4> HIDE DEF hasRead
        <4>2. QED
          BY <1>2, <3>1, <4>1 DEF Sharers
      <3>5. iso[t] = "SERIALIZABLE"
        BY <2>1 DEF SR
      <3> HIDE DEF hasRead
      <3>6. QED
        BY <3>2, <3>3, <3>4, <3>5
    <2>2. CASE ~SR(t)
      <3>1. /\ Owners(k) = {} /\ ~hasRead /\ LatchSays(glatch[k], {}, Sharers(k))
        BY <1>5, <2>2
      <3>2. Owners(k)' = {} /\ Sharers(k)' = Sharers(k)
        BY <1>1, <1>2, <1>7, <1>8, <3>1 DEF Owners, Sharers, SR
      <3>3. InvalidateLatch(glatch[k], iso[t], hasRead) = glatch[k]
        BY <2>2 DEF InvalidateLatch, SR
      <3> HIDE DEF hasRead
      <3>4. QED
        BY <3>1, <3>2, <3>3
    <2>3. QED
      BY <2>1, <2>2
  <1>10. LatchExact'
    <2>1. \A j \in Keys \ {k} : /\ j \in Owned(t)' <=> j \in Owned(t)
                                /\ j \in Shared(t)' <=> j \in Shared(t)
      BY <1>7, <1>8
    <2>2. \A u \in TIDs \ {t} : Owned(u)' = Owned(u) /\ Shared(u)' = Shared(u)
      BY <1>1, <1>2
    <2>3. /\ glatch' = [glatch EXCEPT ![k] =
                          InvalidateLatch(glatch[k], iso[t], hasRead)]
          /\ ~crashed' /\ iso' = iso
      BY <1>1, <1>7
    <2> HIDE DEF hasRead
    <2>4. QED
      BY <1>9, <2>1, <2>2, <2>3, OneLatchMoves
  <1>11. QED
    BY <1>3, <1>10

LEMMA CheckpointLatch ==
    ASSUME LatchExact, ReadSetInv, CheckpointAlone, Checkpoint
    PROVE  LatchExact' /\ ReadSetInv'
  <1>1. /\ UNCHANGED <<glatch, iso, readSet, phase, todo, held, writeSet, crashed>>
        /\ ~crashed
    BY CheckpointSteps
  <1>2. \A j \in Keys : Owners(j)' = Owners(j) /\ Sharers(j)' = Sharers(j)
    BY <1>1 DEF Owners, Sharers, SR, Shared, Owned
  <1>3. QED
    BY <1>1, <1>2, NoLatchMoves DEF ReadSetInv, SR

\* The latch of a key says exactly which serializable transactions hold it, so
\* no assert about who releases or upgrades a latch ever fails.
THEOREM LatchesExact == Spec => []LatchExact
  <1> DEFINE Inv == LatchExact /\ ReadSetInv
  <1>1. Init => Inv
    BY InitLatch
  <1>2. /\ TypeOK /\ PhaseInv /\ VersionOwner /\ CheckpointAlone
        /\ Inv /\ [Next]_vars
        => Inv'
    <2> SUFFICES ASSUME TypeOK, PhaseInv, VersionOwner, CheckpointAlone, Inv,
                        [Next]_vars
                 PROVE  Inv'
      OBVIOUS
    <2>1. CASE UNCHANGED vars
      BY <2>1 DEF vars, mgrVars, entryVars, txnVars, ctlVars, LatchExact,
                  ReadSetInv, SR, Owned, Shared
    <2>2. QED
      BY <2>1, ThreadLatch, ReadLatch, ReleaseLatch, LockLatch, WriteLatch,
         GiveBackLatch, CheckpointLatch
      DEF Next, TxnStep
  <1>3. Spec => [](TypeOK /\ PhaseInv)
    BY InitTypeOK, InitPhaseInv, NextTypeOK, NextPhaseInv, PTL DEF Spec
  <1>4. QED
    BY <1>1, <1>2, <1>3, CheckpointRunsAlone, WritersExclude, PTL DEF Spec
=============================================================================

----------------------- MODULE TxnStoreContent_proofs -----------------------
(***************************************************************************)
(* What the keys of TxnStore show: only a commit changes it, by the write  *)
(* of the committing owner.  From that LatchProtects, AllOrNothing, and    *)
(* that no read returns a write before its transaction publishes it.       *)
(*                                                                         *)
(* TxnStore implements CommitStore: the step simulation behind             *)
(* ImplementsCommitStore.                                                  *)
(***************************************************************************)
EXTENDS TxnStore_proofs

\* The writers in the committed versions of a list.
Shown(vl) ==
    UNION {vl[i].data : i \in {j \in 1..Len(vl) : vl[j].begin # INVALID}}

-----------------------------------------------------------------------------
(* Lists                                                                   *)

LEMMA ShownBy ==
    ASSUME NEW vl, NEW w
    PROVE  w \in Shown(vl) <=>
             \E i \in 1..Len(vl) : vl[i].begin # INVALID /\ w \in vl[i].data
  BY DEF Shown

\* A list that starts anew shows nothing.
LEMMA DummyShown == Shown(<<DummyVersion>>) = {}
  BY DEF Shown, DummyVersion, Version

\* Neither a private version, ...
LEMMA NewVersionShown ==
    ASSUME NEW vl \in Seq(VersionType(TIDs)), NEW t \in TIDs
    PROVE  Shown(NewVersion(vl, t)) = Shown(vl)
  <1> DEFINE nl == NewVersion(vl, t)
             n == Len(vl)
  <1>1. n \in Nat
    BY LenProperties
  <1>2. /\ Len(nl) = n + 1
        /\ nl[n + 1] = Version(INVALID, t, {})
        /\ \A i \in 1..n : nl[i] = vl[i]
    BY TIDFacts, NewVersionFacts
  <1>3. nl[n + 1].begin = INVALID
    BY <1>2, VersionFields
  <1> HIDE DEF nl, n
  <1>4. \A i \in 1..Len(nl) : nl[i].begin # INVALID => i \in 1..n
    BY <1>1, <1>2, <1>3
  <1>5. \A i \in 1..n : i \in 1..Len(nl)
    BY <1>1, <1>2
  <1>6. ASSUME NEW w PROVE w \in Shown(nl) <=> w \in Shown(vl)
    <2>1. w \in Shown(nl) <=>
            \E i \in 1..Len(nl) : nl[i].begin # INVALID /\ w \in nl[i].data
      BY ShownBy
    <2>2. w \in Shown(vl) <=>
            \E i \in 1..n : vl[i].begin # INVALID /\ w \in vl[i].data
      BY ShownBy DEF n
    <2>3. QED
      BY <1>2, <1>4, <1>5, <2>1, <2>2
  <1>7. QED
    BY <1>6 DEF nl

\* ... nor its removal, ...
LEMMA PopShown ==
    ASSUME NEW vl \in Seq(VersionType(TIDs)),
           vl # <<>>, Last(vl).begin = INVALID
    PROVE  Shown(Pop(vl)) = Shown(vl)
  <1> DEFINE nl == Pop(vl)
             n == Len(vl)
  <1>1. n \in Nat /\ n > 0 /\ vl[n].begin = INVALID
    BY LenProperties DEF Last
  <1>2. Len(nl) = n - 1 /\ \A i \in 1..(n - 1) : nl[i] = vl[i]
    BY PopFacts
  <1> HIDE DEF nl, n
  <1>3. \A i \in 1..n : vl[i].begin # INVALID => i \in 1..(n - 1)
    BY <1>1
  <1>4. \A i \in 1..(n - 1) : i \in 1..n
    BY <1>1
  <1>5. ASSUME NEW w PROVE w \in Shown(nl) <=> w \in Shown(vl)
    <2>1. w \in Shown(nl) <=>
            \E i \in 1..(n - 1) : nl[i].begin # INVALID /\ w \in nl[i].data
      BY <1>2, ShownBy
    <2>2. w \in Shown(vl) <=>
            \E i \in 1..n : vl[i].begin # INVALID /\ w \in vl[i].data
      BY ShownBy DEF n
    <2>3. QED
      BY <1>2, <1>3, <1>4, <2>1, <2>2
  <1>6. QED
    BY <1>5 DEF nl

\* ... nor writing into it changes what a list shows.
LEMMA WriteVersionShown ==
    ASSUME NEW vl \in Seq(VersionType(TIDs)), NEW t \in TIDs,
           Last(vl).begin = INVALID
    PROVE  Shown(WriteVersion(vl, t)) = Shown(vl)
  <1> DEFINE nl == WriteVersion(vl, t)
             n == Len(vl)
  <1>1. n \in Nat /\ vl[n].begin = INVALID
    BY LenProperties DEF Last
  <1>2. /\ Len(nl) = n
        /\ \A i \in 1..n : nl[i] =
             IF i = n THEN Version(vl[i].begin, vl[i].end, vl[i].data \cup {t})
             ELSE vl[i]
    BY WriteVersionFacts
  <1> HIDE DEF nl, n
  <1>3. \A i \in 1..n : /\ nl[i].begin = vl[i].begin
                        /\ vl[i].begin # INVALID => nl[i] = vl[i]
    <2> TAKE i \in 1..n
    <2>1. CASE i = n
      <3>1. nl[i] = Version(vl[i].begin, vl[i].end, vl[i].data \cup {t})
        BY <1>2, <2>1
      <3>2. QED
        BY <1>1, <2>1, <3>1, VersionFields
    <2>2. CASE i # n
      BY <1>2, <2>2
    <2>3. QED
      BY <2>1, <2>2
  <1>4. ASSUME NEW w PROVE w \in Shown(nl) <=> w \in Shown(vl)
    <2>1. w \in Shown(nl) <=>
            \E i \in 1..n : nl[i].begin # INVALID /\ w \in nl[i].data
      BY <1>2, ShownBy
    <2>2. w \in Shown(vl) <=>
            \E i \in 1..n : vl[i].begin # INVALID /\ w \in vl[i].data
      BY ShownBy DEF n
    <2>3. QED
      BY <1>3, <2>1, <2>2
  <1>5. QED
    BY <1>4 DEF nl

\* A stamp shows the private version.
LEMMA StampShown ==
    ASSUME NEW vl \in Seq(VersionType(TIDs)), NEW c \in Nat, c # INVALID,
           WellFormed(vl), Last(vl).begin = INVALID
    PROVE  Shown(Stamp(vl, c)) = Shown(vl) \cup Last(vl).data
  <1> DEFINE nl == Stamp(vl, c)
             n == Len(vl)
  <1>1. n \in Nat /\ n > 1 /\ Last(vl) = vl[n]
    BY LenProperties DEF WellFormed, Last
  <1>2. /\ Len(nl) = n
        /\ \A i \in 1..n : nl[i] =
             IF i = n THEN Version(c, INVALID, vl[i].data)
             ELSE IF i = n - 1 THEN Version(vl[i].begin, c, vl[i].data)
             ELSE vl[i]
    BY StampFacts
  <1>3. /\ \A i \in 1..(n - 1) : vl[i].begin # INVALID
        /\ vl[n].begin = INVALID
    BY <1>1 DEF WellFormed
  <1> HIDE DEF nl, n
  <1>4. \A i \in 1..n : /\ nl[i].data = vl[i].data
                        /\ nl[i].begin # INVALID
                        /\ i = n \/ vl[i].begin # INVALID
    <2> TAKE i \in 1..n
    <2>1. i # n => i \in 1..(n - 1)
      BY <1>1
    <2>2. CASE i = n
      <3>1. nl[i] = Version(c, INVALID, vl[i].data)
        BY <1>2, <2>2
      <3>2. QED
        BY <2>2, <3>1, VersionFields
    <2>3. CASE i # n
      <3>1. nl[i] = Version(vl[i].begin, c, vl[i].data) \/ nl[i] = vl[i]
        BY <1>2, <2>3
      <3>2. QED
        BY <1>3, <2>1, <2>3, <3>1, VersionFields
    <2>4. QED
      BY <2>2, <2>3
  <1>5. ASSUME NEW w
        PROVE  w \in Shown(nl) <=> w \in Shown(vl) \/ w \in Last(vl).data
    <2>1. w \in Shown(nl) <=>
            \E i \in 1..n : nl[i].begin # INVALID /\ w \in nl[i].data
      BY <1>2, ShownBy
    <2>2. w \in Shown(vl) <=>
            \E i \in 1..n : vl[i].begin # INVALID /\ w \in vl[i].data
      BY ShownBy DEF n
    <2>3. n \in 1..n
      BY <1>1
    <2>4. QED
      BY <1>1, <1>4, <2>1, <2>2, <2>3
  <1>6. QED
    BY <1>5 DEF nl

\* A read returns what the list shows, and perhaps the reader's own writes.
LEMMA ReadShown ==
    ASSUME NEW vl \in Seq(VersionType(TIDs)), WellFormed(vl),
           NEW t \in TIDs, NEW level
    PROVE  ReadVersion(vl, t, level) \subseteq Shown(vl) \cup {t}
  <1>1. SUFFICES ASSUME NEW i \in 1..Len(vl), NEW w \in vl[i].data,
                        \/ i \in LatestVisible(vl, t)
                        \/ i \in ProperVisible(vl, t)
                 PROVE  w \in Shown(vl) \cup {t}
    BY DEF ReadVersion, LatestVisible, ProperVisible
  <1> DEFINE n == Len(vl)
  <1>2. n \in Nat /\ Last(vl) = vl[n]
    BY LenProperties DEF Last
  <1>3. CASE vl[i].begin # INVALID
    BY <1>1, <1>3, ShownBy
  <1>4. CASE vl[i].begin = INVALID
    <2>1. i = n
      <3>1. \A j \in 1..(n - 1) : vl[j].begin # INVALID
        BY DEF WellFormed
      <3>2. i \notin 1..(n - 1)
        BY <1>4, <3>1
      <3> HIDE DEF n
      <3>3. i \in 1..n
        BY DEF n
      <3>4. QED
        BY <1>2, <3>2, <3>3
    <2>2. /\ Last(vl).begin = INVALID
          /\ Last(vl).end \in TIDs /\ Last(vl).data \subseteq {Last(vl).end}
      BY <1>2, <1>4, <2>1 DEF WellFormed
    <2>3. Private(Last(vl), t)
      <3>1. CASE i \in LatestVisible(vl, t)
        <4>1. \/ i < n \/ Private(Last(vl), t) \/ Last(vl).end = INVALID
          BY <3>1 DEF LatestVisible
        <4>2. Last(vl).end # INVALID
          BY <2>2, TIDFacts
        <4> HIDE DEF n
        <4>3. QED
          BY <1>2, <2>1, <4>1, <4>2
      <3>2. CASE i \in ProperVisible(vl, t)
        <4>1. vl[i].begin <= t \/ Private(vl[i], t)
          <5>1. i \in 1..i
            BY <1>2
          <5>2. QED
            BY <3>2, <5>1 DEF ProperVisible
        <4>2. ~(INVALID <= t)
          BY MaxTxnAssumption, InvalidAssumption DEF TIDs
        <4>3. QED
          BY <1>2, <1>4, <2>1, <4>1, <4>2
      <3>3. QED
        BY <1>1, <3>1, <3>2
    <2>4. QED
      BY <1>1, <1>2, <2>1, <2>2, <2>3 DEF Private
  <1>5. QED
    BY <1>3, <1>4

\* What a checkpoint merges into the stored value: all that a list shows.
LEMMA MergeShown ==
    ASSUME NEW vl \in Seq(VersionType(TIDs)), WellFormed(vl),
           Last(vl).begin # INVALID
    PROVE  ReadVersion(vl, INVALID, "READ_COMMITTED") = Shown(vl)
  <1> DEFINE n == Len(vl)
  <1>1. n \in Nat /\ Last(vl) = vl[n]
    BY LenProperties DEF Last
  <1>2. Last(vl).end = INVALID /\ \A j \in 1..(n - 1) : vl[j].begin # INVALID
    BY DEF WellFormed
  <1> HIDE DEF n
  <1>3. \A j \in 1..n : vl[j].begin # INVALID
    BY <1>1, <1>2
  <1>4. LatestVisible(vl, INVALID) = 1..n
    BY <1>2 DEF LatestVisible, n
  <1>5. {j \in 1..n : vl[j].begin # INVALID} = 1..n
    BY <1>3
  <1>6. ReadVersion(vl, INVALID, "READ_COMMITTED") = UNION {vl[i].data : i \in 1..n}
    BY <1>4 DEF ReadVersion
  <1>7. Shown(vl) = UNION {vl[i].data : i \in 1..n}
    BY <1>5 DEF Shown, n
  <1>8. QED
    BY <1>6, <1>7

-----------------------------------------------------------------------------
(* What each step does to what the keys show                               *)

LEMMA ContentOf ==
    ASSUME NEW k PROVE Content(k) = base[k] \cup Shown(vList[k])
  BY DEF Content, Shown

LEMMA QuietContent ==
    ASSUME UNCHANGED <<base, vList>>, NEW k
    PROVE  Content(k)' = Content(k)
  BY DEF Content

LEMMA OneListContent ==
    ASSUME TypeOK, base' = base, NEW k \in Keys, NEW vl,
           vList' = [vList EXCEPT ![k] = vl]
    PROVE  /\ Content(k)' = base[k] \cup Shown(vl)
           /\ \A j \in Keys \ {k} : Content(j)' = Content(j)
  <1>1. vList'[k] = vl /\ \A j \in Keys \ {k} : vList'[j] = vList[j]
    BY DEF TypeOK
  <1>2. Content(k)' = base[k] \cup Shown(vl)
    BY <1>1 DEF Content, Shown
  <1>3. \A j \in Keys \ {k} : Content(j)' = Content(j)
    BY <1>1 DEF Content
  <1>4. QED
    BY <1>2, <1>3

LEMMA LockContent ==
    ASSUME TypeOK, PhaseInv, VersionOwner, NEW t \in TIDs, NEW k \in Keys,
           Lock(t, k)
    PROVE  \A j \in Keys : Content(j)' = Content(j)
  <1>1. base' = base /\ vList[k] \in Seq(VersionType(TIDs))
    BY LockSteps DEF TypeOK
  <1>2. CASE vList' = vList
    BY <1>1, <1>2, QuietContent
  <1>3. CASE vList' = [vList EXCEPT ![k] = NewVersion(vList[k], t)]
    <2>1. Shown(NewVersion(vList[k], t)) = Shown(vList[k])
      BY <1>1, NewVersionShown
    <2> DEFINE vl == NewVersion(vList[k], t)
    <2> HIDE DEF vl
    <2>2. /\ Content(k)' = base[k] \cup Shown(vl)
          /\ \A j \in Keys \ {k} : Content(j)' = Content(j)
      BY <1>1, <1>3, OneListContent DEF vl
    <2>3. QED
      BY <2>1, <2>2, ContentOf DEF vl
  <1>4. QED
    BY <1>2, <1>3, LockSteps

LEMMA WriteContent ==
    ASSUME TypeOK, PhaseInv, VersionOwner, NEW t \in TIDs, NEW k \in Keys,
           Write(t, k)
    PROVE  \A j \in Keys : Content(j)' = Content(j)
  <1>1. /\ base' = base /\ vList[k] \in Seq(VersionType(TIDs))
        /\ vList' = [vList EXCEPT ![k] = WriteVersion(vList[k], t)]
        /\ Last(vList[k]).begin = INVALID
    BY WriteSteps DEF TypeOK, Private
  <1>2. Shown(WriteVersion(vList[k], t)) = Shown(vList[k])
    BY <1>1, WriteVersionShown
  <1>3. /\ Content(k)' = base[k] \cup Shown(WriteVersion(vList[k], t))
        /\ \A j \in Keys \ {k} : Content(j)' = Content(j)
    BY <1>1, OneListContent
  <1>4. QED
    BY <1>2, <1>3, ContentOf

\* A commit shows the private version, everything else drops it.
LEMMA GiveBackContent ==
    ASSUME TypeOK, PhaseInv, VersionOwner, NEW t \in TIDs, NEW k \in Keys,
           Undo(t, k) \/ CommitKey(t, k) \/ AbortKey(t, k)
    PROVE  /\ \A j \in Keys \ {k} : Content(j)' = Content(j)
           /\ Content(k)' = IF phase[t] = "commitExclusive" /\ ~crashed'
                            THEN Content(k) \cup Last(vList[k]).data
                            ELSE Content(k)
  <1> DEFINE vl == IF phase[t] = "commitExclusive" THEN Stamp(vList[k], cid[t])
                                                   ELSE Pop(vList[k])
  <1>1. /\ base' = base
        /\ WellFormed(vList[k]) /\ Last(vList[k]).begin = INVALID
        /\ \/ vList' = vList /\ crashed'
           \/ vList' = [vList EXCEPT ![k] = vl] /\ ~crashed'
    BY GiveBackSteps DEF Private
  <1>2. CASE vList' = vList /\ crashed'
    BY <1>1, <1>2, QuietContent
  <1>3. CASE vList' = [vList EXCEPT ![k] = vl] /\ ~crashed'
    <2>1. /\ vList[k] \in Seq(VersionType(TIDs))
          /\ cid[t] \in Nat /\ cid[t] # INVALID
      BY MaxTxnAssumption, InvalidAssumption DEF TypeOK
    <2>2. Shown(vl) = IF phase[t] = "commitExclusive"
                      THEN Shown(vList[k]) \cup Last(vList[k]).data
                      ELSE Shown(vList[k])
      <3>1. Shown(Stamp(vList[k], cid[t])) =
              Shown(vList[k]) \cup Last(vList[k]).data
        BY <1>1, <2>1, StampShown
      <3>2. Shown(Pop(vList[k])) = Shown(vList[k])
        BY <1>1, <2>1, PopShown DEF WellFormed
      <3>3. QED
        BY <3>1, <3>2
    <2> HIDE DEF vl
    <2>3. /\ Content(k)' = base[k] \cup Shown(vl)
          /\ \A j \in Keys \ {k} : Content(j)' = Content(j)
      BY <1>1, <1>3, OneListContent
    <2>4. Content(k) = base[k] \cup Shown(vList[k])
      BY ContentOf
    <2>5. QED
      BY <1>3, <2>2, <2>3, <2>4
  <1>4. QED
    BY <1>1, <1>2, <1>3

\* A checkpoint merges what a key shows into its stored value.
LEMMA CheckpointContent ==
    ASSUME TypeOK, VersionOwner, CheckpointAlone, Checkpoint
    PROVE  \A k \in Keys : Content(k)' = Content(k)
  <1> TAKE k \in Keys
  <1>1. CASE vList'[k] = vList[k] /\ base'[k] = base[k]
    BY <1>1 DEF Content
  <1>2. CASE /\ vList'[k] = <<DummyVersion>>
             /\ base'[k] = base[k] \cup ReadVersion(vList[k], INVALID,
                                                    "READ_COMMITTED")
    <2>1. /\ vList[k] \in Seq(VersionType(TIDs)) /\ WellFormed(vList[k])
          /\ \A u \in TIDs : ~Private(Last(vList[k]), u)
      BY CheckpointSteps DEF TypeOK, VersionOwner
    <2>2. Last(vList[k]).begin # INVALID
      BY <2>1 DEF WellFormed, Private
    <2>3. base'[k] = base[k] \cup Shown(vList[k])
      BY <1>2, <2>1, <2>2, MergeShown
    <2>4. Content(k)' = base'[k] \cup Shown(<<DummyVersion>>)
      BY <1>2 DEF Content, Shown
    <2>5. QED
      BY <2>3, <2>4, DummyShown, ContentOf
  <1>3. QED
    BY <1>1, <1>2, CheckpointSteps

\* Only a commit changes what a key shows, and it adds the version of its own.
LEMMA ContentMoves ==
    ASSUME TypeOK, PhaseInv, VersionOwner, CheckpointAlone, [Next]_vars,
           NEW k \in Keys
    PROVE  \/ Content(k)' = Content(k)
           \/ \E t \in TIDs :
                /\ k \in Owned(t)
                /\ Private(Last(vList[k]), t)
                /\ Content(k)' = Content(k) \cup Last(vList[k]).data
  <1>1. ASSUME NEW t \in TIDs,
               \/ Begin(t) \/ StartTriple(t) \/ Locked(t) \/ Undone(t)
               \/ Written(t) \/ StartCommit(t) \/ StartAbort(t)
               \/ SharedReleased(t) \/ FinishCommit(t) \/ FinishAbort(t)
        PROVE  Content(k)' = Content(k)
    BY <1>1, ThreadSteps, QuietContent
  <1>2. ASSUME NEW t \in TIDs, NEW j \in Keys, Read(t, j) \/ ReleaseShared(t, j)
        PROVE  Content(k)' = Content(k)
    BY <1>2, QuietSteps, QuietContent
  <1>3. ASSUME NEW t \in TIDs, NEW j \in Keys, Lock(t, j) \/ Write(t, j)
        PROVE  Content(k)' = Content(k)
    BY <1>3, LockContent, WriteContent
  <1>4. ASSUME NEW t \in TIDs, NEW j \in Keys,
               Undo(t, j) \/ CommitKey(t, j) \/ AbortKey(t, j)
        PROVE  \/ Content(k)' = Content(k)
               \/ /\ k \in Owned(t)
                  /\ Private(Last(vList[k]), t)
                  /\ Content(k)' = Content(k) \cup Last(vList[k]).data
    <2>1. j \in Owned(t) /\ Private(Last(vList[j]), t)
      BY <1>4, GiveBackSteps
    <2>2. \/ Content(k)' = Content(k)
          \/ j = k /\ Content(j)' = Content(j) \cup Last(vList[j]).data
      BY <1>4, GiveBackContent
    <2>3. QED
      BY <2>1, <2>2
  <1>5. CASE Checkpoint
    BY <1>5, CheckpointContent
  <1>6. CASE UNCHANGED vars
    BY <1>6, QuietContent DEF vars, entryVars
  <1>7. QED
    BY <1>1, <1>2, <1>3, <1>4, <1>5, <1>6, Zenon DEF Next, TxnStep

\* While a serializable transaction has a shared latch on a key, no other
\* serializable transaction changes what the key shows.
THEOREM LatchesProtect == Spec => LatchProtects
  <1> DEFINE Kept == \A t \in TIDs, k \in Keys : k \in Shared(t) /\ k \in Shared(t)'
                       => \A w \in Content(k)' \ Content(k) : ~SR(w)
  <1>1. /\ TypeOK /\ PhaseInv /\ VersionOwner /\ CheckpointAlone /\ LatchExact
        /\ [Next]_vars
        => Kept
    <2> SUFFICES ASSUME TypeOK, PhaseInv, VersionOwner, CheckpointAlone,
                        LatchExact, [Next]_vars,
                        NEW t \in TIDs, NEW k \in Keys, k \in Shared(t),
                        NEW w \in Content(k)' \ Content(k), SR(w)
                 PROVE  FALSE
      OBVIOUS
    <2>1. PICK u \in TIDs : /\ k \in Owned(u)
                            /\ Private(Last(vList[k]), u)
                            /\ w \in Last(vList[k]).data
      BY ContentMoves
    <2>2. w = u
      BY <2>1 DEF VersionOwner, WellFormed, Private
    <2>3. u \in Owners(k) /\ t \in Sharers(k)
      BY <2>1, <2>2 DEF Owners, Sharers
    <2>4. LatchSays(glatch[k], Owners(k), Sharers(k))
      BY LatchOfKeys
    <2>5. QED
      BY <2>3, <2>4 DEF LatchSays
  <1>2. Spec => [](TypeOK /\ PhaseInv)
    BY InitTypeOK, InitPhaseInv, NextTypeOK, NextPhaseInv, PTL DEF Spec
  <1>3. QED
    BY <1>1, <1>2, CheckpointRunsAlone, WritersExclude, LatchesExact, PTL
    DEF Spec, LatchProtects

-----------------------------------------------------------------------------
(* Keys show exactly the published writes                                  *)

\* The two halves of ContentInv.
ShowsPublished ==
    \A k \in Keys : Content(k) = {t \in TIDs : Published(t, k)}
PrivateHolds ==
    \A k \in Keys, t \in TIDs :
        Private(Last(vList[k]), t) /\ Wrote(t, k) => t \in Last(vList[k]).data

LEMMA ContentInvParts == ContentInv <=> ShowsPublished /\ PrivateHolds
  BY DEF ContentInv, ShowsPublished, PrivateHolds

LEMMA InitContent == Init => ContentInv
  <1> SUFFICES ASSUME Init PROVE ContentInv
    OBVIOUS
  <1>1. \A k \in Keys : Content(k) = {}
    BY DummyShown, ContentOf DEF Init
  <1>2. \A t \in TIDs, k \in Keys : ~Published(t, k)
    BY DEF Init, Published
  <1>3. \A t \in TIDs, k \in Keys : ~Private(Last(vList[k]), t)
    BY DummyOwner DEF Init
  <1>4. QED
    BY <1>1, <1>2, <1>3 DEF ContentInv

\* A step that publishes nothing and shows nothing new.
LEMMA NothingPublished ==
    ASSUME ShowsPublished,
           \A k \in Keys : Content(k)' = Content(k),
           \A u \in TIDs, k \in Keys : Published(u, k)' <=> Published(u, k)
    PROVE  ShowsPublished'
  BY DEF ShowsPublished

\* A step that touches no version, and after which nobody who owns a key has
\* written more keys than before.
LEMMA NothingWritten ==
    ASSUME PrivateHolds, vList' = vList,
           \A u \in TIDs, k \in Keys : Wrote(u, k)' => Wrote(u, k)
    PROVE  PrivateHolds'
  BY DEF PrivateHolds

\* What a transaction has published or written depends on its own thread only.
LEMMA OthersWrite ==
    ASSUME NEW t \in TIDs,
           \A u \in TIDs \ {t} : /\ phase'[u] = phase[u] /\ todo'[u] = todo[u]
                                 /\ state'[u] = state[u]
                                 /\ writeSet'[u] = writeSet[u]
                                 /\ triple'[u] = triple[u]
    PROVE  \A u \in TIDs \ {t}, k \in Keys :
              /\ Published(u, k)' <=> Published(u, k)
              /\ Wrote(u, k)' <=> Wrote(u, k)
  BY DEF Published, Wrote

\* Between the loops nothing is published or written: a commit has published
\* its last key before it ends, and a statement has written all keys of its
\* triple before they enter the write set.
LEMMA ThreadContent ==
    ASSUME TypeOK, PhaseInv, ContentInv, NEW t \in TIDs,
           \/ Begin(t) \/ StartTriple(t) \/ Locked(t) \/ Undone(t)
           \/ Written(t) \/ StartCommit(t) \/ StartAbort(t)
           \/ SharedReleased(t) \/ FinishCommit(t) \/ FinishAbort(t)
    PROVE  ContentInv'
  <1>1. \A k \in Keys : /\ Published(t, k)' <=> Published(t, k)
                        /\ Wrote(t, k)' <=> Wrote(t, k)
    <2> TAKE k \in Keys
    <2> USE DEF TypeOK, mgrVars, entryVars, txnVars, ctlVars, Published, Wrote
    <2>1. CASE Begin(t)
      BY <2>1 DEF Begin, PhaseInv, TIDs
    <2>2. CASE StartTriple(t)
      BY <2>2 DEF StartTriple
    <2>3. CASE Locked(t)
      BY <2>3 DEF Locked
    <2>4. CASE Undone(t)
      BY <2>4 DEF Undone, PhaseInv
    <2>5. CASE Written(t)
      BY <2>5 DEF Written, PhaseInv
    <2>6. CASE StartCommit(t)
      BY <2>6 DEF StartCommit
    <2>7. CASE StartAbort(t)
      BY <2>7 DEF StartAbort
    <2>8. CASE SharedReleased(t)
      BY <2>8 DEF SharedReleased
    <2>9. CASE FinishCommit(t)
      BY <2>9 DEF FinishCommit
    <2>10. CASE FinishAbort(t)
      BY <2>10 DEF FinishAbort, PhaseInv
    <2>11. QED
      BY <2>1, <2>2, <2>3, <2>4, <2>5, <2>6, <2>7, <2>8, <2>9, <2>10
  <1>2. /\ UNCHANGED <<base, vList>>
        /\ \A u \in TIDs \ {t} : /\ phase'[u] = phase[u] /\ todo'[u] = todo[u]
                                 /\ state'[u] = state[u]
                                 /\ writeSet'[u] = writeSet[u]
                                 /\ triple'[u] = triple[u]
    BY ThreadSteps
  <1>3. \A u \in TIDs, k \in Keys : /\ Published(u, k)' <=> Published(u, k)
                                    /\ Wrote(u, k)' <=> Wrote(u, k)
    BY <1>1, <1>2, OthersWrite
  <1>4. ShowsPublished' /\ PrivateHolds'
    BY <1>2, <1>3, QuietContent, ContentInvParts, NothingPublished,
       NothingWritten
  <1>5. QED
    BY <1>4 DEF ContentInv, ShowsPublished, PrivateHolds

\* Nor is anything by reading or by giving shared latches back.
LEMMA QuietContentInv ==
    ASSUME TypeOK, PhaseInv, ContentInv, NEW t \in TIDs, NEW k \in Keys,
           Read(t, k) \/ ReleaseShared(t, k)
    PROVE  ContentInv'
  <1>1. /\ UNCHANGED <<base, vList, writeSet, phase, triple>>
        /\ \A u \in TIDs \ {t} : todo'[u] = todo[u] /\ state'[u] = state[u]
    BY QuietSteps
  <1>2. /\ phase[t] \in {"idle", "commitShared", "abortShared"}
        /\ state'[t] = state[t] \/ state'[t] = "ABORTED"
    <2>1. CASE Read(t, k)
      <3>1. phase[t] = "idle" /\ (state' = state
                                  \/ state' = [state EXCEPT ![t] = "ABORTED"])
        BY <2>1, Zenon DEF Read
      <3>2. QED
        BY <3>1 DEF TypeOK
    <2>2. CASE ReleaseShared(t, k)
      BY <2>2 DEF ReleaseShared, txnVars
    <2>3. QED
      BY <2>1, <2>2
  <1>3. state[t] # "COMMITTED"
    BY <1>2 DEF PhaseInv
  <1>4. \A j \in Keys : /\ Published(t, j)' <=> Published(t, j)
                        /\ Wrote(t, j)' <=> Wrote(t, j)
    BY <1>1, <1>2, <1>3 DEF Published, Wrote
  <1>5. \A u \in TIDs, j \in Keys : /\ Published(u, j)' <=> Published(u, j)
                                    /\ Wrote(u, j)' <=> Wrote(u, j)
    BY <1>1, <1>4, OthersWrite
  <1>6. ShowsPublished' /\ PrivateHolds'
    BY <1>1, <1>5, QuietContent, ContentInvParts, NothingPublished,
       NothingWritten
  <1>7. QED
    BY <1>6 DEF ContentInv, ShowsPublished, PrivateHolds

\* A private version starts empty: its owner has not written the key.
LEMMA LockContentInv ==
    ASSUME TypeOK, PhaseInv, VersionOwner, ContentInv,
           NEW t \in TIDs, NEW k \in Keys, Lock(t, k)
    PROVE  ContentInv'
  <1>1. /\ UNCHANGED <<state, writeSet, triple>>
        /\ phase[t] = "lock" /\ phase'[t] \in {"lock", "undo"}
        /\ k \notin Owned(t)
        /\ \A u \in TIDs \ {t} : phase'[u] = phase[u] /\ todo'[u] = todo[u]
    BY LockSteps DEF TypeOK
  <1>2. \A j \in Keys : /\ Published(t, j)' <=> Published(t, j)
                        /\ Wrote(t, j)' <=> Wrote(t, j)
    BY <1>1 DEF Published, Wrote
  <1>3. \A u \in TIDs, j \in Keys : /\ Published(u, j)' <=> Published(u, j)
                                    /\ Wrote(u, j)' <=> Wrote(u, j)
    BY <1>1, <1>2, OthersWrite
  <1>4. ShowsPublished'
    BY <1>3, LockContent, ContentInvParts, NothingPublished
  <1>5. PrivateHolds'
    <2>1. CASE vList' = vList
      BY <1>3, <2>1, ContentInvParts, NothingWritten
    <2>2. CASE vList' = [vList EXCEPT ![k] = NewVersion(vList[k], t)]
      <3>1. vList[k] \in Seq(VersionType(TIDs))
        BY DEF TypeOK
      <3>2. Last(NewVersion(vList[k], t)) = Version(INVALID, t, {})
        BY <3>1, TIDFacts, NewVersionFacts DEF Last
      <3>3. \A u \in TIDs : Private(Last(vList'[k]), u) => u = t
        BY <2>2, <3>2, VersionFields DEF TypeOK, Private
      <3>4. ~Wrote(t, k)
        BY <1>1 DEF Wrote, Owned
      <3>5. \A j \in Keys \ {k} : vList'[j] = vList[j]
        BY <2>2 DEF TypeOK
      <3>6. QED
        BY <1>3, <3>3, <3>4, <3>5, ContentInvParts DEF PrivateHolds
    <2>3. QED
      BY <2>1, <2>2, LockSteps
  <1>6. QED
    BY <1>4, <1>5 DEF ContentInv, ShowsPublished, PrivateHolds

\* What the last version of a list holds after a write.
LEMMA WriteVersionLast ==
    ASSUME NEW vl \in Seq(VersionType(TIDs)), vl # <<>>, NEW t \in TIDs
    PROVE  Last(WriteVersion(vl, t)) =
             Version(Last(vl).begin, Last(vl).end, Last(vl).data \cup {t})
  <1> DEFINE nl == WriteVersion(vl, t)
             n == Len(vl)
  <1>1. n \in Nat /\ n > 0
    BY LenProperties
  <1>2. /\ Len(nl) = n
        /\ \A i \in 1..n : nl[i] =
             IF i = n THEN Version(vl[i].begin, vl[i].end, vl[i].data \cup {t})
             ELSE vl[i]
    BY WriteVersionFacts
  <1> HIDE DEF nl
  <1>3. Last(nl) = Version(vl[n].begin, vl[n].end, vl[n].data \cup {t})
    <2> HIDE DEF n
    <2>1. n \in 1..n
      BY <1>1
    <2>2. QED
      BY <1>2, <2>1 DEF Last
  <1>4. QED
    BY <1>3 DEF nl, Last

\* Writing a key puts its owner among the writers of the private version.
LEMMA WriteContentInv ==
    ASSUME TypeOK, PhaseInv, VersionOwner, ContentInv,
           NEW t \in TIDs, NEW k \in Keys, Write(t, k)
    PROVE  ContentInv'
  <1>1. /\ UNCHANGED <<state, writeSet, triple, phase>>
        /\ phase[t] = "write"
        /\ todo' = [todo EXCEPT ![t] = @ \ {k}]
        /\ vList' = [vList EXCEPT ![k] = WriteVersion(vList[k], t)]
        /\ WellFormed(vList[k]) /\ Private(Last(vList[k]), t)
    BY WriteSteps
  <1>2. /\ todo'[t] = todo[t] \ {k}
        /\ \A u \in TIDs \ {t} : todo'[u] = todo[u]
        /\ vList'[k] = WriteVersion(vList[k], t)
        /\ \A j \in Keys \ {k} : vList'[j] = vList[j]
        /\ vList[k] \in Seq(VersionType(TIDs))
    BY <1>1 DEF TypeOK
  <1>3. /\ \A j \in Keys : Published(t, j)' <=> Published(t, j)
        /\ \A j \in Keys \ {k} : Wrote(t, j)' <=> Wrote(t, j)
    BY <1>1, <1>2 DEF Published, Wrote
  <1>4. \A u \in TIDs \ {t}, j \in Keys :
           /\ Published(u, j)' <=> Published(u, j)
           /\ Wrote(u, j)' <=> Wrote(u, j)
    BY <1>1, <1>2, OthersWrite
  <1>5. ShowsPublished'
    BY <1>3, <1>4, WriteContent, ContentInvParts, NothingPublished
  <1>6. /\ t \in Last(vList'[k]).data
        /\ \A u \in TIDs : Private(Last(vList'[k]), u) => u = t
    <2>1. vList[k] # <<>>
      BY <1>1 DEF WellFormed
    <2>2. Last(vList'[k]) = Version(Last(vList[k]).begin, Last(vList[k]).end,
                                    Last(vList[k]).data \cup {t})
      BY <1>2, <2>1, WriteVersionLast
    <2>3. QED
      BY <1>1, <2>2, VersionFields DEF Private
  <1>7. PrivateHolds'
    BY <1>2, <1>3, <1>4, <1>6, ContentInvParts DEF PrivateHolds
  <1>8. QED
    BY <1>5, <1>7 DEF ContentInv, ShowsPublished, PrivateHolds

\* A commit publishes the write of its transaction, which the private version
\* holds; whatever gives a key back leaves no private version behind.
LEMMA GiveBackContentInv ==
    ASSUME TypeOK, PhaseInv, VersionOwner, ContentInv,
           NEW t \in TIDs, NEW k \in Keys,
           Undo(t, k) \/ CommitKey(t, k) \/ AbortKey(t, k)
    PROVE  ContentInv'
  <1>1. /\ UNCHANGED <<state, writeSet, triple, phase>>
        /\ phase[t] \in {"undo", "commitExclusive", "abortExclusive"}
        /\ k \in todo[t] /\ k \in Owned(t)
        /\ WellFormed(vList[k]) /\ Private(Last(vList[k]), t)
        /\ \A u \in TIDs \ {t} : todo'[u] = todo[u]
        /\ \/ UNCHANGED <<vList, todo>> /\ crashed'
           \/ /\ todo' = [todo EXCEPT ![t] = @ \ {k}] /\ ~crashed'
              /\ \E vl : vList' = [vList EXCEPT ![k] = vl]
              /\ Owned(t)' = Owned(t) \ {k}
    BY GiveBackSteps
  <1>2. \A u \in TIDs \ {t}, j \in Keys :
           /\ Published(u, j)' <=> Published(u, j)
           /\ Wrote(u, j)' <=> Wrote(u, j)
    BY <1>1, OthersWrite
  <1>3. \A j \in Keys : Wrote(t, j)' <=> Wrote(t, j)
    BY <1>1 DEF Wrote
  <1>4. CASE UNCHANGED <<vList, todo>> /\ crashed'
    <2>1. \A j \in Keys : Published(t, j)' <=> Published(t, j)
      BY <1>1, <1>4 DEF Published
    <2>2. \A j \in Keys : Content(j)' = Content(j)
      BY <1>4, GiveBackContent
    <2>3. ShowsPublished' /\ PrivateHolds'
      BY <1>2, <1>3, <1>4, <2>1, <2>2, ContentInvParts, NothingPublished,
         NothingWritten
    <2>4. QED
      BY <2>3 DEF ContentInv, ShowsPublished, PrivateHolds
  <1>5. CASE /\ todo' = [todo EXCEPT ![t] = @ \ {k}] /\ ~crashed'
             /\ \E vl : vList' = [vList EXCEPT ![k] = vl]
             /\ Owned(t)' = Owned(t) \ {k}
    <2>1. /\ todo'[t] = todo[t] \ {k}
          /\ \A j \in Keys \ {k} : vList'[j] = vList[j]
      BY <1>5 DEF TypeOK
    <2>2. \A j \in Keys \ {k} : Published(t, j)' <=> Published(t, j)
      BY <1>1, <2>1 DEF Published
    <2>3. /\ ~Published(t, k)
          /\ Published(t, k)' <=> phase[t] = "commitExclusive"
      BY <1>1, <2>1 DEF Published, PhaseInv
    <2>4. phase[t] = "commitExclusive" => Last(vList[k]).data = {t}
      <3>1. Last(vList[k]).data \subseteq {t}
        BY <1>1 DEF WellFormed, Private
      <3>2. phase[t] = "commitExclusive" => Wrote(t, k)
        BY <1>1 DEF Wrote, PhaseInv
      <3>3. QED
        BY <1>1, <3>1, <3>2, ContentInvParts DEF PrivateHolds
    <2>5. /\ \A j \in Keys \ {k} : Content(j)' = Content(j)
          /\ Content(k)' = IF phase[t] = "commitExclusive"
                           THEN Content(k) \cup {t} ELSE Content(k)
      BY <1>5, <2>4, GiveBackContent
    <2>6. ShowsPublished'
      <3>1. \A j \in Keys : Content(j) = {u \in TIDs : Published(u, j)}
        BY ContentInvParts DEF ShowsPublished
      <3>2. \A j \in Keys \ {k} :
              Content(j)' = {u \in TIDs : Published(u, j)'}
        BY <1>2, <2>2, <2>5, <3>1
      <3>3. Content(k)' = {u \in TIDs : Published(u, k)'}
        BY <1>2, <2>3, <2>5, <3>1
      <3>4. QED
        BY <3>2, <3>3 DEF ShowsPublished
    <2>7. PrivateHolds'
      <3>1. VersionOwner'
        BY GiveBackMoves
      <3>2. \A u \in TIDs : ~Private(Last(vList'[k]), u)
        <4>1. \A u \in TIDs : k \in Owned(u)' <=> Private(Last(vList'[k]), u)
          BY <3>1 DEF VersionOwner
        <4>2. \A u \in TIDs \ {t} : k \notin Owned(u)'
          BY GiveBackSteps
        <4>3. QED
          BY <1>5, <4>1, <4>2
      <3>3. QED
        BY <1>2, <1>3, <2>1, <3>2, ContentInvParts DEF PrivateHolds
    <2>8. QED
      BY <2>6, <2>7 DEF ContentInv, ShowsPublished, PrivateHolds
  <1>6. QED
    BY <1>1, <1>4, <1>5

LEMMA CheckpointContentInv ==
    ASSUME TypeOK, VersionOwner, ContentInv, CheckpointAlone, Checkpoint
    PROVE  ContentInv'
  <1>1. \A u \in TIDs, k \in Keys : /\ Published(u, k)' <=> Published(u, k)
                                    /\ Wrote(u, k)' <=> Wrote(u, k)
    BY CheckpointSteps DEF Published, Wrote
  <1>2. ShowsPublished'
    BY <1>1, CheckpointContent, ContentInvParts, NothingPublished
  <1>3. \A k \in Keys : vList'[k] = vList[k] \/ vList'[k] = <<DummyVersion>>
    BY CheckpointSteps, Zenon
  <1>4. PrivateHolds'
    BY <1>1, <1>3, DummyOwner, ContentInvParts DEF PrivateHolds
  <1>5. QED
    BY <1>2, <1>4 DEF ContentInv, ShowsPublished, PrivateHolds

LEMMA NextContentInv ==
    /\ TypeOK /\ PhaseInv /\ VersionOwner /\ CheckpointAlone
    /\ ContentInv /\ [Next]_vars
    => ContentInv'
  <1> SUFFICES ASSUME TypeOK, PhaseInv, VersionOwner, CheckpointAlone,
                      ContentInv, [Next]_vars
               PROVE  ContentInv'
    OBVIOUS
  <1>1. CASE UNCHANGED vars
    BY <1>1 DEF vars, mgrVars, entryVars, txnVars, ctlVars, ContentInv, Content,
                Published, Wrote
  <1>2. QED
    BY <1>1, ThreadContent, QuietContentInv, LockContentInv, WriteContentInv,
       GiveBackContentInv, CheckpointContentInv
    DEF Next, TxnStep

\* A key shows exactly the writes that have been published.
LEMMA ContentIsPublished == Spec => []ContentInv
  <1>1. Spec => [](TypeOK /\ PhaseInv)
    BY InitTypeOK, InitPhaseInv, NextTypeOK, NextPhaseInv, PTL DEF Spec
  <1>2. QED
    BY <1>1, InitContent, NextContentInv, CheckpointRunsAlone, WritersExclude,
       PTL DEF Spec

\* A transaction ends with all its writes in place and none pending, or with
\* none of them left in any version or stored value.
THEOREM CommitIsAllOrNothing == Spec => []AllOrNothing
  <1>1. VersionOwner /\ ContentInv => AllOrNothing
    <2> SUFFICES ASSUME VersionOwner, ContentInv,
                        NEW t \in TIDs, phase[t] = "ended", NEW k \in Keys
                 PROVE  IF state[t] = "COMMITTED" /\ k \in writeSet[t]
                        THEN t \in Content(k)
                        ELSE /\ t \notin base[k]
                             /\ \A i \in 1..Len(vList[k]) :
                                  t \notin vList[k][i].data
      BY DEF AllOrNothing
    <2>1. t \in Content(k) <=> state[t] = "COMMITTED" /\ k \in writeSet[t]
      BY DEF ContentInv, Published
    <2>2. ASSUME t \notin Content(k), NEW i \in 1..Len(vList[k])
          PROVE  t \notin vList[k][i].data
      <3>1. CASE vList[k][i].begin # INVALID
        BY <2>2, <3>1, ContentOf, ShownBy
      <3>2. CASE vList[k][i].begin = INVALID
        <4>1. i = Len(vList[k])
          BY <3>2 DEF VersionOwner, WellFormed
        <4>2. /\ Last(vList[k]).end \in TIDs
              /\ vList[k][i].data \subseteq {Last(vList[k]).end}
              /\ Private(Last(vList[k]), Last(vList[k]).end)
          BY <3>2, <4>1 DEF VersionOwner, WellFormed, Last, Private
        <4>3. ~Private(Last(vList[k]), t)
          BY DEF VersionOwner, Owned
        <4>4. QED
          BY <4>2, <4>3
      <3>3. QED
        BY <3>1, <3>2
    <2>3. QED
      BY <2>1, <2>2, ContentOf
  <1>2. QED
    BY <1>1, WritersExclude, ContentIsPublished, PTL

-----------------------------------------------------------------------------
(* Reads return published writes                                           *)

\* What a read returns besides the reader's own writes is what the key shows.
LEMMA ReadReturns ==
    ASSUME TypeOK, VersionOwner, NEW t \in TIDs, NEW k \in Keys, Read(t, k)
    PROVE  /\ phase[t] = "idle"
           /\ \/ seen' = seen
              \/ \E S \in SUBSET (Content(k) \ {t}) :
                   seen' = [seen EXCEPT ![t] = @ \cup {[key |-> k, from |-> S]}]
  <1> DEFINE S == (base[k] \cup ReadVersion(vList[k], t, iso[t])) \ {t}
  <1>1. /\ phase[t] = "idle"
        /\ \/ seen' = seen
           \/ seen' = [seen EXCEPT ![t] = @ \cup {[key |-> k, from |-> S]}]
    BY Zenon DEF Read
  <1>2. vList[k] \in Seq(VersionType(TIDs)) /\ WellFormed(vList[k])
    BY DEF TypeOK, VersionOwner
  <1>3. S \subseteq Content(k) \ {t}
    BY <1>2, ReadShown, ContentOf
  <1> HIDE DEF S
  <1>4. QED
    BY <1>1, <1>3

\* A step other than a read records nothing.
LEMMA OnlyReadsSee ==
    ASSUME TypeOK, PhaseInv, VersionOwner, CheckpointAlone, [Next]_vars
    PROVE  seen' = seen \/ \E t \in TIDs, k \in Keys : Read(t, k)
  <1>1. ASSUME NEW t \in TIDs, NEW k \in Keys, ReleaseShared(t, k)
        PROVE  seen' = seen
    BY <1>1 DEF ReleaseShared
  <1>2. CASE UNCHANGED vars
    BY <1>2 DEF vars
  <1>3. QED
    BY <1>1, <1>2, ThreadSteps, LockSteps, WriteSteps, GiveBackSteps,
       CheckpointSteps DEF Next, TxnStep

\* What a key shows it goes on showing, so a published write stays published.
LEMMA PublishedStays ==
    ASSUME TypeOK, PhaseInv, VersionOwner, CheckpointAlone,
           ContentInv, ContentInv', [Next]_vars,
           NEW t \in TIDs, NEW k \in Keys, Published(t, k)
    PROVE  Published(t, k)'
  <1>1. Content(k) \subseteq Content(k)'
    BY ContentMoves
  <1>2. t \in Content(k)
    BY DEF ContentInv
  <1>3. Content(k)' = {u \in TIDs : Published(u, k)'}
    BY DEF ContentInv
  <1>4. QED
    BY <1>1, <1>2, <1>3

\* No transaction, whatever its level, reads a write of another before that
\* one has begun to commit, and what it has read is never taken back.
THEOREM NoDirtyReads == Spec => []SeenInv
  <1>1. Init => SeenInv
    BY DEF Init, SeenInv
  <1>2. /\ TypeOK /\ PhaseInv /\ VersionOwner /\ CheckpointAlone
        /\ ContentInv /\ ContentInv' /\ SeenInv /\ [Next]_vars
        => SeenInv'
    <2> SUFFICES ASSUME TypeOK, PhaseInv, VersionOwner, CheckpointAlone,
                        ContentInv, ContentInv', SeenInv, [Next]_vars,
                        NEW t \in TIDs, NEW r \in seen'[t], NEW w \in r.from
                 PROVE  Published(w, r.key)'
      BY DEF SeenInv
    <2>1. CASE r \in seen[t]
      <3>1. w \in TIDs /\ r.key \in Keys
        BY <2>1 DEF TypeOK
      <3>2. Published(w, r.key)
        BY <2>1 DEF SeenInv
      <3>3. QED
        BY <3>1, <3>2, PublishedStays
    <2>2. CASE r \notin seen[t]
      <3>1. PICK u \in TIDs, k \in Keys : Read(u, k)
        BY <2>2, OnlyReadsSee
      <3>2. PICK S \in SUBSET (Content(k) \ {u}) :
              seen' = [seen EXCEPT ![u] = @ \cup {[key |-> k, from |-> S]}]
        BY <2>2, <3>1, ReadReturns
      <3>3. r = [key |-> k, from |-> S]
        BY <2>2, <3>2 DEF TypeOK
      <3>4. w \in Content(k) /\ r.key = k
        BY <3>3
      <3>5. w \in Content(k)'
        BY <3>4, ContentMoves
      <3>6. Content(k)' = {v \in TIDs : Published(v, k)'}
        BY DEF ContentInv
      <3>7. QED
        BY <3>4, <3>5, <3>6
    <2>3. QED
      BY <2>1, <2>2
  <1>3. Spec => [](TypeOK /\ PhaseInv)
    BY InitTypeOK, InitPhaseInv, NextTypeOK, NextPhaseInv, PTL DEF Spec
  <1>4. QED
    BY <1>1, <1>2, <1>3, CheckpointRunsAlone, WritersExclude,
       ContentIsPublished, PTL DEF Spec

-----------------------------------------------------------------------------
(* The mapping                                                             *)

\* The writer of a key in CommitStore.
WriterOf(k) == IF Last(vList[k]).begin = INVALID THEN Last(vList[k]).end
                                                 ELSE INVALID

\* It is the one transaction that owns the key, if any does.
WriterInv ==
    \A k \in Keys :
        \/ WriterOf(k) = INVALID /\ \A u \in TIDs : k \notin Owned(u)
        \/ WriterOf(k) \in TIDs /\ \A u \in TIDs :
                                     k \in Owned(u) <=> u = WriterOf(k)

LEMMA OwnerIsWriter == VersionOwner => WriterInv
  <1> SUFFICES ASSUME VersionOwner, NEW k \in Keys
               PROVE  \/ WriterOf(k) = INVALID /\ \A u \in TIDs : k \notin Owned(u)
                      \/ WriterOf(k) \in TIDs /\ \A u \in TIDs :
                                     k \in Owned(u) <=> u = WriterOf(k)
    BY DEF WriterInv
  <1>1. \A u \in TIDs : k \in Owned(u) <=> Private(Last(vList[k]), u)
    BY DEF VersionOwner
  <1>2. Last(vList[k]).begin = INVALID => Last(vList[k]).end \in TIDs
    BY DEF VersionOwner, WellFormed
  <1>3. QED
    BY <1>1, <1>2 DEF Private, WriterOf

\* A step after which every key has the owners it had leaves every writer, ...
LEMMA SameOwners ==
    ASSUME WriterInv, WriterInv', \A u \in TIDs : Owned(u)' = Owned(u)
    PROVE  \A k \in Keys : WriterOf(k)' = WriterOf(k)
  <1> TAKE k \in Keys
  <1>1. \/ WriterOf(k) = INVALID /\ \A u \in TIDs : k \notin Owned(u)
        \/ WriterOf(k) \in TIDs /\ \A u \in TIDs : k \in Owned(u) <=> u = WriterOf(k)
    BY DEF WriterInv
  <1>2. \/ WriterOf(k)' = INVALID /\ \A u \in TIDs : k \notin Owned(u)'
        \/ WriterOf(k)' \in TIDs /\ \A u \in TIDs : k \in Owned(u)' <=> u = WriterOf(k)'
    BY DEF WriterInv
  <1>3. QED
    BY <1>1, <1>2

\* ... and one in which a single key changes hands leaves those of the others.
LEMMA OneKeyMoves ==
    ASSUME WriterInv, WriterInv', NEW t \in TIDs, NEW k \in Keys,
           \A u \in TIDs \ {t} : Owned(u)' = Owned(u) /\ k \notin Owned(u)
    PROVE  /\ (Owned(t)' = Owned(t) \cup {k} \/ Owned(t)' = Owned(t) \ {k}) =>
                \A j \in Keys \ {k} : WriterOf(j)' = WriterOf(j)
           /\ WriterOf(k) = IF k \in Owned(t) THEN t ELSE INVALID
           /\ WriterOf(k)' = IF k \in Owned(t)' THEN t ELSE INVALID
  <1>1. \A j \in Keys :
          \/ WriterOf(j) = INVALID /\ \A u \in TIDs : j \notin Owned(u)
          \/ WriterOf(j) \in TIDs /\ \A u \in TIDs : j \in Owned(u) <=> u = WriterOf(j)
    BY DEF WriterInv
  <1>2. \A j \in Keys :
          \/ WriterOf(j)' = INVALID /\ \A u \in TIDs : j \notin Owned(u)'
          \/ WriterOf(j)' \in TIDs /\ \A u \in TIDs : j \in Owned(u)' <=> u = WriterOf(j)'
    BY DEF WriterInv
  <1>3. ASSUME Owned(t)' = Owned(t) \cup {k} \/ Owned(t)' = Owned(t) \ {k},
               NEW j \in Keys \ {k}
        PROVE  WriterOf(j)' = WriterOf(j)
    <2>1. \A u \in TIDs : j \in Owned(u)' <=> j \in Owned(u)
      BY <1>3
    <2>2. QED
      BY <1>1, <1>2, <2>1
  <1>4. /\ WriterOf(k) = IF k \in Owned(t) THEN t ELSE INVALID
        /\ WriterOf(k)' = IF k \in Owned(t)' THEN t ELSE INVALID
    BY <1>1, <1>2
  <1>5. QED
    BY <1>3, <1>4

\* A transaction's fate depends on its phase and state only.
LEMMA SameFates ==
    ASSUME \A u \in TIDs : phase'[u] = phase[u] /\ state'[u] = state[u]
    PROVE  \A u \in TIDs : Fate(u)' = Fate(u)
  BY DEF Fate

\* A step that CommitStore does not see.
LEMMA Stutters ==
    ASSUME \A k \in Keys : Content(k)' = Content(k),
           \A k \in Keys : WriterOf(k)' = WriterOf(k),
           \A u \in TIDs : Fate(u)' = Fate(u),
           seen' = seen
    PROVE  UNCHANGED Abstract!vars
  BY DEF Abstract!vars, WriterOf

LEMMA InitRefines == Init => Abstract!Init
  <1> SUFFICES ASSUME Init PROVE Abstract!Init
    OBVIOUS
  <1>1. \A k \in Keys : Content(k) = {}
    BY DummyShown, ContentOf DEF Init
  <1>2. \A k \in Keys : WriterOf(k) = INVALID
    BY InvalidAssumption DEF Init, WriterOf, Last, DummyVersion, Version
  <1>3. \A t \in TIDs : Fate(t) = "open"
    BY DEF Init, Fate
  <1>4. seen = [t \in TIDs |-> {}]
    BY DEF Init
  <1>5. QED
    BY <1>1, <1>2, <1>3, <1>4 DEF Abstract!Init, WriterOf

-----------------------------------------------------------------------------
(* The steps                                                               *)

\* Commit and Abort decide when they begin; the other steps between the loops
\* decide nothing.
LEMMA ThreadFates ==
    ASSUME TypeOK, PhaseInv, NEW t \in TIDs,
           \/ Begin(t) \/ StartTriple(t) \/ Locked(t) \/ Undone(t)
           \/ Written(t) \/ StartCommit(t) \/ StartAbort(t)
           \/ SharedReleased(t) \/ FinishCommit(t) \/ FinishAbort(t)
    PROVE  /\ \A u \in TIDs \ {t} : Fate(u)' = Fate(u)
           /\ \/ Fate(t)' = Fate(t)
              \/ Fate(t) = "open" /\ Fate(t)' \in {"commit", "abort"}
  <1>1. \A u \in TIDs \ {t} : Fate(u)' = Fate(u)
    BY ThreadSteps DEF Fate
  <1>2. \/ Fate(t)' = Fate(t)
        \/ Fate(t) = "open" /\ Fate(t)' \in {"commit", "abort"}
    <2> USE DEF TypeOK, mgrVars, entryVars, txnVars, ctlVars, Fate
    <2>1. CASE Begin(t)
      BY <2>1 DEF Begin, PhaseInv, TIDs
    <2>2. CASE StartTriple(t)
      BY <2>2 DEF StartTriple
    <2>3. CASE Locked(t)
      BY <2>3 DEF Locked
    <2>4. CASE Undone(t)
      BY <2>4 DEF Undone
    <2>5. CASE Written(t)
      BY <2>5 DEF Written
    <2>6. CASE StartCommit(t)
      BY <2>6 DEF StartCommit
    <2>7. CASE StartAbort(t)
      BY <2>7 DEF StartAbort
    <2>8. CASE SharedReleased(t)
      BY <2>8 DEF SharedReleased
    <2>9. CASE FinishCommit(t)
      BY <2>9 DEF FinishCommit
    <2>10. CASE FinishAbort(t)
      BY <2>10 DEF FinishAbort
    <2>11. QED
      BY <2>1, <2>2, <2>3, <2>4, <2>5, <2>6, <2>7, <2>8, <2>9, <2>10
  <1>3. QED
    BY <1>1, <1>2

LEMMA ThreadRefines ==
    ASSUME TypeOK, PhaseInv, WriterInv, WriterInv', NEW t \in TIDs,
           \/ Begin(t) \/ StartTriple(t) \/ Locked(t) \/ Undone(t)
           \/ Written(t) \/ StartCommit(t) \/ StartAbort(t)
           \/ SharedReleased(t) \/ FinishCommit(t) \/ FinishAbort(t)
    PROVE  Abstract!Decide(t) \/ UNCHANGED Abstract!vars
  <1>1. /\ \A k \in Keys : Content(k)' = Content(k)
        /\ \A k \in Keys : WriterOf(k)' = WriterOf(k)
        /\ seen' = seen
    BY ThreadSteps, QuietContent, SameOwners
  <1>2. CASE Fate(t)' = Fate(t)
    BY <1>1, <1>2, ThreadFates, Stutters
  <1>3. CASE Fate(t) = "open" /\ Fate(t)' \in {"commit", "abort"}
    <2>1. [u \in TIDs |-> Fate(u)'] =
            [[u \in TIDs |-> Fate(u)] EXCEPT ![t] = Fate(t)']
      BY ThreadFates
    <2>2. QED
      BY <1>1, <1>3, <2>1 DEF Abstract!Decide, WriterOf
  <1>4. QED
    BY <1>2, <1>3, ThreadFates

\* A read observes published writes, or nothing.
LEMMA ReadRefines ==
    ASSUME TypeOK, VersionOwner, WriterInv, WriterInv',
           NEW t \in TIDs, NEW k \in Keys, Read(t, k) \/ ReleaseShared(t, k)
    PROVE  Abstract!Observe(t, k) \/ UNCHANGED Abstract!vars
  <1>1. /\ \A j \in Keys : Content(j)' = Content(j)
        /\ \A j \in Keys : WriterOf(j)' = WriterOf(j)
    BY QuietSteps, QuietContent, SameOwners
  <1>2. CASE Read(t, k)
    <2>1. /\ UNCHANGED phase /\ phase[t] = "idle"
          /\ \A u \in TIDs \ {t} : state'[u] = state[u]
      BY <1>2, QuietSteps, ReadReturns
    <2>2. Fate(t) = "open" /\ \A u \in TIDs : Fate(u)' = Fate(u)
      BY <2>1 DEF Fate
    <2>3. CASE seen' = seen
      BY <1>1, <2>2, <2>3, Stutters
    <2>4. CASE \E S \in SUBSET (Content(k) \ {t}) :
                 seen' = [seen EXCEPT ![t] = @ \cup {[key |-> k, from |-> S]}]
      BY <1>1, <2>2, <2>4 DEF Abstract!Observe, WriterOf
    <2>5. QED
      BY <1>2, <2>3, <2>4, ReadReturns
  <1>3. CASE ReleaseShared(t, k)
    <2>1. UNCHANGED <<phase, state, seen>>
      BY <1>3 DEF ReleaseShared, txnVars
    <2>2. QED
      BY <1>1, <2>1, SameFates, Stutters
  <1>4. QED
    BY <1>2, <1>3

\* Locking a key makes the transaction its writer; failing to changes nothing.
LEMMA LockRefines ==
    ASSUME TypeOK, PhaseInv, VersionOwner, WriterInv, WriterInv',
           NEW t \in TIDs, NEW k \in Keys, Lock(t, k)
    PROVE  Abstract!Acquire(t, k) \/ UNCHANGED Abstract!vars
  <1>1. \A j \in Keys : Content(j)' = Content(j)
    BY LockContent
  <1>2. /\ UNCHANGED <<state, seen>>
        /\ phase[t] = "lock"
        /\ \/ phase' = phase
           \/ phase' = [phase EXCEPT ![t] = "undo"]
        /\ \A u \in TIDs \ {t} : Owned(u)' = Owned(u)
    BY LockSteps
  <1>3. Fate(t) = "open" /\ \A u \in TIDs : Fate(u)' = Fate(u)
    BY <1>2 DEF Fate, TypeOK
  <1>4. CASE Owned(t)' = Owned(t)
    BY <1>1, <1>2, <1>3, <1>4, SameOwners, Stutters
  <1>5. CASE /\ \A u \in TIDs : k \notin Owned(u)
             /\ Owned(t)' = Owned(t) \cup {k}
    <2>1. /\ \A j \in Keys \ {k} : WriterOf(j)' = WriterOf(j)
          /\ WriterOf(k) = INVALID /\ WriterOf(k)' = t
      BY <1>2, <1>5, OneKeyMoves
    <2>2. [j \in Keys |-> WriterOf(j)'] =
            [[j \in Keys |-> WriterOf(j)] EXCEPT ![k] = t]
      BY <2>1
    <2>3. QED
      BY <1>1, <1>2, <1>3, <2>1, <2>2 DEF Abstract!Acquire, WriterOf
  <1>6. QED
    BY <1>4, <1>5, LockSteps

LEMMA WriteRefines ==
    ASSUME TypeOK, PhaseInv, VersionOwner, WriterInv, WriterInv',
           NEW t \in TIDs, NEW k \in Keys, Write(t, k)
    PROVE  UNCHANGED Abstract!vars
  <1>1. /\ UNCHANGED <<phase, state, seen>>
        /\ \A u \in TIDs : Owned(u)' = Owned(u)
    BY WriteSteps
  <1>2. QED
    BY <1>1, WriteContent, SameOwners, SameFates, Stutters

\* A stamp publishes the write of a committing transaction; a version dropped
\* is a write discarded by one that has not decided, or has decided to abort.
LEMMA GiveBackRefines ==
    ASSUME TypeOK, PhaseInv, VersionOwner, ContentInv, WriterInv, WriterInv',
           NEW t \in TIDs, NEW k \in Keys,
           Undo(t, k) \/ CommitKey(t, k) \/ AbortKey(t, k)
    PROVE  \/ Abstract!Publish(t, k) \/ Abstract!Discard(t, k)
           \/ UNCHANGED Abstract!vars
  <1>1. /\ UNCHANGED <<phase, state, seen>>
        /\ phase[t] \in {"undo", "commitExclusive", "abortExclusive"}
        /\ k \in Owned(t) /\ k \in todo[t]
        /\ WellFormed(vList[k]) /\ Private(Last(vList[k]), t)
        /\ \A u \in TIDs \ {t} : Owned(u)' = Owned(u) /\ k \notin Owned(u)
        /\ \/ crashed' /\ Owned(t)' = Owned(t)
           \/ ~crashed' /\ Owned(t)' = Owned(t) \ {k}
    BY GiveBackSteps
  <1>2. \A u \in TIDs : Fate(u)' = Fate(u)
    BY <1>1, SameFates
  <1>3. /\ \A j \in Keys \ {k} : Content(j)' = Content(j)
        /\ Content(k)' = IF phase[t] = "commitExclusive" /\ ~crashed'
                         THEN Content(k) \cup Last(vList[k]).data
                         ELSE Content(k)
    BY GiveBackContent
  <1>4. CASE crashed' /\ Owned(t)' = Owned(t)
    BY <1>1, <1>2, <1>3, <1>4, SameOwners, Stutters
  <1>5. CASE ~crashed' /\ Owned(t)' = Owned(t) \ {k}
    <2>1. /\ \A j \in Keys \ {k} : WriterOf(j)' = WriterOf(j)
          /\ WriterOf(k) = t /\ WriterOf(k)' = INVALID
      BY <1>1, <1>5, OneKeyMoves
    <2>2. [j \in Keys |-> WriterOf(j)'] =
            [[j \in Keys |-> WriterOf(j)] EXCEPT ![k] = INVALID]
      BY <2>1
    <2>3. CASE phase[t] = "commitExclusive"
      <3>1. Fate(t) = "commit"
        BY <2>3 DEF Fate
      <3>2. Wrote(t, k)
        BY <1>1, <2>3 DEF Wrote, PhaseInv
      <3>3. Last(vList[k]).data = {t}
        BY <1>1, <3>2 DEF WellFormed, Private, ContentInv
      <3>4. [j \in Keys |-> Content(j)'] =
              [[j \in Keys |-> Content(j)] EXCEPT ![k] = @ \cup {t}]
        BY <1>3, <1>5, <2>3, <3>3
      <3>5. QED
        BY <1>1, <1>2, <2>1, <2>2, <3>1, <3>4 DEF Abstract!Publish, WriterOf
    <2>4. CASE phase[t] # "commitExclusive"
      <3>1. Fate(t) # "commit"
        BY <1>1, <2>4 DEF Fate
      <3>2. \A j \in Keys : Content(j)' = Content(j)
        BY <1>3, <2>4
      <3>3. QED
        BY <1>1, <1>2, <2>1, <2>2, <3>1, <3>2 DEF Abstract!Discard, WriterOf
    <2>5. QED
      BY <2>3, <2>4
  <1>6. QED
    BY <1>1, <1>4, <1>5

\* A checkpoint changes nothing that anybody can see.
LEMMA CheckpointRefines ==
    ASSUME TypeOK, VersionOwner, WriterInv, WriterInv', CheckpointAlone,
           Checkpoint
    PROVE  UNCHANGED Abstract!vars
  <1>1. /\ UNCHANGED <<phase, state, seen>>
        /\ \A u \in TIDs : Owned(u)' = Owned(u)
    BY CheckpointSteps
  <1>2. QED
    BY <1>1, CheckpointContent, SameOwners, SameFates, Stutters

LEMMA NextRefines ==
    /\ TypeOK /\ PhaseInv /\ VersionOwner /\ CheckpointAlone /\ ContentInv
    /\ WriterInv /\ WriterInv' /\ [Next]_vars
    => [Abstract!Next]_(Abstract!vars)
  <1> SUFFICES ASSUME TypeOK, PhaseInv, VersionOwner, CheckpointAlone,
                      ContentInv, WriterInv, WriterInv', [Next]_vars
               PROVE  Abstract!Next \/ UNCHANGED Abstract!vars
    OBVIOUS
  <1>1. CASE UNCHANGED vars
    <2>1. /\ UNCHANGED <<phase, state, seen, base, vList>>
          /\ \A u \in TIDs : Owned(u)' = Owned(u)
      BY <1>1 DEF vars, entryVars, txnVars, ctlVars, Owned
    <2>2. QED
      BY <2>1, QuietContent, SameOwners, SameFates, Stutters
  <1>2. CASE Checkpoint
    BY <1>2, CheckpointRefines
  <1>3. ASSUME NEW t \in TIDs, Begin(t) \/ TxnStep(t)
        PROVE  \/ UNCHANGED Abstract!vars
               \/ Abstract!Decide(t)
               \/ \E k \in Keys :
                     \/ Abstract!Acquire(t, k) \/ Abstract!Publish(t, k)
                     \/ Abstract!Discard(t, k) \/ Abstract!Observe(t, k)
    BY <1>3, ThreadRefines, ReadRefines, LockRefines, WriteRefines,
       GiveBackRefines DEF TxnStep
  <1>4. QED
    BY <1>1, <1>2, <1>3 DEF Next, Abstract!Next

\* The store implements CommitStore: versions, latches, statements that undo
\* themselves and checkpoints add up to keys with one writer at a time, whose
\* writes appear after the decision to commit and never before.
THEOREM Refines == Spec => ImplementsCommitStore
  <1>1. Spec => [](TypeOK /\ PhaseInv)
    BY InitTypeOK, InitPhaseInv, NextTypeOK, NextPhaseInv, PTL DEF Spec
  <1>2. Spec => []WriterInv
    BY WritersExclude, OwnerIsWriter, PTL
  <1>3. QED
    BY <1>1, <1>2, InitRefines, NextRefines, CheckpointRunsAlone,
       WritersExclude, ContentIsPublished, PTL
    DEF Spec, ImplementsCommitStore, Abstract!Spec
=============================================================================

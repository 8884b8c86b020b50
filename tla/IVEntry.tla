------------------------------ MODULE IVEntry -------------------------------
(***************************************************************************)
(* One entry of an index array under multi-version concurrency control     *)
(* (KVstore/IVArray/IVEntry.cpp): a list of versions, oldest first, and    *)
(* the logical latch of GLatch.  The methods run under the entry's rwLatch *)
(* and are operators on the list here.                                     *)
(*                                                                         *)
(* A version [begin, end, data] is                                         *)
(*   committed   when begin # INVALID: valid from begin to end,            *)
(*   private     when begin = INVALID: end is the TID of its writer.       *)
(* What the add and delete lists of a version do to the stored value is    *)
(* abstracted to the set of transactions that wrote into it.               *)
(***************************************************************************)
EXTENDS GLatch, Sequences

Levels == {"SERIALIZABLE", "SNAPSHOT", "READ_COMMITTED"}

VersionType(W) == [begin : Nat, end : Nat, data : SUBSET W]
Version(b, e, d) == [begin |-> b, end |-> e, data |-> d]

\* The version every entry starts with: [0, INF), writing nothing.
DummyVersion == Version(0, INVALID, {})

Last(vl) == vl[Len(vl)]
Pop(vl) == SubSeq(vl, 1, Len(vl) - 1)

Private(v, t) == v.begin = INVALID /\ v.end = t

-----------------------------------------------------------------------------
(* Reading                                                                 *)

\* getLatestVersion: all versions but a head that is somebody else's private.
LatestVisible(vl, t) ==
    {i \in 1..Len(vl) : \/ i < Len(vl)
                        \/ Private(Last(vl), t)
                        \/ Last(vl).end = INVALID}

\* Mutant: any private head is taken for t's own.
ProperWithPrivate(vl, t) ==
    {i \in 1..Len(vl) : \/ \A j \in 1..i : vl[j].begin <= t
                        \/ i = Len(vl) /\ vl[i].begin = INVALID}

\* getProperVersion: the versions before the first that began after t, and
\* t's own private head.
ProperVisible(vl, t) ==
    {i \in 1..Len(vl) : \/ \A j \in 1..i : vl[j].begin <= t
                        \/ i = Len(vl) /\ Private(vl[i], t)}

\* checkheadVersion: -1 is a private head of an older transaction, 1 a head
\* that t can see and should latch, 0 a head that t reads around.
CheckHead(vl, t) ==
    IF Last(vl).begin <= t THEN 1
    ELSE IF Last(vl).begin = INVALID /\ t > Last(vl).end THEN -1 ELSE 0

\* ReadVersion: whether it succeeds, whether it takes a shared latch, and
\* what it returns.
ReadLatches(vl, t, iso, firstRead) ==
    iso = "SERIALIZABLE" /\ firstRead /\ CheckHead(vl, t) = 1

CanRead(vl, l, t, iso, firstRead) ==
    iso = "SERIALIZABLE" =>
        /\ CheckHead(vl, t) # -1
        /\ ReadLatches(vl, t, iso, firstRead) => CanLatchShared(l, t)

ReadVersion(vl, t, iso) ==
    UNION {vl[i].data : i \in IF iso = "READ_COMMITTED"
                              THEN LatestVisible(vl, t)
                              ELSE ProperVisible(vl, t)}

-----------------------------------------------------------------------------
(* Writing                                                                 *)

\* Mutant: a private head locks nobody out.
CheckVersionNoLock(vl, t, iso) ==
    \/ Last(vl).begin = INVALID
    \/ iso = "READ_COMMITTED" \/ Last(vl).begin <= t

\* checkVersion: a private head is a lock; above READ_COMMITTED a committed
\* head that began after t is a write t must not overwrite.
CheckVersion(vl, t, iso) ==
    IF Last(vl).begin = INVALID
    THEN Last(vl).end = t
    ELSE iso = "READ_COMMITTED" \/ Last(vl).begin <= t

\* GetExclusiveLatch: the check, the latch (serializable only; an upgrade if
\* t has a shared latch already) and the new private head, in one step.
CanGetExclusiveLatch(vl, l, t, iso, hasRead) ==
    /\ CheckVersion(vl, t, iso)
    /\ iso = "SERIALIZABLE" =>
         IF hasRead THEN CanUpgrade(l) ELSE CanLatchExclusive(l, t)

\* tryupgradelatch asserts that what stood in its way was a shared latch.
UpgradeAsserts(vl, l, t, iso, hasRead) ==
    /\ iso = "SERIALIZABLE" /\ hasRead
    /\ CheckVersion(vl, t, iso)
    /\ l.tid # INVALID

ExclusiveLatch(l, t, iso, hasRead) ==
    IF iso # "SERIALIZABLE" THEN l
    ELSE IF hasRead THEN Upgrade(l, t) ELSE LatchExclusive(l, t)

NewVersion(vl, t) == Append(vl, Version(INVALID, t, {}))

\* Mutant: writes into the version before the private one.
WriteInPlace(vl, t) ==
    [vl EXCEPT ![Len(vl) - 1] = Version(@.begin, @.end, @.data \cup {t})]

\* WriteVersion: writes into whatever version is last.
WriteVersion(vl, t) == 
    [vl EXCEPT ![Len(vl)] = Version(@.begin, @.end, @.data \cup {t})]

\* InvalidExlusiveLatch: gives the latch back (to a shared one if the caller
\* says that t read the key) and drops whatever version is last.
CanInvalidate(l, t, iso, hasRead) ==
    iso = "SERIALIZABLE" =>
        IF hasRead THEN CanDowngrade(l, t) ELSE CanUnlatchExclusive(l, t)

InvalidateLatch(l, iso, hasRead) ==
    IF iso # "SERIALIZABLE" THEN l
    ELSE IF hasRead THEN Downgrade(l) ELSE UnlatchExclusive(l)

\* UnLatch(EXCLUSIVE): gives the latch back and stamps the last version with
\* the commit ID.
CanUnLatch(l, t, iso) == iso = "SERIALIZABLE" => CanUnlatchExclusive(l, t)

UnLatch(l, iso) == IF iso = "SERIALIZABLE" THEN UnlatchExclusive(l) ELSE l

\* Mutant: the version before stays open.
StampLastOnly(vl, cid) ==
    [vl EXCEPT ![Len(vl)] = Version(cid, INVALID, @.data)]

Stamp(vl, cid) ==
    LET stamped == [vl EXCEPT ![Len(vl)] = Version(cid, INVALID, @.data)]
    IN [stamped EXCEPT ![Len(vl) - 1] = Version(@.begin, cid, @.data)]
=============================================================================

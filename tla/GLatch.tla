------------------------------- MODULE GLatch -------------------------------
(***************************************************************************)
(* The logical latch of one index entry (Util/GraphLock.cpp).  It is only  *)
(* used by serializable transactions: [tid |-> t, rcnt |-> 1] is t's       *)
(* exclusive latch, [tid |-> INVALID, rcnt |-> n] is n shared latches.     *)
(* Every method runs under the spinlock of the latch, so each is one       *)
(* atomic operator here: a condition (the method returns true) and the     *)
(* latch it leaves behind when it does.  A method that returns false       *)
(* leaves the latch as it was.                                             *)
(***************************************************************************)
EXTENDS Integers

CONSTANT INVALID   \* 2^64 - 1: INVALID_TS, INVALID_ID and INVALID_TID alike

ASSUME InvalidAssumption == INVALID \in Nat \ {0}

GLatchType == [tid : Nat, rcnt : Int]

Unlatched == [tid |-> INVALID, rcnt |-> 0]

\* Mutant: an exclusive latch over shared ones.
CanLatchExclusiveOverReaders(l, t) == l.tid \in {t, INVALID}

\* tryexclusivelatch (IS_SR): the owner gets it again, anybody else needs a
\* latch nobody holds in either mode.
CanLatchExclusive(l, t) == \/ l.tid = t
                           \/ l.tid = INVALID /\ l.rcnt = 0
LatchExclusive(l, t) == IF l.tid = t THEN l ELSE [tid |-> t, rcnt |-> 1]

\* trysharedlatch: the exclusive owner reads without taking anything.
CanLatchShared(l, t) == l.tid \in {t, INVALID}
LatchShared(l, t) == IF l.tid = t THEN l ELSE [l EXCEPT !.rcnt = @ + 1]

\* unlatch(TID, true, IS_SR)
CanUnlatchExclusive(l, t) == l.tid = t /\ l.rcnt = 1
UnlatchExclusive(l) == [tid |-> INVALID, rcnt |-> l.rcnt - 1]

\* unlatch(TID, false, IS_SR)
CanUnlatchShared(l) == l.tid = INVALID /\ l.rcnt > 0
UnlatchShared(l) == [l EXCEPT !.rcnt = @ - 1]

\* Mutant: one shared holder of several upgrades.
CanUpgradeAmongReaders(l) == l.tid = INVALID /\ l.rcnt > 0

\* tryupgradelatch: the only shared holder becomes the exclusive one.
CanUpgrade(l) == l.tid = INVALID /\ l.rcnt = 1
Upgrade(l, t) == [l EXCEPT !.tid = t]

\* trydowngradelatch
CanDowngrade(l, t) == l.tid = t /\ l.rcnt = 1
Downgrade(l) == [l EXCEPT !.tid = INVALID]
=============================================================================

---------------------------- MODULE TxnStoreInv -----------------------------
(***************************************************************************)
(* The safety properties of TxnStore in inductive form: what has to be     *)
(* said besides a property for every step to preserve it.                  *)
(***************************************************************************)
EXTENDS TxnStore

\* What a thread's phase says of its other variables.
PhaseInv ==
    \A t \in TIDs :
        /\ phase[t] = "none" <=> t >= cnt
        /\ phase[t] = "none" => /\ state[t] = "WAITING"
                                /\ writeSet[t] = {} /\ readSet[t] = {}
        /\ phase[t] = "ended" => state[t] \in {"COMMITTED", "ABORTED"}
        /\ state[t] = "COMMITTED" => phase[t] = "ended"
        /\ phase[t] = "lock" =>
             /\ held[t] \cup todo[t] = triple[t] \ writeSet[t]
             /\ held[t] \cap todo[t] = {}
        /\ phase[t] = "undo" => todo[t] \cap writeSet[t] = {}
        /\ phase[t] = "write" => /\ held[t] = triple[t] \ writeSet[t]
                                 /\ todo[t] \subseteq triple[t]
        /\ phase[t] \in {"commitShared", "abortShared"} =>
             todo[t] \subseteq SharedOnly(t)
        /\ phase[t] \in {"commitExclusive", "abortExclusive"} =>
             todo[t] \subseteq writeSet[t]

\* Every transaction between Begin and its end holds checkpoint_lock once.
ReadersInv == ckptReaders = Cardinality({t \in TIDs : Active(t)})

\* While a transaction commits, its commit ID is no later than the next TID and
\* no earlier than any version of a key it has still to stamp.
CommitIDInv ==
    \A t \in TIDs : phase[t] \in {"commitShared", "commitExclusive"} =>
        /\ cid[t] <= cnt
        /\ \A k \in Owned(t) : \A i \in 1..(Len(vList[k]) - 1) :
              vList[k][i].begin <= cid[t]

\* t's write to k is there for everybody.
Published(t, k) ==
    /\ k \in writeSet[t]
    /\ \/ state[t] = "COMMITTED"
       \/ phase[t] = "commitExclusive" /\ k \notin todo[t]

\* t has written into its private version of k.
Wrote(t, k) ==
    \/ k \in writeSet[t]
    \/ phase[t] = "write" /\ k \in triple[t] \ todo[t]

\* A key shows exactly the published writes, and the private version of a key
\* holds the write of its owner from the moment it is made.
ContentInv ==
    \A k \in Keys :
        /\ Content(k) = {t \in TIDs : Published(t, k)}
        /\ \A t \in TIDs : Private(Last(vList[k]), t) /\ Wrote(t, k)
                             => t \in Last(vList[k]).data

\* Published writes stay published, so what a read has returned remains so.
SeenInv ==
    \A t \in TIDs : \A r \in seen[t] : \A w \in r.from : Published(w, r.key)

\* The read set of a transaction that is not serializable stays empty: only
\* a shared latch puts a key there.
ReadSetInv == \A t \in TIDs : readSet[t] # {} => SR(t)
=============================================================================

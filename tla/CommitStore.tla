---------------------------- MODULE CommitStore -----------------------------
(***************************************************************************)
(* What TxnStore promises, without versions, latches, IDs or checkpoints:  *)
(* a store in which a key has at most one writer at a time, a transaction  *)
(* decides once whether it commits, only then publishes its writes key by  *)
(* key, and nobody observes a write before it is published.                *)
(***************************************************************************)
EXTENDS Naturals

CONSTANTS Keys, TIDs,
          Nobody    \* not a transaction

VARIABLES content,  \* key -> the transactions whose writes it shows
          writer,   \* key -> the transaction that is writing it, or Nobody
          fate,     \* transaction -> "open", "commit" or "abort"
          seen      \* transaction -> what it has observed

vars == <<content, writer, fate, seen>>

Init ==
    /\ content = [k \in Keys |-> {}]
    /\ writer = [k \in Keys |-> Nobody]
    /\ fate = [t \in TIDs |-> "open"]
    /\ seen = [t \in TIDs |-> {}]

Acquire(t, k) ==
    /\ writer[k] = Nobody /\ fate[t] = "open"
    /\ writer' = [writer EXCEPT ![k] = t]
    /\ UNCHANGED <<content, fate, seen>>

Decide(t) ==
    /\ fate[t] = "open"
    /\ fate' \in {[fate EXCEPT ![t] = f] : f \in {"commit", "abort"}}
    /\ UNCHANGED <<content, writer, seen>>

Publish(t, k) ==
    /\ writer[k] = t /\ fate[t] = "commit"
    /\ content' = [content EXCEPT ![k] = @ \cup {t}]
    /\ writer' = [writer EXCEPT ![k] = Nobody]
    /\ UNCHANGED <<fate, seen>>

Discard(t, k) ==
    /\ writer[k] = t /\ fate[t] # "commit"
    /\ writer' = [writer EXCEPT ![k] = Nobody]
    /\ UNCHANGED <<content, fate, seen>>

Observe(t, k) ==
    /\ fate[t] = "open"
    /\ \E S \in SUBSET (content[k] \ {t}) :
          seen' = [seen EXCEPT ![t] = @ \cup {[key |-> k, from |-> S]}]
    /\ UNCHANGED <<content, writer, fate>>

Next == \E t \in TIDs : \/ Decide(t)
                        \/ \E k \in Keys : \/ Acquire(t, k) \/ Publish(t, k)
                                           \/ Discard(t, k) \/ Observe(t, k)

Spec == Init /\ [][Next]_vars
=============================================================================

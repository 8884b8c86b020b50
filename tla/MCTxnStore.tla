----------------------------- MODULE MCTxnStore -----------------------------
(* Instances of TxnStore for TLC. *)
EXTENDS TxnStoreInv

\* One triple: the smallest store on which transactions meet.
OneTripleKeys == {"p", "s", "o"}
OneTripleRank == [k \in OneTripleKeys |->
    CASE k = "p" -> 1 [] k = "s" -> 2 [] k = "o" -> 3]
OneTripleReads == [t \in TIDs |-> {"s", "o"}]
OneTripleWrites == [t \in TIDs |-> {OneTripleKeys}]

\* Two triples with nothing in common: each transaction reads the subjects
\* of both and writes one.
SkewKeys == {"p", "s", "o", "p2", "s2", "o2"}
SkewRank == [k \in SkewKeys |->
    CASE k \in {"p", "p2"} -> 1 [] k \in {"s", "s2"} -> 2 [] OTHER -> 3]
SkewReads == [t \in TIDs |-> {"s", "s2"}]
SkewWrites == [t \in TIDs |->
    IF t = 1 THEN {{"p2", "s2", "o2"}} ELSE {{"p", "s", "o"}}]
=============================================================================

-------------------------------- MODULE KVMap --------------------------------
(***************************************************************************)
(* What an index array promises KVstore: a map from keys to values that    *)
(* changes only when a key is inserted, modified or removed.               *)
(***************************************************************************)
CONSTANTS Keys, Values, None

VARIABLE map

Init == map = [k \in Keys |-> None]

Insert(k, v) == map[k] = None /\ map' = [map EXCEPT ![k] = v]
Modify(k, v) == map[k] # None /\ map' = [map EXCEPT ![k] = v]
Remove(k)    == map[k] # None /\ map' = [map EXCEPT ![k] = None]

Next == \E k \in Keys : \/ Remove(k)
                        \/ \E v \in Values : Insert(k, v) \/ Modify(k, v)

Spec == Init /\ [][Next]_map
=============================================================================

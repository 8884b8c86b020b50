------------------------------- MODULE MCSITree -------------------------------
(* Instances of SITree for TLC. *)
EXTENDS SITree

\* A node has room for three strings.  A dictionary that grows from nothing to
\* two levels in a small buffer and one that grows to three levels; and two of
\* three levels whose right or left inner node has a child to spare.
Nothing == <<>>
FourSetups ==
    {[built |-> Nothing, names |-> 1..5, room |-> 2, saved |-> TRUE],
     [built |-> <<3>>, names |-> {1, 2, 4, 5, 6}, room |-> 6, saved |-> FALSE],
     [built |-> <<1, 2, 3, 4, 5, 6, 7>>, names |-> {1, 3, 7}, room |-> 6, saved |-> TRUE],
     [built |-> <<4, 5, 6, 7, 8, 9, 1, 2, 3>>, names |-> {1, 9}, room |-> 2, saved |-> TRUE]}
=============================================================================

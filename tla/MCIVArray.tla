------------------------------ MODULE MCIVArray ------------------------------
(* Instances of IVArray for TLC. *)
EXTENDS IVArrayInv

CONSTANTS r1, r2

SizeOf == [v \in {"a", "b"} |-> IF v = "a" THEN 1 ELSE 2]

\* A buffer of two blocks, short lists, and removals; and long lists that are
\* pinned, two queries at a time, in a buffer nothing has to leave.
EvictAndPin ==
    {[cache |-> 2, border |-> 2, removes |-> TRUE, readers |-> {r1},
      maxKey |-> 2, maxBlocks |-> 4],
     [cache |-> 64, border |-> 1, removes |-> FALSE, readers |-> {r1, r2},
      maxKey |-> 1, maxBlocks |-> 6]}
=============================================================================

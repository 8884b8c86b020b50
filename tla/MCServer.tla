------------------------------ MODULE MCServer ------------------------------
(* Instances of Server for TLC. *)
EXTENDS ServerInv, TLC

AllKinds == Kinds

\* Pairs of requests that the locks do not keep apart, so clients must.
KeptApart ==
    {{"build", k} : k \in {"build", "drop", "restore"}}
    \cup {{"restore", k} : k \in {"load", "drop", "backup", "unload", "checkpoint"}}
    \cup {{"unload", k} : k \in {"begin", "query", "monitor", "batch", "checkpoint"}}
    \cup {{"drop", k} : k \in Kinds}

\* A client with an open transaction waits for nothing that waits for its end.
OneAtATime == {"tquery", "commit", "rollback", "show"}

\* What the proofs ask of clients and machine is so in this instance.
ASSUME PoliteHere == Polite
=============================================================================

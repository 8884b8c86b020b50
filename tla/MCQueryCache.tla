----------------------------- MODULE MCQueryCache -----------------------------
(* Instances of QueryCache for TLC. *)
EXTENDS QueryCache

\* No property tells the clients apart.
EitherClient == Permutations(Clients)

ThreePatterns == 1..3
ThreeSizes == [b \in 1..3 |-> IF b = 3 THEN 2 ELSE 1]
=============================================================================

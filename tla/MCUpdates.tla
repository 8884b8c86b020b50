----------------------------- MODULE MCUpdates ------------------------------
(* An instance of Updates for TLC. *)
EXTENDS Updates

MCLiterals   == {"x"}
MCPredicates == {"p", "q"}
Loop  == <<"c", "p", "c">>
First == <<"a", "p", "b">>
MCTriples == {First, <<"b", "q", "x">>, <<"a", "q", "b">>, Loop}
MCBuilds  == {<<First>>, <<<<"b", "q", "x">>, First>>}
=============================================================================

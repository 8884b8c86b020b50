--------------------------- MODULE MCTripleStore ----------------------------
EXTENDS TripleStore

(* Two subjects, three predicates and two objects, one of them a literal:   *)
(* a subject with three predicates has offsets before, at and behind every  *)
(* place where an update can happen.                                        *)
LiteralFirst == 10

FewTriples == {<<1, 1, 1>>, <<1, 1, 2>>, <<1, 2, 1>>, <<1, 2, 10>>,
               <<1, 3, 2>>, <<2, 1, 1>>}
EntityTriples == {<<1, 1, 1>>, <<1, 1, 2>>, <<1, 2, 1>>}
=============================================================================

------------------------------- MODULE IDInfo --------------------------------
(***************************************************************************)
(* The IDs of one kind of name: entities, literals and predicates each     *)
(* have a limit, a list of free IDs below it and a count of those in use   *)
(* (Database/Database.cpp).  The list is a stack in memory and is written  *)
(* to freeEntityID.dat, freeLiteralID.dat and freePredicateID.dat.  The    *)
(* limit stays far below the 2 * 10^9 at which no ID is left.              *)
(***************************************************************************)
EXTENDS Integers, Sequences, SequencesExt

Kinds == {"entity", "literal", "predicate"}

IDList == [limit : Nat, free : Seq(Nat), num : Int]

NoIDs == [limit |-> 0, free |-> <<>>, num |-> 0]

NextID(i) == IF i.free = <<>> THEN i.limit ELSE i.free[1]

\* Mutant: the ID taken stays in the list.
AllocKeeps(i) ==
    IF i.free = <<>> THEN [i EXCEPT !.limit = @ + 1, !.num = @ + 1]
    ELSE [i EXCEPT !.num = @ + 1]

\* allocEntityID, allocLiteralID, allocPredicateID
Alloc(i) ==
    IF i.free = <<>> THEN [i EXCEPT !.limit = @ + 1, !.num = @ + 1]
    ELSE [i EXCEPT !.free = Tail(@), !.num = @ + 1]

\* freeEntityID, freeLiteralID, freePredicateID
Free(i, id) ==
    IF id = i.limit - 1 THEN [i EXCEPT !.limit = @ - 1, !.num = @ - 1]
    ELSE [i EXCEPT !.free = <<id>> \o @, !.num = @ - 1]

\* initIDinfo leaves the count alone.
Forget(i) == [limit |-> 0, free |-> <<>>, num |-> i.num]

\* readIDinfo appends to the list of entities and pushes on the other two.
Reread(kind, i) ==
    IF kind = "entity" THEN i ELSE [i EXCEPT !.free = Reverse(@)]

\* Free and used IDs are all there are, once each.
Exact(i, used) ==
    /\ IsInjective(i.free)
    /\ ToSet(i.free) \cap used = {}
    /\ ToSet(i.free) \cup used = 0..(i.limit - 1)
    /\ i.num = Cardinality(used)
=============================================================================

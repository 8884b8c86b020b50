------------------------------- MODULE Updates -------------------------------
(***************************************************************************)
(* A database as the updates outside transactions leave it, in memory and  *)
(* in its files: the triples, stored by ID, the dictionary and the IDs     *)
(* given out (Database/Database.cpp), the log of updates and the tool that *)
(* undoes it (Main/rollback.cpp).                                          *)
(*                                                                         *)
(* An update is one step: insert and remove hold update_lock, batch_insert *)
(* and batch_remove are called with the database's lock.  So is a save: it *)
(* flushes the indexes, then the counts, then the IDs, and a crash between *)
(* these is not modelled, nor a cache that writes back before a save.      *)
(*                                                                         *)
(* One moment is marked, to which the tool may be told to return.  It      *)
(* skips the lines of the log before it, and throws away whatever followed *)
(* the first backup after it: neither is modelled.                         *)
(***************************************************************************)
EXTENDS IDInfo, FiniteSets, Functions

CONSTANTS
    Literals,       \* the names that are literals
    Predicates,     \* the names in second place
    Triples,        \* <<subject, predicate, object>>
    Builds,         \* sequences of triples a database is built from
    MaxBatch,       \* triples in a file of batch_insert or batch_remove
    MaxUnsaved,     \* updates between two saves
    MaxLog,         \* lines of the log since the marked moment
    MaxDrift,       \* how far the counter of triples may be off
    SelfLoops,      \* remove may get a triple whose subject is its object
    RemovalsOnly,   \* the tool is used when only removals followed
    None

VARIABLES
    db,       \* the database in memory, or None
    disk,     \* its files
    want,     \* the triples that were inserted and not removed
    saved,    \* want at the last save
    unsaved,  \* updates since then
    point     \* the marked moment, with what the log holds since

vars == <<db, disk, want, saved, unsaved, point>>

\* d after a step for every member of a sequence, the first one first.
Each(Op(_, _), d, xs) ==
    LET after[i \in 0..Len(xs)] == IF i = 0 THEN d ELSE Op(after[i - 1], xs[i])
    IN  after[Len(xs)]

Ascending(S) == [i \in 1..Cardinality(S) |->
                    CHOOSE x \in S : Cardinality({y \in S : y < x}) = i - 1]

-----------------------------------------------------------------------------
(* Names and their IDs                                                     *)

KindOf(n) == IF n \in Predicates THEN "predicate"
             ELSE IF n \in Literals THEN "literal" ELSE "entity"

\* A predicate stands in second place only, and a literal in third.
ASSUME TriplesAssumption ==
    \A t \in Triples : /\ t = <<t[1], t[2], t[3]>>
                       /\ KindOf(t[1]) = "entity" /\ KindOf(t[2]) = "predicate"
                       /\ KindOf(t[3]) # "predicate"

ASSUME BuildsAssumption == Builds \subseteq Seq(Triples)

ASSUME BoundsAssumption == {MaxBatch, MaxUnsaved, MaxLog, MaxDrift} \subseteq Nat

Names == UNION {{t[1], t[2], t[3]} : t \in Triples}

Dictionary == UNION {[N -> Nat] : N \in SUBSET Names}

\* What is stored: IDs in the indexes, the dictionaries and the IDs given out.
Database ==
    [triples : SUBSET [1..3 -> Kinds \X Nat], count : Int,
     id : [Kinds -> Dictionary], ids : [Kinds -> IDList]]

ASSUME NoneAssumption == None \notin Database /\ \A ts \in SUBSET Triples : None # ts

Empty == [triples |-> {}, count |-> 0,
          id  |-> [k \in Kinds |-> <<>>],
          ids |-> [k \in Kinds |-> NoIDs]]

Has(d, n) == n \in DOMAIN d.id[KindOf(n)]
ID(d, n)  == <<KindOf(n), d.id[KindOf(n)][n]>>
IDs(d, t) == [i \in 1..3 |-> ID(d, t[i])]
Known(d, t) == \A i \in 1..3 : Has(d, t[i])
Stored(d, t) == Known(d, t) /\ IDs(d, t) \in d.triples

\* A name that has no ID gets the next one.
Named(d, n) ==
    LET k == KindOf(n)
    IN  IF Has(d, n) THEN d
        ELSE [d EXCEPT !.id[k] = [m \in DOMAIN @ \cup {n} |->
                                     IF m = n THEN NextID(d.ids[k]) ELSE @[m]],
                       !.ids[k] = Alloc(@)]

\* subIDByEntity, subEntityByID and freeEntityID, and those of the other kinds
Unnamed(d, n, id) ==
    LET k == KindOf(n)
    IN  [d EXCEPT !.id[k] = Restrict(@, DOMAIN @ \ {n}), !.ids[k] = Free(@, id)]

\* getEntityDegree, getLiteralDegree, getPredicateDegree
Unused(d, id) == \A s \in d.triples : id \notin {s[1], s[2], s[3]}

\* What the stored triples say.
Meaning(d) == {t \in Triples : Stored(d, t)}

-----------------------------------------------------------------------------
(* Updates of the database in memory                                       *)

NamedAll(d, t) == Named(Named(Named(d, t[1]), t[2]), t[3])

InsertTriple(d, t) ==
    LET e == NamedAll(d, t)
    IN  IF Stored(e, t) THEN e
        ELSE [e EXCEPT !.triples = @ \cup {IDs(e, t)}, !.count = @ + 1]

\* A name that no triple uses any more loses its ID.
Drop(d, n, id) == IF Unused(d, id) THEN Unnamed(d, n, id[2]) ELSE d

\* Subject, object and predicate are looked at one after the other, with the
\* IDs read before.
RemoveTriple(d, t) ==
    IF ~Stored(d, t) THEN d
    ELSE LET e == [d EXCEPT !.triples = @ \ {IDs(d, t)}, !.count = @ - 1]
             drop(f, n) == Drop(f, n, ID(d, n))
         IN  drop(drop(drop(e, t[1]), t[3]), t[2])

\* Both removals end so.
ResetIDs(d) ==
    IF d.count = 0 THEN [d EXCEPT !.ids = [k \in Kinds |-> Forget(@[k])]] ELSE d

\* batch_insert does not count.
BatchInsert(d, ts) ==
    LET e == Each(NamedAll, d, ts)
    IN  [e EXCEPT !.triples = @ \cup {IDs(e, t) : t \in ToSet(ts)}]

\* Mutant: an ID is dropped with the first of its triples.
DropIDAlways(d, id) ==
    LET names == {n \in DOMAIN d.id[id[1]] : ID(d, n) = id}
    IN  IF names # {} THEN Unnamed(d, CHOOSE n \in names : TRUE, id[2]) ELSE d

\* The name of an ID that no triple uses any more is looked up and dropped.
DropID(d, id) ==
    LET names == {n \in DOMAIN d.id[id[1]] : ID(d, n) = id}
    IN  IF names # {} THEN Drop(d, CHOOSE n \in names : TRUE, id) ELSE d

\* The IDs in one place of the removed triples, in ascending order.  A literal
\* is looked up among the entities, not found, and keeps its ID.
DropPlace(d, ids, place, kind) ==
    LET numbers == Ascending({id[place][2] : id \in {j \in ids : j[place][1] = kind}})
    IN  Each(DropID, d, [i \in DOMAIN numbers |-> <<kind, numbers[i]>>])

BatchRemove(d, ts) ==
    LET ids == {IDs(d, t) : t \in ToSet(ts)}
        e   == [d EXCEPT !.triples = @ \ ids]
    IN  DropPlace(DropPlace(DropPlace(e, ids, 1, "entity"), ids, 3, "entity"),
                  ids, 2, "predicate")

-----------------------------------------------------------------------------
(* Files                                                                   *)

\* readIDinfo
Load(d) == [d EXCEPT !.ids = [k \in Kinds |-> Reread(k, @[k])]]

NoPoint == [at |-> None, lines |-> <<>>, saved |-> FALSE]

Build(ts) == Each(InsertTriple, Empty, ts)

Init ==
    /\ \E ts \in Builds : disk = Build(ts) /\ saved = ToSet(ts)
    /\ db = None
    /\ want = saved
    /\ unsaved = 0
    /\ point = NoPoint

\* Lines go to update_since_backup.log at once.  The point is given up after
\* MaxLog lines, or when it is one that the tool does not reach.
Log(lines, removals) ==
    point' = IF \/ point = NoPoint
                \/ Len(point.lines) + Len(lines) > MaxLog
                \/ RemovalsOnly /\ ~removals
             THEN NoPoint
             ELSE [point EXCEPT !.lines = @ \o lines]

Line(op, ts) == [i \in 1..Len(ts) |-> <<op, ts[i]>>]

\* A counter of 0 is taken for an empty database.  Batches do not count and
\* leave literals behind: where that would tell, or the counter is off by more
\* than MaxDrift, the update is left out.
Counted(d) ==
    /\ d.count = 0 => \A k \in Kinds : DOMAIN d.id[k] = {}
    /\ d.count - Cardinality(d.triples) \in -MaxDrift..MaxDrift

Update(d, w) ==
    /\ unsaved < MaxUnsaved
    /\ Counted(d)
    /\ db' = d
    /\ want' = w
    /\ unsaved' = unsaved + 1
    /\ UNCHANGED <<disk, saved>>

-----------------------------------------------------------------------------
(* Updates                                                                 *)

\* An insertion writes no log (logging = false).
InsertOne(t) ==
    /\ db # None
    /\ Update(InsertTriple(db, t), want \cup {t})
    /\ Log(<<>>, t \in want)

\* Whether the triple is there or not, the log says it was removed.
RemoveOne(t) ==
    /\ db # None
    /\ SelfLoops \/ t[1] # t[3]
    /\ Update(ResetIDs(RemoveTriple(db, t)), want \ {t})
    /\ Log(Line("R", <<t>>), t \in want)

InsertFile(ts) ==
    /\ db # None
    /\ Update(BatchInsert(db, ts), want \cup ToSet(ts))
    /\ Log(Line("I", ts), FALSE)

\* Of a triple with an unknown name an ID_TUPLE is left unset, and removed:
\* files that name such triples are left out.
RemoveFile(ts) ==
    /\ db # None
    /\ \A t \in ToSet(ts) : Known(db, t)
    /\ Update(ResetIDs(BatchRemove(db, ts)), want \ ToSet(ts))
    /\ Log(Line("R", ts), ToSet(ts) \subseteq want)

-----------------------------------------------------------------------------
(* Saving, loading, crashing and going back                                *)

Saved ==
    /\ disk' = db
    /\ saved' = want
    /\ unsaved' = 0
    /\ point' = [point EXCEPT !.saved = point.at # None]

Save ==
    /\ db # None /\ unsaved # 0
    /\ Saved
    /\ UNCHANGED <<db, want>>

Unload ==
    /\ db # None
    /\ Saved
    /\ db' = None
    /\ UNCHANGED want

Open ==
    /\ db = None
    /\ db' = Load(disk)
    /\ UNCHANGED <<disk, want, saved, unsaved, point>>

\* What was not saved is lost, and with it a point that was not.
Crash ==
    /\ db # None
    /\ db' = None
    /\ want' = saved
    /\ unsaved' = 0
    /\ point' = IF point.saved THEN point ELSE NoPoint
    /\ UNCHANGED <<disk, saved>>

Mark ==
    /\ db # None /\ point = NoPoint
    /\ point' = [at |-> want, lines |-> <<>>, saved |-> unsaved = 0]
    /\ UNCHANGED <<db, disk, want, saved, unsaved>>

\* undo_sparql
Undo(d, line) ==
    IF line[1] = "I" THEN ResetIDs(RemoveTriple(d, line[2])) ELSE InsertTriple(d, line[2])

\* The lines the tool reads: its own removals are logged to the file it reads.
LinesRead(lines) ==
    LET inserts == Ascending({i \in DOMAIN lines : lines[i][1] = "I"})
    IN  lines \o [j \in DOMAIN inserts |-> <<"R", lines[inserts[j]][2]>>]

\* The files are copied, log included; later the tool has the database
\* unloaded, puts the copy in its place, has it loaded, undoes the log line by
\* line and has it unloaded again.
Rollback ==
    /\ point.saved
    /\ disk' = Each(Undo, Load(disk), LinesRead(point.lines))
    /\ Counted(disk')
    /\ db' = None
    /\ want' = point.at
    /\ saved' = point.at
    /\ unsaved' = 0
    /\ point' = NoPoint

Files == UNION {{ts \in [1..n -> Triples] : IsInjective(ts)} : n \in 1..MaxBatch}

Next ==
    \/ \E t \in Triples : InsertOne(t) \/ RemoveOne(t)
    \/ \E ts \in Files : InsertFile(ts) \/ RemoveFile(ts)
    \/ Save \/ Unload \/ Open \/ Crash \/ Mark \/ Rollback

Spec == Init /\ [][Next]_vars

-----------------------------------------------------------------------------
(* Properties                                                              *)

\* In memory, and in the files: IDs are one name's each, free
\* ones and used ones are all there are, a stored triple uses IDs that are
\* given out, and an entity or a predicate has one only while a triple uses it.
IDsExactIn(d) ==
    LET used(k) == {d.id[k][n] : n \in DOMAIN d.id[k]}
    IN  /\ \A k \in Kinds : IsInjective(d.id[k]) /\ Exact(d.ids[k], used(k))
        /\ \A s \in d.triples : \A i \in 1..3 : s[i][2] \in used(s[i][1])
        /\ \A k \in Kinds \ {"literal"} : \A i \in used(k) : ~Unused(d, <<k, i>>)

IDsExact == \A d \in {db, disk} \ {None} : IDsExactIn(d)

\* The triples that can be read, in memory, after a load and after going back,
\* are those that were inserted and not removed: no ID has come to mean
\* another name.
KeepsMeaning ==
    /\ db # None => Meaning(db) = want /\ Cardinality(db.triples) = Cardinality(want)
    /\ Meaning(disk) = saved /\ Cardinality(disk.triples) = Cardinality(saved)
=============================================================================

-------------------------------- MODULE SITree --------------------------------
(***************************************************************************)
(* The dictionary from strings to IDs: the B+ tree behind s_entity2id,     *)
(* s_literal2id and s_predicate2id, its nodes that come and go between     *)
(* memory and file, and the heap that says which goes next                 *)
(* (KVstore/SITree).  A method runs under access_lock from start to end,   *)
(* so each is one step.                                                    *)
(*                                                                         *)
(* Strings are numbers in the order of Util::compare, and the ID of a      *)
(* string is that number.  Methods are operators on the record Tree.  A    *)
(* pointer is a node's index, and Become numbers the nodes anew: trees     *)
(* that differ in addresses only are one state.  The bytes a buffer holds  *)
(* are left out: a method that asks for memory may push out any number of  *)
(* nodes that the order of the heap allows.                                *)
(***************************************************************************)
EXTENDS Integers, FiniteSetsExt, SequencesExt

CONSTANTS Degree,   \* SINode::DEGREE
          Setups,   \* what a server may be like: the strings its dictionary
                    \* has been built from, those that updates insert and
                    \* remove, how many nodes its buffer always has room for, and
                    \* whether the database is saved while it is open
          MaxLeft   \* how many nodes wait on the heap that have left the tree
                    \* (bounds the model)

ASSUME TreeAssumption ==
    /\ Degree \in Nat /\ Degree >= 4 /\ Degree % 2 = 0
    /\ \A u \in Setups : /\ u.built \in Seq(Nat \ {0})
                         /\ u.names \subseteq Nat \ {0} /\ IsFiniteSet(u.names)
                         /\ u.room \in Nat \ {0} /\ u.saved \in BOOLEAN
    /\ MaxLeft \in Nat

MaxKeyNum   == Degree - 1
MinChildNum == Degree \div 2
MinKeyNum   == MinChildNum - 1

VARIABLES
    setup,   \* which of Setups this is
    root,    \* root_
    node,    \* the nodes allocated: those of the tree, and those on the heap
             \* that have left it
    process, \* "run", or "wild" once memory that is no node has been written
    split,   \* whether a node has been split since the tree was opened
    known    \* the names inserted and not removed since: what the tree is for

vars == <<setup, root, node, process, split, known>>

Nil == 0      \* NULL
Freed == -1   \* the address of a node that has been deleted
Unread == 0   \* a key of a node that is not in memory

NoCopy == [is |-> "none"]    \* no blocks in the file
Old    == [is |-> "old"]     \* blocks that will be given back
Image(keys, vals, kids) ==   \* blocks with a node
    [is |-> "image", keys |-> keys, vals |-> vals, kids |-> kids]

\* A new SINode.  left stands for rank 0: "non-sense node".
NewNode(height) ==
    [height |-> height, keys |-> <<>>, vals |-> <<>>, kids |-> <<>>,
     next |-> Nil, prev |-> Nil, mem |-> TRUE, dirty |-> FALSE,
     inHeap |-> FALSE, left |-> FALSE, copy |-> NoCopy]

Tree == [root |-> root, node |-> node, process |-> process, split |-> split]

Num(t, n) == Len(t.node[n].keys)
IsLeaf(t, n) == t.node[n].height = 1
FreshIn(t) == Min((1..(Cardinality(DOMAIN t.node) + 1)) \ DOMAIN t.node)
Wild(t) == [t EXCEPT !.process = "wild"]
Running(t) == t.process = "run"

\* What a node's copy in the file has been is of no use once it is dirty.
Dirtied(r) == [r EXCEPT !.dirty = TRUE, !.copy = IF @ = NoCopy THEN @ ELSE Old]

\* Mutant: the nodes on the way to a leaf that changes stay clean.
SetDirtyNever(t, n) == t

SetDirty(t, n) == [t EXCEPT !.node[n] = Dirtied(@)]

-----------------------------------------------------------------------------
(* The nodes from the root down, level by level.                           *)

Below(t, level) == FlattenSeq([i \in DOMAIN level |-> t.node[level[i]].kids])

Levels(t) ==
    LET Down(x, h) == LET l == Below(t, x.last) IN [all |-> x.all \o l, last |-> l]
        top == <<t.root>>
    IN  FoldLeft(Down, [all |-> top, last |-> top],
                 [h \in 1..(t.node[t.root].height - 1) |-> h])

TreeNodes(t) == IF t.root = Nil THEN <<>> ELSE Levels(t).all
Leaves(t) == IF t.root = Nil THEN <<>> ELSE Levels(t).last

Renumbered(t) ==
    LET tree == TreeNodes(t)
        order == tree \o SetToSeq(DOMAIN t.node \ ToSet(tree))
        place == [n \in ToSet(order) |-> Min({i \in DOMAIN order : order[i] = n})]
        To(p) == IF p \in {Nil, Freed} THEN p ELSE place[p]
        All(s) == [i \in DOMAIN s |-> To(s[i])]
        Moved(r) == [r EXCEPT !.kids = All(@), !.next = To(@), !.prev = To(@),
                              !.copy = IF @.is = "image" THEN [@ EXCEPT !.kids = All(@)]
                                       ELSE @]
    IN  [t EXCEPT !.root = To(@),
                  !.node = [i \in DOMAIN order |-> Moved(t.node[order[i]])]]

\* Nothing is said of what a write outside the nodes makes of them.
Become(t, names) ==
    LET r == IF Running(t) THEN Renumbered(t) ELSE Wild(Tree)
    IN  /\ Cardinality({n \in DOMAIN t.node : t.node[n].left}) <= MaxLeft
        /\ setup' = setup /\ root' = r.root /\ node' = r.node
        /\ split' = r.split /\ process' = r.process
        /\ known' = IF Running(t) THEN names ELSE known

-----------------------------------------------------------------------------
(* The file and the heap.                                                  *)

\* updateHeap(n, 0, true): a node that is not on the heap has heapId -1, and
\* modify moves it up from there.
Discard(t, n) ==
    IF ~t.node[n].inHeap THEN Wild(t)
    ELSE [t EXCEPT !.node[n] =
            [NewNode(0) EXCEPT !.inHeap = TRUE, !.left = TRUE,
                               !.copy = IF t.node[n].copy = NoCopy THEN NoCopy ELSE Old]]

ReadNode(t, n) ==
    LET r == t.node[n]
    IN  IF r.mem THEN t
        ELSE [t EXCEPT !.node[n] =
                [r EXCEPT !.keys = r.copy.keys, !.vals = r.copy.vals, !.mem = TRUE,
                          !.dirty = FALSE, !.inHeap = TRUE]]

\* A node written again may lie in other blocks: what the file's copy of
\* another node says of it is out of date.
WriteNode(t, n) ==
    LET r == t.node[n]
        Lose(s) == [i \in DOMAIN s |-> IF s[i] = n THEN Freed ELSE s[i]]
        Other(m) == IF m.copy.is = "image" THEN [m EXCEPT !.copy.kids = Lose(@)] ELSE m
        copy == IF r.keys = <<>> THEN NoCopy ELSE Image(r.keys, r.vals, r.kids)
    IN  IF ~r.mem \/ (~r.left /\ ~r.dirty) THEN t
        ELSE [t EXCEPT !.node =
                [m \in DOMAIN @ |-> IF m = n THEN [r EXCEPT !.copy = copy, !.dirty = FALSE]
                                    ELSE Other(@[m])]]

Delete(t, n) ==
    LET Lose(p) == IF p = n THEN Freed ELSE p
    IN  [t EXCEPT !.node = [m \in DOMAIN @ \ {n} |->
            [@[m] EXCEPT !.next = Lose(@), !.prev = Lose(@)]]]

Virtual(t, n) ==
    [t EXCEPT !.node[n] =
        [@ EXCEPT !.keys = [i \in DOMAIN @ |-> Unread], !.vals = <<>>,
                  !.mem = FALSE, !.inHeap = FALSE]]

\* One round of handler.
PushOut(t, n) ==
    LET w == WriteNode(t, n)
    IN  IF Num(t, n) = 0 THEN Delete(w, n) ELSE Virtual(w, n)

InHeap(t) == {n \in DOMAIN t.node : t.node[n].inHeap}

\* Nodes that have left the tree, then children before their fathers.
LowestFirst(t) ==
    SetToSeq({n \in DOMAIN t.node : t.node[n].left}) \o Reverse(TreeNodes(t))

\* request: the trees it may leave behind, whatever the bytes asked for and
\* the bytes held, for a buffer with room for setup.room nodes or more.  The
\* heap has lower nodes before higher ones, and nodes that have left the tree
\* before all others; among nodes of a level it goes by ranks of the past.
\* The root stays.
Requested(t) ==
    LET heap == InHeap(t)
        Out(ns) == FoldLeft(PushOut, t, SelectSeq(LowestFirst(t), LAMBDA n : n \in ns))
    IN  {Out(ns) : ns \in {s \in SUBSET (heap \ {t.root}) :
            /\ s = {} \/ Cardinality(heap \ s) >= setup.room
            /\ \A a \in s, b \in heap \ s : t.node[a].height <= t.node[b].height}}

\* WriteTree stops at the first node on the heap whose rank is not 0.
WriteTree(t) ==
    LET gone == {n \in DOMAIN t.node : t.node[n].left /\ ~t.node[n].dirty}
        FreeOne(x, n) == Delete(WriteNode(x, n), n)
        u == FoldLeft(FreeOne, t, SetToSeq(gone))
    IN  FoldLeft(WriteNode, u, Reverse(TreeNodes(u)))

\* PreRead, for a tree that has been written: nodes without their keys, the
\* leaves linked in order, and the root.
PreRead(t) ==
    LET leaves == Leaves(t)
        At(i) == IF i \in DOMAIN leaves THEN leaves[i] ELSE Nil
        Place(n) == IF n \in ToSet(leaves) THEN Min({i \in DOMAIN leaves : leaves[i] = n})
                    ELSE -1
        Read(n) == [NewNode(t.node[n].height) EXCEPT
                      !.keys = [i \in DOMAIN t.node[n].copy.keys |-> Unread],
                      !.kids = t.node[n].copy.kids, !.copy = t.node[n].copy,
                      !.mem = FALSE, !.next = At(Place(n) + 1), !.prev = At(Place(n) - 1)]
        nodes == ToSet(TreeNodes(t))
        u == [t EXCEPT !.node = [n \in nodes |-> Read(n)], !.split = FALSE]
    IN  IF \E n \in nodes : Freed \in ToSet(t.node[n].copy.kids) THEN Wild(t)
        ELSE IF t.root = Nil THEN u ELSE ReadNode(u, t.root)

-----------------------------------------------------------------------------
(* Nodes that split and join.  Children and keys count from 1: key i is    *)
(* between child i and child i + 1.                                        *)

\* Mutant: a string that is a key goes to the left of it.
ChildForLess(t, n, k) == Cardinality({i \in 1..Num(t, n) : t.node[n].keys[i] < k}) + 1

\* searchKey_less
ChildFor(t, n, k) == Cardinality({i \in 1..Num(t, n) : t.node[n].keys[i] <= k}) + 1
Child(t, n, i) == t.node[n].kids[i]

FirstOf(s, n) == SubSeq(s, 1, Min({n, Len(s)}))

\* The first key of the right half: a leaf keeps the key that goes up, an inner
\* node gives it away.
RightFrom(t, q) == IF IsLeaf(t, q) THEN MinKeyNum + 1 ELSE MinChildNum + 1

\* Split of child i of f, and the new node put on the heap.
Split(t, f, i) ==
    LET q == Child(t, f, i)
        r == t.node[q]
        p == FreshIn(t)
        from == RightFrom(t, q)
        right == [NewNode(r.height) EXCEPT
                    !.keys = SubSeq(r.keys, from, Len(r.keys)),
                    !.vals = SubSeq(r.vals, from, Len(r.vals)),
                    !.kids = SubSeq(r.kids, from, Len(r.kids)),
                    !.next = r.next, !.prev = IF IsLeaf(t, q) THEN q ELSE Nil,
                    !.dirty = TRUE, !.inHeap = TRUE]
        left == [r EXCEPT !.keys = FirstOf(@, MinKeyNum),
                          !.vals = FirstOf(@, MinKeyNum),
                          !.kids = FirstOf(@, MinChildNum),
                          !.next = IF IsLeaf(t, q) THEN p ELSE Nil]
        above == [t.node[f] EXCEPT !.keys = InsertAt(@, i, r.keys[MinKeyNum + 1]),
                                   !.kids = InsertAt(@, i + 1, p)]
    IN  [t EXCEPT !.node = (p :> right) @@ (q :> Dirtied(left)) @@ (f :> Dirtied(above)) @@ @,
                  !.split = TRUE]

\* Mutant: the next leaf is not told of its new neighbour.
LinkPrevNever(t, n, p) == t

\* What follows a pointer to set a link back: nothing, for NULL.
LinkPrev(t, n, p) == IF n = Nil THEN t ELSE IF n = Freed THEN Wild(t)
                     ELSE [t EXCEPT !.node[n].prev = p]
LinkNext(t, n, p) == IF n = Nil THEN t ELSE IF n = Freed THEN Wild(t)
                     ELSE [t EXCEPT !.node[n].next = p]

\* Three nodes that a join leaves dirty.
Put(t, f, above, q, this, p, other) ==
    [t EXCEPT !.node = (f :> Dirtied(above)) @@ (q :> Dirtied(this))
                       @@ (p :> Dirtied(other)) @@ @]

\* Mutant: an inner node does not take the key between down.
SeparatorStays(t, f, q, i) == <<>>

\* What an inner node takes down from its father.
Separator(t, f, q, i) == IF IsLeaf(t, q) THEN <<>> ELSE <<t.node[f].keys[i]>>

Emptied(r) == [r EXCEPT !.keys = <<>>, !.vals = <<>>, !.kids = <<>>]

\* Case 1: the right neighbour p into q, child i of f.
UnionRight(t, f, i, q, p) ==
    LET a == t.node[q] b == t.node[p]
        this == [a EXCEPT !.keys = @ \o Separator(t, f, q, i) \o b.keys,
                          !.vals = @ \o b.vals, !.kids = @ \o b.kids, !.next = b.next]
        above == [t.node[f] EXCEPT !.keys = RemoveAt(@, i), !.kids = RemoveAt(@, i + 1)]
    IN  LinkPrev(Put(t, f, above, q, this, p, Emptied(b)), b.next, q)

\* Case 2: the first of p to the end of q.
MoveFromRight(t, f, i, q, p) ==
    LET a == t.node[q] b == t.node[p]
        leaf == IsLeaf(t, q)
        this == [a EXCEPT
                   !.keys = Append(@, IF leaf THEN Head(b.keys) ELSE t.node[f].keys[i]),
                   !.vals = IF leaf THEN Append(@, Head(b.vals)) ELSE @,
                   !.kids = IF leaf THEN @ ELSE Append(@, Head(b.kids))]
        other == [b EXCEPT !.keys = Tail(@), !.vals = IF leaf THEN Tail(@) ELSE @,
                           !.kids = IF leaf THEN @ ELSE Tail(@)]
        above == [t.node[f] EXCEPT !.keys[i] = b.keys[IF leaf THEN 2 ELSE 1]]
    IN  Put(t, f, above, q, this, p, other)

\* Case 3: the left neighbour p into q, child i of f.
UnionLeft(t, f, i, q, p) ==
    LET a == t.node[q] b == t.node[p]
        this == [a EXCEPT !.keys = b.keys \o Separator(t, f, q, i - 1) \o @,
                          !.vals = b.vals \o @, !.kids = b.kids \o @, !.prev = b.prev]
        above == [t.node[f] EXCEPT !.keys = RemoveAt(@, i - 1), !.kids = RemoveAt(@, i - 1)]
    IN  LinkNext(Put(t, f, above, q, this, p, Emptied(b)), b.prev, q)

\* Case 4: the last of p to the front of q.
MoveFromLeft(t, f, i, q, p) ==
    LET a == t.node[q] b == t.node[p]
        leaf == IsLeaf(t, q)
        this == [a EXCEPT
                   !.keys = <<IF leaf THEN Last(b.keys) ELSE t.node[f].keys[i - 1]>> \o @,
                   !.vals = IF leaf THEN <<Last(b.vals)>> \o @ ELSE @,
                   !.kids = IF leaf THEN @ ELSE <<Last(b.kids)>> \o @]
        other == [b EXCEPT !.keys = Front(@), !.vals = IF leaf THEN Front(@) ELSE @,
                           !.kids = IF leaf THEN @ ELSE Front(@)]
        above == [t.node[f] EXCEPT !.keys[i - 1] = Last(b.keys)]
    IN  Put(t, f, above, q, this, p, other)

\* Coalesce of q, child i of f, and what Remove makes of a neighbour whose
\* keys have gone to q.
Coalesce(t, f, i) ==
    LET q == Child(t, f, i)
        right == i <= Num(t, f)
        left == i > 1
        Spare(p) == Num(t, p) > MinKeyNum
    IN  IF right /\ Spare(Child(t, f, i + 1)) THEN MoveFromRight(t, f, i, q, Child(t, f, i + 1))
        ELSE IF left /\ Spare(Child(t, f, i - 1)) THEN MoveFromLeft(t, f, i, q, Child(t, f, i - 1))
        ELSE LET p == Child(t, f, IF right THEN i + 1 ELSE i - 1)
                 u == IF right THEN UnionRight(t, f, i, q, p) ELSE UnionLeft(t, f, i, q, p)
             IN  IF Running(u) THEN Discard(u, p) ELSE u

-----------------------------------------------------------------------------
(* The methods of SITree.  Down goes from the root to the leaf for k: Step *)
(* takes the tree and the node it has come to to the tree and the child.   *)

Down(t, Step(_, _)) ==
    FoldLeft(LAMBDA x, h : IF Running(x.t) THEN Step(x.t, x.p) ELSE x,
             [t |-> t, p |-> t.root], [h \in 1..(t.node[t.root].height - 1) |-> h])

\* What a node holds once it is in memory.
Seen(r) == IF r.mem THEN r ELSE r.copy
ChildSeen(r, k) == Cardinality({i \in DOMAIN Seen(r).keys : Seen(r).keys[i] <= k}) + 1

Path(t, k) ==
    FoldLeft(LAMBDA s, h : Append(s, t.node[Last(s)].kids[ChildSeen(t.node[Last(s)], k)]),
             <<t.root>>, [h \in 1..(t.node[t.root].height - 1) |-> h])

Find(t, k) == FoldLeft(ReadNode, t, Path(t, k))

\* The ID Search gives for a name, or 0.
IDOf(t, k) ==
    LET leaf == t.node[Last(Path(t, k))]
    IN  IF t.root = Nil THEN 0
        ELSE IF k \notin ToSet(Seen(leaf).keys) THEN 0
        ELSE Seen(leaf).vals[ChildSeen(leaf, k) - 1]

\* The tree Insert begins with: one with a root that is not full.
Rooted(t) ==
    LET n == FreshIn(t)
        leaf == [t EXCEPT !.root = n,
                          !.node = (n :> [NewNode(1) EXCEPT !.inHeap = TRUE]) @@ @]
        father == [NewNode(t.node[t.root].height + 1) EXCEPT !.kids = <<t.root>>]
        above == [t EXCEPT !.root = n, !.node = (n :> father) @@ @]
    IN  IF t.root = Nil THEN leaf
        ELSE IF Num(t, t.root) = MaxKeyNum THEN Split(above, n, 1)
        ELSE t

Inserted(t, k) ==
    LET Step(u, p) ==
            LET i == ChildFor(u, p, k)
                q == Child(u, p, i)
                r == ReadNode(u, q)
                s == Split(r, p, i)
            IN  IF Num(r, q) < MaxKeyNum THEN [t |-> SetDirty(r, p), p |-> q]
                ELSE [t |-> s, p |-> Child(s, p, IF k < s.node[p].keys[i] THEN i ELSE i + 1)]
        x == Down(Rooted(t), Step)
        i == ChildFor(x.t, x.p, k)
    IN  [x.t EXCEPT !.node[x.p] = [Dirtied(@) EXCEPT !.keys = InsertAt(@, i, k),
                                                     !.vals = InsertAt(@, i, k)]]

\* A root without keys gives way to its only child.
Shrunk(t, p, q) ==
    IF Running(t) /\ Num(t, p) = 0 THEN Discard([t EXCEPT !.root = q], p) ELSE t

Removed(t, k) ==
    LET Step(u, p) ==
            LET i == ChildFor(u, p, k)
                q == Child(u, p, i)
                near == {j \in {i - 1, i + 1} : j \in 1..(Num(u, p) + 1)}
                r == ReadNode(u, q)
                s == FoldLeft(LAMBDA v, j : ReadNode(v, Child(v, p, j)), r, SetToSeq(near))
            IN  IF Num(r, q) < MinChildNum
                THEN [t |-> Shrunk(Coalesce(s, p, i), p, q), p |-> q]
                ELSE [t |-> SetDirty(r, p), p |-> q]
        x == Down(t, Step)
        i == ChildFor(x.t, x.p, k) - 1
        less == [x.t EXCEPT !.node[x.p] = [@ EXCEPT !.keys = RemoveAt(@, i),
                                                    !.vals = RemoveAt(@, i)]]
    IN  IF ~Running(x.t) \/ k \notin ToSet(x.t.node[x.p].keys) THEN x.t
        ELSE IF Num(less, x.p) > 0 THEN SetDirty(less, x.p)
        ELSE SetDirty(Discard([less EXCEPT !.root = Nil], x.p), x.p)

-----------------------------------------------------------------------------
Empty == [root |-> Nil, node |-> <<>>, process |-> "run", split |-> FALSE]

Init ==
    /\ setup \in Setups
    /\ LET t == Renumbered(PreRead(WriteTree(FoldLeft(Inserted, Empty, setup.built))))
       IN  root = t.root /\ node = t.node /\ process = t.process /\ split = t.split
    /\ known = ToSet(setup.built)

BecomeOneOf(ts, names) == \E t \in ts : Become(t, names)
After(t) == IF Running(t) THEN Requested(t) ELSE {t}

\* Search asks for memory when it has found the name, and not otherwise.
SearchName(k) ==
    /\ process = "run" /\ root # Nil
    /\ IF IDOf(Tree, k) = 0 THEN Become(Find(Tree, k), known)
       ELSE BecomeOneOf(After(Find(Tree, k)), known)

\* A name is given an ID when it has none.
InsertName(k) ==
    /\ process = "run" /\ IDOf(Tree, k) = 0
    /\ BecomeOneOf(After(Inserted(Tree, k)), known \cup {k})

RemoveName(k) ==
    /\ process = "run" /\ root # Nil
    /\ BecomeOneOf(After(Removed(Tree, k)), known \ {k})

Save == process = "run" /\ setup.saved /\ Become(WriteTree(Tree), known)

\* KVstore::close saves the tree and deletes it; the next load opens it.
CloseAndOpen == process = "run" /\ Become(PreRead(WriteTree(Tree)), known)

Next ==
    \/ \E k \in setup.names : SearchName(k) \/ InsertName(k) \/ RemoveName(k)
    \/ Save \/ CloseAndOpen

Spec == Init /\ [][Next]_vars

-----------------------------------------------------------------------------
(* What the dictionary promises.                                           *)

Strings == setup.names \cup ToSet(setup.built)
Nodes == ToSet(TreeNodes(Tree))

\* The splits of Insert and the four cases of Coalesce keep a B+ tree: no node
\* is in two places, every node but the root is half full and none overflows,
\* keys are in order, the leaves are on one level, and what is below child i
\* lies between the keys beside it.
TreeSound ==
    LET Keys(n) == Seen(node[n]).keys
        Inside(n, lo, hi) == \A i \in DOMAIN Keys(n) : lo <= Keys(n)[i] /\ Keys(n)[i] < hi
    IN  /\ IsInjective(TreeNodes(Tree))
        /\ \A n \in Nodes :
             /\ Len(node[n].keys) <= MaxKeyNum
             /\ n # root => Len(node[n].keys) >= MinKeyNum
             /\ \A i \in 1..(Len(Keys(n)) - 1) : Keys(n)[i] < Keys(n)[i + 1]
        /\ \A n \in Nodes : node[n].height > 1 =>
             LET kids == node[n].kids
             IN  /\ Len(kids) = Len(node[n].keys) + 1
                 /\ \A i \in DOMAIN kids :
                      /\ node[kids[i]].height = node[n].height - 1
                      /\ Inside(kids[i], IF i = 1 THEN 0 ELSE Keys(n)[i - 1],
                                IF i = Len(kids) THEN Max(Strings) + 1 ELSE Keys(n)[i])

\* A node that is not dirty can be dropped from memory, and WriteTree may pass
\* it over: the file has it as it is, and points to where its children are now.
FileSound ==
    \A n \in Nodes :
        LET r == node[n]
        IN  /\ ~r.mem => ~r.dirty
            /\ ~r.dirty => /\ r.copy.is = "image" /\ r.copy.kids = r.kids
                           /\ r.mem => r.copy.keys = r.keys /\ r.copy.vals = r.vals

\* Until Insert splits a node, a tree that has been opened has all its leaves
\* linked both ways and all its nodes in memory on the heap, so that Remove
\* never follows a pointer to a deleted node, nor moves one that is on no heap.
\* After a split neither holds.
ExactUntilSplit ==
    LET leaves == Leaves(Tree)
        At(i) == IF i \in DOMAIN leaves THEN leaves[i] ELSE Nil
    IN  ~split =>
          /\ process = "run"
          /\ \A i \in DOMAIN leaves : /\ node[leaves[i]].next = At(i + 1)
                                      /\ node[leaves[i]].prev = At(i - 1)
          /\ \A n \in Nodes : node[n].mem = node[n].inHeap

\* Search gives every string that has been inserted and not removed its ID,
\* and no other string one, whatever nodes have split, joined, been pushed out
\* and been read again since.
FindsWhatIsKnown ==
    process = "run" => \A k \in Strings : IDOf(Tree, k) = IF k \in known THEN k ELSE 0
=============================================================================

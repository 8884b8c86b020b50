----------------------------- MODULE Updates_proofs -----------------------------
(***************************************************************************)
(* IDsExact and KeepsMeaning of Updates as theorems: for any triples,      *)
(* batches and saves.  First the IDs of one kind: what giving one out and  *)
(* taking it back does to the list of free ones.  Then what is good about  *)
(* a database that holds the triples w, and that every operation leaves a  *)
(* good one, of the triples it should.  Inv says that the database in      *)
(* memory and the files are good, and what the log says about the triples  *)
(* at the marked moment.                                                   *)
(***************************************************************************)
EXTENDS Updates, FiniteSetTheorems, SequenceTheorems, TLAPS

-----------------------------------------------------------------------------
(* The IDs of one kind                                                     *)

\* A list and the same with one more in front.
LEMMA ShiftFacts ==
    ASSUME NEW n \in Nat, NEW q, NEW r, DOMAIN q = 1..(n + 1), DOMAIN r = 1..n,
           \A i \in 1..n : q[i + 1] = r[i]
    PROVE  /\ ToSet(q) = ToSet(r) \cup {q[1]}
           /\ IsInjective(q) <=> IsInjective(r) /\ q[1] \notin ToSet(r)
  <1>1. \A i \in DOMAIN q : i = 1 \/ (i - 1 \in DOMAIN r /\ q[i] = r[i - 1])
    OBVIOUS
  <1>2. \A i \in DOMAIN r : i + 1 \in DOMAIN q /\ i + 1 # 1 /\ q[i + 1] = r[i]
    OBVIOUS
  <1>3. 1 \in DOMAIN q
    OBVIOUS
  <1>4. \A i, j \in DOMAIN q : i - 1 = j - 1 => i = j
    OBVIOUS
  <1>5. \A i, j \in DOMAIN r : i + 1 = j + 1 => i = j
    OBVIOUS
  <1>6. ToSet(q) = ToSet(r) \cup {q[1]}
    <2>1. \A i \in DOMAIN q : q[i] = q[1] \/ \E j \in DOMAIN r : r[j] = q[i]
      BY <1>1
    <2>2. \A j \in DOMAIN r : \E i \in DOMAIN q : q[i] = r[j]
      BY <1>2
    <2>3. QED BY <2>1, <2>2, <1>3 DEF ToSet
  <1>7. ASSUME IsInjective(q) PROVE IsInjective(r) /\ q[1] \notin ToSet(r)
    <2>1. ASSUME NEW i \in DOMAIN r, NEW j \in DOMAIN r, r[i] = r[j] PROVE i = j
      <3>1. q[i + 1] = q[j + 1] /\ i + 1 \in DOMAIN q /\ j + 1 \in DOMAIN q
        BY <1>2, <2>1
      <3>2. i + 1 = j + 1
        BY <1>7, <3>1 DEF IsInjective
      <3>3. QED BY <3>2, <1>5
    <2>2. ASSUME NEW i \in DOMAIN r PROVE r[i] # q[1]
      <3>1. i + 1 \in DOMAIN q /\ i + 1 # 1 /\ q[i + 1] = r[i]
        BY <1>2
      <3>2. QED BY <1>3, <1>7, <3>1 DEF IsInjective
    <2>3. QED BY <2>1, <2>2 DEF IsInjective, ToSet
  <1>8. ASSUME IsInjective(r), q[1] \notin ToSet(r) PROVE IsInjective(q)
    <2>1. \A i \in DOMAIN q : i # 1 => q[i] # q[1]
      BY <1>1, <1>8 DEF ToSet
    <2>2. ASSUME NEW i \in DOMAIN q, NEW j \in DOMAIN q, q[i] = q[j], i # 1, j # 1
          PROVE  i = j
      <3>1. i - 1 \in DOMAIN r /\ j - 1 \in DOMAIN r /\ r[i - 1] = r[j - 1]
        BY <1>1, <2>2
      <3>2. i - 1 = j - 1
        BY <1>8, <3>1 DEF IsInjective
      <3>3. QED BY <3>2, <1>4
    <2>3. ASSUME NEW i \in DOMAIN q, NEW j \in DOMAIN q, q[i] = q[j] PROVE i = j
      BY <2>1, <2>2, <2>3
    <2>4. QED BY <2>3 DEF IsInjective
  <1>9. QED BY <1>6, <1>7, <1>8

\* The first free ID is one of the free ones, and taking it leaves the rest.
LEMMA HeadFacts ==
    ASSUME NEW q \in Seq(Nat), q # <<>>, IsInjective(q)
    PROVE  /\ q[1] \in ToSet(q) /\ q[1] \in Nat /\ Tail(q) \in Seq(Nat)
           /\ IsInjective(Tail(q)) /\ ToSet(Tail(q)) = ToSet(q) \ {q[1]}
  <1>1. Len(q) \in Nat \ {0} /\ DOMAIN q = 1..Len(q)
    <2>1. Len(q) \in Nat \ {0}
      BY EmptySeq
    <2>2. QED BY <2>1, LenProperties
  <1>2. /\ Tail(q) \in Seq(Nat) /\ Len(Tail(q)) = Len(q) - 1
        /\ \A i \in 1..Len(Tail(q)) : Tail(q)[i] = q[i + 1]
    BY HeadTailProperties
  <1>3. DOMAIN Tail(q) = 1..Len(Tail(q))
    BY <1>2, LenProperties
  <1>4. 1 \in 1..Len(q) /\ q[1] \in Nat
    BY <1>1, ElementOfSeq
  <1> DEFINE r == Tail(q)
             n == Len(q) - 1
  <1>5. n \in Nat /\ DOMAIN q = 1..(n + 1) /\ DOMAIN r = 1..n /\ \A i \in 1..n : q[i + 1] = r[i]
    <2>1. Len(q) = (Len(q) - 1) + 1
      BY <1>1
    <2>2. DOMAIN q = 1..((Len(q) - 1) + 1)
      BY <1>1, <2>1, Zenon
    <2>3. DOMAIN Tail(q) = 1..(Len(q) - 1) /\ \A i \in 1..(Len(q) - 1) : Tail(q)[i] = q[i + 1]
      BY <1>2, <1>3, Zenon
    <2>4. Len(q) - 1 \in Nat
      BY <1>1
    <2>5. QED BY <2>2, <2>3, <2>4, Zenon
  <1>6. /\ ToSet(q) = ToSet(r) \cup {q[1]}
        /\ IsInjective(q) <=> IsInjective(r) /\ q[1] \notin ToSet(r)
    <2> HIDE DEF r, n
    <2>1. QED BY <1>5, ShiftFacts
  <1>7. QED BY <1>2, <1>4, <1>6

\* The free IDs with one more in front.
LEMMA PushFacts ==
    ASSUME NEW q \in Seq(Nat), NEW x \in Nat, IsInjective(q), x \notin ToSet(q)
    PROVE  /\ <<x>> \o q \in Seq(Nat) /\ IsInjective(<<x>> \o q)
           /\ ToSet(<<x>> \o q) = ToSet(q) \cup {x}
  <1> DEFINE p == <<x>>
             r == p \o q
  <1>1. p \in Seq(Nat) /\ Len(p) = 1 /\ p[1] = x
    OBVIOUS
  <1>2. Len(q) \in Nat /\ DOMAIN q = 1..Len(q)
    BY LenProperties
  <1> HIDE DEF p
  <1>3. /\ r \in Seq(Nat) /\ Len(r) = Len(p) + Len(q)
        /\ \A i \in 1..Len(p) + Len(q) : r[i] = IF i <= Len(p) THEN p[i] ELSE q[i - Len(p)]
    BY <1>1, ConcatProperties
  <1>4. DOMAIN r = 1..Len(r)
    BY <1>3, LenProperties
  <1> HIDE DEF r
  <1>5. Len(r) = Len(q) + 1 /\ r[1] = x
    BY <1>1, <1>2, <1>3
  <1>6. ASSUME NEW i \in 1..Len(q) PROVE r[i + 1] = q[i]
    <2>1. i + 1 \in 1..Len(p) + Len(q) /\ ~(i + 1 <= Len(p)) /\ (i + 1) - Len(p) = i
      BY <1>1, <1>2
    <2>2. QED BY <1>3, <2>1
  <1>7. /\ ToSet(r) = ToSet(q) \cup {r[1]}
        /\ IsInjective(r) <=> IsInjective(q) /\ r[1] \notin ToSet(q)
    BY <1>2, <1>4, <1>5, <1>6, ShiftFacts
  <1>8. r = <<x>> \o q
    BY DEF r, p
  <1>9. QED BY <1>3, <1>5, <1>7, <1>8

\* The free IDs the other way round.
LEMMA ReverseFacts ==
    ASSUME NEW q \in Seq(Nat), IsInjective(q)
    PROVE  Reverse(q) \in Seq(Nat) /\ IsInjective(Reverse(q)) /\ ToSet(Reverse(q)) = ToSet(q)
  <1> DEFINE r == Reverse(q)
             n == Len(q)
  <1>1. n \in Nat /\ DOMAIN q = 1..n /\ \A i \in 1..n : q[i] \in Nat
    BY LenProperties, ElementOfSeq
  <1>2. DOMAIN r = 1..n /\ \A i \in 1..n : r[i] = q[(n - i) + 1]
    BY DEF Reverse
  <1> HIDE DEF n
  <1>3. \A i \in 1..n : (n - i) + 1 \in 1..n /\ (n - ((n - i) + 1)) + 1 = i
    BY <1>1
  <1>4. \A i, j \in 1..n : (n - i) + 1 = (n - j) + 1 => i = j
    BY <1>1
  <1>5. r \in Seq(Nat)
    <2>1. r = [i \in 1..n |-> q[(n - i) + 1]]
      BY DEF Reverse, n
    <2>2. \A i \in 1..n : q[(n - i) + 1] \in Nat
      BY <1>1, <1>3
    <2> HIDE DEF r
    <2>3. r \in [1..n -> Nat]
      BY <2>1, <2>2
    <2>4. QED BY <2>3, <1>1, SeqDef
  <1> HIDE DEF r
  <1>6. IsInjective(r)
    <2>1. ASSUME NEW i \in 1..n, NEW j \in 1..n, r[i] = r[j] PROVE i = j
      <3>1. q[(n - i) + 1] = q[(n - j) + 1]
        BY <1>2, <2>1
      <3>2. (n - i) + 1 = (n - j) + 1
        BY <3>1, <1>1, <1>3 DEF IsInjective
      <3>3. QED BY <3>2, <1>4
    <2>2. QED BY <1>2, <2>1 DEF IsInjective
  <1>7. ToSet(r) = ToSet(q)
    <2>1. \A i \in 1..n : r[i] \in ToSet(q)
      BY <1>1, <1>2, <1>3 DEF ToSet
    <2>2. ASSUME NEW i \in 1..n PROVE q[i] \in ToSet(r)
      <3>1. (n - i) + 1 \in 1..n /\ r[(n - i) + 1] = q[i]
        BY <1>2, <1>3
      <3>2. QED BY <1>2, <3>1 DEF ToSet
    <2>3. QED BY <1>1, <1>2, <2>1, <2>2 DEF ToSet
  <1>8. QED BY <1>5, <1>6, <1>7 DEF r

\* Used IDs are below the limit, and so there are finitely many.
LEMMA UsedFacts ==
    ASSUME NEW i \in IDList, NEW used, Exact(i, used)
    PROVE  /\ i.limit \in Nat /\ i.free \in Seq(Nat) /\ i.num \in Int
           /\ used \subseteq Nat /\ IsFiniteSet(used) /\ Cardinality(used) \in Nat
  <1>1. i.limit \in Nat /\ i.free \in Seq(Nat) /\ i.num \in Int
    BY DEF IDList
  <1>2. used \subseteq 0..(i.limit - 1)
    BY DEF Exact
  <1>3. IsFiniteSet(used)
    <2>1. 0 \in Int /\ i.limit - 1 \in Int
      BY <1>1
    <2>2. IsFiniteSet(0..(i.limit - 1))
      BY <2>1, FS_Interval, Zenon
    <2>3. QED BY <1>2, <2>2, FS_Subset
  <1>4. QED BY <1>1, <1>2, <1>3, FS_CardinalityType

\* The next ID is one that nobody has, and then the list is exact with it.
LEMMA AllocExact ==
    ASSUME NEW i \in IDList, NEW used, Exact(i, used)
    PROVE  /\ NextID(i) \in Nat \ used
           /\ Alloc(i) \in IDList /\ Exact(Alloc(i), used \cup {NextID(i)})
  <1> DEFINE x == NextID(i)
             j == Alloc(i)
  <1>1. /\ i.limit \in Nat /\ i.free \in Seq(Nat) /\ i.num \in Int
        /\ used \subseteq Nat /\ IsFiniteSet(used) /\ Cardinality(used) \in Nat
    BY UsedFacts
  <1>2. /\ IsInjective(i.free) /\ ToSet(i.free) \cap used = {}
        /\ ToSet(i.free) \cup used = 0..(i.limit - 1) /\ i.num = Cardinality(used)
    BY DEF Exact
  <1>3. CASE i.free = <<>>
    <2>1. x = i.limit /\ x \notin 0..(i.limit - 1)
      BY <1>1, <1>3 DEF NextID
    <2>2. j = [limit |-> i.limit + 1, free |-> i.free, num |-> i.num + 1]
      BY <1>3 DEF Alloc, IDList
    <2>3. j.limit = i.limit + 1 /\ j.free = i.free /\ j.num = i.num + 1 /\ j \in IDList
      BY <1>1, <2>2 DEF IDList
    <2>4. 0..((i.limit + 1) - 1) = 0..(i.limit - 1) \cup {i.limit}
      BY <1>1
    <2>5. Cardinality(used \cup {x}) = i.num + 1
      BY <1>1, <1>2, <2>1, FS_AddElement
    <2>6. x \notin ToSet(i.free) /\ x \notin used
      BY <1>2, <2>1
    <2> HIDE DEF x, j
    <2>7. Exact(j, used \cup {x})
      BY <1>2, <2>1, <2>3, <2>4, <2>5, <2>6 DEF Exact
    <2>8. QED BY <1>1, <2>1, <2>3, <2>6, <2>7 DEF x, j
  <1>4. CASE i.free # <<>>
    <2>1. /\ i.free[1] \in ToSet(i.free) /\ i.free[1] \in Nat /\ Tail(i.free) \in Seq(Nat)
          /\ IsInjective(Tail(i.free)) /\ ToSet(Tail(i.free)) = ToSet(i.free) \ {i.free[1]}
      BY <1>1, <1>2, <1>4, HeadFacts
    <2>2. x = i.free[1]
      BY <1>4 DEF NextID
    <2>3. j = [limit |-> i.limit, free |-> Tail(i.free), num |-> i.num + 1]
      BY <1>4 DEF Alloc, IDList
    <2>4. j.limit = i.limit /\ j.free = Tail(i.free) /\ j.num = i.num + 1 /\ j \in IDList
      BY <1>1, <2>1, <2>3 DEF IDList
    <2>5. x \notin used
      BY <1>2, <2>1, <2>2
    <2>6. Cardinality(used \cup {x}) = i.num + 1
      BY <1>1, <1>2, <2>5, FS_AddElement
    <2> HIDE DEF x, j
    <2>7. Exact(j, used \cup {x})
      BY <1>2, <2>1, <2>2, <2>4, <2>5, <2>6 DEF Exact
    <2>8. QED BY <2>1, <2>2, <2>4, <2>5, <2>7 DEF x, j
  <1>5. QED BY <1>3, <1>4

\* An ID that was used is given back, and the list is exact without it.
LEMMA FreeExact ==
    ASSUME NEW i \in IDList, NEW used, Exact(i, used), NEW x \in used
    PROVE  Free(i, x) \in IDList /\ Exact(Free(i, x), used \ {x})
  <1> DEFINE j == Free(i, x)
  <1>1. /\ i.limit \in Nat /\ i.free \in Seq(Nat) /\ i.num \in Int
        /\ used \subseteq Nat /\ IsFiniteSet(used) /\ Cardinality(used) \in Nat
    BY UsedFacts
  <1>2. /\ IsInjective(i.free) /\ ToSet(i.free) \cap used = {}
        /\ ToSet(i.free) \cup used = 0..(i.limit - 1) /\ i.num = Cardinality(used)
    BY DEF Exact
  <1>3. Cardinality(used \ {x}) = i.num - 1
    BY <1>1, <1>2, FS_RemoveElement
  <1>4. x \in Nat /\ x \notin ToSet(i.free) /\ x \in 0..(i.limit - 1)
    BY <1>1, <1>2
  <1>5. CASE x = i.limit - 1
    <2>1. j = [limit |-> i.limit - 1, free |-> i.free, num |-> i.num - 1]
      BY <1>5 DEF Free, IDList
    <2>2. j.limit = i.limit - 1 /\ j.free = i.free /\ j.num = i.num - 1 /\ j \in IDList
      BY <1>1, <1>4, <2>1 DEF IDList
    <2>3. 0..((i.limit - 1) - 1) = 0..(i.limit - 1) \ {x}
      BY <1>1, <1>5
    <2> HIDE DEF j
    <2>4. Exact(j, used \ {x})
      BY <1>2, <1>3, <1>4, <2>2, <2>3 DEF Exact
    <2>5. QED BY <2>2, <2>4 DEF j
  <1>6. CASE x # i.limit - 1
    <2>1. /\ <<x>> \o i.free \in Seq(Nat) /\ IsInjective(<<x>> \o i.free)
          /\ ToSet(<<x>> \o i.free) = ToSet(i.free) \cup {x}
      BY <1>1, <1>2, <1>4, PushFacts
    <2>2. j = [limit |-> i.limit, free |-> <<x>> \o i.free, num |-> i.num - 1]
      BY <1>6 DEF Free, IDList
    <2>3. /\ j.limit = i.limit /\ j.free = <<x>> \o i.free /\ j.num = i.num - 1
          /\ j \in IDList
      BY <1>1, <2>1, <2>2 DEF IDList
    <2> HIDE DEF j
    <2>4. Exact(j, used \ {x})
      BY <1>2, <1>3, <1>4, <2>1, <2>3 DEF Exact
    <2>5. QED BY <2>3, <2>4 DEF j
  <1>7. QED BY <1>5, <1>6

\* A list that is read back is exact for the same IDs.
LEMMA RereadExact ==
    ASSUME NEW k, NEW i \in IDList, NEW used, Exact(i, used)
    PROVE  Reread(k, i) \in IDList /\ Exact(Reread(k, i), used)
  <1>1. i.limit \in Nat /\ i.free \in Seq(Nat) /\ i.num \in Int /\ IsInjective(i.free)
    BY UsedFacts DEF Exact
  <1>2. /\ Reverse(i.free) \in Seq(Nat) /\ IsInjective(Reverse(i.free))
        /\ ToSet(Reverse(i.free)) = ToSet(i.free)
    BY <1>1, ReverseFacts
  <1> DEFINE j == [limit |-> i.limit, free |-> Reverse(i.free), num |-> i.num]
  <1>3. Reread(k, i) = i \/ Reread(k, i) = j
    BY DEF Reread, IDList
  <1>4. j.limit = i.limit /\ j.free = Reverse(i.free) /\ j.num = i.num /\ j \in IDList
    BY <1>1, <1>2 DEF IDList
  <1> HIDE DEF j
  <1>5. Exact(j, used)
    BY <1>2, <1>4 DEF Exact
  <1>6. QED BY <1>3, <1>4, <1>5

\* When no ID is used, the list may be forgotten.
LEMMA ForgetExact ==
    ASSUME NEW i \in IDList, Exact(i, {})
    PROVE  Forget(i) \in IDList /\ Exact(Forget(i), {})
  <1> DEFINE j == [limit |-> 0, free |-> <<>>, num |-> i.num]
  <1>1. Forget(i) = j
    BY DEF Forget
  <1>2. i.num \in Int /\ i.num = Cardinality({})
    BY DEF IDList, Exact
  <1>3. j \in IDList
    BY <1>2 DEF IDList
  <1>4. IsInjective(<<>>) /\ ToSet(<<>>) = {} /\ 0..(0 - 1) = {}
    BY DEF IsInjective, ToSet
  <1>5. j.limit = 0 /\ j.free = <<>> /\ j.num = i.num
    OBVIOUS
  <1> HIDE DEF j
  <1>6. Exact(j, {})
    BY <1>2, <1>4, <1>5 DEF Exact
  <1>7. QED BY <1>1, <1>3, <1>6

LEMMA NoIDsExact == NoIDs \in IDList /\ Exact(NoIDs, {})
  <1>1. NoIDs.limit = 0 /\ NoIDs.free = <<>> /\ NoIDs.num = 0 /\ NoIDs \in IDList
    BY DEF NoIDs, IDList
  <1>2. IsInjective(<<>>) /\ ToSet(<<>>) = {} /\ 0..(0 - 1) = {}
    BY DEF IsInjective, ToSet
  <1>3. QED BY <1>1, <1>2, FS_EmptySet DEF Exact

-----------------------------------------------------------------------------
(* The names and IDs of one kind                                           *)

\* A dictionary and the list its IDs were given out from.
IsDict(f, i) ==
    /\ f \in Dictionary /\ i \in IDList
    /\ IsInjective(f) /\ Exact(i, Range(f))

LEMMA DictFacts ==
    ASSUME NEW f \in Dictionary
    PROVE  DOMAIN f \subseteq Names /\ f \in [DOMAIN f -> Nat]
  BY DEF Dictionary

LEMMA DictIntro ==
    ASSUME NEW N \in SUBSET Names, NEW f \in [N -> Nat]
    PROVE  f \in Dictionary /\ DOMAIN f = N
  BY DEF Dictionary

\* A name that has none gets the next ID.
LEMMA NameDict ==
    ASSUME NEW f, NEW i, IsDict(f, i), NEW n \in Names, n \notin DOMAIN f
    PROVE  LET g == [m \in DOMAIN f \cup {n} |-> IF m = n THEN NextID(i) ELSE f[m]]
           IN  /\ IsDict(g, Alloc(i)) /\ DOMAIN g = DOMAIN f \cup {n}
               /\ \A m \in DOMAIN f : g[m] = f[m]
  <1> DEFINE x == NextID(i)
             g == [m \in DOMAIN f \cup {n} |-> IF m = n THEN x ELSE f[m]]
  <1>1. f \in Dictionary /\ i \in IDList /\ IsInjective(f) /\ Exact(i, Range(f))
    BY DEF IsDict
  <1>2. DOMAIN f \subseteq Names /\ f \in [DOMAIN f -> Nat]
    BY <1>1, DictFacts
  <1>3. x \in Nat \ Range(f) /\ Alloc(i) \in IDList /\ Exact(Alloc(i), Range(f) \cup {x})
    BY <1>1, AllocExact
  <1> HIDE DEF x
  <1>4. g \in [DOMAIN f \cup {n} -> Nat]
    BY <1>2, <1>3
  <1>5. g \in Dictionary /\ DOMAIN g = DOMAIN f \cup {n}
    BY <1>2, <1>4, DictIntro
  <1>6. g[n] = x /\ \A m \in DOMAIN f : g[m] = f[m]
    OBVIOUS
  <1> HIDE DEF g
  <1>7. Range(g) = Range(f) \cup {x}
    BY <1>5, <1>6 DEF Range
  <1>8. IsInjective(g)
    <2>1. \A m \in DOMAIN f : f[m] # x
      BY <1>3 DEF Range
    <2>2. \A a, b \in DOMAIN f : f[a] = f[b] => a = b
      BY <1>1 DEF IsInjective
    <2>3. QED BY <1>5, <1>6, <2>1, <2>2 DEF IsInjective
  <1>9. IsDict(g, Alloc(i))
    BY <1>3, <1>5, <1>7, <1>8 DEF IsDict
  <1>10. QED BY <1>5, <1>6, <1>9 DEF g, x

\* A name loses its ID, and the ID is free again.
LEMMA UnnameDict ==
    ASSUME NEW f, NEW i, IsDict(f, i), NEW n \in DOMAIN f
    PROVE  LET g == Restrict(f, DOMAIN f \ {n})
           IN  /\ IsDict(g, Free(i, f[n])) /\ DOMAIN g = DOMAIN f \ {n}
               /\ \A m \in DOMAIN g : g[m] = f[m]
  <1> DEFINE g == Restrict(f, DOMAIN f \ {n})
  <1>1. f \in Dictionary /\ i \in IDList /\ IsInjective(f) /\ Exact(i, Range(f))
    BY DEF IsDict
  <1>2. DOMAIN f \subseteq Names /\ f \in [DOMAIN f -> Nat]
    BY <1>1, DictFacts
  <1>3. g = [m \in DOMAIN f \ {n} |-> f[m]]
    BY DEF Restrict
  <1>4. DOMAIN g = DOMAIN f \ {n} /\ \A m \in DOMAIN g : g[m] = f[m]
    BY <1>3
  <1>5. g \in [DOMAIN f \ {n} -> Nat]
    BY <1>2, <1>3
  <1>6. g \in Dictionary
    BY <1>2, <1>5, DictIntro
  <1> HIDE DEF g
  <1>7. \A a, b \in DOMAIN f : f[a] = f[b] => a = b
    BY <1>1 DEF IsInjective
  <1>8. Range(g) = Range(f) \ {f[n]}
    BY <1>4, <1>7 DEF Range
  <1>9. IsInjective(g)
    BY <1>4, <1>7 DEF IsInjective
  <1>10. f[n] \in Range(f)
    BY DEF Range
  <1>11. Free(i, f[n]) \in IDList /\ Exact(Free(i, f[n]), Range(f) \ {f[n]})
    BY <1>1, <1>10, FreeExact
  <1>12. IsDict(g, Free(i, f[n]))
    BY <1>6, <1>8, <1>9, <1>11 DEF IsDict
  <1>13. QED BY <1>4, <1>12 DEF g

LEMMA RereadDict ==
    ASSUME NEW k, NEW f, NEW i, IsDict(f, i)
    PROVE  IsDict(f, Reread(k, i))
  BY RereadExact DEF IsDict

LEMMA ForgetDict ==
    ASSUME NEW f, NEW i, IsDict(f, i), DOMAIN f = {}
    PROVE  IsDict(f, Forget(i))
  <1>1. Range(f) = {}
    BY DEF Range
  <1>2. QED BY <1>1, ForgetExact DEF IsDict

LEMMA NoDict == IsDict(<<>>, NoIDs) /\ DOMAIN <<>> = {}
  <1>1. DOMAIN <<>> = {} /\ IsInjective(<<>>) /\ Range(<<>>) = {}
    BY DEF IsInjective, Range
  <1>2. <<>> \in [{} -> Nat]
    OBVIOUS
  <1>3. <<>> \in Dictionary
    BY <1>2, DictIntro
  <1>4. QED BY <1>1, <1>3, NoIDsExact DEF IsDict

-----------------------------------------------------------------------------
(* A database and the triples it holds                                     *)

NamesOf(w) == UNION {{t[1], t[2], t[3]} : t \in w}

\* The IDs are in order.
Sane(d) ==
    /\ d \in Database
    /\ \A k \in Kinds : /\ IsDict(d.id[k], d.ids[k])
                        /\ \A n \in DOMAIN d.id[k] : KindOf(n) = k

\* What is stored are the triples of w.
Holds(d, w) ==
    /\ w \subseteq Triples /\ IsFiniteSet(w)
    /\ \A t \in w : Known(d, t)
    /\ d.triples = {IDs(d, t) : t \in w}

\* Entities and predicates that have an ID are names of w.
Tidy(d, w) ==
    \A n \in Names : Has(d, n) /\ KindOf(n) # "literal" => n \in NamesOf(w)

\* e has the names that d has, with their IDs.
Keeps(e, d) == \A n \in Names : Has(d, n) => Has(e, n) /\ ID(e, n) = ID(d, n)

LEMMA KindFacts == \A n : KindOf(n) \in Kinds
  BY DEF KindOf, Kinds

LEMMA TripleFacts ==
    ASSUME NEW t \in Triples
    PROVE  /\ t = <<t[1], t[2], t[3]>> /\ \A i \in 1..3 : t[i] \in Names
           /\ KindOf(t[1]) = "entity" /\ KindOf(t[2]) = "predicate"
           /\ KindOf(t[3]) # "predicate"
  <1>1. t[1] \in Names /\ t[2] \in Names /\ t[3] \in Names
    BY DEF Names
  <1>2. \A i \in 1..3 : i = 1 \/ i = 2 \/ i = 3
    OBVIOUS
  <1>3. QED BY <1>1, <1>2, TriplesAssumption

LEMMA NamesOfFacts ==
    ASSUME NEW w, NEW n
    PROVE  n \in NamesOf(w) <=> \E t \in w : \E i \in 1..3 : n = t[i]
  <1>1. \A t : n \in {t[1], t[2], t[3]} <=> \E i \in 1..3 : n = t[i]
    OBVIOUS
  <1>2. n \in NamesOf(w) <=> \E t \in w : n \in {t[1], t[2], t[3]}
    BY DEF NamesOf
  <1>3. QED BY <1>1, <1>2, Zenon

\* An ID is one name's.
LEMMA IDFacts ==
    ASSUME NEW d, Sane(d), NEW n, Has(d, n)
    PROVE  /\ n \in Names /\ ID(d, n) \in Kinds \X Nat
           /\ ID(d, n)[1] = KindOf(n) /\ ID(d, n)[2] = d.id[KindOf(n)][n]
           /\ \A m : Has(d, m) /\ ID(d, m) = ID(d, n) => m = n
  <1> DEFINE k == KindOf(n)
             f == d.id[k]
  <1>1. k \in Kinds
    BY KindFacts
  <1>2. IsDict(f, d.ids[k])
    BY <1>1 DEF Sane
  <1>3. f \in Dictionary /\ IsInjective(f)
    BY <1>2 DEF IsDict
  <1>4. n \in DOMAIN f
    BY DEF Has
  <1>5. f \in [DOMAIN f -> Nat] /\ DOMAIN f \subseteq Names
    BY <1>3, DictFacts
  <1>6. n \in Names /\ f[n] \in Nat
    BY <1>4, <1>5
  <1>7. ID(d, n) = <<k, f[n]>>
    BY DEF ID
  <1>8. ASSUME NEW m, Has(d, m), ID(d, m) = ID(d, n) PROVE m = n
    <2>1. KindOf(m) = k /\ d.id[KindOf(m)][m] = f[n]
      BY <1>8 DEF ID
    <2>2. m \in DOMAIN f /\ f[m] = f[n]
      BY <2>1, <1>8 DEF Has
    <2>3. QED BY <2>2, <1>3, <1>4 DEF IsInjective
  <1> HIDE DEF f, k
  <1>9. ID(d, n) \in Kinds \X Nat /\ ID(d, n)[1] = k /\ ID(d, n)[2] = f[n]
    BY <1>1, <1>6, <1>7
  <1>10. QED BY <1>6, <1>8, <1>9 DEF f, k

\* And so the IDs of a triple are its own.
LEMMA IDsFacts ==
    ASSUME NEW d, Sane(d), NEW t \in Triples, Known(d, t)
    PROVE  /\ IDs(d, t) \in [1..3 -> Kinds \X Nat]
           /\ \A s \in Triples : Known(d, s) /\ IDs(d, s) = IDs(d, t) => s = t
  <1>1. \A i \in 1..3 : ID(d, t[i]) \in Kinds \X Nat
    BY IDFacts DEF Known
  <1>2. IDs(d, t) \in [1..3 -> Kinds \X Nat]
    BY <1>1 DEF IDs
  <1>3. ASSUME NEW s \in Triples, Known(d, s), IDs(d, s) = IDs(d, t) PROVE s = t
    <2>1. ASSUME NEW i \in 1..3 PROVE s[i] = t[i]
      <3>1. IDs(d, s)[i] = ID(d, s[i]) /\ IDs(d, t)[i] = ID(d, t[i])
        BY DEF IDs
      <3>2. ID(d, s[i]) = ID(d, t[i])
        BY <3>1, <1>3
      <3>3. Has(d, s[i]) /\ Has(d, t[i])
        BY <1>3 DEF Known
      <3>4. QED BY <3>2, <3>3, IDFacts
    <2>2. s[1] = t[1] /\ s[2] = t[2] /\ s[3] = t[3]
      BY <2>1
    <2>3. QED BY <2>2, TriplesAssumption, Zenon
  <1>4. QED BY <1>2, <1>3

\* An ID is used by the stored triples if its name is a name of theirs.
LEMMA UnusedFacts ==
    ASSUME NEW d, Sane(d), NEW w, Holds(d, w), NEW n, Has(d, n)
    PROVE  Unused(d, ID(d, n)) <=> n \notin NamesOf(w)
  <1>1. \A t \in w : t \in Triples /\ Known(d, t)
    BY DEF Holds
  <1>2. ASSUME NEW t \in w, NEW i \in 1..3
        PROVE  IDs(d, t)[i] = ID(d, t[i]) /\ (ID(d, t[i]) = ID(d, n) <=> t[i] = n)
    <2>1. Has(d, t[i])
      BY <1>1 DEF Known
    <2>2. IDs(d, t)[i] = ID(d, t[i])
      BY DEF IDs
    <2>3. QED BY <2>1, <2>2, IDFacts
  <1>3. \A t \in w : ID(d, n) \in {IDs(d, t)[1], IDs(d, t)[2], IDs(d, t)[3]}
                        <=> \E i \in 1..3 : n = t[i]
    BY <1>2
  <1>4. Unused(d, ID(d, n))
          <=> \A t \in w : ID(d, n) \notin {IDs(d, t)[1], IDs(d, t)[2], IDs(d, t)[3]}
    BY Zenon DEF Unused, Holds
  <1>5. QED BY <1>3, <1>4, NamesOfFacts, Zenon

\* Where names keep their IDs, triples keep theirs.
LEMMA KeptFacts ==
    ASSUME NEW d, NEW e, Keeps(e, d), NEW t \in Triples, Known(d, t)
    PROVE  Known(e, t) /\ IDs(e, t) = IDs(d, t)
  <1>1. \A i \in 1..3 : Has(e, t[i]) /\ ID(e, t[i]) = ID(d, t[i])
    BY TripleFacts DEF Known, Keeps
  <1>2. IDs(e, t) = IDs(d, t)
    BY <1>1, Zenon DEF IDs
  <1>3. QED BY <1>1, <1>2 DEF Known

LEMMA HoldsKept ==
    ASSUME NEW d, NEW e, Keeps(e, d), e.triples = d.triples, NEW w, Holds(d, w)
    PROVE  Holds(e, w)
  <1>1. \A t \in w : Known(e, t) /\ IDs(e, t) = IDs(d, t)
    BY KeptFacts DEF Holds
  <1>2. {IDs(e, t) : t \in w} = {IDs(d, t) : t \in w}
    BY <1>1, Zenon
  <1>3. QED BY <1>1, <1>2 DEF Holds

LEMMA KeepsTrans ==
    ASSUME NEW d, NEW e, NEW f, Keeps(e, d), Keeps(f, e)
    PROVE  Keeps(f, d)
  BY DEF Keeps

-----------------------------------------------------------------------------
(* Names that get IDs and lose them                                        *)

\* The names of one kind are changed, those of the others are not.
LEMMA KindChanged ==
    ASSUME NEW d, Sane(d), NEW k \in Kinds, NEW g, NEW j, IsDict(g, j),
           \A n \in DOMAIN g : KindOf(n) = k,
           NEW e, e = [triples |-> d.triples, count |-> d.count,
                       id |-> [d.id EXCEPT ![k] = g], ids |-> [d.ids EXCEPT ![k] = j]]
    PROVE  /\ Sane(e) /\ e.triples = d.triples /\ e.count = d.count
           /\ \A n : IF KindOf(n) = k
                     THEN (Has(e, n) <=> n \in DOMAIN g) /\ ID(e, n) = <<k, g[n]>>
                     ELSE (Has(e, n) <=> Has(d, n)) /\ ID(e, n) = ID(d, n)
  <1>1. /\ d.triples \in SUBSET [1..3 -> Kinds \X Nat] /\ d.count \in Int
        /\ d.id \in [Kinds -> Dictionary] /\ d.ids \in [Kinds -> IDList]
    BY DEF Sane, Database
  <1>2. g \in Dictionary /\ j \in IDList
    BY DEF IsDict
  <1>3. e.triples = d.triples /\ e.count = d.count
        /\ e.id = [d.id EXCEPT ![k] = g] /\ e.ids = [d.ids EXCEPT ![k] = j]
    OBVIOUS
  <1>4. e.id \in [Kinds -> Dictionary] /\ e.ids \in [Kinds -> IDList]
    BY <1>1, <1>2, <1>3
  <1>5. e \in Database
    BY <1>1, <1>3, <1>4 DEF Database
  <1>6. e.id[k] = g /\ e.ids[k] = j
    BY <1>1, <1>3
  <1>7. \A m \in Kinds : m # k => e.id[m] = d.id[m] /\ e.ids[m] = d.ids[m]
    BY <1>1, <1>3
  <1>8. \A m \in Kinds : IsDict(e.id[m], e.ids[m]) /\ \A n \in DOMAIN e.id[m] : KindOf(n) = m
    BY <1>6, <1>7 DEF Sane
  <1>9. ASSUME NEW n, KindOf(n) = k
        PROVE  (Has(e, n) <=> n \in DOMAIN g) /\ ID(e, n) = <<k, g[n]>>
    BY <1>6, <1>9, Zenon DEF Has, ID
  <1>10. ASSUME NEW n, KindOf(n) # k
         PROVE  (Has(e, n) <=> Has(d, n)) /\ ID(e, n) = ID(d, n)
    <2>1. e.id[KindOf(n)] = d.id[KindOf(n)]
      BY <1>7, <1>10, KindFacts
    <2>2. QED BY <2>1, Zenon DEF Has, ID
  <1>11. QED BY <1>3, <1>5, <1>8, <1>9, <1>10 DEF Sane

LEMMA NamedFacts ==
    ASSUME NEW d, Sane(d), NEW n \in Names
    PROVE  /\ Sane(Named(d, n)) /\ Keeps(Named(d, n), d) /\ Has(Named(d, n), n)
           /\ Named(d, n).triples = d.triples
           /\ \A m : Has(Named(d, n), m) => Has(d, m) \/ m = n
  <1>1. CASE Has(d, n)
    <2>1. Named(d, n) = d
      BY <1>1, Zenon DEF Named
    <2>2. QED BY <2>1, <1>1 DEF Keeps
  <1>2. CASE ~Has(d, n)
    <2> DEFINE k == KindOf(n)
               f == d.id[k]
               i == d.ids[k]
               g == [m \in DOMAIN f \cup {n} |-> IF m = n THEN NextID(i) ELSE f[m]]
               e == [triples |-> d.triples, count |-> d.count,
                     id |-> [d.id EXCEPT ![k] = g], ids |-> [d.ids EXCEPT ![k] = Alloc(i)]]
    <2>1. k \in Kinds /\ IsDict(f, i) /\ \A m \in DOMAIN f : KindOf(m) = k
      BY KindFacts DEF Sane
    <2>2. n \notin DOMAIN f
      BY <1>2 DEF Has
    <2>3. /\ IsDict(g, Alloc(i)) /\ DOMAIN g = DOMAIN f \cup {n}
          /\ \A m \in DOMAIN f : g[m] = f[m]
      <3> HIDE DEF f, i, k
      <3>1. QED BY <2>1, <2>2, NameDict
    <2>4. Named(d, n) = e
      BY <1>2 DEF Named, Sane, Database
    <2>5. \A m \in DOMAIN g : KindOf(m) = k
      BY <2>1, <2>3
    <2> DEFINE F(m) == IF KindOf(m) = k
                       THEN (Has(e, m) <=> m \in DOMAIN g) /\ ID(e, m) = <<k, g[m]>>
                       ELSE (Has(e, m) <=> Has(d, m)) /\ ID(e, m) = ID(d, m)
    <2>6. Sane(e) /\ e.triples = d.triples /\ \A m : F(m)
      <3> HIDE DEF g, i
      <3> DEFINE j == Alloc(i)
      <3>1. IsDict(g, j)
        BY <2>3
      <3> HIDE DEF k, j
      <3>2. QED BY <2>1, <2>5, <3>1, KindChanged DEF j
    <2> HIDE DEF g, e
    <2>7. \A m : KindOf(m) = k /\ m \in DOMAIN f => ID(d, m) = <<k, g[m]>>
      BY <2>3 DEF ID
    <2>8. \A m : KindOf(m) = k => (Has(d, m) <=> m \in DOMAIN f)
      BY DEF Has
    <2> HIDE DEF f, k
    <2>9. Keeps(e, d)
      BY <2>3, <2>6, <2>7, <2>8 DEF Keeps
    <2>10. Has(e, n) /\ \A m : Has(e, m) => Has(d, m) \/ m = n
      BY <2>3, <2>6, <2>8 DEF k
    <2>11. QED BY <2>4, <2>6, <2>9, <2>10
  <1>3. QED BY <1>1, <1>2

LEMMA NamedAllFacts ==
    ASSUME NEW d, Sane(d), NEW t \in Triples
    PROVE  /\ Sane(NamedAll(d, t)) /\ Keeps(NamedAll(d, t), d) /\ Known(NamedAll(d, t), t)
           /\ NamedAll(d, t).triples = d.triples
           /\ \A m : Has(NamedAll(d, t), m) => Has(d, m) \/ \E i \in 1..3 : m = t[i]
  <1> DEFINE a == Named(d, t[1])
             b == Named(a, t[2])
             c == Named(b, t[3])
  <1>1. t[1] \in Names /\ t[2] \in Names /\ t[3] \in Names
    BY TripleFacts
  <1>2. /\ Sane(a) /\ Keeps(a, d) /\ Has(a, t[1]) /\ a.triples = d.triples
        /\ \A m : Has(a, m) => Has(d, m) \/ m = t[1]
    BY <1>1, NamedFacts
  <1> HIDE DEF a
  <1>3. /\ Sane(b) /\ Keeps(b, a) /\ Has(b, t[2]) /\ b.triples = a.triples
        /\ \A m : Has(b, m) => Has(a, m) \/ m = t[2]
    BY <1>1, <1>2, NamedFacts
  <1> HIDE DEF b
  <1>4. /\ Sane(c) /\ Keeps(c, b) /\ Has(c, t[3]) /\ c.triples = b.triples
        /\ \A m : Has(c, m) => Has(b, m) \/ m = t[3]
    BY <1>1, <1>3, NamedFacts
  <1> HIDE DEF c
  <1>5. Has(c, t[1]) /\ Has(c, t[2]) /\ Has(c, t[3])
    BY <1>1, <1>2, <1>3, <1>4 DEF Keeps
  <1>6. \A i \in 1..3 : i = 1 \/ i = 2 \/ i = 3
    OBVIOUS
  <1>7. Known(c, t)
    BY <1>5, <1>6, Zenon DEF Known
  <1>8. Keeps(c, d)
    BY <1>2, <1>3, <1>4, KeepsTrans, Zenon
  <1>9. \A m : Has(c, m) => Has(d, m) \/ \E i \in 1..3 : m = t[i]
    BY <1>2, <1>3, <1>4
  <1>10. NamedAll(d, t) = c
    BY DEF NamedAll, a, b, c
  <1>11. QED BY <1>2, <1>3, <1>4, <1>7, <1>8, <1>9, <1>10

\* A name that no stored triple uses loses its ID.
LEMMA UnnamedFacts ==
    ASSUME NEW d, Sane(d), NEW n, Has(d, n), NEW x, x = ID(d, n)[2]
    PROVE  /\ Sane(Unnamed(d, n, x)) /\ Keeps(d, Unnamed(d, n, x))
           /\ Unnamed(d, n, x).triples = d.triples
           /\ \A m : Has(Unnamed(d, n, x), m) <=> Has(d, m) /\ m # n
  <1> DEFINE k == KindOf(n)
             f == d.id[k]
             i == d.ids[k]
             g == Restrict(f, DOMAIN f \ {n})
             e == [triples |-> d.triples, count |-> d.count,
                   id |-> [d.id EXCEPT ![k] = g], ids |-> [d.ids EXCEPT ![k] = Free(i, x)]]
  <1>1. k \in Kinds /\ IsDict(f, i) /\ \A m \in DOMAIN f : KindOf(m) = k
    BY KindFacts DEF Sane
  <1>2. n \in DOMAIN f /\ x = f[n]
    BY IDFacts DEF Has
  <1>3. /\ IsDict(g, Free(i, x)) /\ DOMAIN g = DOMAIN f \ {n}
        /\ \A m \in DOMAIN g : g[m] = f[m]
    <2> HIDE DEF f, i, k
    <2>1. QED BY <1>1, <1>2, UnnameDict
  <1>4. Unnamed(d, n, x) = e
    <2>1. Unnamed(d, n, x) = [d EXCEPT !.id[k] = g, !.ids[k] = Free(i, x)]
      BY Zenon DEF Unnamed
    <2> HIDE DEF g, k
    <2>2. QED BY <2>1 DEF Sane, Database
  <1>5. \A m \in DOMAIN g : KindOf(m) = k
    BY <1>1, <1>3
  <1> DEFINE F(m) == IF KindOf(m) = k
                     THEN (Has(e, m) <=> m \in DOMAIN g) /\ ID(e, m) = <<k, g[m]>>
                     ELSE (Has(e, m) <=> Has(d, m)) /\ ID(e, m) = ID(d, m)
  <1>6. Sane(e) /\ e.triples = d.triples /\ \A m : F(m)
    <2> HIDE DEF g, i
    <2> DEFINE j == Free(i, x)
    <2>1. IsDict(g, j)
      BY <1>3
    <2> HIDE DEF k, j
    <2>2. QED BY <1>1, <1>5, <2>1, KindChanged DEF j
  <1> HIDE DEF g, e
  <1>7. \A m : KindOf(m) = k /\ m \in DOMAIN g => ID(d, m) = <<k, g[m]>>
    BY <1>3 DEF ID
  <1>8. \A m : KindOf(m) = k => (Has(d, m) <=> m \in DOMAIN f)
    BY DEF Has
  <1> HIDE DEF f, k
  <1>9. Keeps(d, e)
    BY <1>3, <1>6, <1>7, <1>8 DEF Keeps
  <1>10. \A m : Has(e, m) <=> Has(d, m) /\ m # n
    BY <1>3, <1>6, <1>8 DEF k
  <1>11. QED BY <1>4, <1>6, <1>9, <1>10

-----------------------------------------------------------------------------
(* Insertions                                                              *)

Good(d, w) == Sane(d) /\ Holds(d, w) /\ Tidy(d, w)

\* A triple is stored if it is one of those the database holds.
LEMMA StoredFacts ==
    ASSUME NEW d, Sane(d), NEW w, Holds(d, w), NEW t \in Triples
    PROVE  Stored(d, t) <=> t \in w
  <1>1. \A s \in w : s \in Triples /\ Known(d, s)
    BY DEF Holds
  <1>2. d.triples = {IDs(d, s) : s \in w}
    BY DEF Holds
  <1>3. ASSUME Stored(d, t) PROVE t \in w
    <2>1. Known(d, t) /\ \E s \in w : IDs(d, s) = IDs(d, t)
      BY <1>2, <1>3, Zenon DEF Stored
    <2>2. QED BY <2>1, <1>1, IDsFacts
  <1>4. ASSUME t \in w PROVE Stored(d, t)
    BY <1>1, <1>2, <1>4, Zenon DEF Stored
  <1>5. QED BY <1>3, <1>4

\* Other triples and another count with the same names and IDs.
LEMMA OtherTriples ==
    ASSUME NEW d, Sane(d), NEW w, w \subseteq Triples, IsFiniteSet(w),
           \A t \in w : Known(d, t), NEW c \in Int,
           NEW e, e = [triples |-> {IDs(d, t) : t \in w}, count |-> c,
                       id |-> d.id, ids |-> d.ids]
    PROVE  /\ Sane(e) /\ Holds(e, w) /\ Keeps(e, d) /\ Keeps(d, e)
           /\ \A m : Has(e, m) <=> Has(d, m)
  <1>1. d.id \in [Kinds -> Dictionary] /\ d.ids \in [Kinds -> IDList]
    BY DEF Sane, Database
  <1>2. {IDs(d, t) : t \in w} \in SUBSET [1..3 -> Kinds \X Nat]
    BY IDsFacts
  <1>3. e.triples = {IDs(d, t) : t \in w} /\ e.id = d.id /\ e.ids = d.ids
    OBVIOUS
  <1>4. e \in Database
    BY <1>1, <1>2 DEF Database
  <1>5. Sane(e)
    BY <1>3, <1>4 DEF Sane
  <1>6. \A m : (Has(e, m) <=> Has(d, m)) /\ ID(e, m) = ID(d, m)
    BY <1>3, Zenon DEF Has, ID
  <1>7. Keeps(e, d) /\ Keeps(d, e)
    BY <1>6 DEF Keeps
  <1>8. \A t \in w : Known(e, t) /\ IDs(e, t) = IDs(d, t)
    BY <1>7, KeptFacts
  <1>9. {IDs(e, t) : t \in w} = {IDs(d, t) : t \in w}
    BY <1>8, Zenon
  <1>10. Holds(e, w)
    BY <1>3, <1>8, <1>9 DEF Holds
  <1>11. QED BY <1>5, <1>6, <1>7, <1>10

LEMMA InsertGood ==
    ASSUME NEW d, NEW w, Good(d, w), NEW t \in Triples
    PROVE  Good(InsertTriple(d, t), w \cup {t})
  <1> DEFINE a == NamedAll(d, t)
             v == w \cup {t}
             e == [triples |-> {IDs(a, s) : s \in v}, count |-> a.count + 1,
                   id |-> a.id, ids |-> a.ids]
  <1>1. Sane(d) /\ Holds(d, w) /\ Tidy(d, w)
    BY DEF Good
  <1>2. /\ Sane(a) /\ Keeps(a, d) /\ Known(a, t) /\ a.triples = d.triples
        /\ \A m : Has(a, m) => Has(d, m) \/ \E i \in 1..3 : m = t[i]
    BY <1>1, NamedAllFacts
  <1> HIDE DEF a
  <1>3. Holds(a, w)
    BY <1>1, <1>2, HoldsKept
  <1>4. v \subseteq Triples /\ IsFiniteSet(v)
    BY <1>1, FS_AddElement DEF Holds
  <1>5. \A s \in v : Known(a, s)
    BY <1>2, <1>3 DEF Holds
  <1>6. a.count \in Int
    BY <1>2 DEF Sane, Database
  <1>7. {IDs(a, s) : s \in v} = a.triples \cup {IDs(a, t)}
    BY <1>3 DEF Holds
  <1>8. ASSUME NEW m \in Names, Has(a, m), KindOf(m) # "literal" PROVE m \in NamesOf(v)
    <2>1. m \in NamesOf(w) \/ \E i \in 1..3 : m = t[i]
      BY <1>1, <1>2, <1>8 DEF Tidy
    <2>2. \E s \in v : \E i \in 1..3 : m = s[i]
      BY <2>1, NamesOfFacts
    <2>3. QED BY <2>2, NamesOfFacts
  <1>9. CASE Stored(a, t)
    <2>1. InsertTriple(d, t) = a
      BY <1>9, Zenon DEF InsertTriple, a
    <2>2. t \in w
      BY <1>2, <1>3, <1>9, StoredFacts
    <2>3. v = w
      BY <2>2
    <2>4. QED BY <2>1, <2>3, <1>2, <1>3, <1>8 DEF Good, Tidy
  <1>10. CASE ~Stored(a, t)
    <2>1. InsertTriple(d, t) = [a EXCEPT !.triples = @ \cup {IDs(a, t)}, !.count = @ + 1]
      BY <1>10, Zenon DEF InsertTriple, a
    <2>2. InsertTriple(d, t) = e
      <3>1. a.triples \cup {IDs(a, t)} = {IDs(a, s) : s \in v}
        BY <1>7
      <3> DEFINE T == {IDs(a, s) : s \in v}
      <3>2. InsertTriple(d, t) = [a EXCEPT !.triples = T, !.count = @ + 1]
        BY <2>1, <3>1, Zenon
      <3> HIDE DEF T
      <3>3. InsertTriple(d, t) = [triples |-> T, count |-> a.count + 1, id |-> a.id, ids |-> a.ids]
        BY <3>2, <1>2 DEF Sane, Database
      <3>4. QED BY <3>3 DEF T
    <2>3. a.count + 1 \in Int
      BY <1>6
    <2>4. Sane(e) /\ Holds(e, v) /\ \A m : Has(e, m) <=> Has(a, m)
      <3> DEFINE c == a.count + 1
      <3> HIDE DEF v, c
      <3>1. e = [triples |-> {IDs(a, s) : s \in v}, count |-> c, id |-> a.id, ids |-> a.ids]
        BY DEF c
      <3> HIDE DEF e
      <3>2. QED BY <1>2, <1>4, <1>5, <2>3, <3>1, OtherTriples DEF c
    <2> HIDE DEF e
    <2>5. Tidy(e, v)
      BY <1>8, <2>4 DEF Tidy
    <2>6. QED BY <2>2, <2>4, <2>5 DEF Good
  <1>11. QED BY <1>9, <1>10

-----------------------------------------------------------------------------
(* Removals                                                                *)

\* What becomes of the names when some of them are dropped.
Dropped(e, d, w) ==
    Sane(e) /\ Holds(e, w) /\ Keeps(d, e) /\ (\A m : Has(e, m) => Has(d, m))

LEMMA DroppedTrans ==
    ASSUME NEW d, NEW e, NEW f, NEW w, Dropped(e, d, w), Dropped(f, e, w)
    PROVE  Dropped(f, d, w)
  BY KeepsTrans DEF Dropped

LEMMA DropFacts ==
    ASSUME NEW d, Sane(d), NEW w, Holds(d, w), NEW n, Has(d, n), NEW id, id = ID(d, n)
    PROVE  /\ Dropped(Drop(d, n, id), d, w)
           /\ Has(Drop(d, n, id), n) => n \in NamesOf(w)
           /\ \A m : m # n /\ Has(d, m) => Has(Drop(d, n, id), m)
  <1>1. Unused(d, ID(d, n)) <=> n \notin NamesOf(w)
    BY UnusedFacts
  <1>2. CASE n \in NamesOf(w)
    <2>1. Drop(d, n, id) = d
      BY <1>1, <1>2, Zenon DEF Drop
    <2>2. QED BY <2>1, <1>2 DEF Dropped, Keeps
  <1>3. CASE n \notin NamesOf(w)
    <2> DEFINE e == Drop(d, n, id)
    <2>1. e = Unnamed(d, n, ID(d, n)[2])
      BY <1>1, <1>3, Zenon DEF Drop
    <2>2. /\ Sane(e) /\ Keeps(d, e) /\ e.triples = d.triples
          /\ \A m : Has(e, m) <=> Has(d, m) /\ m # n
      BY <2>1, UnnamedFacts
    <2> HIDE DEF e
    <2>3. ASSUME NEW t \in w PROVE Known(e, t)
      <3>1. \A i \in 1..3 : t[i] # n
        BY <1>3, NamesOfFacts
      <3>2. QED BY <2>2, <3>1 DEF Holds, Known
    <2>4. \A t \in w : IDs(e, t) = IDs(d, t)
      BY <2>2, <2>3, KeptFacts DEF Holds
    <2>5. {IDs(e, t) : t \in w} = {IDs(d, t) : t \in w}
      BY <2>4, Zenon
    <2>6. Holds(e, w)
      BY <2>2, <2>3, <2>5 DEF Holds
    <2>7. QED BY <2>2, <2>6 DEF Dropped, e
  <1>4. QED BY <1>2, <1>3

LEMMA Recount ==
    ASSUME NEW d \in Database, NEW T, NEW c, NEW e, e = [d EXCEPT !.triples = T, !.count = c]
    PROVE  e = [triples |-> T, count |-> c, id |-> d.id, ids |-> d.ids]
  BY DEF Database

LEMMA RemoveGood ==
    ASSUME NEW d, NEW w, Good(d, w), NEW t \in Triples, t[1] # t[3]
    PROVE  Good(RemoveTriple(d, t), w \ {t})
  <1>1. Sane(d) /\ Holds(d, w) /\ Tidy(d, w)
    BY DEF Good
  <1>2. CASE ~Stored(d, t)
    <2>1. RemoveTriple(d, t) = d
      BY <1>2, Zenon DEF RemoveTriple
    <2>2. w \ {t} = w
      BY <1>1, <1>2, StoredFacts
    <2>3. QED BY <2>1, <2>2
  <1>3. CASE Stored(d, t)
    <2> DEFINE v == w \ {t}
               e == [triples |-> {IDs(d, s) : s \in v}, count |-> d.count - 1,
                     id |-> d.id, ids |-> d.ids]
               f == Drop(e, t[1], ID(d, t[1]))
               g == Drop(f, t[3], ID(d, t[3]))
               h == Drop(g, t[2], ID(d, t[2]))
    <2>1. v \subseteq Triples /\ IsFiniteSet(v) /\ \A s \in v : Known(d, s)
      BY <1>1, FS_RemoveElement DEF Holds
    <2>2. Known(d, t) /\ d.count \in Int /\ d.count - 1 \in Int
      BY <1>1, <1>3 DEF Stored, Sane, Database
    <2>3. {IDs(d, s) : s \in v} = d.triples \ {IDs(d, t)}
      <3>1. \A s \in w : s \in Triples /\ Known(d, s)
        BY <1>1 DEF Holds
      <3>2. \A s \in w : s # t => IDs(d, s) # IDs(d, t)
        BY <1>1, <2>2, <3>1, IDsFacts
      <3>3. d.triples = {IDs(d, s) : s \in w}
        BY <1>1 DEF Holds
      <3>4. QED BY <3>2, <3>3
    <2>4. RemoveTriple(d, t) = h
      <3>1. [d EXCEPT !.triples = @ \ {IDs(d, t)}, !.count = @ - 1] = e
        <4> DEFINE T == {IDs(d, s) : s \in v}
        <4>1. [d EXCEPT !.triples = @ \ {IDs(d, t)}, !.count = @ - 1]
                = [d EXCEPT !.triples = T, !.count = @ - 1]
          BY <2>3, Zenon
        <4> HIDE DEF T
        <4>2. d \in Database
          BY <1>1 DEF Sane
        <4> DEFINE r == [d EXCEPT !.triples = T, !.count = d.count - 1]
                   c == d.count - 1
        <4>3. r = [d EXCEPT !.triples = T, !.count = c]
          OBVIOUS
        <4> HIDE DEF r, c
        <4>4. r = [triples |-> T, count |-> c, id |-> d.id, ids |-> d.ids]
          BY <4>2, <4>3, Recount, Zenon
        <4>5. QED BY <4>1, <4>4, Zenon DEF T, r, c
      <3> HIDE DEF e
      <3>2. QED BY <1>3, <3>1, Zenon DEF RemoveTriple
    <2>5. Sane(e) /\ Holds(e, v) /\ Keeps(d, e) /\ \A m : Has(e, m) <=> Has(d, m)
      <3> DEFINE c == d.count - 1
      <3> HIDE DEF v, c
      <3>1. e = [triples |-> {IDs(d, s) : s \in v}, count |-> c, id |-> d.id, ids |-> d.ids]
        BY DEF c
      <3> HIDE DEF e
      <3>2. QED BY <1>1, <2>1, <2>2, <3>1, OtherTriples DEF c
    <2> HIDE DEF e
    <2>6. \A i \in 1..3 : Has(e, t[i]) /\ ID(e, t[i]) = ID(d, t[i])
      BY <2>2, <2>5, TripleFacts DEF Known, Keeps
    <2>7. t[1] # t[2] /\ t[3] # t[2]
      BY TripleFacts
    <2>8. /\ Dropped(f, e, v)
          /\ Has(f, t[1]) => t[1] \in NamesOf(v)
          /\ Has(f, t[2]) /\ ID(f, t[2]) = ID(d, t[2])
          /\ Has(f, t[3]) /\ ID(f, t[3]) = ID(d, t[3])
      <3>1. /\ Dropped(f, e, v)
            /\ Has(f, t[1]) => t[1] \in NamesOf(v)
            /\ \A m : m # t[1] /\ Has(e, m) => Has(f, m)
        BY <2>5, <2>6, DropFacts
      <3>2. Has(f, t[2]) /\ Has(f, t[3])
        BY <2>6, <2>7, <3>1
      <3>3. ID(f, t[2]) = ID(e, t[2]) /\ ID(f, t[3]) = ID(e, t[3])
        BY <3>1, <3>2, TripleFacts DEF Dropped, Keeps
      <3>4. QED BY <2>6, <3>1, <3>2, <3>3
    <2> HIDE DEF f
    <2>9. /\ Dropped(g, f, v)
          /\ Has(g, t[3]) => t[3] \in NamesOf(v)
          /\ Has(g, t[2]) /\ ID(g, t[2]) = ID(d, t[2])
      <3>1. /\ Dropped(g, f, v)
            /\ Has(g, t[3]) => t[3] \in NamesOf(v)
            /\ \A m : m # t[3] /\ Has(f, m) => Has(g, m)
        BY <2>8, DropFacts DEF Dropped
      <3>2. Has(g, t[2])
        BY <2>7, <2>8, <3>1
      <3>3. ID(g, t[2]) = ID(f, t[2])
        BY <3>1, <3>2, TripleFacts DEF Dropped, Keeps
      <3>4. QED BY <2>8, <3>1, <3>2, <3>3
    <2> HIDE DEF g
    <2>10. /\ Dropped(h, g, v)
           /\ Has(h, t[2]) => t[2] \in NamesOf(v)
      BY <2>9, DropFacts DEF Dropped
    <2> HIDE DEF h
    <2>11. \A m : Has(h, m) => Has(g, m) /\ Has(f, m) /\ Has(d, m)
      BY <2>5, <2>8, <2>9, <2>10 DEF Dropped
    <2>12. ASSUME NEW m \in Names, Has(h, m), KindOf(m) # "literal" PROVE m \in NamesOf(v)
      <3>1. m \in NamesOf(w)
        BY <1>1, <2>11, <2>12 DEF Tidy
      <3>2. PICK s \in w : \E i \in 1..3 : m = s[i]
        BY <3>1, NamesOfFacts
      <3>3. CASE s # t
        BY <3>2, <3>3, NamesOfFacts
      <3>4. CASE s = t
        <4>1. m = t[1] \/ m = t[2] \/ m = t[3]
          BY <3>2, <3>4
        <4>2. QED BY <4>1, <2>8, <2>9, <2>10, <2>11, <2>12
      <3>5. QED BY <3>3, <3>4
    <2>13. Tidy(h, v)
      BY <2>12 DEF Tidy
    <2>14. QED BY <2>4, <2>10, <2>13 DEF Good, Dropped
  <1>4. QED BY <1>2, <1>3

\* The lists of free IDs are written anew.
LEMMA OtherLists ==
    ASSUME NEW d, NEW w, Good(d, w), NEW J, J \in [Kinds -> IDList],
           \A k \in Kinds : IsDict(d.id[k], J[k]),
           NEW e, e = [d EXCEPT !.ids = J]
    PROVE  Good(e, w)
  <1>1. Sane(d) /\ Holds(d, w) /\ Tidy(d, w)
    BY DEF Good
  <1>2. e = [triples |-> d.triples, count |-> d.count, id |-> d.id, ids |-> J]
    BY <1>1 DEF Sane, Database
  <1>3. e.triples = d.triples /\ e.id = d.id /\ e.ids = J
    BY <1>2
  <1>4. e \in Database
    BY <1>1, <1>2 DEF Sane, Database
  <1>5. Sane(e)
    BY <1>1, <1>3, <1>4 DEF Sane
  <1>6. \A m : (Has(e, m) <=> Has(d, m)) /\ ID(e, m) = ID(d, m)
    BY <1>3, Zenon DEF Has, ID
  <1>7. Keeps(e, d)
    BY <1>6 DEF Keeps
  <1>8. Holds(e, w)
    BY <1>1, <1>3, <1>7, HoldsKept
  <1>9. Tidy(e, w)
    BY <1>1, <1>6 DEF Tidy
  <1>10. QED BY <1>5, <1>8, <1>9 DEF Good

LEMMA ResetGood ==
    ASSUME NEW d, NEW w, Good(d, w), Counted(ResetIDs(d))
    PROVE  Good(ResetIDs(d), w)
  <1>1. CASE d.count # 0
    BY <1>1 DEF ResetIDs
  <1>2. CASE d.count = 0
    <2> DEFINE J == [k \in Kinds |-> Forget(d.ids[k])]
               e == [d EXCEPT !.ids = J]
    <2>1. ResetIDs(d) = e
      BY <1>2, Zenon DEF ResetIDs
    <2>2. e.count = 0 /\ e.id = d.id
      <3> HIDE DEF J
      <3>1. QED BY <1>2 DEF Good, Sane, Database
    <2>3. \A k \in Kinds : DOMAIN d.id[k] = {}
      BY <2>1, <2>2, Zenon DEF Counted
    <2>4. \A k \in Kinds : IsDict(d.id[k], Forget(d.ids[k]))
      BY <2>3, ForgetDict DEF Good, Sane
    <2>5. J \in [Kinds -> IDList] /\ \A k \in Kinds : IsDict(d.id[k], J[k])
      BY <2>4 DEF IsDict
    <2> HIDE DEF J
    <2>6. QED BY <2>1, <2>5, OtherLists
  <1>3. QED BY <1>1, <1>2

LEMMA LoadGood ==
    ASSUME NEW d, NEW w, Good(d, w)
    PROVE  Good(Load(d), w)
  <1> DEFINE J == [k \in Kinds |-> Reread(k, d.ids[k])]
  <1>1. Load(d) = [d EXCEPT !.ids = J]
    BY Zenon DEF Load
  <1>2. \A k \in Kinds : IsDict(d.id[k], Reread(k, d.ids[k]))
    BY RereadDict DEF Good, Sane
  <1>3. J \in [Kinds -> IDList] /\ \A k \in Kinds : IsDict(d.id[k], J[k])
    BY <1>2 DEF IsDict
  <1> HIDE DEF J
  <1>4. QED BY <1>1, <1>3, OtherLists

-----------------------------------------------------------------------------
(* Batches                                                                 *)

Naming    == INSTANCE Fold_proofs WITH Op <- NamedAll
Dropping  == INSTANCE Fold_proofs WITH Op <- DropID
Inserting == INSTANCE Fold_proofs WITH Op <- InsertTriple
Undoing   == INSTANCE Fold_proofs WITH Op <- Undo

LEMMA BatchFacts ==
    ASSUME NEW ts \in Seq(Triples)
    PROVE  /\ Len(ts) \in Nat /\ DOMAIN ts = 1..Len(ts)
           /\ \A i \in 1..Len(ts) : ts[i] \in Triples
           /\ ToSet(ts) = {ts[i] : i \in 1..Len(ts)}
           /\ ToSet(ts) \subseteq Triples /\ IsFiniteSet(ToSet(ts))
  <1>1. /\ Len(ts) \in Nat /\ DOMAIN ts = 1..Len(ts) /\ ts \in [1..Len(ts) -> Triples]
        /\ \A i \in 1..Len(ts) : ts[i] \in Triples
    BY LenProperties, ElementOfSeq
  <1>2. ToSet(ts) = {ts[i] : i \in 1..Len(ts)}
    BY <1>1, Zenon DEF ToSet
  <1>3. ToSet(ts) \subseteq Triples
    BY <1>1, <1>2
  <1>4. IsFiniteSet(1..Len(ts))
    BY <1>1, FS_Interval
  <1> DEFINE S == 1..Len(ts)
             T == ToSet(ts)
  <1>5. ts \in [S -> T] /\ \A t \in T : \E i \in S : ts[i] = t
    BY <1>1, <1>2
  <1>6. ts \in Surjection(S, T)
    <2> HIDE DEF S, T
    <2>1. QED BY <1>5 DEF Surjection
  <1>7. IsFiniteSet(T)
    <2> HIDE DEF T
    <2>1. IsFiniteSet(S)
      BY <1>4
    <2> HIDE DEF S
    <2>2. QED BY <1>6, <2>1, FS_Surjection
  <1>8. QED BY <1>1, <1>2, <1>3, <1>7

\* All names of some triples have IDs, and what had one keeps it.
Ready(e, d, w) ==
    /\ Sane(e) /\ Keeps(e, d) /\ e.triples = d.triples
    /\ \A t \in w : Known(e, t)
    /\ \A m : Has(e, m) => Has(d, m) \/ \E t \in w : \E i \in 1..3 : m = t[i]

LEMMA NamingFacts ==
    ASSUME NEW d, Sane(d), NEW ts \in Seq(Triples)
    PROVE  Ready(Each(NamedAll, d, ts), d, ToSet(ts))
  <1> DEFINE N == Len(ts)
             e == Each(NamedAll, d, ts)
  <1>1. N \in Nat /\ (\A n \in 1..N : ts[n] \in Triples) /\ ToSet(ts) = {ts[n] : n \in 1..N}
    BY BatchFacts
  <1>2. PICK a : /\ a[0] = d
                 /\ \A n \in 0..(N - 1) : a[n + 1] = NamedAll(a[n], ts[n + 1])
                 /\ Naming!Each(d, ts) = a[N]
    BY <1>1, Naming!Turns
  <1>3. e = a[N]
    BY <1>2, Zenon DEF Each, Naming!Each
  <1> DEFINE P(n) == /\ Sane(a[n]) /\ Keeps(a[n], d) /\ a[n].triples = d.triples
                     /\ \A j \in 1..n : Known(a[n], ts[j])
                     /\ \A m : Has(a[n], m) =>
                          Has(d, m) \/ \E j \in 1..n : \E i \in 1..3 : m = ts[j][i]
             T == {n \in Nat : n <= N => P(n)}
  <1> HIDE DEF N, e
  <1>4. 0 \in T
    <2>1. P(0)
      BY <1>2 DEF Keeps
    <2>2. QED BY <2>1
  <1>5. ASSUME NEW n \in T PROVE n + 1 \in T
    <2> SUFFICES ASSUME n + 1 <= N PROVE P(n + 1)
      OBVIOUS
    <2>1. n \in Nat /\ P(n) /\ n \in 0..(N - 1) /\ n + 1 \in 1..N
      <3>1. n \in Nat /\ (n <= N => P(n))
        <4> HIDE DEF P
        <4>1. QED OBVIOUS
      <3>2. n <= N /\ n \in 0..(N - 1) /\ n + 1 \in 1..N
        BY <1>1, <3>1
      <3>3. QED BY <3>1, <3>2
    <2> DEFINE b == a[n]
               t == ts[n + 1]
               c == a[n + 1]
    <2>2. t \in Triples /\ c = NamedAll(b, t)
      BY <1>1, <1>2, <2>1
    <2>3. /\ Sane(c) /\ Keeps(c, b) /\ Known(c, t) /\ c.triples = b.triples
          /\ \A m : Has(c, m) => Has(b, m) \/ \E i \in 1..3 : m = t[i]
      <3>1. Sane(b)
        BY <2>1
      <3> HIDE DEF b, c, t
      <3>2. QED BY <2>2, <3>1, NamedAllFacts
    <2>4. Keeps(c, d) /\ c.triples = d.triples
      BY <2>1, <2>3, KeepsTrans
    <2>5. \A j \in 1..(n + 1) : j = n + 1 \/ (j \in 1..n /\ j \in 1..N)
      BY <1>1, <2>1
    <2>6. \A j \in 1..n : Known(b, ts[j])
      BY <2>1
    <2>7. ASSUME NEW j \in 1..(n + 1) PROVE Known(c, ts[j])
      <3>1. CASE j = n + 1
        BY <3>1, <2>3
      <3>2. CASE j \in 1..n /\ j \in 1..N
        <4> HIDE DEF b, c, t
        <4>1. QED BY <1>1, <2>3, <2>6, <3>2, KeptFacts
      <3>3. QED BY <2>5, <3>1, <3>2
    <2>8. ASSUME NEW m, Has(c, m)
          PROVE  Has(d, m) \/ \E j \in 1..(n + 1) : \E i \in 1..3 : m = ts[j][i]
      <3>1. Has(b, m) \/ \E i \in 1..3 : m = t[i]
        BY <2>3, <2>8
      <3>2. Has(b, m) => Has(d, m) \/ \E j \in 1..n : \E i \in 1..3 : m = ts[j][i]
        BY <2>1
      <3>3. n + 1 \in 1..(n + 1) /\ \A j \in 1..n : j \in 1..(n + 1)
        BY <2>1
      <3>4. QED BY <3>1, <3>2, <3>3, Zenon
    <2>9. QED BY <2>3, <2>4, <2>7, <2>8
  <1>6. N \in T
    <2>1. T \in SUBSET Nat
      OBVIOUS
    <2> HIDE DEF T
    <2>2. T = Nat
      BY <1>4, <1>5, <2>1, Naming!SetInduction
    <2>3. QED BY <2>2, <1>1
  <1>7. P(N)
    BY <1>1, <1>6
  <1>8. \A t \in ToSet(ts) : Known(e, t)
    BY <1>1, <1>3, <1>7, Zenon
  <1>9. ASSUME NEW m, Has(e, m)
        PROVE  Has(d, m) \/ \E t \in ToSet(ts) : \E i \in 1..3 : m = t[i]
    <2>1. Has(d, m) \/ \E j \in 1..N : \E i \in 1..3 : m = ts[j][i]
      BY <1>3, <1>7, <1>9, Zenon
    <2>2. \A j \in 1..N : ts[j] \in ToSet(ts)
      BY <1>1
    <2>3. QED BY <2>1, <2>2, Zenon
  <1>10. Ready(e, d, ToSet(ts))
    BY <1>3, <1>7, <1>8, <1>9 DEF Ready
  <1>11. QED BY <1>10 DEF e

LEMMA BatchInsertGood ==
    ASSUME NEW d, NEW w, Good(d, w), NEW ts \in Seq(Triples)
    PROVE  Good(BatchInsert(d, ts), w \cup ToSet(ts))
  <1> DEFINE a == Each(NamedAll, d, ts)
             v == w \cup ToSet(ts)
             e == [triples |-> {IDs(a, t) : t \in v}, count |-> a.count,
                   id |-> a.id, ids |-> a.ids]
  <1>1. Sane(d) /\ Holds(d, w) /\ Tidy(d, w)
    BY DEF Good
  <1>2. ToSet(ts) \subseteq Triples /\ IsFiniteSet(ToSet(ts))
    BY BatchFacts
  <1>3. BatchInsert(d, ts) = [a EXCEPT !.triples = @ \cup {IDs(a, t) : t \in ToSet(ts)}]
    BY Zenon DEF BatchInsert
  <1>4. /\ Sane(a) /\ Keeps(a, d) /\ a.triples = d.triples
        /\ \A t \in ToSet(ts) : Known(a, t)
        /\ \A m : Has(a, m) => Has(d, m) \/ \E t \in ToSet(ts) : \E i \in 1..3 : m = t[i]
    <2>1. Ready(a, d, ToSet(ts))
      BY <1>1, NamingFacts, Zenon
    <2> HIDE DEF a
    <2>2. QED BY <2>1 DEF Ready
  <1> HIDE DEF a
  <1>5. Holds(a, w)
    BY <1>1, <1>4, HoldsKept
  <1>6. v \subseteq Triples /\ IsFiniteSet(v) /\ \A t \in v : Known(a, t)
    BY <1>1, <1>2, <1>4, <1>5, FS_Union DEF Holds
  <1>7. a.triples \cup {IDs(a, t) : t \in ToSet(ts)} = {IDs(a, t) : t \in v}
    BY <1>5 DEF Holds
  <1>8. BatchInsert(d, ts) = e
    <2> DEFINE T == {IDs(a, t) : t \in v}
    <2>1. BatchInsert(d, ts) = [a EXCEPT !.triples = T]
      BY <1>3, <1>7, Zenon
    <2> HIDE DEF T
    <2>2. BatchInsert(d, ts) = [triples |-> T, count |-> a.count, id |-> a.id, ids |-> a.ids]
      BY <2>1, <1>4 DEF Sane, Database
    <2>3. QED BY <2>2 DEF T
  <1>9. a.count \in Int
    BY <1>4 DEF Sane, Database
  <1>10. Sane(e) /\ Holds(e, v) /\ \A m : Has(e, m) <=> Has(a, m)
    <2> DEFINE c == a.count
    <2> HIDE DEF v, c
    <2>1. e = [triples |-> {IDs(a, t) : t \in v}, count |-> c, id |-> a.id, ids |-> a.ids]
      BY DEF c
    <2> HIDE DEF e
    <2>2. QED BY <1>4, <1>6, <1>9, <2>1, OtherTriples DEF c
  <1> HIDE DEF e
  <1>11. ASSUME NEW m \in Names, Has(e, m), KindOf(m) # "literal" PROVE m \in NamesOf(v)
    <2>1. m \in NamesOf(w) \/ \E t \in ToSet(ts) : \E i \in 1..3 : m = t[i]
      BY <1>1, <1>4, <1>10, <1>11 DEF Tidy
    <2>2. \E t \in v : \E i \in 1..3 : m = t[i]
      BY <2>1, NamesOfFacts
    <2>3. QED BY <2>2, NamesOfFacts
  <1>12. QED BY <1>8, <1>10, <1>11 DEF Good, Tidy

\* The name of an ID that is used no more is dropped.
LEMMA DropIDFacts ==
    ASSUME NEW d, Sane(d), NEW w, Holds(d, w), NEW id, id[1] \in Kinds
    PROVE  /\ Dropped(DropID(d, id), d, w)
           /\ \A m : Has(DropID(d, id), m) /\ ID(d, m) = id => m \in NamesOf(w)
  <1> DEFINE S == {n \in DOMAIN d.id[id[1]] : ID(d, n) = id}
             e == DropID(d, id)
  <1>1. CASE S = {}
    <2>1. e = d
      BY <1>1, Zenon DEF DropID
    <2>2. ASSUME NEW m, Has(d, m), ID(d, m) = id PROVE FALSE
      <3>1. KindOf(m) = id[1]
        BY <2>2, IDFacts
      <3>2. QED BY <1>1, <2>2, <3>1 DEF Has
    <2>3. QED BY <2>1, <2>2 DEF Dropped, Keeps
  <1>2. CASE S # {}
    <2> DEFINE n == CHOOSE n \in S : TRUE
    <2>1. n \in S
      BY <1>2
    <2>2. e = Drop(d, n, id)
      BY <1>2, Zenon DEF DropID
    <2> HIDE DEF n
    <2>3. Has(d, n) /\ ID(d, n) = id
      BY <2>1 DEF Has, Sane
    <2> HIDE DEF e
    <2>4. Dropped(e, d, w) /\ (Has(e, n) => n \in NamesOf(w))
      BY <2>2, <2>3, DropFacts
    <2>5. ASSUME NEW m, Has(e, m), ID(d, m) = id PROVE m \in NamesOf(w)
      <3>1. Has(d, m)
        BY <2>4, <2>5 DEF Dropped
      <3>2. m = n
        BY <2>3, <2>5, <3>1, IDFacts
      <3>3. QED BY <2>4, <2>5, <3>2
    <2>6. QED BY <2>4, <2>5 DEF e
  <1>3. QED BY <1>1, <1>2

\* And so are those of several IDs.
Cleared(e, d, w, xs) ==
    /\ Dropped(e, d, w)
    /\ \A j \in 1..Len(xs) : \A m \in Names :
         Has(e, m) /\ ID(d, m) = xs[j] => m \in NamesOf(w)

LEMMA DroppingFacts ==
    ASSUME NEW d, Sane(d), NEW w, Holds(d, w), NEW xs, Len(xs) \in Nat,
           \A j \in 1..Len(xs) : xs[j][1] \in Kinds
    PROVE  Cleared(Each(DropID, d, xs), d, w, xs)
  <1> DEFINE N == Len(xs)
             e == Each(DropID, d, xs)
  <1>1. PICK a : /\ a[0] = d
                 /\ \A n \in 0..(N - 1) : a[n + 1] = DropID(a[n], xs[n + 1])
                 /\ Dropping!Each(d, xs) = a[N]
    BY Dropping!Turns
  <1>2. e = a[N]
    BY <1>1, Zenon DEF Each, Dropping!Each
  <1> DEFINE P(n) == /\ Dropped(a[n], d, w)
                     /\ \A j \in 1..n : \A m \in Names :
                          Has(a[n], m) /\ ID(d, m) = xs[j] => m \in NamesOf(w)
             T == {n \in Nat : n <= N => P(n)}
  <1>3. N \in Nat /\ \A j \in 1..N : xs[j][1] \in Kinds
    OBVIOUS
  <1> HIDE DEF N, e
  <1>4. 0 \in T
    <2>1. P(0)
      BY <1>1 DEF Dropped, Keeps
    <2>2. QED BY <2>1
  <1>5. ASSUME NEW n \in T PROVE n + 1 \in T
    <2> SUFFICES ASSUME n + 1 <= N PROVE P(n + 1)
      OBVIOUS
    <2>1. n \in Nat /\ P(n) /\ n \in 0..(N - 1) /\ n + 1 \in 1..N
      <3>1. n \in Nat /\ (n <= N => P(n))
        <4> HIDE DEF P
        <4>1. QED OBVIOUS
      <3>2. n <= N /\ n \in 0..(N - 1) /\ n + 1 \in 1..N
        BY <1>3, <3>1
      <3>3. QED BY <3>1, <3>2
    <2> DEFINE b == a[n]
               x == xs[n + 1]
               c == a[n + 1]
    <2>2. c = DropID(b, x) /\ x[1] \in Kinds
      BY <1>1, <1>3, <2>1
    <2>3. Dropped(b, d, w)
      BY <2>1
    <2>4. Dropped(c, b, w) /\ \A m : Has(c, m) /\ ID(b, m) = x => m \in NamesOf(w)
      <3> HIDE DEF b, c, x
      <3>1. QED BY <2>2, <2>3, DropIDFacts DEF Dropped
    <2>5. Dropped(c, d, w)
      BY <2>3, <2>4, DroppedTrans, Zenon
    <2>6. \A j \in 1..(n + 1) : j = n + 1 \/ j \in 1..n
      BY <2>1
    <2>7. \A m \in Names : Has(c, m) => Has(b, m) /\ ID(b, m) = ID(d, m)
      BY <2>3, <2>4 DEF Dropped, Keeps
    <2>8. ASSUME NEW j \in 1..(n + 1), NEW m \in Names, Has(c, m), ID(d, m) = xs[j]
          PROVE  m \in NamesOf(w)
      <3>1. CASE j = n + 1
        BY <3>1, <2>4, <2>7, <2>8
      <3>2. CASE j \in 1..n
        BY <3>2, <2>1, <2>7, <2>8, Zenon
      <3>3. QED BY <2>6, <3>1, <3>2
    <2>9. QED BY <2>5, <2>8
  <1>6. N \in T
    <2>1. T \in SUBSET Nat
      OBVIOUS
    <2> HIDE DEF T
    <2>2. T = Nat
      BY <1>4, <1>5, <2>1, Dropping!SetInduction
    <2>3. QED BY <2>2, <1>3
  <1>7. P(N)
    BY <1>3, <1>6
  <1>8. Cleared(e, d, w, xs)
    BY <1>2, <1>7, Zenon DEF Cleared, N
  <1>9. QED BY <1>8 DEF e

\* No number of a finite set is left out when they are put in order.
LEMMA AscendingFacts ==
    ASSUME NEW S \in SUBSET Nat, IsFiniteSet(S)
    PROVE  /\ Cardinality(S) \in Nat /\ DOMAIN Ascending(S) = 1..Cardinality(S)
           /\ \A x \in S : \E i \in 1..Cardinality(S) : Ascending(S)[i] = x
  <1> DEFINE below(x) == {y \in S : y < x}
             rank(x) == Cardinality(below(x))
  <1>1. Cardinality(S) \in Nat
    BY FS_CardinalityType
  <1>2. Ascending(S) = [i \in 1..Cardinality(S) |-> CHOOSE x \in S : rank(x) = i - 1]
    BY Zenon DEF Ascending
  <1>3. ASSUME NEW x \in S PROVE rank(x) \in Nat /\ rank(x) < Cardinality(S)
    <2>1. below(x) \in SUBSET S /\ below(x) # S
      <3>1. ~(x < x)
        OBVIOUS
      <3>2. QED BY <3>1
    <2>2. IsFiniteSet(below(x)) /\ Cardinality(below(x)) <= Cardinality(S)
          /\ (Cardinality(S) = Cardinality(below(x)) => S = below(x))
      BY <2>1, FS_Subset
    <2>3. Cardinality(below(x)) \in Nat
      BY <2>2, FS_CardinalityType
    <2>4. QED BY <2>1, <2>2, <2>3, <1>1
  <1>4. ASSUME NEW x \in S, NEW y \in S, x < y PROVE rank(x) # rank(y)
    <2>1. below(x) \in SUBSET below(y) /\ x \in below(y) /\ x \notin below(x)
      <3>1. \A z \in S : z < x => z < y
        BY <1>4
      <3>2. ~(x < x)
        OBVIOUS
      <3>3. QED BY <1>4, <3>1, <3>2
    <2>2. IsFiniteSet(below(y))
      <3>1. below(y) \in SUBSET S
        OBVIOUS
      <3>2. QED BY <3>1, FS_Subset
    <2>3. Cardinality(below(y)) = Cardinality(below(x)) => below(y) = below(x)
      BY <2>1, <2>2, FS_Subset
    <2>4. QED BY <2>1, <2>3
  <1>5. ASSUME NEW x \in S, NEW y \in S, rank(x) = rank(y) PROVE x = y
    <2>1. x \in Nat /\ y \in Nat
      OBVIOUS
    <2>2. x < y \/ y < x \/ x = y
      BY <2>1
    <2> HIDE DEF rank
    <2>3. QED BY <1>4, <1>5, <2>2
  <1>6. ASSUME NEW x \in S PROVE \E i \in 1..Cardinality(S) : Ascending(S)[i] = x
    <2> HIDE DEF rank
    <2>1. rank(x) + 1 \in 1..Cardinality(S) /\ (rank(x) + 1) - 1 = rank(x)
      BY <1>1, <1>3
    <2>2. Ascending(S)[rank(x) + 1] = CHOOSE y \in S : rank(y) = rank(x)
      BY <1>2, <2>1
    <2>3. (CHOOSE y \in S : rank(y) = rank(x)) = x
      <3> DEFINE z == CHOOSE y \in S : rank(y) = rank(x)
      <3>1. z \in S /\ rank(z) = rank(x)
        BY Zenon
      <3> HIDE DEF z
      <3>2. z = x
        BY <1>5, <3>1
      <3>3. QED BY <3>2 DEF z
    <2>4. QED BY <2>1, <2>2, <2>3
  <1>7. QED BY <1>1, <1>2, <1>6

\* The names in one place of the removed triples are dropped.
LEMMA DropPlaceFacts ==
    ASSUME NEW d, Sane(d), NEW w, Holds(d, w), NEW ids, IsFiniteSet(ids),
           NEW place \in 1..3, NEW kind \in Kinds,
           \A id \in ids : id[place] \in Kinds \X Nat,
           NEW e, e = DropPlace(d, ids, place, kind)
    PROVE  /\ Dropped(e, d, w)
           /\ \A m \in Names : /\ Has(e, m) /\ KindOf(m) = kind
                               /\ \E id \in ids : id[place] = ID(d, m)
                               => m \in NamesOf(w)
  <1> DEFINE J == {j \in ids : j[place][1] = kind}
             S == {id[place][2] : id \in J}
             numbers == Ascending(S)
             xs == [i \in DOMAIN numbers |-> <<kind, numbers[i]>>]
  <1>1. S \in SUBSET Nat
    OBVIOUS
  <1>2. IsFiniteSet(S)
    <2>1. IsFiniteSet(J)
      <3>1. J \in SUBSET ids
        OBVIOUS
      <3>2. QED BY <3>1, FS_Subset
    <2> DEFINE f == [id \in J |-> id[place][2]]
    <2>2. f \in [J -> S] /\ \A x \in S : \E id \in J : f[id] = x
      OBVIOUS
    <2> HIDE DEF J, S, f
    <2>3. f \in Surjection(J, S)
      BY <2>2 DEF Surjection
    <2>4. QED BY <2>1, <2>3, FS_Surjection
  <1>3. e = Each(DropID, d, xs)
    BY Zenon DEF DropPlace
  <1> HIDE DEF S
  <1>4. /\ Cardinality(S) \in Nat /\ DOMAIN numbers = 1..Cardinality(S)
        /\ \A x \in S : \E i \in 1..Cardinality(S) : numbers[i] = x
    BY <1>1, <1>2, AscendingFacts
  <1> HIDE DEF numbers
  <1>5. Len(xs) = Cardinality(S) /\ \A j \in 1..Len(xs) : xs[j] = <<kind, numbers[j]>>
    BY <1>4
  <1> HIDE DEF xs
  <1>6. \A j \in 1..Len(xs) : xs[j][1] \in Kinds
    BY <1>5
  <1>7. Cleared(e, d, w, xs)
    <2>1. Len(xs) \in Nat
      BY <1>4, <1>5
    <2>2. Cleared(Each(DropID, d, xs), d, w, xs)
      BY <1>6, <2>1, DroppingFacts, Zenon
    <2>3. QED BY <2>2, <1>3, Zenon
  <1>8. ASSUME NEW m \in Names, Has(e, m), KindOf(m) = kind,
               NEW id \in ids, id[place] = ID(d, m)
        PROVE  m \in NamesOf(w)
    <2>1. ID(d, m) = <<kind, d.id[kind][m]>>
      BY <1>8, Zenon DEF ID
    <2>2. id \in J /\ d.id[kind][m] \in S
      BY <1>8, <2>1 DEF S
    <2>3. PICK i \in 1..Len(xs) : xs[i] = <<kind, d.id[kind][m]>>
      BY <1>4, <1>5, <2>2
    <2>4. QED BY <1>7, <1>8, <2>1, <2>3, Zenon DEF Cleared
  <1>9. QED BY <1>7, <1>8 DEF Cleared

LEMMA BatchRemoveGood ==
    ASSUME NEW d, NEW w, Good(d, w), NEW ts \in Seq(Triples),
           \A t \in ToSet(ts) : Known(d, t)
    PROVE  Good(BatchRemove(d, ts), w \ ToSet(ts))
  <1> DEFINE R == ToSet(ts)
             v == w \ R
             ids == {IDs(d, t) : t \in R}
             e == [triples |-> {IDs(d, t) : t \in v}, count |-> d.count,
                   id |-> d.id, ids |-> d.ids]
             f == DropPlace(e, ids, 1, "entity")
             g == DropPlace(f, ids, 3, "entity")
             h == DropPlace(g, ids, 2, "predicate")
  <1>1. Sane(d) /\ Holds(d, w) /\ Tidy(d, w)
    BY DEF Good
  <1>2. R \subseteq Triples /\ IsFiniteSet(R) /\ \A t \in R : Known(d, t)
    BY BatchFacts
  <1> HIDE DEF R
  <1>3. v \subseteq Triples /\ IsFiniteSet(v) /\ \A t \in v : Known(d, t)
    BY <1>1, FS_Difference DEF Holds
  <1>4. {IDs(d, t) : t \in v} = d.triples \ ids
    <2>1. \A t \in w : t \in Triples /\ Known(d, t)
      BY <1>1 DEF Holds
    <2>2. \A t \in w, s \in R : IDs(d, t) = IDs(d, s) => t = s
      BY <1>1, <1>2, <2>1, IDsFacts
    <2>3. d.triples = {IDs(d, t) : t \in w}
      BY <1>1 DEF Holds
    <2>4. QED BY <2>2, <2>3
  <1>5. BatchRemove(d, ts) = h
    <2> DEFINE T == {IDs(d, t) : t \in v}
    <2>1. PICK r : r = [d EXCEPT !.triples = T]
      OBVIOUS
    <2> HIDE DEF T
    <2>2. r = [triples |-> T, count |-> d.count, id |-> d.id, ids |-> d.ids]
      BY <1>1, <2>1 DEF Sane, Database
    <2>3. [d EXCEPT !.triples = d.triples \ ids] = e
      BY <1>4, <2>1, <2>2, Zenon DEF T
    <2> HIDE DEF e
    <2>4. QED BY <2>3, Zenon DEF BatchRemove, R
  <1>6. IsFiniteSet(ids)
    <2> DEFINE i == [t \in R |-> IDs(d, t)]
    <2>1. i \in [R -> ids] /\ \A x \in ids : \E t \in R : i[t] = x
      OBVIOUS
    <2> HIDE DEF ids, i
    <2>2. i \in Surjection(R, ids)
      BY <2>1 DEF Surjection
    <2>3. QED BY <1>2, <2>2, FS_Surjection
  <1>7. \A id \in ids : \A place \in 1..3 : id[place] \in Kinds \X Nat
    BY <1>1, <1>2, IDsFacts
  <1>8. \A t \in R, i \in 1..3 : \E id \in ids : id[i] = ID(d, t[i])
    <2>1. \A t \in R : IDs(d, t) \in ids
      OBVIOUS
    <2>2. \A t \in R, i \in 1..3 : IDs(d, t)[i] = ID(d, t[i])
      BY DEF IDs
    <2>3. QED BY <2>1, <2>2, Zenon
  <1>9. Sane(e) /\ Holds(e, v) /\ Keeps(e, d) /\ Keeps(d, e) /\ \A m : Has(e, m) <=> Has(d, m)
    <2> DEFINE c == d.count
    <2>1. c \in Int
      BY <1>1 DEF Sane, Database
    <2> HIDE DEF v, c
    <2>2. e = [triples |-> {IDs(d, t) : t \in v}, count |-> c, id |-> d.id, ids |-> d.ids]
      BY DEF c
    <2> HIDE DEF e
    <2>3. QED BY <1>1, <1>3, <2>1, <2>2, OtherTriples DEF c
  <1> HIDE DEF e, ids, v
  <1>10. 1 \in 1..3 /\ 2 \in 1..3 /\ 3 \in 1..3 /\ "entity" \in Kinds /\ "predicate" \in Kinds
    BY DEF Kinds
  <1> DEFINE Out(x, y, place, kind) ==
               \A m \in Names : /\ Has(x, m) /\ KindOf(m) = kind
                                /\ \E id \in ids : id[place] = ID(y, m)
                                => m \in NamesOf(v)
  <1>11. Dropped(f, e, v) /\ Out(f, e, 1, "entity")
    BY <1>6, <1>7, <1>9, <1>10, DropPlaceFacts
  <1> HIDE DEF f
  <1>12. Dropped(g, f, v) /\ Out(g, f, 3, "entity")
    BY <1>6, <1>7, <1>10, <1>11, DropPlaceFacts DEF Dropped
  <1> HIDE DEF g
  <1>13. Dropped(h, g, v) /\ Out(h, g, 2, "predicate")
    BY <1>6, <1>7, <1>10, <1>12, DropPlaceFacts DEF Dropped
  <1> HIDE DEF h
  <1>14. \A m \in Names :
           Has(h, m) => /\ Has(g, m) /\ Has(f, m) /\ Has(d, m)
                        /\ ID(e, m) = ID(d, m) /\ ID(f, m) = ID(d, m) /\ ID(g, m) = ID(d, m)
    <2>1. \A m \in Names : Has(h, m) => Has(g, m) /\ Has(f, m) /\ Has(e, m) /\ Has(d, m)
      BY <1>9, <1>11, <1>12, <1>13 DEF Dropped
    <2>2. \A m \in Names : Has(e, m) => ID(d, m) = ID(e, m)
      BY <1>9 DEF Keeps
    <2>3. \A m \in Names : Has(f, m) => ID(e, m) = ID(f, m)
      BY <1>11 DEF Dropped, Keeps
    <2>4. \A m \in Names : Has(g, m) => ID(f, m) = ID(g, m)
      BY <1>12 DEF Dropped, Keeps
    <2>5. QED BY <2>1, <2>2, <2>3, <2>4
  <1>15. ASSUME NEW m \in Names, Has(h, m), KindOf(m) # "literal" PROVE m \in NamesOf(v)
    <2>1. m \in NamesOf(w)
      BY <1>1, <1>14, <1>15 DEF Tidy
    <2>2. PICK t \in w : \E i \in 1..3 : m = t[i]
      BY <2>1, NamesOfFacts
    <2>3. CASE t \notin R
      <3>1. t \in v
        BY <2>3 DEF v
      <3>2. QED BY <2>2, <3>1, NamesOfFacts
    <2>4. CASE t \in R
      <3>1. PICK i \in 1..3 : m = t[i]
        BY <2>2
      <3>2. PICK id \in ids : id[i] = ID(d, m)
        BY <1>8, <2>4, <3>1
      <3>3. t \in Triples
        BY <1>2, <2>4
      <3>4. CASE i = 1
        BY <1>11, <1>14, <1>15, <3>1, <3>2, <3>3, <3>4, TripleFacts
      <3>5. CASE i = 2
        BY <1>13, <1>14, <1>15, <3>1, <3>2, <3>3, <3>5, TripleFacts
      <3>6. CASE i = 3
        <4>1. KindOf(m) = "entity"
          BY <1>15, <3>1, <3>3, <3>6, TripleFacts DEF KindOf
        <4>2. QED BY <1>12, <1>14, <1>15, <3>2, <3>6, <4>1
      <3>7. QED BY <3>4, <3>5, <3>6
    <2>5. QED BY <2>3, <2>4
  <1>16. QED BY <1>5, <1>13, <1>15 DEF Good, Dropped, Tidy, v, R

-----------------------------------------------------------------------------
(* Building a database, and going back                                     *)

LEMMA EmptyGood == Good(Empty, {})
  <1>1. /\ Empty.triples = {} /\ Empty.count = 0
        /\ Empty.id = [k \in Kinds |-> <<>>] /\ Empty.ids = [k \in Kinds |-> NoIDs]
    BY DEF Empty
  <1>2. \A k \in Kinds : IsDict(Empty.id[k], Empty.ids[k]) /\ DOMAIN Empty.id[k] = {}
    <2> DEFINE q == <<>>
    <2>1. IsDict(q, NoIDs) /\ DOMAIN q = {}
      BY NoDict
    <2>2. Empty.id = [k \in Kinds |-> q]
      BY <1>1
    <2> HIDE DEF q
    <2>3. QED BY <1>1, <2>1, <2>2
  <1>3. Empty \in Database
    <2>1. \A k \in Kinds : Empty.id[k] \in Dictionary /\ Empty.ids[k] \in IDList
      BY <1>2 DEF IsDict
    <2>2. Empty.id \in [Kinds -> Dictionary] /\ Empty.ids \in [Kinds -> IDList]
      BY <1>1, <2>1
    <2>3. Empty = [triples |-> Empty.triples, count |-> Empty.count,
                   id |-> Empty.id, ids |-> Empty.ids]
      BY DEF Empty
    <2>4. QED BY <1>1, <2>2, <2>3 DEF Database
  <1>4. \A n : ~Has(Empty, n)
    BY <1>2, KindFacts DEF Has
  <1>5. Sane(Empty)
    BY <1>2, <1>3 DEF Sane
  <1>6. Holds(Empty, {})
    BY <1>1, FS_EmptySet DEF Holds
  <1>7. Tidy(Empty, {})
    BY <1>4 DEF Tidy
  <1>8. QED BY <1>5, <1>6, <1>7 DEF Good

\* a goes through the databases that come of d when N triples, those of v, are
\* inserted.
Inserts(a, d, ts, N, v) ==
    /\ v = {ts[n] : n \in 1..N}
    /\ a[0] = d
    /\ \A n \in 1..N : ts[n] \in Triples
    /\ \A n \in 0..(N - 1) : a[n + 1] = InsertTriple(a[n], ts[n + 1])

LEMMA InsertingGood ==
    ASSUME NEW d, NEW w, Good(d, w), NEW N \in Nat, NEW ts, NEW a,
           NEW u, Inserts(a, d, ts, N, u)
    PROVE  Good(a[N], w \cup u)
  <1> DEFINE P(n) == Good(a[n], w \cup {ts[j] : j \in 1..n})
             T == {n \in Nat : n <= N => P(n)}
  <1>0. /\ a[0] = d
        /\ \A n \in 1..N : ts[n] \in Triples
        /\ \A n \in 0..(N - 1) : a[n + 1] = InsertTriple(a[n], ts[n + 1])
    BY DEF Inserts
  <1>1. 0 \in T
    <2>1. w \cup {ts[j] : j \in 1..0} = w
      OBVIOUS
    <2>2. P(0)
      BY <1>0, <2>1, Zenon
    <2> HIDE DEF P
    <2>3. QED BY <2>2
  <1>2. ASSUME NEW n \in T PROVE n + 1 \in T
    <2> SUFFICES ASSUME n + 1 <= N PROVE P(n + 1)
      <3> HIDE DEF P
      <3>1. QED OBVIOUS
    <2>1. n \in Nat /\ P(n) /\ n \in 0..(N - 1) /\ n + 1 \in 1..N
      <3> HIDE DEF P
      <3>1. n \in Nat /\ (n <= N => P(n))
        OBVIOUS
      <3>2. n <= N /\ n \in 0..(N - 1) /\ n + 1 \in 1..N
        BY <3>1
      <3>3. QED BY <3>1, <3>2
    <2> DEFINE v == w \cup {ts[j] : j \in 1..n}
    <2>2. Good(InsertTriple(a[n], ts[n + 1]), v \cup {ts[n + 1]})
      <3>1. Good(a[n], v) /\ ts[n + 1] \in Triples
        BY <1>0, <2>1
      <3> HIDE DEF v
      <3>2. QED BY <3>1, InsertGood
    <2>3. v \cup {ts[n + 1]} = w \cup {ts[j] : j \in 1..(n + 1)}
      <3>1. 1..(n + 1) = 1..n \cup {n + 1}
        BY <2>1
      <3>2. QED BY <3>1
    <2>4. a[n + 1] = InsertTriple(a[n], ts[n + 1])
      BY <1>0, <2>1
    <2>5. QED BY <2>2, <2>3, <2>4, Zenon
  <1>3. T = Nat
    <2>1. T \in SUBSET Nat
      OBVIOUS
    <2> HIDE DEF T
    <2>2. QED BY <1>1, <1>2, <2>1, Inserting!SetInduction
  <1>4. P(N)
    <2> HIDE DEF P
    <2>1. QED BY <1>3
  <1>5. QED BY <1>4, Zenon DEF Inserts

LEMMA BuildGood ==
    ASSUME NEW ts \in Seq(Triples)
    PROVE  Good(Build(ts), ToSet(ts))
  <1> DEFINE N == Len(ts)
  <1>1. N \in Nat /\ (\A n \in 1..N : ts[n] \in Triples) /\ ToSet(ts) = {ts[n] : n \in 1..N}
    BY BatchFacts
  <1>2. PICK a : /\ a[0] = Empty
                 /\ \A n \in 0..(N - 1) : a[n + 1] = InsertTriple(a[n], ts[n + 1])
                 /\ Inserting!Each(Empty, ts) = a[N]
    BY <1>1, Inserting!Turns
  <1>3. Build(ts) = a[N]
    BY <1>2, Zenon DEF Build, Each, Inserting!Each
  <1>4. Good(a[N], {} \cup ToSet(ts))
    <2>1. Inserts(a, Empty, ts, N, ToSet(ts))
      BY <1>1, <1>2, Zenon DEF Inserts
    <2>2. N \in Nat
      BY <1>1
    <2> HIDE DEF N
    <2>3. QED BY <2>1, <2>2, EmptyGood, InsertingGood, Zenon
  <1>5. {} \cup ToSet(ts) = ToSet(ts)
    OBVIOUS
  <1>6. QED BY <1>3, <1>4, <1>5, Zenon

\* The lines of the log when only removals followed, and their triples.
Lines == Seq({"R"} \X Triples)
Removed(ls) == {ls[i][2] : i \in DOMAIN ls}

LEMMA LinesFacts ==
    ASSUME NEW ls \in Lines
    PROVE  /\ Len(ls) \in Nat /\ DOMAIN ls = 1..Len(ls)
           /\ \A i \in 1..Len(ls) : ls[i][1] = "R" /\ ls[i][2] \in Triples
           /\ Removed(ls) \subseteq Triples
  <1>1. Len(ls) \in Nat /\ DOMAIN ls = 1..Len(ls)
    BY LenProperties DEF Lines
  <1>2. \A i \in 1..Len(ls) : ls[i] \in {"R"} \X Triples
    BY ElementOfSeq DEF Lines
  <1>3. \A i \in 1..Len(ls) : ls[i][1] = "R" /\ ls[i][2] \in Triples
    BY <1>2
  <1>4. Removed(ls) \subseteq Triples
    BY <1>1, <1>3 DEF Removed
  <1>5. QED BY <1>1, <1>3, <1>4

LEMMA LineFacts ==
    ASSUME NEW ts \in Seq(Triples)
    PROVE  Line("R", ts) \in Lines /\ Removed(Line("R", ts)) = ToSet(ts)
  <1> DEFINE N == Len(ts)
             f == [i \in 1..N |-> <<"R", ts[i]>>]
  <1>1. N \in Nat /\ (\A n \in 1..N : ts[n] \in Triples) /\ ToSet(ts) = {ts[n] : n \in 1..N}
    BY BatchFacts
  <1>2. Line("R", ts) = f
    BY DEF Line
  <1> HIDE DEF N
  <1>3. f \in [1..N -> {"R"} \X Triples]
    BY <1>1
  <1>4. DOMAIN f = 1..N /\ \A i \in 1..N : f[i][2] = ts[i]
    OBVIOUS
  <1> HIDE DEF f
  <1>5. f \in Lines
    BY <1>1, <1>3, SeqDef DEF Lines
  <1>6. Removed(f) = {ts[n] : n \in 1..N}
    BY <1>4 DEF Removed
  <1>7. QED BY <1>1, <1>2, <1>5, <1>6

LEMMA MoreLines ==
    ASSUME NEW ls \in Lines, NEW ms \in Lines
    PROVE  ls \o ms \in Lines /\ Removed(ls \o ms) = Removed(ls) \cup Removed(ms)
  <1> DEFINE r == ls \o ms
             p == Len(ls)
             q == Len(ms)
  <1>1. /\ p \in Nat /\ DOMAIN ls = 1..p
        /\ q \in Nat /\ DOMAIN ms = 1..q
    BY LinesFacts
  <1>2. /\ r \in Lines /\ Len(r) = p + q
        /\ \A i \in 1..p + q : r[i] = IF i <= p THEN ls[i] ELSE ms[i - p]
    BY ConcatProperties DEF Lines
  <1>3. DOMAIN r = 1..(p + q)
    BY <1>2, LinesFacts
  <1> HIDE DEF r, p, q
  <1>4. \A i \in 1..(p + q) : i \in 1..p \/ (i - p \in 1..q /\ ~(i <= p))
    BY <1>1
  <1>5. \A i \in 1..p : i \in 1..p + q /\ i <= p
    BY <1>1
  <1>6. \A i \in 1..q : i + p \in 1..p + q /\ ~(i + p <= p) /\ (i + p) - p = i
    BY <1>1
  <1>7. ASSUME NEW i \in DOMAIN r PROVE r[i][2] \in Removed(ls) \cup Removed(ms)
    <2>1. CASE i \in 1..p
      BY <1>1, <1>2, <1>5, <2>1 DEF Removed
    <2>2. CASE i - p \in 1..q /\ ~(i <= p)
      BY <1>1, <1>2, <1>3, <2>2 DEF Removed
    <2>3. QED BY <1>3, <1>4, <2>1, <2>2
  <1>8. ASSUME NEW i \in DOMAIN ls PROVE ls[i][2] \in Removed(r)
    BY <1>1, <1>2, <1>3, <1>5 DEF Removed
  <1>9. ASSUME NEW i \in DOMAIN ms PROVE ms[i][2] \in Removed(r)
    <2>1. i + p \in DOMAIN r /\ r[i + p] = ms[i]
      BY <1>1, <1>2, <1>3, <1>6
    <2>2. QED BY <2>1 DEF Removed
  <1>10. Removed(r) = Removed(ls) \cup Removed(ms)
    BY <1>7, <1>8, <1>9 DEF Removed
  <1>11. QED BY <1>2, <1>10 DEF r

\* Of removals the tool reads the lines that were written, and no others.
LEMMA LinesReadFacts ==
    ASSUME NEW ls \in Lines
    PROVE  LinesRead(ls) = ls
  <1> DEFINE I == {i \in DOMAIN ls : ls[i][1] = "I"}
             m == Ascending(I)
             f == [j \in DOMAIN m |-> <<"R", ls[m[j]][2]>>]
  <1>1. I = {}
    BY LinesFacts
  <1>2. Cardinality(I) = 0
    BY <1>1, FS_EmptySet
  <1>3. DOMAIN m = {}
    <2> HIDE DEF I
    <2>1. DOMAIN m = 1..Cardinality(I)
      BY DEF Ascending
    <2>2. QED BY <1>2, <2>1
  <1>4. LinesRead(ls) = ls \o f
    BY DEF LinesRead
  <1> HIDE DEF m
  <1>5. f = <<>>
    BY <1>3
  <1>6. ls \o <<>> = ls
    BY ConcatEmptySeq DEF Lines
  <1>7. QED BY <1>4, <1>5, <1>6, Zenon

LEMMA UndoneGood ==
    ASSUME NEW d, NEW w, Good(d, w), NEW ls \in Lines
    PROVE  Good(Each(Undo, d, ls), w \cup Removed(ls))
  <1> DEFINE N == Len(ls)
             ts == [n \in 1..N |-> ls[n][2]]
  <1>1. /\ N \in Nat /\ DOMAIN ls = 1..N
        /\ \A n \in 1..N : ls[n][1] = "R" /\ ls[n][2] \in Triples
    BY LinesFacts
  <1>2. PICK a : /\ a[0] = d
                 /\ \A n \in 0..(N - 1) : a[n + 1] = Undo(a[n], ls[n + 1])
                 /\ Undoing!Each(d, ls) = a[N]
    BY <1>1, Undoing!Turns
  <1>3. Each(Undo, d, ls) = a[N]
    BY <1>2, Zenon DEF Each, Undoing!Each
  <1> HIDE DEF N
  <1>4. \A n \in 1..N : ts[n] = ls[n][2] /\ ts[n] \in Triples
    BY <1>1
  <1> HIDE DEF ts
  <1>5. ASSUME NEW n \in 0..(N - 1) PROVE a[n + 1] = InsertTriple(a[n], ts[n + 1])
    <2>1. n + 1 \in 1..N
      BY <1>1
    <2>2. ls[n + 1][1] # "I" /\ ls[n + 1][2] = ts[n + 1]
      BY <1>1, <1>4, <2>1
    <2>3. QED BY <1>2, <2>2, Zenon DEF Undo
  <1>6. {ts[n] : n \in 1..N} = Removed(ls)
    BY <1>1, <1>4 DEF Removed
  <1>7. Good(a[N], w \cup Removed(ls))
    <2>1. Inserts(a, d, ts, N, Removed(ls))
      BY <1>2, <1>4, <1>5, <1>6, Zenon DEF Inserts
    <2>2. N \in Nat
      BY <1>1
    <2>3. QED BY <2>1, <2>2, InsertingGood, Zenon
  <1>8. QED BY <1>3, <1>7, Zenon

-----------------------------------------------------------------------------
(* The invariant                                                           *)

\* What the log says was removed since the marked moment makes up for what is
\* missing, in memory and in the files.
PointGood ==
    \/ point = NoPoint
    \/ /\ point \in [at : SUBSET Triples, lines : Lines, saved : BOOLEAN]
       /\ want \cup Removed(point.lines) = point.at
       /\ point.saved => saved \cup Removed(point.lines) = point.at

Inv ==
    /\ Good(disk, saved)
    /\ IF db = None THEN want = saved ELSE Good(db, want)
    /\ unsaved \in Nat /\ (unsaved = 0 => want = saved)
    /\ PointGood

LEMMA GoodFacts ==
    ASSUME NEW d, NEW w, Good(d, w)
    PROVE  d # None /\ w \subseteq Triples /\ w # None
  BY NoneAssumption DEF Good, Sane, Holds

LEMMA WantFacts ==
    ASSUME Inv
    PROVE  want \subseteq Triples /\ saved \subseteq Triples
  BY GoodFacts DEF Inv

\* No line is written, or the point is kept and the triples of the new lines
\* are those that went.
LEMMA LogGood ==
    ASSUME Inv, RemovalsOnly, NEW removals, NEW lines, Log(lines, removals), saved' = saved,
           removals => lines \in Lines /\ want' \cup Removed(lines) = want
    PROVE  PointGood'
  <1>1. CASE point' = NoPoint
    BY <1>1 DEF PointGood, NoPoint
  <1>2. CASE point' # NoPoint
    <2>1. /\ point # NoPoint /\ removals
          /\ point' = [point EXCEPT !.lines = @ \o lines]
      BY <1>2, Zenon DEF Log
    <2>2. /\ point \in [at : SUBSET Triples, lines : Lines, saved : BOOLEAN]
          /\ want \cup Removed(point.lines) = point.at
          /\ point.saved => saved \cup Removed(point.lines) = point.at
      BY <2>1 DEF Inv, PointGood
    <2> DEFINE ls == point.lines
               ms == ls \o lines
    <2>3. ls \in Lines /\ lines \in Lines /\ want' \cup Removed(lines) = want
      BY <2>1, <2>2
    <2>4. ms \in Lines /\ Removed(ms) = Removed(ls) \cup Removed(lines)
      <3> HIDE DEF ls
      <3>1. QED BY <2>3, MoreLines
    <2>5. point' = [point EXCEPT !.lines = ms]
      BY <2>1, Zenon
    <2> HIDE DEF ms
    <2>6. /\ point' \in [at : SUBSET Triples, lines : Lines, saved : BOOLEAN]
          /\ point'.at = point.at /\ point'.lines = ms /\ point'.saved = point.saved
      BY <2>2, <2>4, <2>5
    <2>7. /\ want' \cup Removed(ms) = point.at
          /\ point.saved => saved' \cup Removed(ms) = point.at
      BY <2>2, <2>3, <2>4
    <2>8. QED BY <2>6, <2>7 DEF PointGood
  <1>3. QED BY <1>1, <1>2

\* An update of the database in memory.
LEMMA UpdateGood ==
    ASSUME Inv, NEW d, NEW w, Good(d, w), Update(d, w), PointGood'
    PROVE  Inv'
  <1>1. db' = d /\ want' = w /\ unsaved' = unsaved + 1 /\ disk' = disk /\ saved' = saved
    BY DEF Update
  <1>2. d # None
    BY GoodFacts
  <1>3. unsaved' \in Nat /\ unsaved' # 0
    BY <1>1 DEF Inv
  <1>4. Good(disk, saved)' /\ Good(db, want)'
    BY <1>1 DEF Inv
  <1>5. QED BY <1>1, <1>2, <1>3, <1>4 DEF Inv

LEMMA InitInv == Init => Inv
  <1> SUFFICES ASSUME Init PROVE Inv
    OBVIOUS
  <1>1. PICK ts \in Builds : disk = Build(ts) /\ saved = ToSet(ts)
    BY DEF Init
  <1>2. Good(disk, saved)
    BY <1>1, BuildsAssumption, BuildGood
  <1>3. QED BY <1>2 DEF Init, Inv, PointGood

LEMMA FileFacts ==
    ASSUME NEW ts \in Files
    PROVE  ts \in Seq(Triples)
  <1>1. PICK n \in 1..MaxBatch : ts \in [1..n -> Triples]
    BY DEF Files
  <1>2. n \in Nat
    BY BoundsAssumption
  <1>3. QED BY <1>1, <1>2, SeqDef

LEMMA StepInv ==
    ASSUME ~SelfLoops, RemovalsOnly, Inv, [Next]_vars
    PROVE  Inv'
  <1>1. ASSUME NEW t \in Triples, InsertOne(t) PROVE Inv'
    <2>1. Good(InsertTriple(db, t), want \cup {t})
      BY <1>1, InsertGood DEF Inv, InsertOne
    <2>2. /\ Update(InsertTriple(db, t), want \cup {t}) /\ Log(<<>>, t \in want)
          /\ want' = want \cup {t} /\ saved' = saved
      BY <1>1 DEF InsertOne, Update
    <2>3. <<>> \in Lines /\ Removed(<<>>) = {}
      BY EmptySeq DEF Lines, Removed
    <2>4. t \in want => <<>> \in Lines /\ want' \cup Removed(<<>>) = want
      BY <2>2, <2>3
    <2>5. PointGood'
      BY <2>2, <2>4, LogGood
    <2>6. QED BY <2>1, <2>2, <2>5, UpdateGood
  <1>2. ASSUME NEW t \in Triples, RemoveOne(t) PROVE Inv'
    <2> DEFINE d == ResetIDs(RemoveTriple(db, t))
    <2>1. /\ db # None /\ t[1] # t[3] /\ Update(d, want \ {t})
          /\ Log(Line("R", <<t>>), t \in want)
      BY <1>2 DEF RemoveOne
    <2>2. want' = want \ {t} /\ saved' = saved /\ Counted(d)
      BY <2>1, Zenon DEF Update
    <2>3. Good(RemoveTriple(db, t), want \ {t})
      BY <2>1, RemoveGood DEF Inv
    <2>4. Good(d, want \ {t})
      BY <2>2, <2>3, ResetGood
    <2> HIDE DEF d
    <2>5. <<t>> \in Seq(Triples) /\ ToSet(<<t>>) = {t}
      BY DEF ToSet
    <2>6. Line("R", <<t>>) \in Lines /\ Removed(Line("R", <<t>>)) = {t}
      BY <2>5, LineFacts
    <2>7. t \in want => want' \cup Removed(Line("R", <<t>>)) = want
      BY <2>2, <2>6
    <2>8. PointGood'
      BY <2>1, <2>2, <2>6, <2>7, LogGood
    <2>9. QED BY <2>1, <2>4, <2>8, UpdateGood
  <1>3. ASSUME NEW ts \in Files, InsertFile(ts) PROVE Inv'
    <2>1. ts \in Seq(Triples)
      BY FileFacts
    <2>2. /\ db # None /\ Update(BatchInsert(db, ts), want \cup ToSet(ts))
          /\ Log(Line("I", ts), FALSE)
      BY <1>3 DEF InsertFile
    <2>3. Good(BatchInsert(db, ts), want \cup ToSet(ts))
      BY <2>1, <2>2, BatchInsertGood DEF Inv
    <2>4. saved' = saved
      BY <2>2 DEF Update
    <2>5. PointGood'
      BY <2>2, <2>4, LogGood
    <2>6. QED BY <2>2, <2>3, <2>5, UpdateGood
  <1>4. ASSUME NEW ts \in Files, RemoveFile(ts) PROVE Inv'
    <2> DEFINE d == ResetIDs(BatchRemove(db, ts))
               R == ToSet(ts)
    <2>1. ts \in Seq(Triples)
      BY FileFacts
    <2>2. /\ db # None /\ (\A t \in R : Known(db, t)) /\ Update(d, want \ R)
          /\ Log(Line("R", ts), R \subseteq want)
      BY <1>4 DEF RemoveFile
    <2>3. want' = want \ R /\ saved' = saved /\ Counted(d)
      BY <2>2, Zenon DEF Update
    <2>4. Good(BatchRemove(db, ts), want \ R)
      BY <2>1, <2>2, BatchRemoveGood DEF Inv
    <2>5. Good(d, want \ R)
      BY <2>3, <2>4, ResetGood
    <2> HIDE DEF d
    <2>6. Line("R", ts) \in Lines /\ Removed(Line("R", ts)) = R
      BY <2>1, LineFacts
    <2>7. R \subseteq want => want' \cup Removed(Line("R", ts)) = want
      BY <2>3, <2>6
    <2>8. PointGood'
      BY <2>2, <2>3, <2>6, <2>7, LogGood
    <2>9. QED BY <2>2, <2>5, <2>8, UpdateGood
  <1>5. ASSUME Saved, Inv, db # None, want' = want, db' = db \/ db' = None PROVE Inv'
    <2>1. disk' = db /\ saved' = want /\ unsaved' = 0
          /\ point' = [point EXCEPT !.saved = point.at # None]
      BY <1>5 DEF Saved
    <2>2. Good(db, want)
      BY <1>5 DEF Inv
    <2>3. PointGood'
      <3>1. CASE point = NoPoint
        <4>1. point' = NoPoint
          BY <2>1, <3>1 DEF NoPoint
        <4>2. QED BY <4>1 DEF PointGood, NoPoint
      <3>2. CASE point # NoPoint
        <4>1. /\ point \in [at : SUBSET Triples, lines : Lines, saved : BOOLEAN]
              /\ want \cup Removed(point.lines) = point.at
          BY <3>2 DEF Inv, PointGood
        <4>2. point.at # None
          BY <4>1, NoneAssumption
        <4>3. /\ point' \in [at : SUBSET Triples, lines : Lines, saved : BOOLEAN]
              /\ point'.at = point.at /\ point'.lines = point.lines
          BY <2>1, <4>1, <4>2
        <4>4. QED BY <1>5, <2>1, <4>1, <4>3 DEF PointGood
      <3>3. QED BY <3>1, <3>2
    <2>4. Good(disk, saved)'
      BY <2>1, <2>2
    <2>5. IF db' = None THEN want' = saved' ELSE Good(db', want')
      BY <1>5, <2>1, <2>2
    <2>6. QED BY <2>1, <2>3, <2>4, <2>5, <1>5 DEF Inv
  <1>6. CASE Save
    BY <1>5, <1>6 DEF Save
  <1>7. CASE Unload
    BY <1>5, <1>7 DEF Unload
  <1>8. CASE Open
    <2>1. /\ db = None /\ db' = Load(disk) /\ disk' = disk /\ want' = want /\ saved' = saved
          /\ unsaved' = unsaved /\ point' = point
      BY <1>8 DEF Open
    <2>2. Good(disk, saved) /\ want = saved
      BY <2>1 DEF Inv
    <2>3. Good(Load(disk), want)
      BY <2>2, LoadGood
    <2>4. PointGood'
      BY <2>1 DEF Inv, PointGood, NoPoint
    <2>5. Good(db, want)' /\ Good(disk, saved)'
      BY <2>1, <2>2, <2>3
    <2>6. QED BY <2>1, <2>4, <2>5 DEF Inv
  <1>9. CASE Crash
    <2>1. /\ db' = None /\ want' = saved /\ unsaved' = 0 /\ disk' = disk /\ saved' = saved
          /\ point' = IF point.saved THEN point ELSE NoPoint
      BY <1>9 DEF Crash
    <2>2. PointGood'
      BY <2>1 DEF Inv, PointGood, NoPoint
    <2>3. Good(disk, saved)'
      BY <2>1 DEF Inv
    <2>4. QED BY <2>1, <2>2, <2>3 DEF Inv
  <1>10. CASE Mark
    <2>1. /\ db # None /\ point' = [at |-> want, lines |-> <<>>, saved |-> unsaved = 0]
          /\ db' = db /\ disk' = disk /\ want' = want /\ saved' = saved /\ unsaved' = unsaved
      BY <1>10 DEF Mark
    <2>2. <<>> \in Lines /\ Removed(<<>>) = {}
      BY EmptySeq DEF Lines, Removed
    <2>3. want \in SUBSET Triples /\ (unsaved = 0) \in BOOLEAN
      BY WantFacts
    <2>4. unsaved = 0 => want = saved
      BY DEF Inv
    <2> DEFINE q == <<>>
               s == unsaved = 0
    <2>5. point' = [at |-> want, lines |-> q, saved |-> s]
      BY <2>1
    <2>6. PointGood'
      <3>1. q \in Lines /\ Removed(q) = {} /\ s \in BOOLEAN /\ (s => want = saved)
        BY <2>2, <2>3, <2>4
      <3> HIDE DEF q, s
      <3>2. /\ point'.at = want /\ point'.lines = q /\ point'.saved = s
            /\ point' \in [at : SUBSET Triples, lines : Lines, saved : BOOLEAN]
        BY <2>3, <2>5, <3>1
      <3>3. QED BY <2>1, <3>1, <3>2 DEF PointGood
    <2>7. QED BY <2>1, <2>6 DEF Inv
  <1>11. CASE Rollback
    <2> DEFINE ls == point.lines
               d == Each(Undo, Load(disk), ls)
    <2>1. /\ point.saved /\ disk' = Each(Undo, Load(disk), LinesRead(ls))
          /\ db' = None /\ want' = point.at /\ saved' = point.at /\ unsaved' = 0
          /\ point' = NoPoint
      BY <1>11, Zenon DEF Rollback
    <2>2. ls \in Lines /\ saved \cup Removed(ls) = point.at
      BY <2>1 DEF Inv, PointGood, NoPoint
    <2>3. disk' = d
      BY <2>1, <2>2, LinesReadFacts, Zenon
    <2>4. Good(Load(disk), saved)
      BY LoadGood DEF Inv
    <2>5. Good(d, saved \cup Removed(ls))
      <3> HIDE DEF ls
      <3>1. QED BY <2>2, <2>4, UndoneGood, Zenon
    <2>6. Good(disk, saved)'
      BY <2>1, <2>2, <2>3, <2>5, Zenon
    <2>7. PointGood'
      BY <2>1 DEF PointGood, NoPoint
    <2>8. QED BY <2>1, <2>6, <2>7 DEF Inv
  <1>12. CASE UNCHANGED vars
    <2>1. /\ db' = db /\ disk' = disk /\ want' = want /\ saved' = saved
          /\ unsaved' = unsaved /\ point' = point
      BY <1>12 DEF vars
    <2>2. QED BY <2>1 DEF Inv, PointGood, NoPoint
  <1>13. QED
    BY <1>1, <1>2, <1>3, <1>4, <1>6, <1>7, <1>8, <1>9, <1>10, <1>11, <1>12 DEF Next

-----------------------------------------------------------------------------
(* The properties                                                          *)

\* A database that is good has its IDs in order.
LEMMA GoodIDsExact ==
    ASSUME NEW d, NEW w, Good(d, w)
    PROVE  IDsExactIn(d)
  <1> DEFINE used(k) == {d.id[k][n] : n \in DOMAIN d.id[k]}
  <1>1. Sane(d) /\ Holds(d, w) /\ Tidy(d, w)
    BY DEF Good
  <1>2. \A k \in Kinds : IsInjective(d.id[k]) /\ Exact(d.ids[k], used(k))
    <2>1. \A k \in Kinds : used(k) = Range(d.id[k])
      BY DEF Range
    <2> HIDE DEF used
    <2>2. QED BY <1>1, <2>1 DEF Sane, IsDict
  <1>3. \A n : Has(d, n) => ID(d, n)[2] \in used(ID(d, n)[1]) /\ ID(d, n)[1] = KindOf(n)
    <2>1. ASSUME NEW n, Has(d, n)
          PROVE  ID(d, n)[2] \in used(ID(d, n)[1]) /\ ID(d, n)[1] = KindOf(n)
      <3>1. ID(d, n)[1] = KindOf(n) /\ ID(d, n)[2] = d.id[KindOf(n)][n]
        BY <1>1, <2>1, IDFacts
      <3>2. n \in DOMAIN d.id[KindOf(n)]
        BY <2>1 DEF Has
      <3>3. QED BY <3>1, <3>2
    <2>2. QED BY <2>1
  <1>4. ASSUME NEW s \in d.triples, NEW i \in 1..3 PROVE s[i][2] \in used(s[i][1])
    <2>1. PICK t \in w : s = IDs(d, t)
      BY <1>1 DEF Holds
    <2>2. s[i] = ID(d, t[i]) /\ Has(d, t[i])
      BY <1>1, <2>1 DEF Holds, Known, IDs
    <2> HIDE DEF used
    <2>3. QED BY <1>3, <2>2
  <1>5. ASSUME NEW k \in Kinds \ {"literal"}, NEW x \in used(k) PROVE ~Unused(d, <<k, x>>)
    <2>1. PICK n \in DOMAIN d.id[k] : d.id[k][n] = x
      OBVIOUS
    <2>2. KindOf(n) = k
      BY <1>1 DEF Sane
    <2>3. Has(d, n) /\ ID(d, n) = <<k, x>>
      BY <2>1, <2>2 DEF Has, ID
    <2>4. n \in Names
      BY <1>1, <2>3, IDFacts
    <2>5. n \in NamesOf(w)
      BY <1>1, <2>2, <2>3, <2>4 DEF Tidy
    <2>6. QED BY <1>1, <2>3, <2>5, UnusedFacts
  <1>6. QED BY <1>2, <1>4, <1>5, Zenon DEF IDsExactIn

\* And what it says are the triples it holds.
LEMMA GoodMeaning ==
    ASSUME NEW d, NEW w, Good(d, w)
    PROVE  Meaning(d) = w /\ Cardinality(d.triples) = Cardinality(w)
  <1>1. Sane(d) /\ Holds(d, w)
    BY DEF Good
  <1>2. w \subseteq Triples /\ IsFiniteSet(w) /\ (\A t \in w : Known(d, t))
        /\ d.triples = {IDs(d, t) : t \in w}
    BY <1>1 DEF Holds
  <1>3. Meaning(d) = w
    BY <1>1, <1>2, StoredFacts DEF Meaning
  <1> DEFINE S == d.triples
             f == [t \in w |-> IDs(d, t)]
  <1>4. f \in [w -> S] /\ (\A s \in S : \E t \in w : f[t] = s)
        /\ \A a, b \in w : f[a] = f[b] => a = b
    <2>1. \A a, b \in w : IDs(d, a) = IDs(d, b) => a = b
      BY <1>1, <1>2, IDsFacts
    <2>2. QED BY <1>2, <2>1
  <1> HIDE DEF S, f
  <1>5. f \in Bijection(w, S)
    BY <1>4 DEF Bijection, Injection, Surjection, IsInjective
  <1>6. ExistsBijection(w, S)
    BY <1>5 DEF ExistsBijection
  <1>7. Cardinality(S) = Cardinality(w)
    BY <1>2, <1>6, FS_Bijection
  <1>8. QED BY <1>3, <1>7 DEF S

LEMMA InvProperties == Inv => IDsExact /\ KeepsMeaning
  <1> SUFFICES ASSUME Inv PROVE IDsExact /\ KeepsMeaning
    OBVIOUS
  <1>1. Good(disk, saved) /\ (db # None => Good(db, want))
    BY DEF Inv
  <1>2. IDsExact
    BY <1>1, GoodIDsExact DEF IDsExact
  <1>3. KeepsMeaning
    BY <1>1, GoodMeaning DEF KeepsMeaning
  <1>4. QED BY <1>2, <1>3

LEMMA SpecInv == ASSUME ~SelfLoops, RemovalsOnly PROVE Spec => []Inv
  <1>1. Inv /\ [Next]_vars => Inv'
    BY StepInv
  <1>2. QED BY InitInv, <1>1, PTL DEF Spec

\* Whatever was inserted and removed, one by one or in batches, saved, lost in
\* a crash and brought back, in memory and in the files IDs are one name's
\* each, free and used ones are all there are, and a name that no triple uses
\* has none, a literal apart.  (A triple whose subject is its object is not
\* removed, and the tool is not used after an insertion.)
THEOREM IDsAlwaysExact == ASSUME ~SelfLoops, RemovalsOnly PROVE Spec => []IDsExact
  <1>1. Inv => IDsExact
    BY InvProperties
  <1>2. QED BY SpecInv, <1>1, PTL

\* And what can be read, in memory, after a load and after going back, are
\* the triples that were inserted and not removed.
THEOREM MeaningAlwaysKept == ASSUME ~SelfLoops, RemovalsOnly PROVE Spec => []KeepsMeaning
  <1>1. Inv => KeepsMeaning
    BY InvProperties
  <1>2. QED BY SpecInv, <1>1, PTL
=============================================================================

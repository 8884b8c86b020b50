--------------------------- MODULE QueryCache_proofs ---------------------------
(***************************************************************************)
(* The properties of QueryCache as theorems: for any patterns, sizes,      *)
(* limit and number of clients.                                            *)
(***************************************************************************)
EXTENDS QueryCache, FiniteSetTheorems, SequenceTheorems, WellFoundedInduction,
        TLAPS

-----------------------------------------------------------------------------
(* The invariant                                                           *)

Entry == [ans : AnsType, size : Nat, stamp : 0..MaxTime]
Queued == (0..MaxTime + 1) \X Patterns

IsAnswers(f) == IsFiniteSet(DOMAIN f) /\ f \in [DOMAIN f -> Entry]

\* What a memory is, between the calls of tryCaching and inside its loop.
IsMemory(m) ==
    /\ m = [cache |-> m.cache, lru |-> m.lru, time |-> m.time, total |-> m.total,
            wild |-> m.wild]
    /\ DOMAIN m.cache \subseteq Patterns /\ IsAnswers(m.cache)
    /\ m.lru \in Seq(Queued)
    /\ m.time \in 0..MaxTime /\ m.total \in Nat /\ m.wild \in BOOLEAN

\* top() gives the oldest entry.
InOrder(q) == \A i, j \in 1..Len(q) : i < j => Before(q[i], q[j])

\* Between the calls nothing in the queue is as old as an element that the
\* loop has made, and every answer has its size.
Settled(m) ==
    /\ \A i \in 1..Len(m.lru) : m.lru[i][1] > 0
    /\ \A b \in DOMAIN m.cache : m.cache[b].size = ItemSize[b]

Used(f) == Cardinality(Units(f))

\* What the loop may start from.
Ready(o) == /\ IsMemory(o) /\ Settled(o) /\ InOrder(o.lru)
            /\ Used(o.cache) <= o.total /\ o.total <= TotalLimit

\* An answer is queued no later than when it was last used.
Findable(m) == \A b \in DOMAIN m.cache : \E i \in 1..Len(m.lru) :
                   m.lru[i][2] = b /\ m.lru[i][1] <= m.cache[b].stamp

\* Every answer is queued once, and nothing else is.
OnceEach(m) ==
    /\ \A i \in 1..Len(m.lru) : m.lru[i][2] \in DOMAIN m.cache
    /\ \A b \in DOMAIN m.cache : \E i \in 1..Len(m.lru) : m.lru[i][2] = b
    /\ \A i, j \in 1..Len(m.lru) : m.lru[i][2] = m.lru[j][2] => i = j

ClientType ==
    [pc : {"idle"}] \cup [pc : {"evaluate"}, txn : BOOLEAN, pattern : Patterns]
    \cup [pc : {"cache"}, txn : BOOLEAN, pattern : Patterns, ans : AnsType]

RestInv ==
    /\ version \in 0..MaxVersion /\ pending \in BOOLEAN
    /\ past \subseteq {"twice", "restart", "transaction"}
    /\ client \in [Clients -> ClientType]

AgesInv ==
    "restart" \notin past =>
        Findable(Memory) /\ \A b \in DOMAIN cache : cache[b].stamp <= time

CountInv == "twice" \notin past => OnceEach(Memory) /\ total = Used(cache) /\ ~wild

Now == [ver |-> version, full |-> TRUE]

\* Without transactions what is evaluated, and what is cached, is what is
\* committed.
FreshInv ==
    "transaction" \notin past =>
        /\ ~pending
        /\ \A c \in Clients : ~InTxn(c)
        /\ \A c \in Clients : client[c].pc = "cache" => client[c].ans = Now
        /\ \A b \in DOMAIN cache : cache[b].ans = Now

-----------------------------------------------------------------------------
(* Counting                                                                *)

\* Induction over numbers, on the set of those a fact holds for.
LEMMA SetInduction ==
    ASSUME NEW T \in SUBSET Nat, 0 \in T, \A n \in T : n + 1 \in T
    PROVE  T = Nat
  <1> SUFFICES ASSUME Nat \ T # {} PROVE FALSE
    OBVIOUS
  <1> DEFINE R == {p \in Nat \X Nat : p[1] < p[2]}
  <1>1. IsWellFoundedOn(R, Nat)
    BY NatLessThanWellFounded DEF OpToRel
  <1>2. \E x \in Nat \ T : \A y \in Nat \ T : <<y, x>> \notin R
    <2> HIDE DEF R
    <2>1. QED BY <1>1, WFMin
  <1>3. PICK x \in Nat \ T : \A y \in Nat \ T : ~(y < x)
    BY <1>2
  <1>4. x # 0 /\ x - 1 \in Nat
    OBVIOUS
  <1>5. x - 1 \in T
    BY <1>3, <1>4
  <1>6. QED BY <1>4, <1>5

\* What is counted in a list that has it all in front is a number of places.
LEMMA CountPrefix ==
    ASSUME NEW N \in Nat, NEW S \in SUBSET (1..N),
           \A i, j \in 1..N : i < j /\ j \in S => i \in S
    PROVE  S = 1..Cardinality(S)
  <1> DEFINE T == {n \in Nat : n <= N => \E k \in 0..n : S \cap (1..n) = 1..k}
  <1>1. 0 \in T
    OBVIOUS
  <1>2. ASSUME NEW n \in T PROVE n + 1 \in T
    <2> SUFFICES ASSUME n + 1 <= N
                 PROVE  \E k \in 0..(n + 1) : S \cap (1..(n + 1)) = 1..k
      OBVIOUS
    <2>1. PICK k \in 0..n : S \cap (1..n) = 1..k
      OBVIOUS
    <2>2. CASE n + 1 \in S
      <3>1. S \cap (1..(n + 1)) = 1..(n + 1)
        BY <2>2
      <3>2. QED BY <3>1
    <2>3. CASE n + 1 \notin S
      <3>1. S \cap (1..(n + 1)) = S \cap (1..n)
        BY <2>3
      <3>2. QED BY <3>1, <2>1
    <2>4. QED BY <2>2, <2>3
  <1>3. T = Nat
    <2> HIDE DEF T
    <2>1. T \in SUBSET Nat
      BY DEF T
    <2>2. QED BY <2>1, <1>1, <1>2, SetInduction
  <1>4. PICK k \in 0..N : S \cap (1..N) = 1..k
    BY <1>3
  <1>5. Cardinality(1..k) = k
    BY FS_Interval
  <1>6. QED BY <1>4, <1>5

-----------------------------------------------------------------------------
(* The queue                                                               *)

\* The pairs are ordered.
LEMMA BeforeOrders ==
    ASSUME NEW x \in Queued, NEW y \in Queued
    PROVE  /\ Before(x, y) \/ Before(y, x)
           /\ \A z \in Queued : Before(x, y) /\ Before(y, z) => Before(x, z)
           /\ Before(x, y) => x[1] <= y[1]
           /\ x[1] \in Nat /\ x[2] \in Patterns /\ x = <<x[1], x[2]>>
  <1>1. Patterns \subseteq Nat /\ MaxTime \in Nat
    BY PatternsAssumption, BoundsAssumption
  <1>2. \A z \in Queued : z[1] \in Nat /\ z[2] \in Nat
    <2> SUFFICES ASSUME NEW z \in Queued PROVE z[1] \in Nat /\ z[2] \in Nat
      OBVIOUS
    <2>1. z[1] \in 0..MaxTime + 1 /\ z[2] \in Patterns
      BY DEF Queued
    <2>2. \A n \in 0..MaxTime + 1 : n \in Nat
      BY <1>1
    <2>3. QED BY <2>1, <2>2, <1>1
  <1>3. x[2] \in Patterns /\ x = <<x[1], x[2]>>
    BY DEF Queued
  <1>4. QED BY <1>2, <1>3 DEF Before

\* push puts one entry in, after those before it.
LEMMA PushFacts ==
    ASSUME NEW q \in Seq(Queued), NEW x \in Queued
    PROVE  /\ Push(q, x) \in Seq(Queued)
           /\ Len(Push(q, x)) = Len(q) + 1
           /\ \E n \in 0..Len(q) :
                /\ n = Cardinality({i \in DOMAIN q : Before(q[i], x)})
                /\ Push(q, x)[n + 1] = x
                /\ \A i \in 1..n : Push(q, x)[i] = q[i]
                /\ \A i \in (n + 1)..Len(q) : Push(q, x)[i + 1] = q[i]
  <1> DEFINE S == {i \in DOMAIN q : Before(q[i], x)}
             n == Cardinality(S)
  <1>1. Len(q) \in Nat /\ DOMAIN q = 1..Len(q)
    OBVIOUS
  <1>2. n \in 0..Len(q)
    <2>1. IsFiniteSet(1..Len(q)) /\ Cardinality(1..Len(q)) = Len(q)
      BY <1>1, FS_Interval
    <2>2. S \in SUBSET (1..Len(q))
      BY <1>1
    <2> HIDE DEF S
    <2>3. IsFiniteSet(S) /\ Cardinality(S) <= Len(q)
      BY <2>1, <2>2, FS_Subset
    <2>4. QED BY <2>3, <1>1, FS_CardinalityType
  <1>3. Push(q, x) = SubSeq(q, 1, n) \o <<x>> \o SubSeq(q, n + 1, Len(q))
    BY DEF Push
  <1> DEFINE l == SubSeq(q, 1, n)
             r == SubSeq(q, n + 1, Len(q))
  <1> HIDE DEF n
  <1>4. l \in Seq(Queued) /\ Len(l) = n /\ \A i \in 1..n : l[i] = q[i]
    BY <1>1, <1>2
  <1>5. /\ r \in Seq(Queued) /\ Len(r) = Len(q) - n
        /\ \A i \in 1..(Len(q) - n) : r[i] = q[n + i]
    <2>1. \A i \in (n + 1)..Len(q) : q[i] \in Queued
      BY <1>1, <1>2
    <2>2. n + 1 \in Int /\ Len(q) \in Int
      BY <1>1, <1>2
    <2>3. r \in Seq(Queued)
      BY <2>1, <2>2, SubSeqProperties
    <2>4. /\ Len(r) = IF n + 1 <= Len(q) THEN Len(q) - (n + 1) + 1 ELSE 0
          /\ \A i \in 1..(Len(q) - (n + 1) + 1) : r[i] = q[n + 1 + i - 1]
      BY <2>1, <2>2, SubSeqProperties
    <2> HIDE DEF r
    <2>5. Len(r) = Len(q) - n
      <3>1. Len(r) = IF n + 1 <= Len(q) THEN Len(q) - (n + 1) + 1 ELSE 0
        BY <2>4
      <3>2. n \in Nat /\ Len(q) \in Nat /\ n <= Len(q)
        BY <1>1, <1>2
      <3>3. QED BY <3>1, <3>2
    <2>6. ASSUME NEW i \in 1..(Len(q) - n) PROVE r[i] = q[n + i]
      <3>1. i \in 1..(Len(q) - (n + 1) + 1) /\ n + 1 + i - 1 = n + i
        BY <1>1, <1>2
      <3>2. QED BY <2>4, <3>1
    <2>7. QED BY <2>3, <2>5, <2>6
  <1>6. Push(q, x) = (l \o <<x>>) \o r
    BY <1>3
  <1> HIDE DEF l, r
  <1>7. /\ l \o <<x>> \in Seq(Queued) /\ Len(l \o <<x>>) = n + 1
        /\ \A i \in 1..n : (l \o <<x>>)[i] = q[i]
        /\ (l \o <<x>>)[n + 1] = x
    BY <1>4, <1>2
  <1> DEFINE k == l \o <<x>>
  <1> HIDE DEF k
  <1>8. /\ k \in Seq(Queued) /\ Len(k) = n + 1 /\ \A i \in 1..n : k[i] = q[i]
        /\ k[n + 1] = x /\ Push(q, x) = k \o r
    BY <1>6, <1>7 DEF k
  <1>9. /\ k \o r \in Seq(Queued) /\ Len(k \o r) = Len(q) + 1
        /\ \A i \in 1..(n + 1) : (k \o r)[i] = k[i]
        /\ \A i \in 1..(Len(q) - n) : (k \o r)[n + 1 + i] = r[i]
    BY <1>8, <1>5, <1>2, <1>1
  <1>10. ASSUME NEW i \in (n + 1)..Len(q)
         PROVE  (k \o r)[i + 1] = q[i]
    <2>1. i - n \in 1..(Len(q) - n) /\ n + 1 + (i - n) = i + 1 /\ n + (i - n) = i
      BY <1>2, <1>1
    <2>2. (k \o r)[n + 1 + (i - n)] = r[i - n] /\ r[i - n] = q[n + (i - n)]
      BY <2>1, <1>9, <1>5
    <2>3. QED BY <2>1, <2>2
  <1>11. \A i \in 1..n : (k \o r)[i] = q[i]
    BY <1>8, <1>9, <1>2
  <1>12. (k \o r)[n + 1] = x
    BY <1>8, <1>9, <1>2
  <1>13. QED BY <1>8, <1>9, <1>10, <1>11, <1>12, <1>2 DEF n

\* push keeps the queue in order.
LEMMA PushInOrder ==
    ASSUME NEW q \in Seq(Queued), NEW x \in Queued, InOrder(q)
    PROVE  InOrder(Push(q, x))
  <1> DEFINE S == {i \in DOMAIN q : Before(q[i], x)}
             p == Push(q, x)
  <1>1. /\ p \in Seq(Queued) /\ Len(p) = Len(q) + 1
        /\ \E n \in 0..Len(q) :
             /\ n = Cardinality(S)
             /\ p[n + 1] = x
             /\ \A i \in 1..n : p[i] = q[i]
             /\ \A i \in (n + 1)..Len(q) : p[i + 1] = q[i]
    BY PushFacts
  <1>2. Len(q) \in Nat /\ DOMAIN q = 1..Len(q) /\ \A i \in 1..Len(q) : q[i] \in Queued
    OBVIOUS
  <1>3. S = 1..Cardinality(S)
    <2>1. S \in SUBSET (1..Len(q))
      BY <1>2
    <2>2. \A i, j \in 1..Len(q) : i < j /\ j \in S => i \in S
      BY <1>2, BeforeOrders DEF InOrder
    <2> HIDE DEF S
    <2>3. QED BY <2>1, <2>2, <1>2, CountPrefix
  <1>4. PICK n \in 0..Len(q) : /\ S = 1..n
                               /\ p[n + 1] = x
                               /\ \A i \in 1..n : p[i] = q[i]
                               /\ \A i \in (n + 1)..Len(q) : p[i + 1] = q[i]
    BY <1>1, <1>3
  <1>5. /\ \A i \in 1..n : Before(q[i], x)
        /\ \A i \in (n + 1)..Len(q) : Before(x, q[i])
    <2>1. \A i \in 1..Len(q) : Before(q[i], x) <=> i \in 1..n
      BY <1>2, <1>4
    <2>2. \A i \in 1..Len(q) : Before(q[i], x) \/ Before(x, q[i])
      BY <1>2, BeforeOrders
    <2>3. QED BY <2>1, <2>2, <1>2
  <1> HIDE DEF S, p
  <1>6. ASSUME NEW i \in 1..Len(p), NEW j \in 1..Len(p), i < j
        PROVE  Before(p[i], p[j])
    <2>1. CASE j <= n
      BY <2>1, <1>6, <1>1, <1>4, <1>2 DEF InOrder
    <2>2. CASE j = n + 1
      BY <2>2, <1>6, <1>4, <1>5
    <2>3. CASE j > n + 1
      <3>1. p[j] = q[j - 1] /\ j - 1 \in (n + 1)..Len(q)
        BY <2>3, <1>1, <1>4
      <3>2. CASE i <= n
        BY <3>1, <3>2, <1>6, <1>4, <1>2 DEF InOrder
      <3>3. CASE i = n + 1
        BY <3>1, <3>3, <1>4, <1>5
      <3>4. CASE i > n + 1
        <4>1. p[i] = q[i - 1] /\ i - 1 \in (n + 1)..Len(q)
          BY <3>4, <1>1, <1>4
        <4>2. QED BY <3>1, <4>1, <1>6 DEF InOrder
      <3>5. QED BY <3>2, <3>3, <3>4
    <2>4. QED BY <2>1, <2>2, <2>3, <1>1, <1>4
  <1>7. QED BY <1>6 DEF InOrder, p

\* The entries after push are those before and the new one.
LEMMA PushEntries ==
    ASSUME NEW q \in Seq(Queued), NEW x \in Queued
    PROVE  /\ \A i \in 1..Len(Push(q, x)) :
                 Push(q, x)[i] = x \/ \E j \in 1..Len(q) : Push(q, x)[i] = q[j]
           /\ \E i \in 1..Len(Push(q, x)) : Push(q, x)[i] = x
           /\ \A j \in 1..Len(q) : \E i \in 1..Len(Push(q, x)) : Push(q, x)[i] = q[j]
  <1> DEFINE p == Push(q, x)
  <1>1. Len(q) \in Nat
    OBVIOUS
  <1>2. PICK n \in 0..Len(q) : /\ Len(p) = Len(q) + 1
                               /\ p[n + 1] = x
                               /\ \A i \in 1..n : p[i] = q[i]
                               /\ \A i \in (n + 1)..Len(q) : p[i + 1] = q[i]
    BY PushFacts
  <1> HIDE DEF p
  <1>3. ASSUME NEW i \in 1..Len(p)
        PROVE  p[i] = x \/ \E j \in 1..Len(q) : p[i] = q[j]
    <2>1. CASE i <= n BY <2>1, <1>1, <1>2
    <2>2. CASE i = n + 1 BY <2>2, <1>2
    <2>3. CASE i > n + 1
      <3>1. i - 1 \in (n + 1)..Len(q) /\ (i - 1) + 1 = i
        BY <2>3, <1>1, <1>2
      <3>2. p[(i - 1) + 1] = q[i - 1]
        BY <3>1, <1>2
      <3>3. i - 1 \in 1..Len(q)
        BY <3>1, <1>1
      <3>4. QED BY <3>1, <3>2, <3>3
    <2>4. QED BY <2>1, <2>2, <2>3, <1>2
  <1>4. \E i \in 1..Len(p) : p[i] = x
    BY <1>1, <1>2
  <1>5. ASSUME NEW j \in 1..Len(q)
        PROVE  \E i \in 1..Len(p) : p[i] = q[j]
    <2>1. CASE j <= n BY <2>1, <1>1, <1>2
    <2>2. CASE j > n
      <3>1. j + 1 \in 1..Len(p) /\ p[j + 1] = q[j]
        BY <2>2, <1>1, <1>2
      <3>2. QED BY <3>1
    <2>3. QED BY <2>1, <2>2, <1>2
  <1>6. QED BY <1>3, <1>4, <1>5 DEF p

\* An entry as old as an element that the loop has made comes first.
LEMMA PushOldest ==
    ASSUME NEW q \in Seq(Queued), NEW x \in Queued, x[1] = 0,
           \A i \in 1..Len(q) : q[i][1] > 0
    PROVE  /\ Push(q, x)[1] = x
           /\ \A i \in 2..Len(Push(q, x)) : Push(q, x)[i] = q[i - 1]
  <1> DEFINE S == {i \in DOMAIN q : Before(q[i], x)}
             p == Push(q, x)
  <1>1. S = {}
    <2> SUFFICES ASSUME NEW i \in 1..Len(q), Before(q[i], x) PROVE FALSE
      OBVIOUS
    <2>1. q[i] \in Queued
      OBVIOUS
    <2>2. QED BY <2>1, BeforeOrders
  <1>2. Cardinality(S) = 0
    BY <1>1, FS_EmptySet
  <1>3. /\ Len(p) = Len(q) + 1
        /\ \E n \in 0..Len(q) :
             /\ n = Cardinality(S)
             /\ p[n + 1] = x
             /\ \A i \in 1..n : p[i] = q[i]
             /\ \A i \in (n + 1)..Len(q) : p[i + 1] = q[i]
    BY PushFacts
  <1> HIDE DEF S, p
  <1>4. p[1] = x /\ \A i \in 1..Len(q) : p[i + 1] = q[i]
    BY <1>2, <1>3
  <1>5. ASSUME NEW i \in 2..Len(p)
        PROVE  p[i] = q[i - 1]
    <2>1. i - 1 \in 1..Len(q) /\ (i - 1) + 1 = i
      BY <1>3
    <2>2. QED BY <2>1, <1>4
  <1>6. QED BY <1>4, <1>5 DEF p

\* What the pop leaves.
LEMMA TailFacts ==
    ASSUME NEW q \in Seq(Queued), q # <<>>
    PROVE  /\ Tail(q) \in Seq(Queued)
           /\ Len(q) \in Nat \ {0} /\ Len(Tail(q)) = Len(q) - 1
           /\ \A i \in 1..Len(Tail(q)) : Tail(q)[i] = q[i + 1]
           /\ Head(q) = q[1] /\ q[1] \in Queued
           /\ InOrder(q) => InOrder(Tail(q))
           /\ \A i \in 1..Len(q) : i = 1 \/ q[i] = Tail(q)[i - 1]
  <1>1. /\ Tail(q) \in Seq(Queued)
        /\ Len(q) \in Nat \ {0} /\ Len(Tail(q)) = Len(q) - 1
        /\ \A i \in 1..Len(Tail(q)) : Tail(q)[i] = q[i + 1]
        /\ Head(q) = q[1] /\ q[1] \in Queued
    OBVIOUS
  <1>2. InOrder(q) => InOrder(Tail(q))
    BY <1>1 DEF InOrder
  <1>3. ASSUME NEW i \in 1..Len(q), i # 1
        PROVE  q[i] = Tail(q)[i - 1]
    <2>1. i - 1 \in 1..Len(Tail(q)) /\ (i - 1) + 1 = i
      BY <1>1, <1>3
    <2>2. QED BY <2>1, <1>1
  <1>4. QED BY <1>1, <1>2, <1>3

-----------------------------------------------------------------------------
(* The cached answers                                                      *)

Without(f, b) == [p \in DOMAIN f \ {b} |-> f[p]]

\* What erase leaves.
LEMMA EraseFacts ==
    ASSUME NEW f, NEW b
    PROVE  RestrictDomain(f, LAMBDA p : p # b) = Without(f, b)
  <1>1. {p \in DOMAIN f : p # b} = DOMAIN f \ {b}
    OBVIOUS
  <1>2. QED BY <1>1 DEF RestrictDomain, Restrict, Without

\* What an assignment to an element leaves.
LEMMA StoreFacts ==
    ASSUME NEW f, IsAnswers(f), NEW b, NEW e \in Entry
    PROVE  /\ \A p : p \in DOMAIN With(f, b, e) <=> p \in DOMAIN f \/ p = b
           /\ IsAnswers(With(f, b, e))
           /\ With(f, b, e)[b] = e
           /\ \A p \in DOMAIN f : p # b => With(f, b, e)[p] = f[p]
           /\ Without(With(f, b, e), b) = Without(f, b)
  <1>1. DOMAIN With(f, b, e) = DOMAIN f \cup {b}
    BY DEF With
  <1>2. IsFiniteSet(DOMAIN With(f, b, e))
    BY <1>1, FS_AddElement DEF IsAnswers
  <1>3. QED BY <1>1, <1>2 DEF With, Without, IsAnswers

\* The memory of the answers is a number.
LEMMA UnitsFinite ==
    ASSUME NEW f, IsAnswers(f)
    PROVE  IsFiniteSet(Units(f)) /\ Used(f) \in Nat
  <1> DEFINE D == DOMAIN f
             u(b) == {b} \X (1..f[b].size)
             G == {u(b) : b \in D}
             g == [b \in D |-> u(b)]
  <1>1. IsFiniteSet(G)
    <2>1. g \in Surjection(D, G)
      BY DEF Surjection
    <2>2. QED BY <2>1, FS_Surjection DEF IsAnswers
  <1>2. ASSUME NEW x \in G PROVE IsFiniteSet(x)
    <2>1. PICK b \in D : x = {b} \X (1..f[b].size)
      OBVIOUS
    <2>2. f[b].size \in Nat
      BY DEF Entry, IsAnswers
    <2>3. IsFiniteSet({b}) /\ IsFiniteSet(1..f[b].size)
      <3>1. 1 \in Int /\ f[b].size \in Int
        BY <2>2
      <3>2. QED BY <3>1, FS_Singleton, FS_Interval
    <2>4. QED BY <2>1, <2>3, FS_Product
  <1>3. Units(f) = UNION G
    BY DEF Units
  <1> HIDE DEF G
  <1>4. QED BY <1>1, <1>2, <1>3, FS_UNION, FS_CardinalityType DEF Used

\* The memory used is that of one answer and that of the others.
LEMMA UsedSplits ==
    ASSUME NEW f, IsAnswers(f), NEW b \in DOMAIN f
    PROVE  /\ Used(f) = f[b].size + Used(Without(f, b))
           /\ Used(Without(f, b)) \in Nat /\ f[b].size \in Nat
           /\ IsAnswers(Without(f, b))
  <1> DEFINE D == DOMAIN f
             g == Without(f, b)
             w == {b} \X (1..f[b].size)
  <1>1. g \in [D \ {b} -> Entry] /\ \A p \in D \ {b} : g[p] = f[p]
    BY DEF Without, IsAnswers
  <1>2. IsFiniteSet(D \ {b})
    BY FS_RemoveElement DEF IsAnswers
  <1>3. /\ IsFiniteSet(Units(f)) /\ IsFiniteSet(Units(g)) /\ Used(g) \in Nat
        /\ IsAnswers(g)
    <2> HIDE DEF g
    <2>1. IsAnswers(g)
      BY <1>1, <1>2 DEF IsAnswers
    <2>2. QED BY <2>1, UnitsFinite
  <1>4. f[b].size \in Nat
    BY DEF Entry, IsAnswers
  <1>5. IsFiniteSet(w) /\ Cardinality(w) = f[b].size
    <2>1. /\ IsFiniteSet({b}) /\ Cardinality({b}) = 1
          /\ IsFiniteSet(1..f[b].size) /\ Cardinality(1..f[b].size) = f[b].size
      <3>1. 1 \in Int /\ f[b].size \in Int
        BY <1>4
      <3>2. IsFiniteSet({b}) /\ Cardinality({b}) = 1
        BY FS_Singleton
      <3>3. /\ IsFiniteSet(1..f[b].size)
            /\ Cardinality(1..f[b].size)
                 = IF 1 > f[b].size THEN 0 ELSE f[b].size - 1 + 1
        BY <3>1, FS_Interval
      <3>4. QED BY <3>2, <3>3, <1>4
    <2> DEFINE u == 1..f[b].size
    <2> HIDE DEF u
    <2>2. IsFiniteSet({b} \X u) /\ Cardinality({b} \X u) = Cardinality({b}) * Cardinality(u)
      <3>1. IsFiniteSet({b}) /\ IsFiniteSet(u)
        BY <2>1 DEF u
      <3>2. QED BY <3>1, FS_Product
    <2>3. IsFiniteSet(w) /\ Cardinality(w) = 1 * f[b].size
      BY <2>1, <2>2 DEF u
    <2>4. QED BY <2>3, <1>4
  <1>6. Units(f) = w \cup Units(g)
    <2>1. Units(f) = UNION {{p} \X (1..f[p].size) : p \in D}
      BY DEF Units
    <2>2. Units(g) = UNION {{p} \X (1..f[p].size) : p \in D \ {b}}
      BY <1>1 DEF Units
    <2>3. QED BY <2>1, <2>2
  <1>7. w \cap Units(g) = {}
    <2>1. Units(g) = UNION {{p} \X (1..g[p].size) : p \in D \ {b}}
      BY <1>1 DEF Units
    <2>2. QED BY <2>1
  <1> HIDE DEF w, g
  <1>8. Cardinality(Units(f)) = Cardinality(w) + Cardinality(Units(g))
    <2>1. Cardinality({}) = 0
      BY FS_EmptySet
    <2>2. Cardinality(Units(f))
            = Cardinality(w) + Cardinality(Units(g)) - Cardinality(w \cap Units(g))
      BY <1>3, <1>5, <1>6, FS_Union
    <2>3. Cardinality(Units(g)) \in Nat
      BY <1>3 DEF Used
    <2>4. Cardinality(w \cap Units(g)) = 0
      BY <2>1, <1>7
    <2>5. Cardinality(w) \in Nat
      BY <1>4, <1>5
    <2>6. QED BY <2>2, <2>3, <2>4, <2>5
  <1>9. QED BY <1>1, <1>3, <1>4, <1>5, <1>8 DEF Used, g

\* An empty cache uses no memory.
LEMMA NothingUsed == Used(<<>>) = 0
  <1>1. Units(<<>>) = {}
    BY DEF Units
  <1>2. QED BY <1>1, FS_EmptySet DEF Used

-----------------------------------------------------------------------------
(* The loop                                                                *)

\* The loop is a sequence of turns, the first of them on the memory given.
LEMMA LoopTurns ==
    ASSUME NEW m, NEW size, m.lru \in Seq(Queued)
    PROVE  \E N \in Nat :
             /\ N = 3 * Len(m.lru) + 1
             /\ \E a : /\ a[0] = m
                       /\ \A n \in 0..(N - 1) : a[n + 1] = Turn(a[n], size)
                       /\ MakeRoom(m, size) = a[N]
  <1> DEFINE N == 3 * Len(m.lru) + 1
  <1>1. N \in Nat
    OBVIOUS
  <1> DEFINE Follows(a, k) == a = [n \in 0..k |-> IF n = 0 THEN m ELSE Turn(a[n - 1], size)]
             T == {k \in Nat : \E a : Follows(a, k)}
  <1>2. 0 \in T
    <2>1. Follows([n \in 0..0 |-> m], 0)
      OBVIOUS
    <2>2. QED BY <2>1
  <1>3. ASSUME NEW k \in T PROVE k + 1 \in T
    <2>1. PICK a : Follows(a, k)
      OBVIOUS
    <2> DEFINE c == [n \in 0..(k + 1) |-> IF n = k + 1 THEN Turn(a[k], size) ELSE a[n]]
    <2>2. ASSUME NEW n \in 0..(k + 1)
          PROVE  c[n] = IF n = 0 THEN m ELSE Turn(c[n - 1], size)
      <3>1. CASE n = k + 1
        BY <3>1
      <3>2. CASE n # k + 1
        <4>1. n \in 0..k /\ (n # 0 => n - 1 \in 0..k /\ n - 1 # k + 1)
          BY <3>2
        <4>2. a[n] = IF n = 0 THEN m ELSE Turn(a[n - 1], size)
          BY <2>1, <4>1
        <4>3. c[n] = a[n] /\ (n # 0 => c[n - 1] = a[n - 1])
          BY <4>1, <3>2
        <4>4. QED BY <4>2, <4>3
      <3>3. QED BY <3>1, <3>2
    <2>3. Follows(c, k + 1)
      BY <2>2
    <2>4. \E b : Follows(b, k + 1)
      <3> HIDE DEF c, Follows
      <3>1. QED BY <2>3
    <2>5. QED BY <2>4
  <1>4. T = Nat
    <2>1. T \in SUBSET Nat
      OBVIOUS
    <2> HIDE DEF T
    <2>2. QED BY <2>1, <1>2, <1>3, SetInduction
  <1>5. \E a : Follows(a, N)
    BY <1>1, <1>4
  <1>6. Follows(CHOOSE a : Follows(a, N), N)
    BY <1>5
  <1>7. MakeRoom(m, size) = (CHOOSE a : Follows(a, N))[N]
    BY DEF MakeRoom
  <1>8. PICK a : Follows(a, N) /\ MakeRoom(m, size) = a[N]
    BY <1>6, <1>7
  <1>9. ASSUME NEW n \in 0..(N - 1) PROVE a[n + 1] = Turn(a[n], size)
    <2>1. n + 1 \in 0..N /\ n + 1 # 0 /\ (n + 1) - 1 = n
      BY <1>1
    <2>2. QED BY <1>8, <2>1
  <1>10. a[0] = m
    BY <1>8
  <1>11. /\ a[0] = m
         /\ \A n \in 0..(N - 1) : a[n + 1] = Turn(a[n], size)
         /\ MakeRoom(m, size) = a[N]
    <2> HIDE DEF Follows, N
    <2>1. QED BY <1>8, <1>9, <1>10
  <1>12. \E c : /\ c[0] = m
                /\ \A n \in 0..(N - 1) : c[n + 1] = Turn(c[n], size)
                /\ MakeRoom(m, size) = c[N]
    <2> HIDE DEF N
    <2>1. QED BY <1>11
  <1>13. N = 3 * Len(m.lru) + 1
    OBVIOUS
  <1> HIDE DEF Follows, N
  <1>14. QED BY <1>1, <1>12, <1>13

\* The element that operator[] makes.
Default == [ans |-> Empty, size |-> 0, stamp |-> 0]

\* b has been in the cache, with the answer it has, since before the loop.
Kept(o, m, b) == b \in DOMAIN o.cache /\ b \in DOMAIN m.cache /\ m.cache[b] = o.cache[b]

\* b has just been made, and comes out of the queue next.
Made(m, b) == m.lru # <<>> /\ m.lru[1] = <<0, b>> /\ m.cache[b] = Default

\* What the loop keeps of the memory o it started from, for an answer of the
\* given size.
LoopInv(o, m, size) ==
    /\ IsMemory(m) /\ InOrder(m.lru)
    /\ \A i \in 2..Len(m.lru) : m.lru[i][1] > 0
    /\ m.lru # <<>> /\ m.lru[1][1] = 0 =>
         /\ ~HasRoom(m, size)
         /\ m.lru[1][2] \in DOMAIN m.cache /\ m.cache[m.lru[1][2]].stamp = 0
    /\ \A b \in DOMAIN m.cache : Kept(o, m, b) \/ Made(m, b)
    /\ m.time = o.time /\ m.total <= o.total
    /\ m.total - Used(m.cache) = o.total - Used(o.cache)
    /\ o.total \in Nat /\ Used(o.cache) \in Nat /\ Used(o.cache) <= o.total

\* What one turn does.
LEMMA EvictCases ==
    ASSUME NEW o, NEW m, NEW size, LoopInv(o, m, size)
    PROVE  \/ m.lru = <<>> /\ Evict(m) = [m EXCEPT !.wild = TRUE]
           \/ /\ m.lru # <<>>
              /\ \E b \in DOMAIN m.cache :
                   /\ m.lru[1][2] = b /\ m.lru[1][1] # m.cache[b].stamp
                   /\ Evict(m) =
                        [m EXCEPT !.lru = Push(Tail(m.lru), <<m.cache[b].stamp, b>>)]
           \/ /\ m.lru # <<>>
              /\ \E b \in Patterns \ DOMAIN m.cache :
                   /\ m.lru[1][2] = b /\ m.lru[1][1] # 0
                   /\ Evict(m) = [m EXCEPT !.lru = Push(Tail(m.lru), <<0, b>>),
                                           !.cache = With(m.cache, b, Default)]
           \/ /\ m.lru # <<>>
              /\ \E b \in DOMAIN m.cache :
                   /\ m.lru[1][2] = b /\ m.lru[1][1] = m.cache[b].stamp
                   /\ Evict(m) = [m EXCEPT !.lru = Tail(m.lru),
                                           !.total = m.total - m.cache[b].size,
                                           !.cache = Without(m.cache, b)]
  <1>1. CASE m.lru = <<>>
    BY <1>1 DEF Evict
  <1>2. CASE m.lru # <<>>
    <2>1. m.lru \in Seq(Queued) /\ m.cache \in [DOMAIN m.cache -> Entry]
      BY DEF LoopInv, IsMemory, IsAnswers
    <2>2. Head(m.lru) = m.lru[1] /\ m.lru[1] \in Queued
      BY <2>1, <1>2, TailFacts
    <2>3. PICK b \in Patterns : b = m.lru[1][2]
      BY Zenon, <2>2 DEF Queued
    <2>4. CASE b \in DOMAIN m.cache
      <3>1. With(m.cache, b, m.cache[b]) = m.cache
        BY <2>4, <2>1 DEF With
      <3>2. Evict(m) =
              IF m.lru[1][1] # m.cache[b].stamp
              THEN [m EXCEPT !.lru = Push(Tail(m.lru), <<m.cache[b].stamp, b>>),
                             !.cache = m.cache]
              ELSE [m EXCEPT !.lru = Tail(m.lru),
                             !.total = m.total - m.cache[b].size,
                             !.cache = Without(m.cache, b)]
        <4>1. CASE m.lru[1][1] # m.cache[b].stamp
          BY <1>2, <2>2, <2>3, <2>4, <3>1, <4>1 DEF Evict
        <4>2. CASE m.lru[1][1] = m.cache[b].stamp
          <5>1. Evict(m) = [m EXCEPT !.lru = Tail(m.lru),
                                     !.total = m.total - m.cache[b].size,
                                     !.cache = RestrictDomain(m.cache, LAMBDA p : p # b)]
            BY <1>2, <2>2, <2>3, <2>4, <4>2 DEF Evict
          <5>2. QED BY <5>1, <4>2, EraseFacts
        <4>3. QED BY <4>1, <4>2
      <3>3. m = [cache |-> m.cache, lru |-> m.lru, time |-> m.time, total |-> m.total,
                 wild |-> m.wild]
        BY DEF LoopInv, IsMemory
      <3>4. \A q : [m EXCEPT !.lru = q, !.cache = m.cache] = [m EXCEPT !.lru = q]
        BY <3>3
      <3>5. CASE m.lru[1][1] # m.cache[b].stamp
        <4> DEFINE q == Push(Tail(m.lru), <<m.cache[b].stamp, b>>)
        <4>1. Evict(m) = [m EXCEPT !.lru = q, !.cache = m.cache]
          BY <3>2, <3>5
        <4> HIDE DEF q
        <4>2. Evict(m) = [m EXCEPT !.lru = q]
          BY Zenon, <3>4, <4>1
        <4>3. QED BY Zenon, <4>2, <3>5, <1>2, <2>3, <2>4 DEF q
      <3>6. CASE m.lru[1][1] = m.cache[b].stamp
        <4>1. Evict(m) = [m EXCEPT !.lru = Tail(m.lru),
                                   !.total = m.total - m.cache[b].size,
                                   !.cache = Without(m.cache, b)]
          BY <3>2, <3>6
        <4>2. QED BY Zenon, <4>1, <3>6, <1>2, <2>3, <2>4
      <3>7. QED BY <3>5, <3>6
    <2>5. CASE b \notin DOMAIN m.cache
      <3>1. m.lru[1][1] # 0
        BY <1>2, <2>3, <2>5 DEF LoopInv
      <3>2. Evict(m) = [m EXCEPT !.lru = Push(Tail(m.lru), <<0, b>>),
                                 !.cache = With(m.cache, b, Default)]
        BY <1>2, <2>2, <2>3, <2>5, <3>1 DEF Evict, Default
      <3>3. QED BY <1>2, <2>3, <2>5, <3>1, <3>2
    <2>6. QED BY <2>4, <2>5
  <1>3. QED BY <1>1, <1>2

\* A turn keeps the invariant.
LEMMA EvictKeeps ==
    ASSUME NEW o, NEW m, NEW size \in Nat, LoopInv(o, m, size), ~HasRoom(m, size)
    PROVE  LoopInv(o, Evict(m), size)
  <1> DEFINE n == Evict(m)
  <1>1. /\ m = [cache |-> m.cache, lru |-> m.lru, time |-> m.time, total |-> m.total,
                wild |-> m.wild]
        /\ DOMAIN m.cache \subseteq Patterns /\ IsAnswers(m.cache)
        /\ m.lru \in Seq(Queued)
        /\ m.time \in 0..MaxTime /\ m.total \in Nat /\ m.wild \in BOOLEAN
    BY DEF LoopInv, IsMemory
  <1>2. /\ InOrder(m.lru)
        /\ \A i \in 2..Len(m.lru) : m.lru[i][1] > 0
        /\ \A b \in DOMAIN m.cache : Kept(o, m, b) \/ Made(m, b)
        /\ m.time = o.time /\ m.total <= o.total
        /\ m.total - Used(m.cache) = o.total - Used(o.cache)
        /\ o.total \in Nat /\ Used(o.cache) \in Nat /\ Used(o.cache) <= o.total
    BY DEF LoopInv
  <1>3. CASE m.lru = <<>> /\ Evict(m) = [m EXCEPT !.wild = TRUE]
    <2>1. n = [cache |-> m.cache, lru |-> m.lru, time |-> m.time, total |-> m.total,
               wild |-> TRUE]
      BY <1>1, <1>3
    <2> HIDE DEF n
    <2>2. IsMemory(n)
      BY <2>1, <1>1 DEF IsMemory
    <2>3. \A b \in DOMAIN n.cache : Kept(o, n, b) \/ Made(n, b)
      BY <2>1, <1>2 DEF Kept, Made
    <2>4. QED BY <2>1, <2>2, <2>3, <1>2, <1>3 DEF LoopInv, n
  <1>4. ASSUME m.lru # <<>>,
               NEW b \in DOMAIN m.cache, m.lru[1][2] = b,
               m.lru[1][1] # m.cache[b].stamp,
               n = [m EXCEPT !.lru = Push(Tail(m.lru), <<m.cache[b].stamp, b>>)]
        PROVE  LoopInv(o, n, size)
    <2> DEFINE s == m.cache[b].stamp
               q == Tail(m.lru)
    <2>1. m.cache[b] \in Entry /\ s \in 0..MaxTime /\ b \in Patterns
      BY <1>1, <1>4 DEF Entry, IsAnswers
    <2>2. <<s, b>> \in Queued
      BY <2>1, BoundsAssumption DEF Queued
    <2>3. n = [cache |-> m.cache, lru |-> Push(q, <<s, b>>), time |-> m.time,
               total |-> m.total, wild |-> m.wild]
      BY <1>1, <1>4
    <2>4. /\ q \in Seq(Queued) /\ InOrder(q) /\ Len(q) = Len(m.lru) - 1
          /\ Len(m.lru) \in Nat /\ \A i \in 1..Len(q) : q[i] = m.lru[i + 1]
      BY <1>1, <1>2, <1>4, TailFacts
    <2>5. \A i \in 1..Len(q) : q[i][1] > 0
      <3> SUFFICES ASSUME NEW i \in 1..Len(q) PROVE q[i][1] > 0
        OBVIOUS
      <3> HIDE DEF q
      <3>1. i + 1 \in 2..Len(m.lru)
        BY <2>4
      <3>2. QED BY <3>1, <2>4, <1>2
    <2> HIDE DEF n, s, q
    <2>6. /\ n.lru \in Seq(Queued) /\ InOrder(n.lru) /\ Len(n.lru) = Len(q) + 1
          /\ n.lru = Push(q, <<s, b>>)
      BY <2>2, <2>3, <2>4, PushFacts, PushInOrder
    <2>7. IsMemory(n)
      BY <2>3, <2>6, <1>1 DEF IsMemory
    <2>8. \A p \in DOMAIN n.cache : Kept(o, n, p)
      <3>1. \A p \in DOMAIN m.cache : ~Made(m, p)
        BY <1>4 DEF Made, Default
      <3>2. QED BY <3>1, <2>3, <1>2 DEF Kept
    <2>9. CASE s = 0
      <3>1. PICK x \in Queued : x = <<s, b>> /\ x[1] = 0
        BY <2>2, <2>9
      <3>2. /\ n.lru[1] = <<s, b>>
            /\ \A i \in 2..Len(n.lru) : n.lru[i] = q[i - 1]
        <4>1. /\ Push(q, x)[1] = x
              /\ \A i \in 2..Len(Push(q, x)) : Push(q, x)[i] = q[i - 1]
          BY <2>4, <2>5, <3>1, PushOldest
        <4>2. QED BY <4>1, <3>1, <2>6
      <3>3. ASSUME NEW i \in 2..Len(n.lru) PROVE n.lru[i][1] > 0
        <4>1. i - 1 \in 1..Len(q)
          BY <2>6, <2>4
        <4>2. QED BY <4>1, <3>2, <2>5
      <3>4. /\ ~HasRoom(n, size)
            /\ n.lru[1][2] \in DOMAIN n.cache /\ n.cache[n.lru[1][2]].stamp = 0
        BY <3>2, <2>3, <2>9, <1>4 DEF HasRoom, s
      <3>5. QED BY <3>3, <3>4, <2>3, <2>6, <2>7, <2>8, <1>2 DEF LoopInv
    <2>10. CASE s # 0
      <3>1. ASSUME NEW i \in 1..Len(n.lru) PROVE n.lru[i][1] > 0
        <4>1. n.lru[i] = <<s, b>> \/ \E j \in 1..Len(q) : n.lru[i] = q[j]
          <5>1. PICK x \in Queued : x = <<s, b>>
            BY <2>2
          <5>2. \A k \in 1..Len(Push(q, x)) :
                   Push(q, x)[k] = x \/ \E j \in 1..Len(q) : Push(q, x)[k] = q[j]
            BY <2>4, PushEntries
          <5>3. QED BY <5>1, <5>2, <2>6
        <4>2. s > 0
          BY <2>1, <2>10
        <4>3. QED BY <4>1, <4>2, <2>5
      <3>2. 1 \in 1..Len(n.lru) /\ \A i \in 2..Len(n.lru) : i \in 1..Len(n.lru)
        BY <2>6, <2>4
      <3>3. n.lru[1][1] # 0 /\ \A i \in 2..Len(n.lru) : n.lru[i][1] > 0
        BY <3>1, <3>2
      <3>4. QED BY <3>3, <2>3, <2>6, <2>7, <2>8, <1>2 DEF LoopInv
    <2>11. QED BY <2>9, <2>10
  <1>5. ASSUME m.lru # <<>>,
               NEW b \in Patterns \ DOMAIN m.cache, m.lru[1][2] = b, m.lru[1][1] # 0,
               n = [m EXCEPT !.lru = Push(Tail(m.lru), <<0, b>>),
                             !.cache = With(m.cache, b, Default)]
        PROVE  LoopInv(o, n, size)
    <2> DEFINE q == Tail(m.lru)
               f == With(m.cache, b, Default)
    <2>1. <<0, b>> \in Queued /\ Default \in Entry
      BY <1>5, BoundsAssumption DEF Queued, Entry, Default, AnsType, Empty
    <2>2. n = [cache |-> f, lru |-> Push(q, <<0, b>>), time |-> m.time,
               total |-> m.total, wild |-> m.wild]
      BY <1>1, <1>5
    <2>3. /\ q \in Seq(Queued) /\ InOrder(q) /\ Len(q) = Len(m.lru) - 1
          /\ Len(m.lru) \in Nat /\ \A i \in 1..Len(q) : q[i] = m.lru[i + 1]
      BY <1>1, <1>2, <1>5, TailFacts
    <2>4. \A i \in 1..Len(q) : q[i][1] > 0
      <3> SUFFICES ASSUME NEW i \in 1..Len(q) PROVE q[i][1] > 0
        OBVIOUS
      <3> HIDE DEF q
      <3>1. i + 1 \in 2..Len(m.lru)
        BY <2>3
      <3>2. QED BY <3>1, <2>3, <1>2
    <2>5. /\ \A p : p \in DOMAIN f <=> p \in DOMAIN m.cache \/ p = b
          /\ IsAnswers(f) /\ f[b] = Default
          /\ \A p \in DOMAIN m.cache : p # b => f[p] = m.cache[p]
          /\ Without(f, b) = Without(m.cache, b)
      BY <1>1, <2>1, StoreFacts
    <2>6. b \in DOMAIN f
      BY <2>5
    <2>7. Used(f) = Used(m.cache)
      <3>1. Without(m.cache, b) = m.cache
        <4>1. DOMAIN m.cache \ {b} = DOMAIN m.cache
          BY <1>5
        <4>2. m.cache = [p \in DOMAIN m.cache |-> m.cache[p]]
          BY <1>1 DEF IsAnswers
        <4>3. QED BY <4>1, <4>2 DEF Without
      <3>2. Used(f) = f[b].size + Used(Without(f, b)) /\ Used(Without(f, b)) \in Nat
        <4> HIDE DEF f
        <4>1. QED BY <2>5, <2>6, UsedSplits
      <3>3. QED BY <2>5, <3>1, <3>2 DEF Default
    <2> HIDE DEF n, q, f
    <2>8. /\ n.lru \in Seq(Queued) /\ InOrder(n.lru) /\ Len(n.lru) = Len(q) + 1
          /\ n.lru = Push(q, <<0, b>>)
      BY <2>1, <2>2, <2>3, PushFacts, PushInOrder
    <2>9. IsMemory(n)
      BY <2>2, <2>5, <2>6, <2>8, <1>1, <1>5 DEF IsMemory
    <2>10. /\ n.lru[1] = <<0, b>>
           /\ \A i \in 2..Len(n.lru) : n.lru[i] = q[i - 1]
      <3>1. PICK x \in Queued : x = <<0, b>> /\ x[1] = 0
        BY <2>1
      <3>2. /\ Push(q, x)[1] = x
            /\ \A i \in 2..Len(Push(q, x)) : Push(q, x)[i] = q[i - 1]
        BY <2>3, <2>4, <3>1, PushOldest
      <3>3. QED BY <3>1, <3>2, <2>8
    <2>11. ASSUME NEW i \in 2..Len(n.lru) PROVE n.lru[i][1] > 0
      <3>1. i - 1 \in 1..Len(q)
        BY <2>8, <2>3
      <3>2. QED BY <3>1, <2>10, <2>4
    <2>12. \A p \in DOMAIN n.cache : Kept(o, n, p) \/ Made(n, p)
      <3>1. \A p \in DOMAIN m.cache : ~Made(m, p)
        BY <1>5 DEF Made
      <3>2. \A p \in DOMAIN m.cache : Kept(o, m, p) /\ p # b
        BY <3>1, <1>2, <1>5
      <3>3. n.lru # <<>>
        BY <2>8, <2>3
      <3>4. QED BY <3>2, <3>3, <2>2, <2>5, <2>6, <2>10 DEF Kept, Made
    <2>13. /\ ~HasRoom(n, size)
           /\ n.lru[1][2] \in DOMAIN n.cache /\ n.cache[n.lru[1][2]].stamp = 0
      BY <2>10, <2>2, <2>5, <2>6 DEF HasRoom, Default
    <2>14. n.time = o.time /\ n.total <= o.total
           /\ n.total - Used(n.cache) = o.total - Used(o.cache)
      BY <2>2, <2>7, <1>2
    <2>15. QED BY <2>8, <2>9, <2>11, <2>12, <2>13, <2>14, <1>2 DEF LoopInv
  <1>6. ASSUME m.lru # <<>>,
               NEW b \in DOMAIN m.cache, m.lru[1][2] = b,
               m.lru[1][1] = m.cache[b].stamp,
               n = [m EXCEPT !.lru = Tail(m.lru), !.total = m.total - m.cache[b].size,
                             !.cache = Without(m.cache, b)]
        PROVE  LoopInv(o, n, size)
    <2> DEFINE q == Tail(m.lru)
               f == Without(m.cache, b)
               k == m.cache[b].size
    <2>1. n = [cache |-> f, lru |-> q, time |-> m.time, total |-> m.total - k,
               wild |-> m.wild]
      BY <1>1, <1>6
    <2>2. /\ q \in Seq(Queued) /\ InOrder(q) /\ Len(q) = Len(m.lru) - 1
          /\ Len(m.lru) \in Nat /\ \A i \in 1..Len(q) : q[i] = m.lru[i + 1]
      BY <1>1, <1>2, <1>6, TailFacts
    <2>3. \A i \in 1..Len(q) : q[i][1] > 0
      <3> SUFFICES ASSUME NEW i \in 1..Len(q) PROVE q[i][1] > 0
        OBVIOUS
      <3> HIDE DEF q
      <3>1. i + 1 \in 2..Len(m.lru)
        BY <2>2
      <3>2. QED BY <3>1, <2>2, <1>2
    <2>4. /\ Used(m.cache) = k + Used(f) /\ Used(f) \in Nat /\ k \in Nat
          /\ IsAnswers(f)
      BY <1>1, <1>6, UsedSplits
    <2>5. DOMAIN f = DOMAIN m.cache \ {b} /\ \A p \in DOMAIN f : f[p] = m.cache[p]
      BY DEF Without
    <2> HIDE DEF n, q, f, k
    <2>6. /\ m.total - k \in Nat /\ m.total - k <= o.total
          /\ m.total - k - Used(f) = o.total - Used(o.cache)
      BY <2>4, <1>1, <1>2
    <2>7. IsMemory(n)
      BY <2>1, <2>2, <2>4, <2>5, <2>6, <1>1 DEF IsMemory
    <2>8. \A p \in DOMAIN n.cache : Kept(o, n, p)
      <3>1. \A p \in DOMAIN m.cache : Made(m, p) => p = b
        BY <1>6 DEF Made
      <3>2. QED BY <3>1, <2>1, <2>5, <1>2 DEF Kept
    <2>9. /\ \A i \in 2..Len(n.lru) : n.lru[i][1] > 0
          /\ n.lru # <<>> => n.lru[1][1] > 0
      <3>1. n.lru # <<>> => 1 \in 1..Len(q)
        BY <2>1, <2>2
      <3>2. \A i \in 2..Len(q) : i \in 1..Len(q)
        BY <2>2
      <3>3. QED BY <3>1, <3>2, <2>1, <2>3
    <2>10. QED BY <2>1, <2>2, <2>6, <2>7, <2>8, <2>9, <1>2 DEF LoopInv
  <1> HIDE DEF n
  <1>7. QED BY <1>3, <1>4, <1>5, <1>6, EvictCases DEF n

\* The loop starts with what it keeps.
LEMMA LoopStarts ==
    ASSUME NEW o, Ready(o), NEW size
    PROVE  LoopInv(o, o, size)
  <1>1. Used(o.cache) \in Nat
    BY UnitsFinite DEF Ready, IsMemory
  <1>2. Len(o.lru) \in Nat /\ (o.lru # <<>> => o.lru[1][1] > 0)
    <2>1. Len(o.lru) \in Nat /\ (o.lru # <<>> => Len(o.lru) # 0)
      BY DEF Ready, IsMemory
    <2>2. QED BY <2>1 DEF Ready, Settled
  <1>3. \A i \in 2..Len(o.lru) : o.lru[i][1] > 0
    <2>1. \A i \in 2..Len(o.lru) : i \in 1..Len(o.lru)
      BY <1>2
    <2>2. QED BY <2>1 DEF Ready, Settled
  <1>4. QED BY <1>1, <1>2, <1>3 DEF Ready, LoopInv, Kept, IsMemory

\* What is there after the loop, if it found room.
LEMMA LoopKeeps ==
    ASSUME NEW o, Ready(o), NEW size \in Nat, HasRoom(MakeRoom(o, size), size)
    PROVE  LET m == MakeRoom(o, size)
           IN  /\ LoopInv(o, m, size)
               /\ IsMemory(m) /\ Settled(m) /\ InOrder(m.lru)
               /\ \A b \in DOMAIN m.cache : Kept(o, m, b)
  <1> DEFINE last == MakeRoom(o, size)
  <1>1. o.lru \in Seq(Queued) /\ last = MakeRoom(o, size)
    BY DEF Ready, IsMemory
  <1> HIDE DEF last
  <1>2. PICK N \in Nat :
           /\ N = 3 * Len(o.lru) + 1
           /\ \E a : /\ a[0] = o
                     /\ \A n \in 0..(N - 1) : a[n + 1] = Turn(a[n], size)
                     /\ MakeRoom(o, size) = a[N]
    BY <1>1, LoopTurns, SMTT(30)
  <1>3. PICK a : /\ a[0] = o
                 /\ \A n \in 0..(N - 1) : a[n + 1] = Turn(a[n], size)
                 /\ MakeRoom(o, size) = a[N]
    BY <1>2
  <1> DEFINE T == {n \in Nat : n <= N => LoopInv(o, a[n], size)}
  <1>4. 0 \in T
    BY <1>3, LoopStarts
  <1>5. ASSUME NEW n \in T PROVE n + 1 \in T
    <2> SUFFICES ASSUME n + 1 <= N PROVE LoopInv(o, a[n + 1], size)
      OBVIOUS
    <2>1. n \in 0..(N - 1) /\ LoopInv(o, a[n], size)
      BY <1>1
    <2>2. a[n + 1] = Turn(a[n], size)
      BY <1>3, <2>1
    <2>3. QED BY <2>1, <2>2, EvictKeeps DEF Turn
  <1>6. T = Nat
    <2>1. T \in SUBSET Nat
      OBVIOUS
    <2> HIDE DEF T
    <2>2. QED BY <2>1, <1>4, <1>5, SetInduction
  <1> DEFINE m == MakeRoom(o, size)
  <1>7. LoopInv(o, m, size)
    BY <1>1, <1>3, <1>6
  <1> HIDE DEF m
  <1>8. HasRoom(m, size)
    BY DEF m
  <1>9. /\ m.lru \in Seq(Queued) /\ IsMemory(m) /\ InOrder(m.lru)
        /\ \A i \in 2..Len(m.lru) : m.lru[i][1] > 0
        /\ m.lru # <<>> => m.lru[1][1] # 0
        /\ \A b \in DOMAIN m.cache : Kept(o, m, b) \/ Made(m, b)
    BY <1>7, <1>8 DEF LoopInv, IsMemory
  <1>10. \A b \in DOMAIN m.cache : Kept(o, m, b)
    BY <1>9 DEF Made
  <1>11. \A i \in 1..Len(m.lru) : m.lru[i][1] > 0
    <2> SUFFICES ASSUME NEW i \in 1..Len(m.lru) PROVE m.lru[i][1] > 0
      OBVIOUS
    <2>1. CASE i = 1
      <3>1. m.lru # <<>> /\ m.lru[1] \in Queued
        BY <1>9, <2>1
      <3>2. m.lru[1][1] \in Nat
        BY <3>1, BeforeOrders
      <3>3. QED BY <3>1, <3>2, <1>9, <2>1
    <2>2. CASE i # 1
      <3>1. i \in 2..Len(m.lru)
        BY <2>2
      <3>2. QED BY <3>1, <1>9
    <2>3. QED BY <2>1, <2>2
  <1>12. Settled(m)
    BY <1>10, <1>11 DEF Settled, Kept, Ready
  <1>13. QED BY <1>7, <1>9, <1>10, <1>12 DEF m

-----------------------------------------------------------------------------
(* The loop erases what has gone longest without being used                *)

\* An entry of another pattern than the first stays in the queue.
LEMMA StaysQueued ==
    ASSUME NEW q \in Seq(Queued), q # <<>>, NEW j \in 1..Len(q), q[j][2] # q[1][2],
           NEW x \in Queued
    PROVE  /\ \E i \in 1..Len(Tail(q)) : Tail(q)[i] = q[j]
           /\ \E i \in 1..Len(Push(Tail(q), x)) : Push(Tail(q), x)[i] = q[j]
  <1>1. /\ Tail(q) \in Seq(Queued) /\ Len(q) \in Nat \ {0}
        /\ Len(Tail(q)) = Len(q) - 1 /\ q[j] = Tail(q)[j - 1] /\ j # 1
    BY TailFacts
  <1> DEFINE t == Tail(q)
  <1> HIDE DEF t
  <1>2. t \in Seq(Queued) /\ j - 1 \in 1..Len(t) /\ q[j] = t[j - 1]
    BY <1>1 DEF t
  <1>3. \E i \in 1..Len(Push(t, x)) : Push(t, x)[i] = t[j - 1]
    BY <1>2, PushEntries
  <1>4. QED BY <1>2, <1>3 DEF t

\* What was erased went longer unused than what is still there, and than any
\* answer that would make room for the new one.
OldestGone(o, m, size) ==
    /\ Findable(m)
    /\ \A p \in DOMAIN o.cache : ~Kept(o, m, p) => m.total + o.cache[p].size <= o.total
    /\ \A p, q \in DOMAIN o.cache :
          ~Kept(o, m, p) /\ (Kept(o, m, q) \/ o.cache[q].size >= size)
             => o.cache[p].stamp <= o.cache[q].stamp

\* One turn erases the entry that is out first, used when it was queued: none
\* that stays was used before.
LEMMA EvictOldest ==
    ASSUME NEW o, Ready(o), NEW m, NEW size \in Nat, LoopInv(o, m, size),
           OldestGone(o, m, size), ~HasRoom(m, size)
    PROVE  OldestGone(o, Evict(m), size)
  <1> DEFINE n == Evict(m)
  <1>1. /\ m = [cache |-> m.cache, lru |-> m.lru, time |-> m.time, total |-> m.total,
                wild |-> m.wild]
        /\ DOMAIN m.cache \subseteq Patterns /\ IsAnswers(m.cache)
        /\ m.lru \in Seq(Queued) /\ InOrder(m.lru) /\ m.total \in Nat
        /\ m.total <= o.total /\ o.total \in Nat
    BY DEF LoopInv, IsMemory
  <1>2. CASE m.lru = <<>> /\ Evict(m) = [m EXCEPT !.wild = TRUE]
    <2>1. n = [cache |-> m.cache, lru |-> m.lru, time |-> m.time, total |-> m.total,
               wild |-> TRUE]
      BY <1>1, <1>2
    <2> HIDE DEF n
    <2>2. QED BY <2>1 DEF OldestGone, Findable, Kept, n
  <1>3. ASSUME m.lru # <<>>,
               NEW b \in DOMAIN m.cache, m.lru[1][2] = b,
               m.lru[1][1] # m.cache[b].stamp,
               n = [m EXCEPT !.lru = Push(Tail(m.lru), <<m.cache[b].stamp, b>>)]
        PROVE  OldestGone(o, n, size)
    <2>1. PICK s \in 0..MaxTime : s = m.cache[b].stamp /\ <<s, b>> \in Queued
      BY <1>1, <1>3, BoundsAssumption DEF Entry, IsAnswers, Queued
    <2>2. PICK x \in Queued : x = <<s, b>> /\ x[1] = s /\ x[2] = b
      BY <2>1
    <2>3. n = [cache |-> m.cache, lru |-> Push(Tail(m.lru), x), time |-> m.time,
               total |-> m.total, wild |-> m.wild]
      BY <1>1, <1>3, <2>1, <2>2
    <2> HIDE DEF n
    <2>4. Findable(n)
      <3> SUFFICES ASSUME NEW p \in DOMAIN m.cache
                   PROVE  \E i \in 1..Len(n.lru) :
                             n.lru[i][2] = p /\ n.lru[i][1] <= m.cache[p].stamp
        BY <2>3 DEF Findable
      <3>1. CASE p = b
        <4>1. \E i \in 1..Len(n.lru) : n.lru[i] = x
          <5>1. Tail(m.lru) \in Seq(Queued)
            BY <1>1, <1>3, TailFacts
          <5>2. \E i \in 1..Len(Push(Tail(m.lru), x)) : Push(Tail(m.lru), x)[i] = x
            BY <5>1, PushEntries
          <5>3. QED BY <5>2, <2>3
        <4>2. QED BY <4>1, <3>1, <2>1, <2>2
      <3>2. CASE p # b
        <4>1. PICK j \in 1..Len(m.lru) :
                 m.lru[j][2] = p /\ m.lru[j][1] <= m.cache[p].stamp
          BY DEF OldestGone, Findable
        <4>2. \E i \in 1..Len(n.lru) : n.lru[i] = m.lru[j]
          <5>1. m.lru \in Seq(Queued) /\ m.lru # <<>> /\ m.lru[j][2] # m.lru[1][2]
            BY <1>1, <1>3, <4>1, <3>2
          <5>2. \E i \in 1..Len(Push(Tail(m.lru), x)) :
                   Push(Tail(m.lru), x)[i] = m.lru[j]
            BY <5>1, StaysQueued
          <5>3. QED BY <5>2, <2>3
        <4>3. QED BY <4>1, <4>2
      <3>3. QED BY <3>1, <3>2
    <2>5. QED BY <2>3, <2>4 DEF OldestGone, Kept
  <1>4. ASSUME m.lru # <<>>,
               NEW b \in Patterns \ DOMAIN m.cache, m.lru[1][2] = b, m.lru[1][1] # 0,
               n = [m EXCEPT !.lru = Push(Tail(m.lru), <<0, b>>),
                             !.cache = With(m.cache, b, Default)]
        PROVE  OldestGone(o, n, size)
    <2>1. PICK x \in Queued : x = <<0, b>> /\ x[1] = 0 /\ x[2] = b
      <3>1. 0 \in 0..MaxTime + 1 /\ b \in Patterns
        BY <1>4, BoundsAssumption
      <3>2. <<0, b>> \in Queued
        BY <3>1 DEF Queued
      <3>3. QED BY <3>2
    <2>2. n = [cache |-> With(m.cache, b, Default), lru |-> Push(Tail(m.lru), x),
               time |-> m.time, total |-> m.total, wild |-> m.wild]
      BY <1>1, <1>4, <2>1
    <2> HIDE DEF n
    <2>3. /\ \A p : p \in DOMAIN n.cache <=> p \in DOMAIN m.cache \/ p = b
          /\ n.cache[b] = Default
          /\ \A p \in DOMAIN m.cache : p # b => n.cache[p] = m.cache[p]
      BY <2>2 DEF With
    <2>4. Findable(n)
      <3> SUFFICES ASSUME NEW p \in DOMAIN n.cache
                   PROVE  \E i \in 1..Len(n.lru) :
                             n.lru[i][2] = p /\ n.lru[i][1] <= n.cache[p].stamp
        BY DEF Findable
      <3>1. CASE p = b
        <4>1. \E i \in 1..Len(n.lru) : n.lru[i] = x
          <5>1. Tail(m.lru) \in Seq(Queued)
            BY <1>1, <1>4, TailFacts
          <5>2. \E i \in 1..Len(Push(Tail(m.lru), x)) : Push(Tail(m.lru), x)[i] = x
            BY <5>1, PushEntries
          <5>3. QED BY <5>2, <2>2
        <4>2. QED BY <4>1, <3>1, <2>1, <2>3 DEF Default
      <3>2. CASE p # b
        <4>1. PICK j \in 1..Len(m.lru) :
                 m.lru[j][2] = p /\ m.lru[j][1] <= m.cache[p].stamp
          BY <2>3, <3>2 DEF OldestGone, Findable
        <4>2. \E i \in 1..Len(n.lru) : n.lru[i] = m.lru[j]
          <5>1. m.lru \in Seq(Queued) /\ m.lru # <<>> /\ m.lru[j][2] # m.lru[1][2]
            BY <1>1, <1>4, <4>1, <3>2
          <5>2. \E i \in 1..Len(Push(Tail(m.lru), x)) :
                   Push(Tail(m.lru), x)[i] = m.lru[j]
            BY <5>1, StaysQueued
          <5>3. QED BY <5>2, <2>2
        <4>3. QED BY <4>1, <4>2, <2>3, <3>2
      <3>3. QED BY <3>1, <3>2
    <2>5. \A p : Kept(o, m, p) => Kept(o, n, p)
      BY <2>3, <1>4 DEF Kept
    <2>6. \A p : Kept(o, n, p) => Kept(o, m, p) \/ p = b
      BY <2>3 DEF Kept
    <2>7. ~Kept(o, n, b)
      <3>1. ASSUME Kept(o, n, b) PROVE FALSE
        <4>1. b \in DOMAIN o.cache /\ o.cache[b].size = 0
          BY <3>1, <2>3 DEF Kept, Default
        <4>2. ItemSize[b] # 0
          BY <1>4, SizesAssumption
        <4>3. QED BY <4>1, <4>2 DEF Ready, Settled
      <3>2. QED BY <3>1
    <2>8. QED BY <2>2, <2>4, <2>5, <2>6, <2>7 DEF OldestGone
  <1>5. ASSUME m.lru # <<>>,
               NEW b \in DOMAIN m.cache, m.lru[1][2] = b,
               m.lru[1][1] = m.cache[b].stamp,
               n = [m EXCEPT !.lru = Tail(m.lru), !.total = m.total - m.cache[b].size,
                             !.cache = Without(m.cache, b)]
        PROVE  OldestGone(o, n, size)
    <2>1. n = [cache |-> Without(m.cache, b), lru |-> Tail(m.lru), time |-> m.time,
               total |-> m.total - m.cache[b].size, wild |-> m.wild]
      BY <1>1, <1>5
    <2> HIDE DEF n
    <2>2. /\ \A p : p \in DOMAIN n.cache <=> p \in DOMAIN m.cache /\ p # b
          /\ \A p \in DOMAIN n.cache : n.cache[p] = m.cache[p]
      BY <2>1 DEF Without
    <2>3. \A p : Kept(o, n, p) <=> Kept(o, m, p) /\ p # b
      BY <2>2 DEF Kept
    <2>4. \A p \in DOMAIN m.cache : m.cache[p].size \in Nat /\ m.cache[p].stamp \in Nat
      BY <1>1, BoundsAssumption DEF IsAnswers, Entry
    <2>5. \A p \in DOMAIN o.cache : o.cache[p].size \in Nat /\ o.cache[p].stamp \in Nat
      BY BoundsAssumption DEF Ready, IsMemory, IsAnswers, Entry
    <2>6. Findable(n)
      <3> SUFFICES ASSUME NEW p \in DOMAIN m.cache, p # b
                   PROVE  \E i \in 1..Len(n.lru) :
                             n.lru[i][2] = p /\ n.lru[i][1] <= m.cache[p].stamp
        BY <2>2 DEF Findable
      <3>1. PICK j \in 1..Len(m.lru) :
               m.lru[j][2] = p /\ m.lru[j][1] <= m.cache[p].stamp
        BY DEF OldestGone, Findable
      <3>2. PICK x \in Queued : x = m.lru[1]
        BY <1>1, <1>5, TailFacts
      <3>3. \E i \in 1..Len(n.lru) : n.lru[i] = m.lru[j]
        <4>1. m.lru \in Seq(Queued) /\ m.lru # <<>> /\ m.lru[j][2] # m.lru[1][2]
          BY <1>1, <1>5, <3>1
        <4>2. \E i \in 1..Len(Tail(m.lru)) : Tail(m.lru)[i] = m.lru[j]
          BY <4>1, <3>2, StaysQueued
        <4>3. QED BY <4>2, <2>1
      <3>4. QED BY <3>1, <3>3
    <2>7. ASSUME NEW p \in DOMAIN o.cache, ~Kept(o, n, p)
          PROVE  n.total + o.cache[p].size <= o.total
      <3>1. CASE ~Kept(o, m, p)
        <4>1. m.total + o.cache[p].size <= o.total
          BY <3>1 DEF OldestGone
        <4>2. QED BY <4>1, <2>1, <2>4, <2>5, <1>1, <1>5
      <3>2. CASE Kept(o, m, p)
        <4>1. p = b /\ m.cache[b] = o.cache[p]
          BY <3>2, <2>3, <2>7 DEF Kept
        <4>2. QED BY <4>1, <2>1, <2>4, <1>1, <1>5
      <3>3. QED BY <3>1, <3>2
    <2>8. ASSUME NEW p \in DOMAIN o.cache, NEW q \in DOMAIN o.cache, ~Kept(o, n, p),
                 Kept(o, n, q) \/ o.cache[q].size >= size
          PROVE  o.cache[p].stamp <= o.cache[q].stamp
      <3>1. CASE ~Kept(o, m, p)
        BY <3>1, <2>8, <2>3 DEF OldestGone
      <3>2. CASE Kept(o, m, p)
        <4>1. p = b /\ m.cache[b] = o.cache[p]
          BY <3>2, <2>3, <2>8 DEF Kept
        <4>2. Kept(o, m, q)
          <5>1. ASSUME ~Kept(o, m, q) PROVE FALSE
            <6>1. o.cache[q].size >= size /\ m.total + o.cache[q].size <= o.total
              BY <5>1, <2>8, <2>3 DEF OldestGone
            <6>2. TotalLimit \in Nat /\ o.total <= TotalLimit
              BY SizesAssumption DEF Ready
            <6>3. size + m.total <= TotalLimit
              BY <6>1, <6>2, <2>5, <1>1
            <6>4. QED BY <6>3 DEF HasRoom
          <5>2. QED BY <5>1
        <4>3. CASE q = b
          BY <4>1, <4>3, <2>5
        <4>4. CASE q # b
          <5>1. PICK j \in 1..Len(m.lru) :
                   m.lru[j][2] = q /\ m.lru[j][1] <= m.cache[q].stamp
            BY <4>2 DEF OldestGone, Findable, Kept
          <5>2. /\ m.lru[j] \in Queued /\ m.lru[1] \in Queued /\ j \in Nat /\ j # 1
                /\ 1 \in 1..Len(m.lru)
            BY <5>1, <4>4, <1>1, <1>5
          <5>3. Before(m.lru[1], m.lru[j])
            BY <5>2, <1>1 DEF InOrder
          <5>4. m.lru[1][1] <= m.lru[j][1] /\ m.lru[1][1] \in Nat /\ m.lru[j][1] \in Nat
            BY <5>2, <5>3, BeforeOrders
          <5>5. m.cache[q] = o.cache[q]
            BY <4>2 DEF Kept
          <5>6. QED BY <5>1, <5>4, <5>5, <4>1, <2>5, <1>5
        <4>5. QED BY <4>3, <4>4
      <3>3. QED BY <3>1, <3>2
    <2>9. QED BY <2>6, <2>7, <2>8 DEF OldestGone
  <1> HIDE DEF n
  <1>6. QED BY <1>2, <1>3, <1>4, <1>5, EvictCases DEF n

\* And so does the whole loop.
LEMMA LoopOldest ==
    ASSUME NEW o, Ready(o), Findable(o), NEW size \in Nat
    PROVE  OldestGone(o, MakeRoom(o, size), size)
  <1>1. o.lru \in Seq(Queued)
    BY DEF Ready, IsMemory
  <1> DEFINE last == MakeRoom(o, size)
  <1>2. last = MakeRoom(o, size)
    OBVIOUS
  <1> HIDE DEF last
  <1>3. PICK N \in Nat :
           /\ N = 3 * Len(o.lru) + 1
           /\ \E a : /\ a[0] = o
                     /\ \A n \in 0..(N - 1) : a[n + 1] = Turn(a[n], size)
                     /\ MakeRoom(o, size) = a[N]
    BY <1>1, <1>2, LoopTurns
  <1>4. PICK a : /\ a[0] = o
                 /\ \A n \in 0..(N - 1) : a[n + 1] = Turn(a[n], size)
                 /\ MakeRoom(o, size) = a[N]
    BY <1>3
  <1> DEFINE T == {n \in Nat : n <= N => LoopInv(o, a[n], size)
                                         /\ OldestGone(o, a[n], size)}
  <1>5. 0 \in T
    <2>1. OldestGone(o, o, size)
      BY DEF OldestGone, Kept
    <2>2. QED BY <2>1, <1>4, LoopStarts
  <1>6. ASSUME NEW n \in T PROVE n + 1 \in T
    <2> SUFFICES ASSUME n + 1 <= N
                 PROVE  LoopInv(o, a[n + 1], size) /\ OldestGone(o, a[n + 1], size)
      OBVIOUS
    <2>1. /\ n \in 0..(N - 1)
          /\ LoopInv(o, a[n], size) /\ OldestGone(o, a[n], size)
      BY <1>1
    <2>2. a[n + 1] = Turn(a[n], size)
      BY <1>4, <2>1
    <2>3. QED BY <2>1, <2>2, EvictKeeps, EvictOldest DEF Turn
  <1>7. T = Nat
    <2>1. T \in SUBSET Nat
      OBVIOUS
    <2> HIDE DEF T
    <2>2. QED BY <2>1, <1>5, <1>6, SetInduction
  <1>8. QED BY <1>1, <1>4, <1>7

-----------------------------------------------------------------------------
(* Where every answer is queued once, the loop finds room                  *)

\* One entry more, of another pattern.
LEMMA PushOnce ==
    ASSUME NEW q \in Seq(Queued), NEW x \in Queued,
           \A i, j \in 1..Len(q) : q[i][2] = q[j][2] => i = j,
           \A i \in 1..Len(q) : q[i][2] # x[2]
    PROVE  \A i, j \in 1..Len(Push(q, x)) : Push(q, x)[i][2] = Push(q, x)[j][2] => i = j
  <1> DEFINE p == Push(q, x)
  <1>1. Len(q) \in Nat
    OBVIOUS
  <1>2. PICK n \in 0..Len(q) : /\ Len(p) = Len(q) + 1
                               /\ p[n + 1] = x
                               /\ \A i \in 1..n : p[i] = q[i]
                               /\ \A i \in (n + 1)..Len(q) : p[i + 1] = q[i]
    BY PushFacts
  <1> HIDE DEF p
  <1> DEFINE k(i) == IF i <= n THEN i ELSE i - 1
  <1>3. ASSUME NEW i \in 1..Len(p), i # n + 1
        PROVE  k(i) \in 1..Len(q) /\ p[i] = q[k(i)]
    <2>1. CASE i <= n
      BY <2>1, <1>1, <1>2
    <2>2. CASE i > n
      <3>1. i - 1 \in (n + 1)..Len(q) /\ (i - 1) + 1 = i
        BY <2>2, <1>1, <1>2, <1>3
      <3>2. p[(i - 1) + 1] = q[i - 1]
        BY <3>1, <1>2
      <3>3. QED BY <2>2, <3>1, <3>2, <1>1
    <2>3. QED BY <2>1, <2>2
  <1>4. ASSUME NEW i \in 1..Len(p), NEW j \in 1..Len(p), p[i][2] = p[j][2]
        PROVE  i = j
    <2>1. CASE i = n + 1 /\ j = n + 1
      BY <2>1
    <2>2. CASE i = n + 1 /\ j # n + 1
      <3>1. PICK l \in 1..Len(q) : p[j] = q[l]
        BY <2>2, <1>3
      <3>2. QED BY <3>1, <2>2, <1>2, <1>4
    <2>3. CASE i # n + 1 /\ j = n + 1
      <3>1. PICK l \in 1..Len(q) : p[i] = q[l]
        BY <2>3, <1>3
      <3>2. QED BY <3>1, <2>3, <1>2, <1>4
    <2>4. CASE i # n + 1 /\ j # n + 1
      <3>1. PICK l \in 1..Len(q) : l = k(i) /\ p[i] = q[l]
        BY <2>4, <1>3
      <3>2. PICK r \in 1..Len(q) : r = k(j) /\ p[j] = q[r]
        BY <2>4, <1>3
      <3>3. l = r
        BY <3>1, <3>2, <1>4
      <3>4. QED BY <3>1, <3>2, <3>3, <2>4, <1>1, <1>2
    <2>5. QED BY <2>1, <2>2, <2>3, <2>4
  <1>5. QED BY <1>4 DEF p

\* Answers used since they were queued.
Stale(m) == {b \in DOMAIN m.cache : \A i \in 1..Len(m.lru) :
                m.lru[i][2] = b => m.lru[i][1] # m.cache[b].stamp}

\* How many turns the loop may still take.
TurnsLeft(m) == Cardinality(DOMAIN m.cache) + Cardinality(Stale(m))

\* The turns left are a number, at most two for an entry of the queue.
LEMMA TurnsLeftFacts ==
    ASSUME NEW m, IsMemory(m)
    PROVE  /\ IsFiniteSet(DOMAIN m.cache) /\ Cardinality(DOMAIN m.cache) \in Nat
           /\ IsFiniteSet(Stale(m)) /\ Cardinality(Stale(m)) \in Nat
           /\ Cardinality(Stale(m)) <= Cardinality(DOMAIN m.cache)
           /\ TurnsLeft(m) \in Nat
           /\ OnceEach(m) => TurnsLeft(m) <= 2 * Len(m.lru)
  <1>1. IsFiniteSet(DOMAIN m.cache) /\ Cardinality(DOMAIN m.cache) \in Nat
    BY FS_CardinalityType DEF IsMemory, IsAnswers
  <1>2. Stale(m) \in SUBSET DOMAIN m.cache
    BY DEF Stale
  <1>3. /\ IsFiniteSet(Stale(m)) /\ Cardinality(Stale(m)) \in Nat
        /\ Cardinality(Stale(m)) <= Cardinality(DOMAIN m.cache)
    BY <1>1, <1>2, FS_Subset, FS_CardinalityType
  <1>4. Len(m.lru) \in Nat
    BY DEF IsMemory
  <1>5. OnceEach(m) => Cardinality(DOMAIN m.cache) <= Len(m.lru)
    <2> SUFFICES ASSUME OnceEach(m)
                 PROVE  Cardinality(DOMAIN m.cache) <= Len(m.lru)
      OBVIOUS
    <2> DEFINE g == [i \in 1..Len(m.lru) |-> m.lru[i][2]]
    <2>1. g \in Surjection(1..Len(m.lru), DOMAIN m.cache)
      BY DEF Surjection, OnceEach
    <2>2. IsFiniteSet(1..Len(m.lru)) /\ Cardinality(1..Len(m.lru)) = Len(m.lru)
      <3>1. 1 \in Int /\ Len(m.lru) \in Int
        BY <1>4
      <3>2. /\ IsFiniteSet(1..Len(m.lru))
            /\ Cardinality(1..Len(m.lru))
                 = IF 1 > Len(m.lru) THEN 0 ELSE Len(m.lru) - 1 + 1
        BY <3>1, FS_Interval
      <3>3. QED BY <3>2, <1>4
    <2> HIDE DEF g
    <2>3. Cardinality(DOMAIN m.cache) <= Cardinality(1..Len(m.lru))
      BY <2>1, <2>2, FS_Surjection
    <2>4. QED BY <2>2, <2>3
  <1>6. QED BY <1>1, <1>3, <1>4, <1>5 DEF TurnsLeft

\* The loop as long as it has not found room: the counter is exact, and there
\* is a turn less to come with each.
Counting(m) == OnceEach(m) /\ m.total = Used(m.cache) /\ ~m.wild

\* Each turn keeps the count and leaves fewer turns: it erases an answer, or an
\* entry goes back with the time of its answer.
LEMMA EvictOnce ==
    ASSUME NEW o, NEW m, NEW size \in Nat, size <= TotalLimit, LoopInv(o, m, size),
           Counting(m), ~HasRoom(m, size)
    PROVE  Counting(Evict(m)) /\ TurnsLeft(Evict(m)) < TurnsLeft(m)
  <1> DEFINE n == Evict(m)
  <1>1. /\ m = [cache |-> m.cache, lru |-> m.lru, time |-> m.time, total |-> m.total,
                wild |-> m.wild]
        /\ DOMAIN m.cache \subseteq Patterns /\ IsAnswers(m.cache)
        /\ m.lru \in Seq(Queued) /\ m.total \in Nat /\ IsMemory(m)
        /\ OnceEach(m) /\ m.total = Used(m.cache) /\ m.wild = FALSE
    BY DEF LoopInv, IsMemory, Counting
  <1>2. IsMemory(n)
    BY EvictKeeps DEF LoopInv
  <1>3. m.lru # <<>>
    <2> SUFFICES ASSUME m.lru = <<>> PROVE FALSE
      OBVIOUS
    <2>1. Len(m.lru) = 0
      OBVIOUS
    <2>2. DOMAIN m.cache = {}
      BY <2>1, <1>1 DEF OnceEach
    <2>3. Units(m.cache) = {}
      BY <2>2 DEF Units
    <2>4. m.total = 0
      BY <2>3, <1>1, FS_EmptySet DEF Used
    <2>5. QED BY <2>4, SizesAssumption DEF HasRoom
  <1>4. /\ Tail(m.lru) \in Seq(Queued) /\ Len(m.lru) \in Nat \ {0}
        /\ Len(Tail(m.lru)) = Len(m.lru) - 1
        /\ \A i \in 1..Len(Tail(m.lru)) : Tail(m.lru)[i] = m.lru[i + 1]
        /\ \A i \in 1..Len(m.lru) : i = 1 \/ m.lru[i] = Tail(m.lru)[i - 1]
    BY <1>1, <1>3, TailFacts
  <1> DEFINE t == Tail(m.lru)
  <1> HIDE DEF t
  <1>5. /\ t \in Seq(Queued) /\ Len(t) \in Nat
        /\ \A i, j \in 1..Len(t) : t[i][2] = t[j][2] => i = j
        /\ \A i \in 1..Len(t) : /\ t[i][2] # m.lru[1][2] /\ t[i][2] \in DOMAIN m.cache
                                /\ t[i] = m.lru[i + 1] /\ i + 1 \in 1..Len(m.lru)
        /\ \A i \in 1..Len(m.lru) :
              i = 1 \/ (m.lru[i] = t[i - 1] /\ i - 1 \in 1..Len(t))
    <2>1. /\ t \in Seq(Queued) /\ Len(t) \in Nat /\ Len(t) = Len(m.lru) - 1
          /\ 1 \in 1..Len(m.lru)
      BY <1>4 DEF t
    <2>2. \A i \in 1..Len(t) : t[i] = m.lru[i + 1] /\ i + 1 \in 1..Len(m.lru)
                                /\ i + 1 # 1
      BY <2>1, <1>4 DEF t
    <2>3. ASSUME NEW i \in 1..Len(t)
          PROVE  t[i][2] # m.lru[1][2] /\ t[i][2] \in DOMAIN m.cache
      <3>1. PICK k \in 1..Len(m.lru) : k = i + 1 /\ t[i] = m.lru[k] /\ k # 1
        BY <2>2
      <3>2. m.lru[k][2] \in DOMAIN m.cache
        BY <1>1 DEF OnceEach
      <3>3. m.lru[k][2] # m.lru[1][2]
        BY <3>1, <2>1, <1>1 DEF OnceEach
      <3>4. QED BY <3>1, <3>2, <3>3
    <2>4. ASSUME NEW i \in 1..Len(t), NEW j \in 1..Len(t), t[i][2] = t[j][2]
          PROVE  i = j
      <3>1. i + 1 = j + 1
        <4>1. PICK k \in 1..Len(m.lru) : k = i + 1 /\ t[i] = m.lru[k]
          BY <2>2
        <4>2. PICK l \in 1..Len(m.lru) : l = j + 1 /\ t[j] = m.lru[l]
          BY <2>2
        <4>3. m.lru[k][2] = m.lru[l][2]
          BY <4>1, <4>2, <2>4
        <4>4. k = l
          BY <4>3, <1>1 DEF OnceEach
        <4>5. QED BY <4>1, <4>2, <4>4
      <3>2. QED BY <3>1
    <2>5. ASSUME NEW i \in 1..Len(m.lru), i # 1
          PROVE  m.lru[i] = t[i - 1] /\ i - 1 \in 1..Len(t)
      BY <2>1, <2>5, <1>4 DEF t
    <2>6. QED BY <2>1, <2>2, <2>3, <2>4, <2>5
  <1>6. PICK b \in DOMAIN m.cache : b = m.lru[1][2]
    BY <1>1, <1>4 DEF OnceEach
  <1>7. /\ IsFiniteSet(DOMAIN m.cache) /\ Cardinality(DOMAIN m.cache) \in Nat
        /\ IsFiniteSet(Stale(m)) /\ Cardinality(Stale(m)) \in Nat
    BY <1>1, TurnsLeftFacts
  <1>8. CASE m.lru[1][1] # m.cache[b].stamp
    <2>1. n = [m EXCEPT !.lru = Push(t, <<m.cache[b].stamp, b>>)]
      <3>1. PICK c \in DOMAIN m.cache :
               /\ m.lru[1][2] = c
               /\ Evict(m) = [m EXCEPT !.lru = Push(Tail(m.lru), <<m.cache[c].stamp, c>>)]
        <4> HIDE DEF n
        <4>1. ASSUME NEW c \in Patterns \ DOMAIN m.cache, m.lru[1][2] = c PROVE FALSE
          BY <4>1, <1>6
        <4>2. ASSUME NEW c \in DOMAIN m.cache, m.lru[1][2] = c,
                     m.lru[1][1] = m.cache[c].stamp
              PROVE  FALSE
          BY <4>2, <1>6, <1>8
        <4>3. QED BY <4>1, <4>2, <1>3, EvictCases, Zenon
      <3>2. QED BY <3>1, <1>6 DEF t
    <2>2. PICK x \in Queued : x = <<m.cache[b].stamp, b>>
                              /\ x[1] = m.cache[b].stamp /\ x[2] = b
      <3>1. m.cache[b].stamp \in 0..MaxTime /\ b \in Patterns
        BY <1>1 DEF IsAnswers, Entry
      <3>2. <<m.cache[b].stamp, b>> \in Queued
        BY <3>1, BoundsAssumption DEF Queued
      <3>3. QED BY <3>2
    <2>3. n = [cache |-> m.cache, lru |-> Push(t, x), time |-> m.time,
               total |-> m.total, wild |-> m.wild]
      BY <1>1, <2>1, <2>2
    <2> HIDE DEF n
    <2>4. /\ \A i \in 1..Len(n.lru) : n.lru[i] = x \/ \E j \in 1..Len(t) : n.lru[i] = t[j]
          /\ \E i \in 1..Len(n.lru) : n.lru[i] = x
          /\ \A j \in 1..Len(t) : \E i \in 1..Len(n.lru) : n.lru[i] = t[j]
      <3>1. /\ \A i \in 1..Len(Push(t, x)) :
                  Push(t, x)[i] = x \/ \E j \in 1..Len(t) : Push(t, x)[i] = t[j]
            /\ \E i \in 1..Len(Push(t, x)) : Push(t, x)[i] = x
            /\ \A j \in 1..Len(t) : \E i \in 1..Len(Push(t, x)) : Push(t, x)[i] = t[j]
        BY <1>5, PushEntries
      <3>2. QED BY <3>1, <2>3
    <2>5. \A i, j \in 1..Len(n.lru) : n.lru[i][2] = n.lru[j][2] => i = j
      <3>1. \A i \in 1..Len(t) : t[i][2] # x[2]
        BY <1>5, <1>6, <2>2
      <3>2. \A i, j \in 1..Len(Push(t, x)) :
               Push(t, x)[i][2] = Push(t, x)[j][2] => i = j
        BY <3>1, <1>5, PushOnce
      <3>3. QED BY <3>2, <2>3
    <2>6. OnceEach(n)
      <3>1. \A i \in 1..Len(n.lru) : n.lru[i][2] \in DOMAIN n.cache
        <4> SUFFICES ASSUME NEW i \in 1..Len(n.lru)
                     PROVE  n.lru[i][2] \in DOMAIN m.cache
          BY <2>3
        <4>1. CASE n.lru[i] = x
          BY <4>1, <2>2
        <4>2. CASE \E j \in 1..Len(t) : n.lru[i] = t[j]
          BY <4>2, <1>5
        <4>3. QED BY <4>1, <4>2, <2>4
      <3>2. ASSUME NEW p \in DOMAIN n.cache
            PROVE  \E i \in 1..Len(n.lru) : n.lru[i][2] = p
        <4>1. CASE p = b
          BY <4>1, <2>2, <2>4
        <4>2. CASE p # b
          <5>1. PICK j \in 1..Len(m.lru) : m.lru[j][2] = p
            BY <1>1, <2>3 DEF OnceEach
          <5>2. j - 1 \in 1..Len(t) /\ t[j - 1][2] = p
            BY <5>1, <4>2, <1>5, <1>6
          <5>3. QED BY <5>2, <2>4
        <4>3. QED BY <4>1, <4>2
      <3>3. QED BY <3>1, <3>2, <2>5 DEF OnceEach
    <2>7. b \in Stale(m) /\ b \notin Stale(n)
      <3>1. \A i \in 1..Len(m.lru) : m.lru[i][2] = b => i = 1
        BY <1>5, <1>6
      <3>2. b \in Stale(m)
        BY <3>1, <1>8 DEF Stale
      <3>3. b \notin Stale(n)
        BY <2>2, <2>3, <2>4 DEF Stale
      <3>4. QED BY <3>2, <3>3
    <2>8. ASSUME NEW p \in Stale(n) PROVE p \in Stale(m)
      <3>1. p # b /\ p \in DOMAIN m.cache
        BY <2>7, <2>3 DEF Stale
      <3>2. ASSUME NEW i \in 1..Len(m.lru), m.lru[i][2] = p
            PROVE  m.lru[i][1] # m.cache[p].stamp
        <4>1. i - 1 \in 1..Len(t) /\ m.lru[i] = t[i - 1]
          BY <3>1, <3>2, <1>5, <1>6
        <4>2. PICK j \in 1..Len(n.lru) : n.lru[j] = m.lru[i]
          BY <4>1, <2>4
        <4>3. QED BY <4>2, <3>2, <2>3, <2>8 DEF Stale
      <3>3. QED BY <3>1, <3>2 DEF Stale
    <2>9. Cardinality(Stale(n)) < Cardinality(Stale(m)) /\ Cardinality(Stale(n)) \in Nat
      <3>1. Stale(n) \in SUBSET Stale(m) /\ Stale(n) # Stale(m)
        BY <2>7, <2>8
      <3>2. /\ Cardinality(Stale(n)) <= Cardinality(Stale(m))
            /\ Cardinality(Stale(n)) # Cardinality(Stale(m))
            /\ Cardinality(Stale(n)) \in Nat
        BY <3>1, <1>7, FS_Subset, FS_CardinalityType
      <3>3. QED BY <3>2, <1>7
    <2>10. QED BY <2>3, <2>6, <2>9, <1>1, <1>7 DEF Counting, TurnsLeft, n
  <1>9. CASE m.lru[1][1] = m.cache[b].stamp
    <2>1. n = [m EXCEPT !.lru = t, !.total = m.total - m.cache[b].size,
                        !.cache = Without(m.cache, b)]
      <3>1. PICK c \in DOMAIN m.cache :
               /\ m.lru[1][2] = c
               /\ Evict(m) = [m EXCEPT !.lru = Tail(m.lru),
                                       !.total = m.total - m.cache[c].size,
                                       !.cache = Without(m.cache, c)]
        <4> HIDE DEF n
        <4>1. ASSUME NEW c \in Patterns \ DOMAIN m.cache, m.lru[1][2] = c PROVE FALSE
          BY <4>1, <1>6
        <4>2. ASSUME NEW c \in DOMAIN m.cache, m.lru[1][2] = c,
                     m.lru[1][1] # m.cache[c].stamp
              PROVE  FALSE
          BY <4>2, <1>6, <1>9
        <4>3. QED BY <4>1, <4>2, <1>3, EvictCases, Zenon
      <3>2. QED BY <3>1, <1>6 DEF t
    <2>2. n = [cache |-> Without(m.cache, b), lru |-> t, time |-> m.time,
               total |-> m.total - m.cache[b].size, wild |-> m.wild]
      BY <1>1, <2>1
    <2> HIDE DEF n
    <2>3. DOMAIN n.cache = DOMAIN m.cache \ {b}
          /\ \A p \in DOMAIN n.cache : n.cache[p] = m.cache[p]
      BY <2>2 DEF Without
    <2>4. n.total = Used(n.cache)
      <3>1. /\ Used(m.cache) = m.cache[b].size + Used(Without(m.cache, b))
            /\ Used(Without(m.cache, b)) \in Nat /\ m.cache[b].size \in Nat
        BY <1>1, UsedSplits
      <3>2. QED BY <3>1, <2>2, <1>1
    <2>5. OnceEach(n)
      <3>1. \A i \in 1..Len(n.lru) : n.lru[i][2] \in DOMAIN n.cache
        BY <2>2, <2>3, <1>5, <1>6
      <3>2. ASSUME NEW p \in DOMAIN n.cache
            PROVE  \E i \in 1..Len(n.lru) : n.lru[i][2] = p
        <4>1. PICK j \in 1..Len(m.lru) : m.lru[j][2] = p
          BY <1>1, <2>3 DEF OnceEach
        <4>2. j - 1 \in 1..Len(t) /\ t[j - 1][2] = p
          BY <4>1, <2>3, <1>5, <1>6
        <4>3. QED BY <4>2, <2>2
      <3>3. \A i, j \in 1..Len(n.lru) : n.lru[i][2] = n.lru[j][2] => i = j
        BY <2>2, <1>5
      <3>4. QED BY <3>1, <3>2, <3>3 DEF OnceEach
    <2>6. ASSUME NEW p \in Stale(n) PROVE p \in Stale(m)
      <3>1. p # b /\ p \in DOMAIN m.cache /\ n.cache[p] = m.cache[p]
        BY <2>3 DEF Stale
      <3>2. ASSUME NEW i \in 1..Len(m.lru), m.lru[i][2] = p
            PROVE  m.lru[i][1] # m.cache[p].stamp
        <4>1. i - 1 \in 1..Len(t) /\ m.lru[i] = t[i - 1]
          BY <3>1, <3>2, <1>5, <1>6
        <4>2. QED BY <4>1, <3>1, <3>2, <2>2, <2>6 DEF Stale
      <3>3. QED BY <3>1, <3>2 DEF Stale
    <2>7. Cardinality(Stale(n)) <= Cardinality(Stale(m)) /\ Cardinality(Stale(n)) \in Nat
      <3>1. Stale(n) \in SUBSET Stale(m)
        BY <2>6
      <3>2. QED BY <3>1, <1>7, FS_Subset, FS_CardinalityType
    <2>8. Cardinality(DOMAIN n.cache) = Cardinality(DOMAIN m.cache) - 1
      BY <2>3, <1>7, FS_RemoveElement
    <2>9. QED BY <2>2, <2>4, <2>5, <2>7, <2>8, <1>1, <1>7 DEF Counting, TurnsLeft, n
  <1> HIDE DEF n
  <1>10. QED BY <1>8, <1>9 DEF n

\* So the loop ends, and ends with room for an answer that is within the limit.
LEMMA LoopEnds ==
    ASSUME NEW o, Ready(o), Counting(o), NEW size \in Nat, size <= TotalLimit
    PROVE  HasRoom(MakeRoom(o, size), size) /\ Counting(MakeRoom(o, size))
  <1> DEFINE last == MakeRoom(o, size)
  <1>1. o.lru \in Seq(Queued) /\ last = MakeRoom(o, size)
    BY DEF Ready, IsMemory
  <1> HIDE DEF last
  <1>2. PICK N \in Nat :
           /\ N = 3 * Len(o.lru) + 1
           /\ \E a : /\ a[0] = o
                     /\ \A n \in 0..(N - 1) : a[n + 1] = Turn(a[n], size)
                     /\ MakeRoom(o, size) = a[N]
    BY <1>1, LoopTurns, SMTT(30)
  <1>3. PICK a : /\ a[0] = o
                 /\ \A n \in 0..(N - 1) : a[n + 1] = Turn(a[n], size)
                 /\ MakeRoom(o, size) = a[N]
    BY <1>2
  <1> DEFINE Goes(n) == /\ LoopInv(o, a[n], size) /\ Counting(a[n])
                        /\ HasRoom(a[n], size) \/ TurnsLeft(a[n]) + n <= TurnsLeft(o)
             T == {n \in Nat : n <= N => Goes(n)}
  <1>4. TurnsLeft(o) \in Nat /\ TurnsLeft(o) <= 2 * Len(o.lru) /\ Len(o.lru) \in Nat
    BY <1>1, TurnsLeftFacts DEF Ready, Counting
  <1>5. 0 \in T
    BY <1>3, <1>4, LoopStarts
  <1>6. ASSUME NEW n \in T PROVE n + 1 \in T
    <2> SUFFICES ASSUME n + 1 <= N PROVE Goes(n + 1)
      OBVIOUS
    <2>1. n \in 0..(N - 1) /\ Goes(n) /\ a[n + 1] = Turn(a[n], size)
      BY <1>3
    <2>2. CASE HasRoom(a[n], size)
      <3>1. a[n + 1] = a[n]
        BY <2>1, <2>2 DEF Turn
      <3>2. QED BY <3>1, <2>1, <2>2
    <2>3. CASE ~HasRoom(a[n], size)
      <3>1. a[n + 1] = Evict(a[n])
        BY <2>1, <2>3 DEF Turn, Counting
      <3>2. /\ LoopInv(o, Evict(a[n]), size) /\ Counting(Evict(a[n]))
            /\ TurnsLeft(Evict(a[n])) < TurnsLeft(a[n])
        BY <2>1, <2>3, EvictKeeps, EvictOnce
      <3>3. TurnsLeft(Evict(a[n])) \in Nat /\ TurnsLeft(a[n]) \in Nat
        BY <2>1, <3>2, TurnsLeftFacts DEF LoopInv
      <3>4. TurnsLeft(Evict(a[n])) + (n + 1) <= TurnsLeft(o)
        BY <2>1, <2>3, <3>2, <3>3, <1>4
      <3>5. QED BY <3>1, <3>2, <3>4
    <2>4. QED BY <2>2, <2>3
  <1>7. T = Nat
    <2>1. T \in SUBSET Nat
      OBVIOUS
    <2> HIDE DEF T
    <2>2. QED BY <2>1, <1>5, <1>6, SetInduction
  <1>8. Goes(N)
    BY <1>7
  <1>9. TurnsLeft(a[N]) \in Nat
    BY <1>8, TurnsLeftFacts DEF LoopInv
  <1>10. HasRoom(a[N], size)
    BY <1>2, <1>4, <1>8, <1>9
  <1>11. QED BY <1>3, <1>8, <1>10

-----------------------------------------------------------------------------
(* The new answer                                                          *)

\* The memory used is a matter of the sizes.
LEMMA SameSizes ==
    ASSUME NEW f, NEW g, DOMAIN f = DOMAIN g, \A p \in DOMAIN f : f[p].size = g[p].size
    PROVE  Used(f) = Used(g)
  <1>1. Units(f) = Units(g)
    BY DEF Units
  <1>2. QED BY <1>1 DEF Used

\* The new answer is stored, queued and counted; when the clock starts again all
\* answers are as old as the next.
LEMMA AddFacts ==
    ASSUME NEW m, IsMemory(m), Settled(m), InOrder(m.lru), Used(m.cache) <= m.total,
           NEW b \in Patterns, HasRoom(m, ItemSize[b]), NEW ans \in AnsType
    PROVE  LET r == Add(m, b, ans)
           IN  /\ Ready(r) /\ ~r.wild
               /\ \A p : p \in DOMAIN r.cache <=> p \in DOMAIN m.cache \/ p = b
               /\ \A p \in DOMAIN m.cache : p # b => r.cache[p].ans = m.cache[p].ans
               /\ r.cache[b].ans = ans
               /\ r.lru = Push(m.lru, <<m.time + 1, b>>)
               /\ m.time + 1 < MaxTime =>
                    /\ r.time = m.time + 1
                    /\ r.cache[b].stamp = m.time + 1
                    /\ \A p \in DOMAIN m.cache : p # b => r.cache[p] = m.cache[p]
               /\ b \notin DOMAIN m.cache /\ m.total = Used(m.cache)
                    => r.total = Used(r.cache)
  <1> DEFINE r == Add(m, b, ans)
             t == m.time + 1
             e == [ans |-> ans, size |-> ItemSize[b], stamp |-> t]
             f == With(m.cache, b, e)
             z == [p \in DOMAIN f |-> [f[p] EXCEPT !.stamp = 0]]
             g == IF t >= MaxTime THEN z ELSE f
             q == Push(m.lru, <<t, b>>)
  <1>1. /\ DOMAIN m.cache \subseteq Patterns /\ IsAnswers(m.cache)
        /\ m.lru \in Seq(Queued) /\ m.time \in 0..MaxTime /\ m.total \in Nat
    BY DEF IsMemory
  <1>2. /\ r = [cache |-> g, lru |-> q, total |-> m.total + ItemSize[b],
                time |-> IF t >= MaxTime THEN 0 ELSE t, wild |-> FALSE]
        /\ MaxTime \in Nat \ {0} /\ ItemSize[b] \in Nat \ {0} /\ TotalLimit \in Nat
    BY BoundsAssumption, SizesAssumption DEF Add
  <1>3. t \in Nat \ {0} /\ t \in 1..MaxTime + 1
    BY <1>1, <1>2
  <1>4. PICK x \in Queued : x = <<t, b>> /\ x[1] = t /\ x[2] = b
    <2>1. <<t, b>> \in Queued
      BY <1>3 DEF Queued
    <2>2. QED BY <2>1
  <1> HIDE DEF r
  <1>5. /\ \A p : p \in DOMAIN f <=> p \in DOMAIN m.cache \/ p = b
        /\ IsFiniteSet(DOMAIN f) /\ f[b] = e
        /\ \A p \in DOMAIN m.cache : p # b => f[p] = m.cache[p]
        /\ Without(f, b) = Without(m.cache, b)
    <2> HIDE DEF e
    <2>1. DOMAIN f = DOMAIN m.cache \cup {b}
      BY DEF With
    <2>2. IsFiniteSet(DOMAIN f)
      BY <2>1, <1>1, FS_AddElement DEF IsAnswers
    <2>3. Without(f, b) = Without(m.cache, b)
      BY DEF With, Without
    <2>4. QED BY <2>1, <2>2, <2>3 DEF With
  <1>6. ASSUME NEW p \in DOMAIN f
        PROVE  /\ f[p].ans \in AnsType /\ f[p].size \in Nat /\ f[p].stamp \in Nat
               /\ f[p] = [ans |-> f[p].ans, size |-> f[p].size, stamp |-> f[p].stamp]
               /\ f[p].size = ItemSize[p]
               /\ p = b \/ f[p].stamp <= MaxTime
               /\ p \in Patterns
    <2>1. CASE p = b
      BY <2>1, <1>2, <1>3, <1>5
    <2>2. CASE p # b
      <3>1. p \in DOMAIN m.cache /\ f[p] = m.cache[p]
        BY <2>2, <1>5
      <3>2. m.cache[p] \in Entry /\ m.cache[p].size = ItemSize[p]
        BY <3>1, <1>1 DEF IsAnswers, Settled
      <3>3. QED BY <3>1, <3>2, <1>1, <1>2 DEF Entry
    <2>3. QED BY <2>1, <2>2
  <1> HIDE DEF f, e
  <1>7. /\ DOMAIN g = DOMAIN f
        /\ \A p \in DOMAIN f : /\ g[p] \in Entry /\ g[p].size = f[p].size
                               /\ g[p].ans = f[p].ans
        /\ t < MaxTime => g = f
    <2>1. CASE t >= MaxTime
      <3>1. DOMAIN g = DOMAIN f /\ \A p \in DOMAIN f : g[p] = [f[p] EXCEPT !.stamp = 0]
        BY <2>1
      <3>2. \A p \in DOMAIN f :
               g[p] = [ans |-> f[p].ans, size |-> f[p].size, stamp |-> 0]
        BY <3>1, <1>6
      <3>3. 0 \in 0..MaxTime
        BY <1>2
      <3> HIDE DEF g
      <3>4. QED BY <2>1, <3>1, <3>2, <3>3, <1>6, <1>2, <1>3 DEF Entry
    <2>2. CASE t < MaxTime
      <3>1. g = f
        BY <2>2, <1>2, <1>3
      <3>2. f[b].stamp = t \/ b \notin DOMAIN f
        BY <1>5 DEF e
      <3>3. \A p \in DOMAIN f : f[p].stamp \in 0..MaxTime
        BY <3>2, <2>2, <1>2, <1>3, <1>6
      <3> HIDE DEF g
      <3>4. QED BY <3>1, <3>3, <1>6 DEF Entry
    <2>3. QED BY <2>1, <2>2, <1>2, <1>3
  <1> HIDE DEF g
  <1>8. f = [p \in DOMAIN f |-> f[p]] /\ g = [p \in DOMAIN g |-> g[p]]
    BY DEF f, g, With
  <1>9. IsAnswers(g)
    BY <1>5, <1>7, <1>8 DEF IsAnswers
  <1>10. /\ q \in Seq(Queued) /\ InOrder(q)
         /\ \A i \in 1..Len(q) : q[i] = x \/ \E j \in 1..Len(m.lru) : q[i] = m.lru[j]
    <2>1. m.lru \in Seq(Queued) /\ InOrder(m.lru) /\ q = Push(m.lru, x)
      BY <1>1, <1>4
    <2> HIDE DEF q
    <2>2. Push(m.lru, x) \in Seq(Queued)
      BY <2>1, PushFacts
    <2>3. InOrder(Push(m.lru, x))
      BY <2>1, PushInOrder
    <2>4. \A i \in 1..Len(Push(m.lru, x)) :
             Push(m.lru, x)[i] = x \/ \E j \in 1..Len(m.lru) : Push(m.lru, x)[i] = m.lru[j]
      BY <2>1, PushEntries
    <2>5. QED BY <2>1, <2>2, <2>3, <2>4
  <1> HIDE DEF q
  <1>11. /\ r.cache = g /\ r.lru = q /\ r.total = m.total + ItemSize[b]
         /\ r.time = IF t >= MaxTime THEN 0 ELSE t
         /\ r.wild = FALSE
         /\ r = [cache |-> r.cache, lru |-> r.lru, time |-> r.time, total |-> r.total,
                 wild |-> r.wild]
    BY <1>2
  <1>12. IsMemory(r)
    <2>1. DOMAIN g \subseteq Patterns
      BY <1>6, <1>7
    <2>2. r.time \in 0..MaxTime /\ r.total \in Nat
      BY <1>1, <1>2, <1>3, <1>11
    <2>3. QED BY <2>1, <2>2, <1>9, <1>10, <1>11 DEF IsMemory
  <1>13. Settled(r)
    <2>1. \A i \in 1..Len(q) : q[i][1] > 0
      <3> SUFFICES ASSUME NEW i \in 1..Len(q) PROVE q[i][1] > 0
        OBVIOUS
      <3>1. CASE q[i] = x
        BY <3>1, <1>3, <1>4
      <3>2. CASE \E j \in 1..Len(m.lru) : q[i] = m.lru[j]
        BY <3>2 DEF Settled
      <3>3. QED BY <3>1, <3>2, <1>10
    <2>2. QED BY <2>1, <1>6, <1>7, <1>11 DEF Settled
  <1>14. /\ Used(g) = ItemSize[b] + Used(Without(m.cache, b))
         /\ Used(Without(m.cache, b)) \in Nat
         /\ Used(m.cache) \in Nat /\ Used(Without(m.cache, b)) <= Used(m.cache)
         /\ b \notin DOMAIN m.cache => Used(m.cache) = Used(Without(m.cache, b))
    <2>1. b \in DOMAIN g /\ g[b].size = ItemSize[b]
      BY <1>5, <1>6, <1>7
    <2>2. Used(g) = g[b].size + Used(Without(g, b)) /\ Used(Without(g, b)) \in Nat
      BY <2>1, <1>9, UsedSplits
    <2>3. Used(Without(g, b)) = Used(Without(m.cache, b))
      <3>1. /\ DOMAIN Without(g, b) = DOMAIN Without(f, b)
            /\ \A p \in DOMAIN Without(g, b) :
                  Without(g, b)[p].size = Without(f, b)[p].size
        BY <1>7 DEF Without
      <3>2. Used(Without(g, b)) = Used(Without(f, b))
        BY <3>1, SameSizes
      <3>3. QED BY <3>2, <1>5
    <2>4. Used(m.cache) \in Nat
      BY <1>1, UnitsFinite
    <2>5. CASE b \in DOMAIN m.cache
      <3>1. /\ Used(m.cache) = m.cache[b].size + Used(Without(m.cache, b))
            /\ m.cache[b].size \in Nat
        BY <2>5, <1>1, UsedSplits
      <3>2. QED BY <3>1, <2>1, <2>2, <2>3, <2>4, <2>5
    <2>6. CASE b \notin DOMAIN m.cache
      <3>1. Without(m.cache, b) = m.cache
        <4>1. DOMAIN m.cache \ {b} = DOMAIN m.cache
          BY <2>6
        <4>2. m.cache = [p \in DOMAIN m.cache |-> m.cache[p]]
          BY <1>1 DEF IsAnswers
        <4>3. QED BY <4>1, <4>2 DEF Without
      <3>2. QED BY <3>1, <2>1, <2>2, <2>3, <2>4
    <2>7. QED BY <2>5, <2>6
  <1>15. Used(r.cache) <= r.total /\ r.total <= TotalLimit
    <2>1. ItemSize[b] + m.total <= TotalLimit
      BY DEF HasRoom
    <2>2. QED BY <2>1, <1>1, <1>2, <1>11, <1>14
  <1>16. Ready(r)
    BY <1>10, <1>11, <1>12, <1>13, <1>15 DEF Ready
  <1>17. b \notin DOMAIN m.cache /\ m.total = Used(m.cache) => r.total = Used(r.cache)
    BY <1>1, <1>2, <1>11, <1>14
  <1>18. \A p : p \in DOMAIN r.cache <=> p \in DOMAIN m.cache \/ p = b
    BY <1>5, <1>7, <1>11
  <1>19. /\ r.cache[b].ans = ans
         /\ \A p \in DOMAIN m.cache : p # b => r.cache[p].ans = m.cache[p].ans
    BY <1>5, <1>7, <1>11 DEF e
  <1>20. ASSUME t < MaxTime
         PROVE  /\ r.time = t /\ r.cache[b].stamp = t
                /\ \A p \in DOMAIN m.cache : p # b => r.cache[p] = m.cache[p]
    BY <1>20, <1>2, <1>3, <1>5, <1>7, <1>11 DEF e
  <1>21. QED BY <1>11, <1>16, <1>17, <1>18, <1>19, <1>20 DEF q, r

-----------------------------------------------------------------------------
(* tryCaching                                                              *)

\* What tryCaching leaves is what the loop may start from, and every answer in
\* it is the new one or one that was there.
LEMMA TryCachingReady ==
    ASSUME NEW o, Ready(o), NEW b \in Patterns, NEW ans \in AnsType
    PROVE  LET r == TryCaching(o, b, ans)
           IN  /\ Ready(r)
               /\ \A p \in DOMAIN r.cache :
                     \/ p = b /\ r.cache[p].ans = ans
                     \/ p \in DOMAIN o.cache /\ r.cache[p].ans = o.cache[p].ans
  <1> DEFINE r == TryCaching(o, b, ans)
             m == MakeRoom(o, ItemSize[b])
  <1>1. ItemSize[b] \in Nat
    BY SizesAssumption
  <1>2. CASE HasRoom(m, ItemSize[b])
    <2>1. r = Add(m, b, ans)
      BY <1>2 DEF TryCaching
    <2>2. /\ IsMemory(m) /\ Settled(m) /\ InOrder(m.lru)
          /\ LoopInv(o, m, ItemSize[b])
          /\ \A p \in DOMAIN m.cache : Kept(o, m, p)
      BY <1>1, <1>2, LoopKeeps
    <2> HIDE DEF m
    <2>3. Used(m.cache) <= m.total
      <3>1. /\ m.total - Used(m.cache) = o.total - Used(o.cache)
            /\ o.total \in Nat /\ Used(o.cache) \in Nat /\ Used(o.cache) <= o.total
        BY <2>2 DEF LoopInv
      <3>2. m.total \in Nat /\ Used(m.cache) \in Nat
        BY <2>2, UnitsFinite DEF IsMemory
      <3>3. QED BY <3>1, <3>2
    <2>4. /\ Ready(r)
          /\ \A p : p \in DOMAIN r.cache <=> p \in DOMAIN m.cache \/ p = b
          /\ \A p \in DOMAIN m.cache : p # b => r.cache[p].ans = m.cache[p].ans
          /\ r.cache[b].ans = ans
      <3>1. r = Add(m, b, ans)
        BY <2>1
      <3> HIDE DEF r
      <3>2. /\ Ready(r) /\ ~r.wild
            /\ \A p : p \in DOMAIN r.cache <=> p \in DOMAIN m.cache \/ p = b
            /\ \A p \in DOMAIN m.cache : p # b => r.cache[p].ans = m.cache[p].ans
            /\ r.cache[b].ans = ans
            /\ r.lru = Push(m.lru, <<m.time + 1, b>>)
        BY <3>1, <2>2, <2>3, <1>2, AddFacts
      <3>3. QED BY <3>2
    <2> HIDE DEF r
    <2>5. QED BY <2>2, <2>4 DEF Kept, r
  <1>3. CASE ~HasRoom(m, ItemSize[b])
    <2>1. r = [o EXCEPT !.wild = TRUE]
      BY <1>3 DEF TryCaching
    <2>2. o = [cache |-> o.cache, lru |-> o.lru, time |-> o.time, total |-> o.total,
               wild |-> o.wild]
      BY DEF Ready, IsMemory
    <2> HIDE DEF r
    <2>3. /\ r = [cache |-> o.cache, lru |-> o.lru, time |-> o.time, total |-> o.total,
                  wild |-> TRUE]
      BY <2>1, <2>2
    <2>4. r.cache = o.cache /\ r.lru = o.lru /\ r.time = o.time /\ r.total = o.total
          /\ r.wild = TRUE
      BY <2>3
    <2>5. IsMemory(r)
      BY <2>3, <2>4 DEF Ready, IsMemory
    <2>6. QED BY <2>4, <2>5 DEF Ready, Settled, r
  <1>4. QED BY <1>2, <1>3

\* While the counter is exact and every answer is queued once, a new pattern
\* finds room and keeps it so.
LEMMA TryCachingCounts ==
    ASSUME NEW o, Ready(o), Counting(o), NEW b \in Patterns, b \notin DOMAIN o.cache,
           NEW ans \in AnsType
    PROVE  Counting(TryCaching(o, b, ans))
  <1> DEFINE r == TryCaching(o, b, ans)
             m == MakeRoom(o, ItemSize[b])
  <1>1. ItemSize[b] \in Nat /\ ItemSize[b] <= TotalLimit
    BY SizesAssumption
  <1>2. HasRoom(m, ItemSize[b]) /\ Counting(m)
    BY <1>1, LoopEnds
  <1>3. r = Add(m, b, ans)
    BY <1>2 DEF TryCaching
  <1>4. /\ IsMemory(m) /\ Settled(m) /\ InOrder(m.lru)
        /\ \A p \in DOMAIN m.cache : Kept(o, m, p)
    BY <1>1, <1>2, LoopKeeps
  <1> HIDE DEF m
  <1>5. Used(m.cache) <= m.total /\ m.total = Used(m.cache) /\ b \notin DOMAIN m.cache
    BY <1>2, <1>4 DEF Counting, IsMemory, Kept
  <1>6. /\ ~r.wild
        /\ \A p : p \in DOMAIN r.cache <=> p \in DOMAIN m.cache \/ p = b
        /\ r.lru = Push(m.lru, <<m.time + 1, b>>)
        /\ r.total = Used(r.cache)
    BY <1>2, <1>3, <1>4, <1>5, AddFacts
  <1> HIDE DEF r
  <1>7. PICK x \in Queued : x = <<m.time + 1, b>> /\ x[2] = b
    <2>1. m.time + 1 \in 0..MaxTime + 1
      BY <1>4, BoundsAssumption DEF IsMemory
    <2>2. <<m.time + 1, b>> \in Queued
      BY <2>1 DEF Queued
    <2>3. QED BY <2>2
  <1>8. m.lru \in Seq(Queued)
    BY <1>4 DEF IsMemory
  <1> DEFINE q == Push(m.lru, x)
  <1>9. /\ \A i \in 1..Len(q) : q[i] = x \/ \E j \in 1..Len(m.lru) : q[i] = m.lru[j]
        /\ \E i \in 1..Len(q) : q[i] = x
        /\ \A j \in 1..Len(m.lru) : \E i \in 1..Len(q) : q[i] = m.lru[j]
    BY <1>8, PushEntries
  <1>10. \A i, j \in 1..Len(q) : q[i][2] = q[j][2] => i = j
    <2>1. \A i \in 1..Len(m.lru) : m.lru[i][2] # x[2]
      BY <1>2, <1>5, <1>7 DEF Counting, OnceEach
    <2>2. \A i, j \in 1..Len(m.lru) : m.lru[i][2] = m.lru[j][2] => i = j
      BY <1>2 DEF Counting, OnceEach
    <2>3. QED BY <2>1, <2>2, <1>8, PushOnce
  <1> HIDE DEF q
  <1>11. q = r.lru
    BY <1>6, <1>7 DEF q
  <1>12. \A i \in 1..Len(q) : q[i][2] \in DOMAIN r.cache
    <2> SUFFICES ASSUME NEW i \in 1..Len(q) PROVE q[i][2] \in DOMAIN r.cache
      OBVIOUS
    <2>1. CASE q[i] = x
      BY <2>1, <1>6, <1>7
    <2>2. CASE \E j \in 1..Len(m.lru) : q[i] = m.lru[j]
      BY <2>2, <1>2, <1>6 DEF Counting, OnceEach
    <2>3. QED BY <2>1, <2>2, <1>9
  <1>13. \A p \in DOMAIN r.cache : \E i \in 1..Len(q) : q[i][2] = p
    <2> SUFFICES ASSUME NEW p \in DOMAIN r.cache PROVE \E i \in 1..Len(q) : q[i][2] = p
      OBVIOUS
    <2>1. CASE p = b
      BY <2>1, <1>7, <1>9
    <2>2. CASE p # b
      <3>1. PICK j \in 1..Len(m.lru) : m.lru[j][2] = p
        BY <2>2, <1>2, <1>6 DEF Counting, OnceEach
      <3>2. PICK i \in 1..Len(q) : q[i] = m.lru[j]
        BY <1>9
      <3>3. QED BY <3>1, <3>2
    <2>3. QED BY <2>1, <2>2
  <1>14. OnceEach(r)
    BY <1>10, <1>11, <1>12, <1>13 DEF OnceEach
  <1>15. QED BY <1>6, <1>14 DEF Counting, r

\* As long as every answer can be found through the queue in time, what
\* tryCaching erases is no younger than what it leaves; and that stays so until
\* the clock starts again.
LEMMA TryCachingAges ==
    ASSUME NEW o, Ready(o), Findable(o), \A p \in DOMAIN o.cache : o.cache[p].stamp <= o.time,
           NEW b \in Patterns, NEW ans \in AnsType
    PROVE  LET r == TryCaching(o, b, ans)
           IN  /\ \A p \in DOMAIN o.cache \ DOMAIN r.cache,
                    q \in DOMAIN o.cache \cap DOMAIN r.cache :
                       o.cache[p].stamp <= o.cache[q].stamp
               /\ o.time + 1 < MaxTime =>
                    Findable(r) /\ \A p \in DOMAIN r.cache : r.cache[p].stamp <= r.time
  <1> DEFINE r == TryCaching(o, b, ans)
             m == MakeRoom(o, ItemSize[b])
  <1>1. ItemSize[b] \in Nat
    BY SizesAssumption
  <1>2. CASE HasRoom(m, ItemSize[b])
    <2>1. r = Add(m, b, ans)
      BY <1>2 DEF TryCaching
    <2>2. /\ IsMemory(m) /\ Settled(m) /\ InOrder(m.lru)
          /\ LoopInv(o, m, ItemSize[b])
          /\ \A p \in DOMAIN m.cache : Kept(o, m, p)
      BY <1>1, <1>2, LoopKeeps
    <2>3. OldestGone(o, m, ItemSize[b])
      BY <1>1, LoopOldest
    <2> HIDE DEF m
    <2>4. Used(m.cache) <= m.total
      <3>1. /\ m.total - Used(m.cache) = o.total - Used(o.cache)
            /\ o.total \in Nat /\ Used(o.cache) \in Nat /\ Used(o.cache) <= o.total
        BY <2>2 DEF LoopInv
      <3>2. m.total \in Nat /\ Used(m.cache) \in Nat
        BY <2>2, UnitsFinite DEF IsMemory
      <3>3. QED BY <3>1, <3>2
    <2>5. /\ \A p : p \in DOMAIN r.cache <=> p \in DOMAIN m.cache \/ p = b
          /\ r.lru = Push(m.lru, <<m.time + 1, b>>)
          /\ m.time + 1 < MaxTime =>
               /\ r.time = m.time + 1
               /\ r.cache[b].stamp = m.time + 1
               /\ \A p \in DOMAIN m.cache : p # b => r.cache[p] = m.cache[p]
      BY <2>1, <2>2, <2>4, <1>2, AddFacts
    <2> HIDE DEF r
    <2>6. ASSUME NEW p \in DOMAIN o.cache \ DOMAIN r.cache,
                 NEW q \in DOMAIN o.cache \cap DOMAIN r.cache
          PROVE  o.cache[p].stamp <= o.cache[q].stamp
      <3>1. ~Kept(o, m, p)
        BY <2>5 DEF Kept
      <3>2. Kept(o, m, q) \/ o.cache[q].size >= ItemSize[b]
        <4>1. CASE q \in DOMAIN m.cache
          BY <4>1, <2>2
        <4>2. CASE q = b
          BY <4>2, <1>1 DEF Ready, Settled
        <4>3. QED BY <4>1, <4>2, <2>5
      <3>3. QED BY <3>1, <3>2, <2>3 DEF OldestGone
    <2>7. ASSUME o.time + 1 < MaxTime
          PROVE  Findable(r) /\ \A p \in DOMAIN r.cache : r.cache[p].stamp <= r.time
      <3>1. m.time = o.time /\ m.time \in Nat /\ m.lru \in Seq(Queued)
        BY <2>2, BoundsAssumption DEF LoopInv, IsMemory
      <3>2. PICK x \in Queued : x = <<m.time + 1, b>> /\ x[1] = m.time + 1 /\ x[2] = b
        <4>1. m.time + 1 \in 0..MaxTime + 1
          BY <3>1, <2>7, BoundsAssumption
        <4>2. <<m.time + 1, b>> \in Queued
          BY <4>1 DEF Queued
        <4>3. QED BY <4>2
      <3> DEFINE q == Push(m.lru, x)
      <3>3. /\ \E i \in 1..Len(q) : q[i] = x
            /\ \A j \in 1..Len(m.lru) : \E i \in 1..Len(q) : q[i] = m.lru[j]
        BY <3>1, PushEntries
      <3> HIDE DEF q
      <3>4. q = r.lru
        BY <2>5, <3>2 DEF q
      <3>5. ASSUME NEW p \in DOMAIN r.cache
            PROVE  /\ \E i \in 1..Len(q) : q[i][2] = p /\ q[i][1] <= r.cache[p].stamp
                   /\ r.cache[p].stamp <= r.time
        <4>1. CASE p = b
          BY <4>1, <2>5, <2>7, <3>1, <3>2, <3>3
        <4>2. CASE p # b
          <5>1. p \in DOMAIN m.cache /\ r.cache[p] = m.cache[p]
            BY <4>2, <2>5, <2>7, <3>1
          <5>2. PICK j \in 1..Len(m.lru) : m.lru[j][2] = p /\ m.lru[j][1] <= m.cache[p].stamp
            BY <5>1, <2>3 DEF OldestGone, Findable
          <5>3. PICK i \in 1..Len(q) : q[i] = m.lru[j]
            BY <3>3
          <5>4. m.cache[p].stamp <= o.time /\ m.cache[p].stamp \in Nat /\ r.time = o.time + 1
            <6>1. m.cache[p] = o.cache[p] /\ p \in DOMAIN o.cache
              BY <5>1, <2>2 DEF Kept
            <6>2. m.cache[p] \in Entry
              BY <5>1, <2>2 DEF IsMemory, IsAnswers
            <6>3. QED BY <6>1, <6>2, <2>5, <2>7, <3>1 DEF Entry
          <5>5. QED BY <5>1, <5>2, <5>3, <5>4, <3>1
        <4>3. QED BY <4>1, <4>2
      <3>6. QED BY <3>4, <3>5 DEF Findable
    <2>8. QED BY <2>6, <2>7 DEF r
  <1>3. CASE ~HasRoom(m, ItemSize[b])
    <2>1. r = [o EXCEPT !.wild = TRUE]
      BY <1>3 DEF TryCaching
    <2>2. o = [cache |-> o.cache, lru |-> o.lru, time |-> o.time, total |-> o.total,
               wild |-> o.wild]
      BY DEF Ready, IsMemory
    <2> HIDE DEF r
    <2>3. r.cache = o.cache /\ r.lru = o.lru /\ r.time = o.time
      BY <2>1, <2>2
    <2>4. QED BY <2>3 DEF Findable, r
  <1>4. QED BY <1>2, <1>3

-----------------------------------------------------------------------------
(* The steps                                                               *)

\* What becomes of the variables of the cache is the memory that the operators
\* compute with.
LEMMA MemoryBecomes ==
    ASSUME NEW r, IsMemory(r), Become(r)
    PROVE  Memory' = r
  BY DEF IsMemory, Become, Memory

\* A step that leaves the cache alone.
LEMMA MemoryStays ==
    ASSUME UNCHANGED <<cache, lru, time, total, wild>>
    PROVE  Memory' = Memory
  BY DEF Memory

\* An empty memory.
LEMMA ClearedFacts ==
    /\ Ready(Cleared) /\ Counting(Cleared) /\ Findable(Cleared)
    /\ DOMAIN Cleared.cache = {} /\ Cleared.cache = <<>>
  <1>1. DOMAIN <<>> = {} /\ <<>> \in [{} -> Entry] /\ Len(<<>>) = 0
    OBVIOUS
  <1>2. IsAnswers(<<>>)
    BY <1>1, FS_EmptySet DEF IsAnswers
  <1>3. MaxTime \in Nat /\ TotalLimit \in Nat
    BY BoundsAssumption, SizesAssumption
  <1> DEFINE m == Cleared
  <1>4. /\ m.cache = <<>> /\ m.lru = <<>> /\ m.time = 0 /\ m.total = 0 /\ m.wild = FALSE
        /\ m = [cache |-> m.cache, lru |-> m.lru, time |-> m.time, total |-> m.total,
                wild |-> m.wild]
    BY DEF Cleared
  <1> HIDE DEF m
  <1>5. IsMemory(m)
    <2>1. <<>> \in Seq(Queued)
      OBVIOUS
    <2>2. DOMAIN m.cache \subseteq Patterns /\ IsAnswers(m.cache) /\ m.lru \in Seq(Queued)
      BY <1>1, <1>2, <1>4, <2>1
    <2>3. m.time \in 0..MaxTime /\ m.total \in Nat
      BY <1>3, <1>4
    <2>4. m.wild \in BOOLEAN
      BY <1>4, Zenon
    <2>5. QED BY <1>4, <2>2, <2>3, <2>4 DEF IsMemory
  <1>6. Settled(m) /\ InOrder(m.lru) /\ OnceEach(m) /\ Findable(m)
    BY <1>1, <1>4 DEF Settled, InOrder, OnceEach, Findable
  <1>7. Used(m.cache) = 0
    BY <1>4, NothingUsed
  <1>8. QED BY <1>1, <1>3, <1>4, <1>5, <1>6, <1>7 DEF Ready, Counting, m

\* The time of a hit.
LEMMA HitTime ==
    ASSUME time \in 0..MaxTime
    PROVE  Min({time + 1, MaxTime}) \in time..MaxTime
  <1> DEFINE x == IF time + 1 <= MaxTime THEN time + 1 ELSE MaxTime
  <1>1. MaxTime \in Nat
    BY BoundsAssumption
  <1>2. x \in {time + 1, MaxTime} /\ \A y \in {time + 1, MaxTime} : x =< y
    BY <1>1
  <1> DEFINE t == Min({time + 1, MaxTime})
  <1>3. t \in {time + 1, MaxTime} /\ \A y \in {time + 1, MaxTime} : t =< y
    <2> HIDE DEF x
    <2>1. QED BY <1>2 DEF Min
  <1> HIDE DEF t
  <1>4. t \in time..MaxTime
    BY <1>1, <1>3
  <1>5. QED BY <1>4 DEF t

\* A hit changes when its answer was last used, and the clock.
LEMMA HitFacts ==
    ASSUME Ready(Memory), NEW c, NEW b, Hit(c, b)
    PROVE  /\ DOMAIN cache' = DOMAIN cache /\ b \in DOMAIN cache
           /\ \A p \in DOMAIN cache : p # b => cache'[p] = cache[p]
           /\ cache'[b].ans = cache[b].ans
           /\ cache'[b].stamp = time' /\ time' \in time..MaxTime
           /\ cache[b].stamp \in Nat
           /\ UNCHANGED <<lru, total, wild>>
           /\ Ready(Memory)' /\ Used(cache') = Used(cache)
  <1>1. /\ DOMAIN cache \subseteq Patterns /\ IsAnswers(cache) /\ lru \in Seq(Queued)
        /\ time \in 0..MaxTime /\ total \in Nat /\ wild \in BOOLEAN
    BY DEF Ready, IsMemory, Memory
  <1>2. /\ b \in DOMAIN cache /\ time' \in time..MaxTime
        /\ cache' = [cache EXCEPT ![b].stamp = time']
        /\ UNCHANGED <<lru, total, wild>>
    BY <1>1, HitTime DEF Hit
  <1>3. cache[b] \in Entry /\ cache = [p \in DOMAIN cache |-> cache[p]]
    BY <1>1, <1>2 DEF IsAnswers
  <1>4. /\ DOMAIN cache' = DOMAIN cache
        /\ \A p \in DOMAIN cache : p # b => cache'[p] = cache[p]
        /\ cache'[b] = [cache[b] EXCEPT !.stamp = time']
        /\ cache' = [p \in DOMAIN cache' |-> cache'[p]]
    BY <1>2, <1>3
  <1>5. /\ cache'[b] = [ans |-> cache[b].ans, size |-> cache[b].size, stamp |-> time']
        /\ time' \in 0..MaxTime
        /\ cache[b].ans \in AnsType /\ cache[b].size \in Nat /\ cache[b].stamp \in Nat
    BY <1>1, <1>2, <1>3, <1>4 DEF Entry
  <1>6. cache'[b] \in Entry
    BY <1>5 DEF Entry
  <1>7. IsAnswers(cache')
    BY <1>1, <1>4, <1>6 DEF IsAnswers
  <1>8. \A p \in DOMAIN cache : cache'[p].size = cache[p].size
    BY <1>4, <1>5
  <1>9. Used(cache') = Used(cache)
    BY <1>4, <1>8, SameSizes
  <1>10. Ready(Memory)'
    <2>1. IsMemory(Memory')
      BY <1>1, <1>2, <1>4, <1>5, <1>7 DEF IsMemory, Memory
    <2>2. Settled(Memory') /\ InOrder(lru') /\ total' <= TotalLimit
      BY <1>2, <1>4, <1>8 DEF Ready, Settled, Memory
    <2>3. Used(cache') <= total'
      BY <1>2, <1>9 DEF Ready, Memory
    <2>4. QED BY <2>1, <2>2, <2>3 DEF Ready, Memory
  <1>11. QED BY <1>2, <1>4, <1>5, <1>9, <1>10

\* What a client that does something knows.
LEMMA ClientFacts ==
    ASSUME RestInv, NEW c \in Clients
    PROVE  /\ client[c] \in ClientType
           /\ client[c].pc \in {"idle", "evaluate", "cache"}
           /\ Inside(c) => client[c].pattern \in Patterns /\ client[c].txn \in BOOLEAN
           /\ client[c].pc = "cache" => client[c].ans \in AnsType
           /\ DOMAIN client = Clients
  <1>1. client[c] \in ClientType /\ DOMAIN client = Clients
    BY DEF RestInv
  <1>2. CASE client[c] \in [pc : {"idle"}]
    BY <1>1, <1>2 DEF Inside
  <1>3. CASE client[c] \in [pc : {"evaluate"}, txn : BOOLEAN, pattern : Patterns]
    BY <1>1, <1>3 DEF Inside
  <1>4. CASE client[c] \in [pc : {"cache"}, txn : BOOLEAN, pattern : Patterns, ans : AnsType]
    BY <1>1, <1>4 DEF Inside
  <1>5. QED BY <1>1, <1>2, <1>3, <1>4 DEF ClientType

\* What is written down of one client.
LEMMA ClientStep ==
    ASSUME RestInv, NEW c \in Clients, NEW v \in ClientType,
           client' = [client EXCEPT ![c] = v]
    PROVE  /\ client' \in [Clients -> ClientType] /\ client'[c] = v
           /\ \A d \in Clients : d # c => client'[d] = client[d]
  BY DEF RestInv

MemInv == Ready(Memory) /\ RestInv

\* A query caches what it evaluated, or not.
LEMMA CacheCases ==
    ASSUME MemInv, NEW c \in Clients, Cache(c)
    PROVE  \E b \in Patterns, ans \in AnsType :
             /\ client[c].pc = "cache" /\ ans = client[c].ans
             /\ client' = [client EXCEPT ![c] = Idle] /\ UNCHANGED <<version, pending>>
             /\ \/ /\ Memory' = TryCaching(Memory, b, ans)
                   /\ past' = past \cup (IF b \in DOMAIN cache THEN {"twice"} ELSE {})
                                   \cup (IF time + 1 >= MaxTime THEN {"restart"} ELSE {})
                \/ UNCHANGED <<cache, lru, time, total, wild, past>>
  <1> DEFINE b == client[c].pattern
             ans == client[c].ans
  <1>1. client[c].pc = "cache"
    BY DEF Cache
  <1>2. b \in Patterns /\ ans \in AnsType
    BY <1>1, ClientFacts DEF MemInv, Inside
  <1>3. CASE /\ Become(TryCaching(Memory, b, ans))
             /\ past' = past \cup (IF b \in DOMAIN cache THEN {"twice"} ELSE {})
                             \cup (IF time + 1 >= MaxTime THEN {"restart"} ELSE {})
    <2> HIDE DEF b, ans
    <2> DEFINE r == TryCaching(Memory, b, ans)
    <2>1. Ready(r)
      BY <1>2, TryCachingReady DEF MemInv
    <2> HIDE DEF r
    <2>2. IsMemory(r)
      BY <2>1 DEF Ready
    <2>3. Become(r)
      BY <1>3 DEF r
    <2>4. Memory' = r
      BY <2>2, <2>3, MemoryBecomes
    <2>5. client' = [client EXCEPT ![c] = Idle] /\ UNCHANGED <<version, pending>>
      BY DEF Cache
    <2>6. QED BY <1>1, <1>2, <1>3, <2>4, <2>5 DEF b, ans, r
  <1>4. CASE UNCHANGED <<cache, lru, time, total, wild, past>>
    <2>1. client' = [client EXCEPT ![c] = Idle] /\ UNCHANGED <<version, pending>>
      BY DEF Cache
    <2>2. QED BY <1>1, <1>2, <1>4, <2>1
  <1>5. (/\ Become(TryCaching(Memory, b, ans))
         /\ past' = past \cup (IF b \in DOMAIN cache THEN {"twice"} ELSE {})
                         \cup (IF time + 1 >= MaxTime THEN {"restart"} ELSE {}))
        \/ UNCHANGED <<cache, lru, time, total, wild, past>>
    BY DEF Cache
  <1>6. QED BY <1>3, <1>4, <1>5

-----------------------------------------------------------------------------
(* Types and the limit                                                     *)

\* Every step keeps the memory such that the loop may start from it.
LEMMA MemInvHolds == Spec => []MemInv
  <1>1. Init => MemInv
    <2> SUFFICES ASSUME Init PROVE MemInv
      OBVIOUS
    <2>1. Memory = Cleared
      BY DEF Init, Memory, Cleared
    <2>2. Idle \in ClientType
      BY DEF Idle, ClientType
    <2>3. RestInv
      <3>1. version \in 0..MaxVersion /\ past \subseteq {"twice", "restart", "transaction"}
        BY BoundsAssumption DEF Init
      <3>2. pending \in BOOLEAN
        BY Zenon DEF Init
      <3>3. client \in [Clients -> ClientType]
        BY <2>2 DEF Init
      <3>4. QED BY <3>1, <3>2, <3>3 DEF RestInv
    <2>4. QED BY <2>1, <2>3, ClearedFacts DEF MemInv
  <1>2. MemInv /\ [Next]_vars => MemInv'
    <2> SUFFICES ASSUME MemInv, [Next]_vars PROVE MemInv'
      OBVIOUS
    <2>1. /\ version \in 0..MaxVersion /\ pending \in BOOLEAN /\ MaxVersion \in Nat
          /\ past \subseteq {"twice", "restart", "transaction"}
          /\ client \in [Clients -> ClientType] /\ Ready(Memory) /\ RestInv
      BY BoundsAssumption DEF MemInv, RestInv
    <2>2. ASSUME NEW c \in Clients, NEW b \in Patterns, Hit(c, b) PROVE MemInv'
      <3>1. Ready(Memory)'
        BY <2>1, <2>2, HitFacts
      <3>2. UNCHANGED <<version, pending, past, client>>
        BY <2>2 DEF Hit
      <3>3. QED BY <3>1, <3>2, <2>1 DEF MemInv, RestInv
    <2>3. ASSUME NEW c \in Clients, NEW b \in Patterns, Miss(c, b) PROVE MemInv'
      <3>1. PICK txn \in {FALSE, Transactions} :
              /\ client' = [client EXCEPT ![c] = [pc |-> "evaluate", txn |-> txn, pattern |-> b]]
              /\ past' = past \cup (IF txn THEN {"transaction"} ELSE {})
        BY <2>3 DEF Miss
      <3>2. txn \in BOOLEAN
        BY <3>1, BoundsAssumption
      <3>3. [pc |-> "evaluate", txn |-> txn, pattern |-> b] \in ClientType
        BY <3>2 DEF ClientType
      <3>4. client' \in [Clients -> ClientType]
        BY <3>1, <3>3, <2>1
      <3>5. past' \subseteq {"twice", "restart", "transaction"}
        BY <3>1, <2>1
      <3>6. UNCHANGED <<version, pending>> /\ Memory' = Memory
        BY <2>3, MemoryStays DEF Miss
      <3>7. QED BY <3>4, <3>5, <3>6, <2>1 DEF MemInv, RestInv
    <2>4. ASSUME NEW c \in Clients, Evaluate(c) PROVE MemInv'
      <3>1. PICK narrow \in Narrowing, own \in {FALSE, InTxn(c) /\ pending} :
              client' = [client EXCEPT ![c] =
                [pc |-> "cache", txn |-> client[c].txn, pattern |-> client[c].pattern,
                 ans |-> [ver  |-> IF own THEN Uncommitted ELSE version, full |-> ~narrow]]]
        BY <2>4 DEF Evaluate
      <3> DEFINE ver == IF own THEN Uncommitted ELSE version
                 full == ~narrow
      <3>2. client[c].txn \in BOOLEAN /\ client[c].pattern \in Patterns
        BY <2>4, <2>1, ClientFacts DEF Evaluate, Inside
      <3>3. ver \in -1..MaxVersion
        BY <2>1 DEF Uncommitted
      <3>4. full \in BOOLEAN
        OBVIOUS
      <3> HIDE DEF ver, full
      <3>5. [ver |-> ver, full |-> full] \in AnsType
        BY <3>3, <3>4 DEF AnsType
      <3>6. [pc |-> "cache", txn |-> client[c].txn, pattern |-> client[c].pattern,
             ans |-> [ver |-> ver, full |-> full]] \in ClientType
        BY <3>2, <3>5 DEF ClientType
      <3>7. client' \in [Clients -> ClientType]
        BY <3>1, <3>6, <2>1 DEF ver, full
      <3>8. UNCHANGED <<version, pending, past>> /\ Memory' = Memory
        BY <2>4, MemoryStays DEF Evaluate
      <3>9. QED BY <3>7, <3>8, <2>1 DEF MemInv, RestInv
    <2>5. ASSUME NEW c \in Clients, Cache(c) PROVE MemInv'
      <3>1. PICK b \in Patterns, ans \in AnsType :
              /\ client' = [client EXCEPT ![c] = Idle] /\ UNCHANGED <<version, pending>>
              /\ \/ /\ Memory' = TryCaching(Memory, b, ans)
                    /\ past' = past \cup (IF b \in DOMAIN cache THEN {"twice"} ELSE {})
                                    \cup (IF time + 1 >= MaxTime THEN {"restart"} ELSE {})
                 \/ UNCHANGED <<cache, lru, time, total, wild, past>>
        BY <2>5, CacheCases
      <3>2. Ready(Memory')
        BY <3>1, <2>1, TryCachingReady, MemoryStays
      <3>3. past' \subseteq {"twice", "restart", "transaction"}
        BY <3>1, <2>1
      <3>4. client' \in [Clients -> ClientType]
        BY <3>1, <2>1 DEF ClientType, Idle
      <3>5. QED BY <3>1, <3>2, <3>3, <3>4, <2>1 DEF MemInv, RestInv
    <2>6. CASE Update
      <3>1. Memory' = Cleared
        BY <2>6, ClearedFacts, MemoryBecomes DEF Update, Ready
      <3>2. /\ version' \in 0..MaxVersion /\ past' \subseteq past
            /\ UNCHANGED <<pending, client>>
        BY <2>6, <2>1 DEF Update
      <3>3. QED BY <3>1, <3>2, <2>1, ClearedFacts DEF MemInv, RestInv
    <2>7. CASE TxnUpdate
      <3>1. Memory' = Cleared
        BY <2>7, ClearedFacts, MemoryBecomes DEF TxnUpdate, Ready
      <3>2. /\ pending' \in BOOLEAN /\ past' \subseteq {"twice", "restart", "transaction"}
            /\ UNCHANGED <<version, client>>
        BY <2>7 DEF TxnUpdate
      <3>3. QED BY <3>1, <3>2, <2>1, ClearedFacts DEF MemInv, RestInv
    <2>8. CASE TxnCommit
      <3>1. version' \in 0..MaxVersion
        BY <2>8, <2>1 DEF TxnCommit
      <3>2. pending' \in BOOLEAN
        BY <2>8, Zenon DEF TxnCommit
      <3>3. UNCHANGED <<client, past>> /\ Memory' = Memory
        BY <2>8, MemoryStays DEF TxnCommit
      <3>4. QED BY <3>1, <3>2, <3>3, <2>1 DEF MemInv, RestInv
    <2>9. CASE TxnAbort
      <3>1. pending' \in BOOLEAN /\ UNCHANGED <<version, client, past>> /\ Memory' = Memory
        BY <2>9, MemoryStays DEF TxnAbort
      <3>2. QED BY <3>1, <2>1 DEF MemInv, RestInv
    <2>10. CASE UNCHANGED vars
      <3>1. UNCHANGED <<version, pending, client, past>> /\ Memory' = Memory
        BY <2>10, MemoryStays DEF vars
      <3>2. QED BY <3>1, <2>1 DEF MemInv, RestInv
    <2>11. QED BY <2>2, <2>3, <2>4, <2>5, <2>6, <2>7, <2>8, <2>9, <2>10 DEF Next
  <1>3. QED BY <1>1, <1>2, PTL DEF Spec

\* Every variable keeps its type, in the loop of tryCaching too.
THEOREM TypeCorrect == Spec => []TypeOK
  <1>1. MemInv => TypeOK
    <2> SUFFICES ASSUME MemInv PROVE TypeOK
      OBVIOUS
    <2>1. /\ DOMAIN cache \subseteq Patterns /\ cache \in [DOMAIN cache -> Entry]
          /\ lru \in Seq(Queued) /\ time \in 0..MaxTime /\ total \in Nat /\ wild \in BOOLEAN
      BY DEF MemInv, Ready, IsMemory, IsAnswers, Memory
    <2>2. \A b \in DOMAIN cache : cache[b] \in [ans : AnsType, size : Nat, stamp : 0..MaxTime]
      BY <2>1 DEF Entry
    <2>3. \A i \in DOMAIN lru : lru[i] \in (0..MaxTime + 1) \X Patterns
      BY <2>1 DEF Queued
    <2>4. \A c \in Clients : /\ client[c].pc \in {"idle", "evaluate", "cache"}
                             /\ Inside(c) => client[c].pattern \in Patterns
      BY ClientFacts DEF MemInv
    <2>5. QED BY <2>1, <2>2, <2>3, <2>4 DEF MemInv, RestInv, TypeOK
  <1>2. QED BY <1>1, MemInvHolds, PTL

\* The cached answers together keep to TOTAL_MEMORY_LIMIT: the counter that
\* tryCaching goes by is never below them, even after two queries have cached
\* one pattern.
THEOREM KeepsToLimit == Spec => []WithinLimit
  <1>1. MemInv => WithinLimit
    <2> SUFFICES ASSUME MemInv PROVE WithinLimit
      OBVIOUS
    <2>1. /\ Used(cache) <= total /\ total <= TotalLimit /\ total \in Nat
          /\ IsAnswers(cache) /\ TotalLimit \in Nat
      BY SizesAssumption DEF MemInv, Ready, IsMemory, Memory
    <2>2. Used(cache) \in Nat
      BY <2>1, UnitsFinite
    <2>3. Used(cache) <= TotalLimit
      BY <2>1, <2>2
    <2>4. QED BY <2>3 DEF WithinLimit, Held, Used
  <1>2. QED BY <1>1, MemInvHolds, PTL

-----------------------------------------------------------------------------
(* The oldest goes first                                                   *)

\* What a step of a client does to the cache, or an update, or neither.
LEMMA StepCases ==
    ASSUME MemInv, [Next]_vars
    PROVE  \/ \E c \in Clients, b \in Patterns : Hit(c, b)
           \/ \E c \in Clients : Cache(c)
           \/ Memory' = Cleared /\ past' \cap {"twice", "restart"} = {}
           \/ Memory' = Memory /\ past \subseteq past'
  <1>1. CASE \E c \in Clients, b \in Patterns : Miss(c, b)
    BY <1>1, MemoryStays DEF Miss
  <1>2. CASE \E c \in Clients : Evaluate(c)
    BY <1>2, MemoryStays DEF Evaluate
  <1>3. CASE Update
    BY <1>3, ClearedFacts, MemoryBecomes DEF Update, Ready
  <1>4. CASE TxnUpdate
    BY <1>4, ClearedFacts, MemoryBecomes DEF TxnUpdate, Ready
  <1>5. CASE TxnCommit \/ TxnAbort \/ UNCHANGED vars
    BY <1>5, MemoryStays DEF TxnCommit, TxnAbort, vars
  <1>6. QED BY <1>1, <1>2, <1>3, <1>4, <1>5 DEF Next

\* A step of tryCaching, where everything can be found in time.
LEMMA AgesNext ==
    ASSUME MemInv, AgesInv, [Next]_vars
    PROVE  /\ AgesInv'
           /\ "restart" \notin past =>
                \A p \in DOMAIN cache \ DOMAIN cache', q \in DOMAIN cache \cap DOMAIN cache' :
                   cache[p].stamp <= cache[q].stamp
  <1>1. Ready(Memory) /\ time \in Nat /\ MaxTime \in Nat /\ IsAnswers(cache) /\ lru \in Seq(Queued)
    BY BoundsAssumption DEF MemInv, Ready, IsMemory, Memory
  <1>2. ASSUME NEW c \in Clients, NEW b \in Patterns, Hit(c, b)
        PROVE  AgesInv' /\ DOMAIN cache' = DOMAIN cache
    <2>1. /\ DOMAIN cache' = DOMAIN cache /\ b \in DOMAIN cache
          /\ \A p \in DOMAIN cache : p # b => cache'[p] = cache[p]
          /\ cache'[b].stamp = time' /\ time' \in time..MaxTime
          /\ cache[b].stamp \in Nat /\ lru' = lru
      BY <1>1, <1>2, HitFacts
    <2>2. past' = past
      BY <1>2 DEF Hit
    <2> SUFFICES ASSUME "restart" \notin past
                 PROVE  /\ Findable(Memory')
                        /\ \A p \in DOMAIN cache' : cache'[p].stamp <= time'
      BY <2>1, <2>2 DEF AgesInv
    <2>3. /\ \A p \in DOMAIN cache : \E i \in 1..Len(lru) :
                lru[i][2] = p /\ lru[i][1] <= cache[p].stamp
          /\ \A p \in DOMAIN cache : cache[p].stamp <= time
      BY DEF AgesInv, Findable, Memory
    <2>4. ASSUME NEW p \in DOMAIN cache
          PROVE  /\ \E i \in 1..Len(lru) : lru[i][2] = p /\ lru[i][1] <= cache'[p].stamp
                 /\ cache'[p].stamp <= time'
      <3>1. cache[p].stamp \in Nat /\ cache[p].stamp <= time /\ time' \in Nat /\ time <= time'
        BY <1>1, <2>1, <2>3 DEF IsAnswers, Entry
      <3>2. PICK i \in 1..Len(lru) : lru[i][2] = p /\ lru[i][1] <= cache[p].stamp
        BY <2>3
      <3>3. lru[i][1] \in Nat
        <4>1. lru[i] \in Queued
          BY <1>1
        <4>2. QED BY <4>1, BeforeOrders
      <3>4. cache[p].stamp <= cache'[p].stamp /\ cache'[p].stamp <= time' /\ cache'[p].stamp \in Nat
        <4>1. CASE p = b
          BY <4>1, <1>1, <2>1, <3>1
        <4>2. CASE p # b
          <5>1. cache'[p] = cache[p]
            BY <4>2, <2>1
          <5>2. QED BY <1>1, <5>1, <3>1
        <4>3. QED BY <4>1, <4>2
      <3>5. lru[i][1] <= cache'[p].stamp
        BY <3>1, <3>2, <3>3, <3>4
      <3>6. QED BY <3>2, <3>4, <3>5
    <2>5. QED BY <2>1, <2>4 DEF Findable, Memory
  <1>3. ASSUME NEW c \in Clients, Cache(c)
        PROVE  /\ AgesInv'
               /\ "restart" \notin past =>
                    \A p \in DOMAIN cache \ DOMAIN cache', q \in DOMAIN cache \cap DOMAIN cache' :
                       cache[p].stamp <= cache[q].stamp
    <2>1. PICK b \in Patterns, ans \in AnsType :
             \/ /\ Memory' = TryCaching(Memory, b, ans)
                /\ past' = past \cup (IF b \in DOMAIN cache THEN {"twice"} ELSE {})
                                \cup (IF time + 1 >= MaxTime THEN {"restart"} ELSE {})
             \/ UNCHANGED <<cache, lru, time, total, wild, past>>
      BY <1>3, CacheCases
    <2>2. CASE UNCHANGED <<cache, lru, time, total, wild, past>>
      BY <2>2, MemoryStays DEF AgesInv
    <2>3. CASE /\ Memory' = TryCaching(Memory, b, ans)
               /\ past' = past \cup (IF b \in DOMAIN cache THEN {"twice"} ELSE {})
                               \cup (IF time + 1 >= MaxTime THEN {"restart"} ELSE {})
      <3>1. Memory.cache = cache /\ Memory.time = time
            /\ Memory'.cache = cache' /\ Memory'.time = time'
        BY DEF Memory
      <3>2. CASE "restart" \in past
        <4>1. "restart" \in past'
          BY <2>3, <3>2
        <4>2. QED BY <3>2, <4>1 DEF AgesInv
      <3>3. CASE "restart" \notin past
        <4> DEFINE r == TryCaching(Memory, b, ans)
        <4>1. Findable(Memory) /\ \A p \in DOMAIN Memory.cache : Memory.cache[p].stamp <= Memory.time
          BY <3>1, <3>3 DEF AgesInv
        <4>2. /\ \A p \in DOMAIN Memory.cache \ DOMAIN r.cache,
                    q \in DOMAIN Memory.cache \cap DOMAIN r.cache :
                    Memory.cache[p].stamp <= Memory.cache[q].stamp
              /\ Memory.time + 1 < MaxTime =>
                   Findable(r) /\ \A p \in DOMAIN r.cache : r.cache[p].stamp <= r.time
          BY <1>1, <4>1, TryCachingAges
        <4>3. r = Memory'
          BY <2>3
        <4> HIDE DEF r
        <4>4. "restart" \notin past' => time + 1 < MaxTime
          BY <1>1, <2>3
        <4>5. QED BY <3>1, <4>2, <4>3, <4>4 DEF AgesInv
      <3>4. QED BY <3>2, <3>3
    <2>4. QED BY <2>1, <2>2, <2>3
  <1>4. CASE Memory' = Cleared /\ past' \cap {"twice", "restart"} = {}
    <2>1. cache' = <<>> /\ DOMAIN cache' = {} /\ Findable(Memory')
      BY <1>4, ClearedFacts DEF Memory
    <2>2. QED BY <2>1 DEF AgesInv
  <1>5. CASE Memory' = Memory /\ past \subseteq past'
    <2>1. cache' = cache /\ time' = time
      BY <1>5 DEF Memory
    <2>2. QED BY <1>5, <2>1 DEF AgesInv
  <1>6. QED BY <1>2, <1>3, <1>4, <1>5, StepCases

\* An answer leaves the cache only when all do, or when none that stays has
\* gone longer without being used, until the clock starts again.
THEOREM ErasesOldest == Spec => EvictsOldest
  <1>1. Init => AgesInv
    <2> SUFFICES ASSUME Init PROVE AgesInv
      OBVIOUS
    <2>1. Memory = Cleared /\ cache = <<>>
      BY DEF Init, Memory, Cleared
    <2>2. QED BY <2>1, ClearedFacts DEF AgesInv
  <1>2. MemInv /\ AgesInv /\ [Next]_vars => AgesInv'
    BY AgesNext
  <1>3. MemInv /\ AgesInv /\ [Next]_vars =>
          ["restart" \notin past =>
             \A p \in DOMAIN cache \ DOMAIN cache', q \in DOMAIN cache \cap DOMAIN cache' :
                cache[p].stamp <= cache[q].stamp]_vars
    BY AgesNext
  <1>4. QED BY <1>1, <1>2, <1>3, MemInvHolds, PTL DEF Spec, EvictsOldest

-----------------------------------------------------------------------------
(* The counter is exact                                                    *)

\* Until a pattern has been cached twice the counter is exact, every answer is
\* queued once and nothing else is.
LEMMA CountNext ==
    ASSUME MemInv, CountInv, [Next]_vars
    PROVE  CountInv'
  <1>1. /\ Memory.cache = cache /\ Memory.lru = lru /\ Memory.total = total /\ Memory.wild = wild
        /\ Memory'.cache = cache' /\ Memory'.lru = lru' /\ Memory'.total = total'
        /\ Memory'.wild = wild'
    BY DEF Memory
  <1>2. CountInv <=> ("twice" \notin past => Counting(Memory))
    BY <1>1 DEF CountInv, Counting
  <1>3. CountInv' <=> ("twice" \notin past' => Counting(Memory'))
    BY <1>1 DEF CountInv, Counting
  <1>4. ASSUME NEW c \in Clients, NEW b \in Patterns, Hit(c, b)
        PROVE  CountInv'
    <2>1. /\ DOMAIN cache' = DOMAIN cache /\ UNCHANGED <<lru, total, wild>>
          /\ Used(cache') = Used(cache)
      BY <1>4, HitFacts DEF MemInv
    <2>2. past' = past
      BY <1>4 DEF Hit
    <2>3. QED BY <1>1, <2>1, <2>2 DEF CountInv, OnceEach
  <1>5. ASSUME NEW c \in Clients, Cache(c)
        PROVE  CountInv'
    <2>1. PICK b \in Patterns, ans \in AnsType :
             \/ /\ Memory' = TryCaching(Memory, b, ans)
                /\ past' = past \cup (IF b \in DOMAIN cache THEN {"twice"} ELSE {})
                                \cup (IF time + 1 >= MaxTime THEN {"restart"} ELSE {})
             \/ UNCHANGED <<cache, lru, time, total, wild, past>>
      BY <1>5, CacheCases
    <2>2. CASE UNCHANGED <<cache, lru, time, total, wild, past>>
      BY <2>2, <1>2, <1>3, MemoryStays
    <2>3. CASE /\ Memory' = TryCaching(Memory, b, ans)
               /\ past' = past \cup (IF b \in DOMAIN cache THEN {"twice"} ELSE {})
                               \cup (IF time + 1 >= MaxTime THEN {"restart"} ELSE {})
      <3>1. "twice" \notin past' => "twice" \notin past /\ b \notin DOMAIN Memory.cache
        BY <1>1, <2>3
      <3>2. Counting(Memory) /\ b \notin DOMAIN Memory.cache
               => Counting(TryCaching(Memory, b, ans))
        BY TryCachingCounts DEF MemInv
      <3>3. QED BY <3>1, <3>2, <1>2, <1>3, <2>3
    <2>4. QED BY <2>1, <2>2, <2>3
  <1>6. CASE Memory' = Cleared /\ past' \cap {"twice", "restart"} = {}
    BY <1>6, <1>3, ClearedFacts
  <1>7. CASE Memory' = Memory /\ past \subseteq past'
    BY <1>7, <1>2, <1>3
  <1>8. QED BY <1>4, <1>5, <1>6, <1>7, StepCases

\* total_memory_used is the memory of the cached answers and tryCaching finds
\* room before the queue is empty, until a pattern has been cached twice.
THEOREM CountsExactly == Spec => []TotalExact
  <1>1. Init => CountInv
    <2> SUFFICES ASSUME Init PROVE CountInv
      OBVIOUS
    <2>1. Memory = Cleared /\ cache = Memory.cache /\ total = Memory.total /\ wild = Memory.wild
      BY DEF Init, Memory, Cleared
    <2>2. QED BY <2>1, ClearedFacts DEF CountInv, Counting
  <1>2. MemInv /\ CountInv /\ [Next]_vars => CountInv'
    BY CountNext
  <1>3. CountInv => TotalExact
    BY DEF CountInv, TotalExact, Held, Used
  <1>4. QED BY <1>1, <1>2, <1>3, MemInvHolds, PTL DEF Spec

-----------------------------------------------------------------------------
(* The answers are fresh                                                   *)

\* As long as there are only plain updates, nothing is evaluated before one
\* and cached after it.
LEMMA FreshNext ==
    ASSUME Narrowing \subseteq {FALSE}, MemInv, FreshInv, [Next]_vars
    PROVE  FreshInv'
  <1>1. SUFFICES ASSUME "transaction" \notin past' PROVE FreshInv'
    BY DEF FreshInv
  <1>2. RestInv /\ Ready(Memory) /\ client \in [Clients -> ClientType]
    BY DEF MemInv, RestInv
  <1>3. ASSUME NEW c \in Clients, NEW b \in Patterns, Hit(c, b)
        PROVE  FreshInv'
    <2>1. UNCHANGED <<version, pending, client, past>>
      BY <1>3 DEF Hit
    <2>2. DOMAIN cache' = DOMAIN cache /\ \A p \in DOMAIN cache : cache'[p].ans = cache[p].ans
      BY <1>2, <1>3, HitFacts
    <2>3. QED BY <2>1, <2>2 DEF FreshInv, InTxn, Inside, Now
  <1>4. ASSUME NEW c \in Clients, NEW b \in Patterns, Miss(c, b)
        PROVE  FreshInv'
    <2>1. PICK txn \in {FALSE, Transactions} :
            /\ client' = [client EXCEPT ![c] = [pc |-> "evaluate", txn |-> txn, pattern |-> b]]
            /\ past' = past \cup (IF txn THEN {"transaction"} ELSE {})
      BY <1>4 DEF Miss
    <2>2. ~txn /\ "transaction" \notin past
      BY <1>1, <2>1
    <2>3. /\ client'[c].pc = "evaluate" /\ client'[c].txn = txn
          /\ \A d \in Clients : d # c => client'[d] = client[d]
      BY <1>2, <2>1
    <2>4. \A d \in Clients : ~InTxn(d)'
      BY <2>2, <2>3 DEF FreshInv, InTxn, Inside
    <2>5. UNCHANGED <<version, pending, cache>>
      BY <1>4 DEF Miss
    <2>6. \A d \in Clients : client'[d].pc = "cache" => client'[d].ans = Now
      BY <2>2, <2>3 DEF FreshInv
    <2>7. QED BY <2>2, <2>4, <2>5, <2>6 DEF FreshInv, Now
  <1>5. ASSUME NEW c \in Clients, Evaluate(c)
        PROVE  FreshInv'
    <2>1. PICK narrow \in Narrowing, own \in {FALSE, InTxn(c) /\ pending} :
            client' = [client EXCEPT ![c] =
              [pc |-> "cache", txn |-> client[c].txn, pattern |-> client[c].pattern,
               ans |-> [ver  |-> IF own THEN Uncommitted ELSE version, full |-> ~narrow]]]
      BY <1>5 DEF Evaluate
    <2>2. UNCHANGED <<version, pending, cache, past>> /\ "transaction" \notin past
      BY <1>1, <1>5 DEF Evaluate
    <2>3. narrow = FALSE /\ own = FALSE
      BY <2>1, <2>2 DEF FreshInv
    <2>4. client' = [client EXCEPT ![c] =
              [pc |-> "cache", txn |-> client[c].txn, pattern |-> client[c].pattern,
               ans |-> Now]]
      BY <2>1, <2>3 DEF Now
    <2>5. /\ client'[c].txn = client[c].txn /\ client'[c].ans = Now
          /\ \A d \in Clients : d # c => client'[d] = client[d]
      <3> HIDE DEF Now
      <3>1. QED BY <1>2, <2>4
    <2>6. ~client[c].txn
      BY <1>5, <2>2 DEF FreshInv, InTxn, Inside, Evaluate
    <2>7. \A d \in Clients : ~InTxn(d)'
      BY <2>2, <2>5, <2>6 DEF FreshInv, InTxn, Inside
    <2>8. \A d \in Clients : client'[d].pc = "cache" => client'[d].ans = Now
      BY <2>2, <2>5 DEF FreshInv
    <2>9. QED BY <2>2, <2>7, <2>8 DEF FreshInv, Now
  <1>6. ASSUME NEW c \in Clients, Cache(c)
        PROVE  FreshInv'
    <2>1. PICK b \in Patterns, ans \in AnsType :
             /\ client[c].pc = "cache" /\ ans = client[c].ans
             /\ client' = [client EXCEPT ![c] = Idle] /\ UNCHANGED <<version, pending>>
             /\ \/ /\ Memory' = TryCaching(Memory, b, ans)
                   /\ past' = past \cup (IF b \in DOMAIN cache THEN {"twice"} ELSE {})
                                   \cup (IF time + 1 >= MaxTime THEN {"restart"} ELSE {})
                \/ UNCHANGED <<cache, lru, time, total, wild, past>>
      BY <1>6, CacheCases DEF MemInv
    <2>2. "transaction" \notin past
      BY <1>1, <2>1
    <2>3. ans = Now /\ ~pending /\ \A p \in DOMAIN cache : cache[p].ans = Now
      BY <2>1, <2>2 DEF FreshInv
    <2>4. \A p \in DOMAIN cache' : cache'[p].ans = Now
      <3>1. CASE Memory' = TryCaching(Memory, b, ans)
        <4> DEFINE r == TryCaching(Memory, b, ans)
        <4>1. \A p \in DOMAIN r.cache :
                 \/ p = b /\ r.cache[p].ans = ans
                 \/ p \in DOMAIN Memory.cache /\ r.cache[p].ans = Memory.cache[p].ans
          BY <1>2, TryCachingReady
        <4>2. r = Memory'
          BY <3>1
        <4> HIDE DEF r
        <4>3. Memory.cache = cache /\ r.cache = cache'
          BY <4>2 DEF Memory
        <4>4. QED BY <4>1, <4>3, <2>3
      <3>2. CASE UNCHANGED cache
        BY <3>2, <2>3
      <3>3. QED BY <3>1, <3>2, <2>1
    <2>5. client'[c].pc = "idle" /\ \A d \in Clients : d # c => client'[d] = client[d]
      BY <1>2, <2>1 DEF Idle
    <2>6. \A d \in Clients : ~InTxn(d)'
      BY <2>2, <2>5 DEF FreshInv, InTxn, Inside
    <2>7. \A d \in Clients : client'[d].pc = "cache" => client'[d].ans = Now
      BY <2>2, <2>5 DEF FreshInv
    <2>8. QED BY <2>1, <2>3, <2>4, <2>6, <2>7 DEF FreshInv, Now
  <1>7. CASE Update
    <2>1. /\ UNCHANGED <<pending, client>> /\ "transaction" \notin past
          /\ \A c \in Clients : Inside(c) => InTxn(c)
      BY <1>1, <1>7 DEF Update
    <2>2. \A c \in Clients : client[c].pc = "idle"
      BY <2>1 DEF FreshInv, Inside
    <2>3. cache' = <<>> /\ DOMAIN cache' = {}
      BY <1>7, ClearedFacts DEF Update, Become
    <2>4. \A c \in Clients : ~InTxn(c)' /\ client'[c].pc # "cache"
      BY <2>1, <2>2 DEF InTxn, Inside
    <2>5. QED BY <2>1, <2>3, <2>4 DEF FreshInv
  <1>8. CASE TxnUpdate
    BY <1>1, <1>8 DEF TxnUpdate
  <1>9. CASE TxnCommit \/ TxnAbort
    BY <1>1, <1>9 DEF TxnCommit, TxnAbort, FreshInv
  <1>10. CASE UNCHANGED vars
    BY <1>10 DEF vars, FreshInv, InTxn, Inside, Now
  <1>11. QED BY <1>3, <1>4, <1>5, <1>6, <1>7, <1>8, <1>9, <1>10 DEF Next

\* Where every evaluation keeps the whole of its answer, and only plain updates
\* have changed the database, a cached answer is what evaluating the pattern now
\* would give.
THEOREM AnswersFresh ==
    ASSUME Narrowing \subseteq {FALSE}
    PROVE  Spec => []CacheFresh
  <1>1. Init => FreshInv
    BY DEF Init, FreshInv, InTxn, Inside, Idle
  <1>2. MemInv /\ FreshInv /\ [Next]_vars => FreshInv'
    BY FreshNext
  <1>3. FreshInv => CacheFresh
    BY DEF FreshInv, CacheFresh, Now
  <1>4. QED BY <1>1, <1>2, <1>3, MemInvHolds, PTL DEF Spec
=============================================================================

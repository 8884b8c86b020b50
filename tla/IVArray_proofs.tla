----------------------------- MODULE IVArray_proofs -----------------------------
(***************************************************************************)
(* LRUListSound of IVArrayInv as a theorem.  First what a list linked both *)
(* ways is and what becomes of it when one is taken out or put at the end; *)
(* then what each method makes of the entries' links; then that every step *)
(* keeps the list linked.                                                  *)
(***************************************************************************)
EXTENDS IVArrayInv, FiniteSetTheorems, TLAPS

-----------------------------------------------------------------------------
(* Linked lists                                                            *)

\* The order q of the n entries of L is the one their links give.
InOrder(n, q, L, a, h, t) ==
    /\ q \in [1..n -> L]
    /\ \A i, j \in 1..n : q[i] = q[j] => i = j
    /\ \A x \in L : \E i \in 1..n : q[i] = x
    /\ h = IF n = 0 THEN NoKey ELSE q[1]
    /\ t = IF n = 0 THEN NoKey ELSE q[n]
    /\ \A i \in 1..n : /\ a[q[i]].next = IF i = n THEN NoKey ELSE q[i + 1]
                       /\ a[q[i]].prev = IF i = 1 THEN NoKey ELSE q[i - 1]

\* The entries of L of the array a are linked in a list from h to t.
Linked(L, a, h, t) ==
    /\ L \subseteq Nat
    /\ \E n \in Nat : \E q : InOrder(n, q, L, a, h, t)

LEMMA LinkedNone ==
    ASSUME NEW a PROVE Linked({}, a, NoKey, NoKey)
  <1> DEFINE q == [i \in 1..0 |-> 0]
  <1>1. InOrder(0, q, {}, a, NoKey, NoKey)
    BY DEF InOrder
  <1> HIDE DEF q
  <1>2. QED BY <1>1 DEF Linked

\* Only the links of the entries in the list count.
LEMMA LinkedSame ==
    ASSUME NEW L, NEW a, NEW b, NEW h, NEW t, Linked(L, a, h, t),
           \A x \in L : b[x].next = a[x].next /\ b[x].prev = a[x].prev
    PROVE  Linked(L, b, h, t)
  <1>0. PICK n \in Nat : \E q : InOrder(n, q, L, a, h, t)
    BY DEF Linked
  <1>1. PICK q : InOrder(n, q, L, a, h, t)
    BY <1>0
  <1>2. \A i \in 1..n : q[i] \in L
    BY <1>1 DEF InOrder
  <1>3. InOrder(n, q, L, b, h, t)
    BY <1>1, <1>2 DEF InOrder
  <1>4. QED BY <1>3 DEF Linked

\* The two ends and the neighbours of an entry are in the list or nowhere,
\* and only the last has no next.
Ends(L, a, h, t) ==
    /\ h \in L \cup {NoKey} /\ t \in L \cup {NoKey}
    /\ h = NoKey <=> L = {}
    /\ t = NoKey <=> L = {}
    /\ h # NoKey => a[h].prev = NoKey
    /\ t # NoKey => a[t].next = NoKey
    /\ \A x \in L : /\ a[x].next \in (L \ {x}) \cup {NoKey}
                    /\ a[x].prev \in (L \ {x}) \cup {NoKey}
                    /\ a[x].next = NoKey <=> x = t
                    /\ a[x].prev = NoKey <=> x = h
                    /\ a[x].next = NoKey \/ a[a[x].next].prev = x
                    /\ a[x].prev = NoKey \/ a[a[x].prev].next = x

LEMMA LinkedEnds ==
    ASSUME NEW L, NEW a, NEW h, NEW t, Linked(L, a, h, t)
    PROVE  Ends(L, a, h, t)
  <1>0. PICK n \in Nat : \E q : InOrder(n, q, L, a, h, t)
    BY DEF Linked
  <1>1. PICK q : InOrder(n, q, L, a, h, t)
    BY <1>0
  <1>2. \A i \in 1..n : q[i] \in L /\ q[i] \in Nat
    BY <1>1 DEF InOrder, Linked
  <1>3. /\ h = IF n = 0 THEN NoKey ELSE q[1]
        /\ t = IF n = 0 THEN NoKey ELSE q[n]
        /\ \A x \in L : \E i \in 1..n : q[i] = x
    BY <1>1 DEF InOrder
  <1>4. /\ \A i \in 1..n : /\ a[q[i]].next = IF i = n THEN NoKey ELSE q[i + 1]
                           /\ a[q[i]].prev = IF i = 1 THEN NoKey ELSE q[i - 1]
        /\ \A i, j \in 1..n : q[i] = q[j] => i = j
    BY <1>1 DEF InOrder
  <1>5. n = 0 <=> L = {}
    <2>1. n # 0 => 1 \in 1..n
      OBVIOUS
    <2>2. QED BY <2>1, <1>2, <1>3
  <1>6. /\ h \in L \cup {NoKey} /\ t \in L \cup {NoKey}
        /\ h = NoKey <=> L = {}
        /\ t = NoKey <=> L = {}
    BY <1>2, <1>3, <1>5 DEF NoKey
  <1>7. h # NoKey => a[h].prev = NoKey
    BY <1>3, <1>4
  <1>8. t # NoKey => a[t].next = NoKey
    BY <1>3, <1>4
  <1>9. ASSUME NEW x \in L
        PROVE  /\ a[x].next \in (L \ {x}) \cup {NoKey}
               /\ a[x].prev \in (L \ {x}) \cup {NoKey}
               /\ a[x].next = NoKey <=> x = t
               /\ a[x].prev = NoKey <=> x = h
               /\ a[x].next = NoKey \/ a[a[x].next].prev = x
               /\ a[x].prev = NoKey \/ a[a[x].prev].next = x
    <2>1. PICK i \in 1..n : q[i] = x
      BY <1>3
    <2>2. CASE i = n
      <3>1. a[x].next = NoKey /\ x = t
        BY <2>1, <2>2, <1>3, <1>4
      <3>2. CASE i = 1
        BY <3>1, <3>2, <2>1, <1>3, <1>4
      <3>3. CASE i # 1
        <4>1. i - 1 \in 1..n /\ i - 1 # n /\ (i - 1) + 1 = i /\ 1 \in 1..n
          BY <3>3, <2>1
        <4>2. a[x].prev = q[i - 1] /\ q[i - 1] \in L /\ q[i - 1] # x /\ q[i - 1] # NoKey
          BY <3>3, <2>1, <4>1, <1>2, <1>4 DEF NoKey
        <4>3. a[q[i - 1]].next = q[i] /\ x # h
          BY <4>1, <2>1, <1>3, <1>4, <3>3
        <4>4. QED BY <3>1, <4>2, <4>3, <2>1
      <3>4. QED BY <3>2, <3>3
    <2>3. CASE i # n
      <3>1. i + 1 \in 1..n /\ i + 1 # 1 /\ (i + 1) - 1 = i /\ n \in 1..n
        BY <2>1, <2>3
      <3>2. /\ a[x].next = q[i + 1] /\ q[i + 1] \in L /\ q[i + 1] # x /\ q[i + 1] # NoKey
            /\ a[q[i + 1]].prev = x /\ x # t
        <4>1. a[x].next = q[i + 1] /\ q[i + 1] \in L /\ q[i + 1] # NoKey
          BY <2>1, <2>3, <3>1, <1>2, <1>4 DEF NoKey
        <4>2. a[q[i + 1]].prev = x
          BY <2>1, <3>1, <1>4
        <4>3. q[i + 1] # x /\ x # t
          BY <2>1, <2>3, <3>1, <1>3, <1>4
        <4>4. QED BY <4>1, <4>2, <4>3
      <3>3. CASE i = 1
        BY <3>2, <3>3, <2>1, <1>3, <1>4
      <3>4. CASE i # 1
        <4>1. i - 1 \in 1..n /\ i - 1 # n /\ (i - 1) + 1 = i /\ 1 \in 1..n
          BY <3>4, <2>1
        <4>2. a[x].prev = q[i - 1] /\ q[i - 1] \in L /\ q[i - 1] # x /\ q[i - 1] # NoKey
          BY <3>4, <2>1, <4>1, <1>2, <1>4 DEF NoKey
        <4>3. a[q[i - 1]].next = q[i] /\ x # h
          BY <4>1, <2>1, <1>3, <1>4, <3>4
        <4>4. QED BY <3>2, <4>2, <4>3, <2>1
      <3>5. QED BY <3>3, <3>4
    <2>4. QED BY <2>2, <2>3
  <1>10. QED BY <1>6, <1>7, <1>8, <1>9 DEF Ends

\* k is taken out of the entries L of a, which become b: its neighbours, or
\* the ends, are linked to each other.
Removed(L, a, h, t, k, b, g, u) ==
    /\ \A x \in L \ {k} :
          /\ b[x].next = IF x = a[k].prev THEN a[k].next ELSE a[x].next
          /\ b[x].prev = IF x = a[k].next THEN a[k].prev ELSE a[x].prev
    /\ g = IF a[k].prev = NoKey THEN a[k].next ELSE h
    /\ u = IF a[k].next = NoKey THEN a[k].prev ELSE t

LEMMA LinkedWithout ==
    ASSUME NEW L, NEW a, NEW h, NEW t, Linked(L, a, h, t), NEW k \in L,
           NEW b, NEW g, NEW u, Removed(L, a, h, t, k, b, g, u)
    PROVE  Linked(L \ {k}, b, g, u)
  <1> USE DEF Removed
  <1>0. PICK n \in Nat : \E q : InOrder(n, q, L, a, h, t)
    BY DEF Linked
  <1>1. PICK q : InOrder(n, q, L, a, h, t)
    BY <1>0
  <1>2. \A i \in 1..n : q[i] \in L /\ q[i] \in Nat
    BY <1>1 DEF InOrder, Linked
  <1>3. /\ h = IF n = 0 THEN NoKey ELSE q[1]
        /\ t = IF n = 0 THEN NoKey ELSE q[n]
        /\ \A x \in L : \E i \in 1..n : q[i] = x
    BY <1>1 DEF InOrder
  <1>4. /\ \A i \in 1..n : /\ a[q[i]].next = IF i = n THEN NoKey ELSE q[i + 1]
                           /\ a[q[i]].prev = IF i = 1 THEN NoKey ELSE q[i - 1]
        /\ \A i, j \in 1..n : q[i] = q[j] => i = j
    BY <1>1 DEF InOrder
  <1>5. PICK m \in 1..n : q[m] = k
    BY <1>3
  <1> DEFINE pos(i) == IF i < m THEN i ELSE i + 1
             r == [i \in 1..(n - 1) |-> q[pos(i)]]
  <1>6. n - 1 \in Nat /\ \A i \in 1..(n - 1) : pos(i) \in 1..n /\ pos(i) # m
    OBVIOUS
  <1>7. \A i \in 1..(n - 1) : r[i] = q[pos(i)] /\ r[i] \in L \ {k}
    BY <1>2, <1>4, <1>5, <1>6
  <1>8. r \in [1..(n - 1) -> L \ {k}]
    BY <1>7
  <1>9. \A i, j \in 1..(n - 1) : r[i] = r[j] => i = j
    <2>1. \A i, j \in 1..(n - 1) : pos(i) = pos(j) => i = j
      OBVIOUS
    <2>2. QED BY <2>1, <1>4, <1>6, <1>7
  <1>10. \A x \in L \ {k} : \E i \in 1..(n - 1) : r[i] = x
    <2>1. ASSUME NEW x \in L \ {k} PROVE \E i \in 1..(n - 1) : r[i] = x
      <3>1. PICK j \in 1..n : q[j] = x
        BY <1>3
      <3>2. j # m
        BY <3>1, <1>5
      <3>3. CASE j < m
        <4>1. j \in 1..(n - 1) /\ pos(j) = j
          BY <3>3
        <4>2. QED BY <4>1, <3>1
      <3>4. CASE j > m
        <4>1. j - 1 \in 1..(n - 1) /\ pos(j - 1) = j
          BY <3>4
        <4>2. QED BY <4>1, <3>1
      <3>5. QED BY <3>2, <3>3, <3>4
    <2>2. QED BY <2>1
  <1>11. /\ a[k].next = IF m = n THEN NoKey ELSE q[m + 1]
         /\ a[k].prev = IF m = 1 THEN NoKey ELSE q[m - 1]
    BY <1>4, <1>5
  <1>12. g = IF n - 1 = 0 THEN NoKey ELSE r[1]
    <2>1. CASE n = 1
      BY <2>1, <1>11
    <2>2. CASE n # 1 /\ m = 1
      <3>1. 1 \in 1..(n - 1) /\ pos(1) = 2 /\ m + 1 = 2 /\ m # n
        BY <2>2
      <3>2. QED BY <2>2, <3>1, <1>11
    <2>3. CASE n # 1 /\ m # 1
      <3>1. 1 \in 1..(n - 1) /\ pos(1) = 1 /\ m - 1 \in 1..n /\ n # 0
        BY <2>3
      <3>2. a[k].prev # NoKey
        BY <1>11, <2>3, <3>1, <1>2 DEF NoKey
      <3>3. QED BY <2>3, <3>1, <3>2, <1>3
    <2>4. QED BY <2>1, <2>2, <2>3
  <1>13. u = IF n - 1 = 0 THEN NoKey ELSE r[n - 1]
    <2>1. CASE n = 1
      BY <2>1, <1>11
    <2>2. CASE n # 1 /\ m = n
      <3>1. n - 1 \in 1..(n - 1) /\ pos(n - 1) = n - 1 /\ m # 1
        BY <2>2
      <3>2. QED BY <2>2, <3>1, <1>11
    <2>3. CASE n # 1 /\ m # n
      <3>1. n - 1 \in 1..(n - 1) /\ pos(n - 1) = n /\ m + 1 \in 1..n /\ n # 0
        BY <2>3
      <3>2. a[k].next # NoKey
        BY <1>11, <2>3, <3>1, <1>2 DEF NoKey
      <3>3. QED BY <2>3, <3>1, <3>2, <1>3
    <2>4. QED BY <2>1, <2>2, <2>3
  <1>14. ASSUME NEW i \in 1..(n - 1)
         PROVE  b[r[i]].next = IF i = n - 1 THEN NoKey ELSE r[i + 1]
    <2>1. b[r[i]].next = IF r[i] = a[k].prev THEN a[k].next ELSE a[r[i]].next
      BY <1>7
    <2>2. r[i] = a[k].prev <=> m # 1 /\ pos(i) = m - 1
      <3>1. m # 1 => m - 1 \in 1..n
        OBVIOUS
      <3>2. r[i] # NoKey
        BY <1>7, <1>2, <1>6 DEF NoKey
      <3>3. QED BY <3>1, <3>2, <1>7, <1>6, <1>11, <1>4
    <2>3. CASE pos(i) = m - 1 /\ m # 1
      <3>1. i = m - 1 /\ (m = n <=> i = n - 1)
        BY <2>3
      <3>2. m # n => i + 1 \in 1..(n - 1) /\ pos(i + 1) = m + 1
        BY <3>1
      <3>3. QED BY <2>1, <2>2, <2>3, <3>1, <3>2, <1>11
    <2>4. CASE ~(pos(i) = m - 1 /\ m # 1)
      <3>1. b[r[i]].next = IF pos(i) = n THEN NoKey ELSE q[pos(i) + 1]
        BY <2>1, <2>2, <2>4, <1>4, <1>6, <1>7
      <3>2. pos(i) = n <=> i = n - 1
        BY <2>4
      <3>3. i # n - 1 => i + 1 \in 1..(n - 1) /\ pos(i + 1) = pos(i) + 1
        BY <2>4
      <3>4. QED BY <3>1, <3>2, <3>3
    <2>5. QED BY <2>3, <2>4
  <1>15. ASSUME NEW i \in 1..(n - 1)
         PROVE  b[r[i]].prev = IF i = 1 THEN NoKey ELSE r[i - 1]
    <2>1. b[r[i]].prev = IF r[i] = a[k].next THEN a[k].prev ELSE a[r[i]].prev
      BY <1>7
    <2>2. r[i] = a[k].next <=> m # n /\ pos(i) = m + 1
      <3>1. m # n => m + 1 \in 1..n
        OBVIOUS
      <3>2. r[i] # NoKey
        BY <1>7, <1>2, <1>6 DEF NoKey
      <3>3. QED BY <3>1, <3>2, <1>7, <1>6, <1>11, <1>4
    <2>3. CASE pos(i) = m + 1 /\ m # n
      <3>1. i = m
        BY <2>3
      <3>2. m # 1 => i - 1 \in 1..(n - 1) /\ pos(i - 1) = m - 1
        BY <3>1
      <3>3. QED BY <2>1, <2>2, <2>3, <3>1, <3>2, <1>11
    <2>4. CASE ~(pos(i) = m + 1 /\ m # n)
      <3>1. b[r[i]].prev = IF pos(i) = 1 THEN NoKey ELSE q[pos(i) - 1]
        BY <2>1, <2>2, <2>4, <1>4, <1>6, <1>7
      <3>2. pos(i) = 1 <=> i = 1
        BY <2>4
      <3>3. i # 1 => i - 1 \in 1..(n - 1) /\ pos(i - 1) = pos(i) - 1
        BY <2>4
      <3>4. QED BY <3>1, <3>2, <3>3
    <2>5. QED BY <2>3, <2>4
  <1>16. L \ {k} \subseteq Nat
    BY DEF Linked
  <1>17. InOrder(n - 1, r, L \ {k}, b, g, u)
    <2> HIDE DEF r
    <2>1. QED BY <1>8, <1>9, <1>10, <1>12, <1>13, <1>14, <1>15 DEF InOrder
  <1> HIDE DEF r
  <1>18. QED BY <1>6, <1>16, <1>17 DEF Linked

\* k is put behind the entries L of a, which become b.
Appended(L, a, h, t, k, b, g) ==
    /\ \A x \in L : /\ b[x].next = IF x = t THEN k ELSE a[x].next
                    /\ b[x].prev = a[x].prev
    /\ b[k].next = NoKey /\ b[k].prev = t
    /\ g = IF t = NoKey THEN k ELSE h

\* An entry is put at the end: the last one, or the head, is linked to it.
LEMMA LinkedWith ==
    ASSUME NEW L, NEW a, NEW h, NEW t, Linked(L, a, h, t), NEW k \in Nat \ L,
           NEW b, NEW g, Appended(L, a, h, t, k, b, g)
    PROVE  Linked(L \cup {k}, b, g, k)
  <1> USE DEF Appended
  <1>0. PICK n \in Nat : \E q : InOrder(n, q, L, a, h, t)
    BY DEF Linked
  <1>1. PICK q : InOrder(n, q, L, a, h, t)
    BY <1>0
  <1>2. \A i \in 1..n : q[i] \in L /\ q[i] \in Nat
    BY <1>1 DEF InOrder, Linked
  <1>3. /\ h = IF n = 0 THEN NoKey ELSE q[1]
        /\ t = IF n = 0 THEN NoKey ELSE q[n]
        /\ \A x \in L : \E i \in 1..n : q[i] = x
    BY <1>1 DEF InOrder
  <1>4. /\ \A i \in 1..n : /\ a[q[i]].next = IF i = n THEN NoKey ELSE q[i + 1]
                           /\ a[q[i]].prev = IF i = 1 THEN NoKey ELSE q[i - 1]
        /\ \A i, j \in 1..n : q[i] = q[j] => i = j
    BY <1>1 DEF InOrder
  <1> DEFINE r == [i \in 1..(n + 1) |-> IF i = n + 1 THEN k ELSE q[i]]
  <1>5. n + 1 \in Nat /\ n + 1 # 0 /\ n + 1 \in 1..(n + 1)
    OBVIOUS
  <1>6. \A i \in 1..(n + 1) : i # n + 1 => i \in 1..n
    OBVIOUS
  <1>7. r[n + 1] = k /\ \A i \in 1..n : r[i] = q[i] /\ r[i] \in L /\ r[i] # k
    BY <1>2
  <1>8. r \in [1..(n + 1) -> L \cup {k}]
    BY <1>2, <1>6
  <1>9. \A i, j \in 1..(n + 1) : r[i] = r[j] => i = j
    <2> HIDE DEF r
    <2>1. QED BY <1>4, <1>6, <1>7
  <1>10. \A x \in L \cup {k} : \E i \in 1..(n + 1) : r[i] = x
    <2>1. \A i \in 1..n : i \in 1..(n + 1)
      OBVIOUS
    <2> HIDE DEF r
    <2>2. QED BY <2>1, <1>3, <1>5, <1>7
  <1>11. g = r[1]
    <2>1. CASE n = 0
      BY <2>1, <1>3
    <2>2. CASE n # 0
      <3>1. 1 \in 1..n /\ n \in 1..n
        BY <2>2
      <3>2. t # NoKey
        BY <2>2, <3>1, <1>2, <1>3 DEF NoKey
      <3>3. QED BY <2>2, <3>1, <3>2, <1>3, <1>7
    <2>3. QED BY <2>1, <2>2
  <1>12. ASSUME NEW i \in 1..(n + 1)
         PROVE  /\ b[r[i]].next = IF i = n + 1 THEN NoKey ELSE r[i + 1]
                /\ b[r[i]].prev = IF i = 1 THEN NoKey ELSE r[i - 1]
    <2> HIDE DEF r
    <2>1. CASE i = n + 1
      <3>1. b[r[i]].next = NoKey /\ b[r[i]].prev = t
        BY <2>1, <1>7
      <3>2. n # 0 => i - 1 = n /\ n \in 1..n /\ i # 1
        BY <2>1
      <3>3. n = 0 => i = 1
        BY <2>1
      <3>4. QED BY <2>1, <3>1, <3>2, <3>3, <1>3, <1>7
    <2>2. CASE i # n + 1
      <3>1. i \in 1..n /\ n \in 1..n /\ n # 0
        BY <2>2
      <3>2. q[i] = t <=> i = n
        BY <3>1, <1>3, <1>4
      <3>3. b[r[i]].next = IF i = n THEN k ELSE a[q[i]].next
        BY <3>1, <3>2, <1>7
      <3>4. b[r[i]].next = r[i + 1]
        <4>1. CASE i = n
          BY <4>1, <3>3, <1>7
        <4>2. CASE i # n
          <5>1. i + 1 \in 1..n
            BY <4>2, <3>1
          <5>2. QED BY <4>2, <5>1, <3>1, <3>3, <1>4, <1>7
        <4>3. QED BY <4>1, <4>2
      <3>5. b[r[i]].prev = a[q[i]].prev
        BY <3>1, <1>7
      <3>6. i # 1 => i - 1 \in 1..n
        BY <3>1
      <3>7. QED BY <2>2, <3>1, <3>4, <3>5, <3>6, <1>4, <1>7
    <2>3. QED BY <2>1, <2>2
  <1>13. L \cup {k} \subseteq Nat
    BY DEF Linked
  <1>14. InOrder(n + 1, r, L \cup {k}, b, g, k)
    <2> HIDE DEF r
    <2>1. QED BY <1>5, <1>7, <1>8, <1>9, <1>10, <1>11, <1>12 DEF InOrder
  <1> HIDE DEF r
  <1>15. QED BY <1>5, <1>13, <1>14 DEF Linked

-----------------------------------------------------------------------------
(* The links of an array                                                   *)

\* The data A of an entry and of a store is anything.
EntryIn(A) == [store : A, used : BOOLEAN, dirty : BOOLEAN, cached : BOOLEAN,
               pinned : BOOLEAN, prev : Int, next : Int, value : A]
StoreIn(D, A) == [array : [D -> EntryIn(A)], head : Int, tail : Int, curSize : A,
                  bm : A, process : {"run", "exit", "wild"}]

\* A store of the entries D.
IsStore(D, s) == D \subseteq Nat /\ \E A : s \in StoreIn(D, A)

\* b is the entry e but for its place in the list.
SameBut(b, e) ==
    /\ b.used = e.used /\ b.dirty = e.dirty /\ b.cached = e.cached
    /\ b.pinned = e.pinned /\ b.value = e.value

\* t is s with another next of k, or another head.
NextSet(D, s, k, n, t) ==
    /\ IsStore(D, t)
    /\ \A j \in D : /\ SameBut(t.array[j], s.array[j])
                    /\ t.array[j].next = IF j = k THEN n ELSE s.array[j].next
                    /\ t.array[j].prev = s.array[j].prev
    /\ t.head = IF k = NoKey THEN n ELSE s.head
    /\ t.tail = s.tail /\ t.process = s.process

\* t is s with another prev of k.
PrevSet(D, s, k, p, t) ==
    /\ IsStore(D, t)
    /\ \A j \in D : /\ SameBut(t.array[j], s.array[j])
                    /\ t.array[j].prev = IF j = k THEN p ELSE s.array[j].prev
                    /\ t.array[j].next = s.array[j].next
    /\ t.head = s.head /\ t.tail = s.tail /\ t.process = s.process

LEMMA NextFacts ==
    ASSUME NEW D, NEW s, IsStore(D, s), NEW k \in D \cup {NoKey}, NEW n \in Int,
           NEW t, t = SetNext(s, k, n)
    PROVE  NextSet(D, s, k, n, t)
  <1>1. PICK A : s \in StoreIn(D, A)
    BY DEF IsStore
  <1>2. D \subseteq Nat /\ NoKey \notin D
    BY DEF IsStore, NoKey
  <1>3. CASE k = NoKey
    <2>1. t = [s EXCEPT !.head = n]
      BY <1>3 DEF SetNext
    <2>2. t \in StoreIn(D, A)
      BY <2>1, <1>1 DEF StoreIn
    <2>3. t.array = s.array /\ t.head = n /\ t.tail = s.tail /\ t.process = s.process
      BY <2>1, <1>1 DEF StoreIn
    <2>4. IsStore(D, t)
      BY <2>2, <1>2 DEF IsStore
    <2>5. QED BY <2>3, <2>4, <1>2, <1>3 DEF SameBut, NextSet
  <1>4. CASE k \in D
    <2>1. t = [s EXCEPT !.array[k].next = n]
      BY <1>4, <1>2 DEF SetNext
    <2>2. t \in StoreIn(D, A)
      BY <2>1, <1>1, <1>4 DEF StoreIn, EntryIn
    <2>3. t.head = s.head /\ t.tail = s.tail /\ t.process = s.process
      BY <2>1, <1>1, <1>4 DEF StoreIn
    <2>4. ASSUME NEW j \in D
          PROVE  /\ SameBut(t.array[j], s.array[j])
                 /\ t.array[j].next = IF j = k THEN n ELSE s.array[j].next
                 /\ t.array[j].prev = s.array[j].prev
      BY <2>1, <1>1, <1>4 DEF StoreIn, EntryIn, SameBut
    <2>5. IsStore(D, t)
      BY <2>2, <1>2 DEF IsStore
    <2>6. QED BY <2>3, <2>4, <2>5, <1>2, <1>4 DEF NextSet
  <1>5. QED BY <1>3, <1>4

LEMMA PrevFacts ==
    ASSUME NEW D, NEW s, IsStore(D, s), NEW k \in D, NEW p \in Int,
           NEW t, t = SetPrev(s, k, p)
    PROVE  PrevSet(D, s, k, p, t)
  <1>1. PICK A : s \in StoreIn(D, A)
    BY DEF IsStore
  <1>2. t = [s EXCEPT !.array[k].prev = p]
    BY DEF SetPrev
  <1>3. t \in StoreIn(D, A)
    BY <1>2, <1>1 DEF StoreIn, EntryIn
  <1>4. t.head = s.head /\ t.tail = s.tail /\ t.process = s.process
    BY <1>2, <1>1 DEF StoreIn
  <1>5. ASSUME NEW j \in D
        PROVE  /\ SameBut(t.array[j], s.array[j])
               /\ t.array[j].prev = IF j = k THEN p ELSE s.array[j].prev
               /\ t.array[j].next = s.array[j].next
    BY <1>2, <1>1 DEF StoreIn, EntryIn, SameBut
  <1>6. IsStore(D, t)
    BY <1>3 DEF IsStore
  <1>7. QED BY <1>4, <1>5, <1>6 DEF PrevSet

\* A dirty value is written before it leaves: the links stay.
LEMMA WriteBackFacts ==
    ASSUME NEW D, NEW s, IsStore(D, s), NEW k \in D,
           NEW t, t = WriteBack(s, k)
    PROVE  /\ IsStore(D, t)
           /\ \A j \in D : /\ SameBut(t.array[j], s.array[j])
                           /\ t.array[j].prev = s.array[j].prev
                           /\ t.array[j].next = s.array[j].next
           /\ t.head = s.head /\ t.tail = s.tail /\ t.process = s.process
  <1>1. PICK A : s \in StoreIn(D, A)
    BY DEF IsStore
  <1> DEFINE v == s.array[k].value
             w == WhereTo(s.bm, v)
             m == WriteValue(s.bm, v)
             B == A \cup {w, m}
             u == [s EXCEPT !.array[k].store = w]
  <1>2. t = [s EXCEPT !.array[k].store = w, !.bm = m]
    BY DEF WriteBack
  <1> HIDE DEF w, m
  <1>3. s \in StoreIn(D, B)
    BY <1>1 DEF StoreIn, EntryIn
  <1>4. w \in B /\ m \in B
    OBVIOUS
  <1> HIDE DEF B
  <1>5. u \in StoreIn(D, B)
    BY <1>3, <1>4, SMTT(30) DEF StoreIn, EntryIn
  <1>6. t = [u EXCEPT !.bm = m]
    BY <1>2, <1>3, <1>4 DEF StoreIn, EntryIn
  <1>7. ASSUME NEW j \in D
        PROVE  /\ SameBut(u.array[j], s.array[j])
               /\ u.array[j].prev = s.array[j].prev
               /\ u.array[j].next = s.array[j].next
    BY <1>3, <1>4 DEF StoreIn, EntryIn, SameBut
  <1>8. u.head = s.head /\ u.tail = s.tail /\ u.process = s.process
    BY <1>3, <1>4 DEF StoreIn, EntryIn
  <1> HIDE DEF u
  <1>9. /\ t \in StoreIn(D, B) /\ t.array = u.array
        /\ t.head = u.head /\ t.tail = u.tail /\ t.process = u.process
    BY <1>4, <1>5, <1>6 DEF StoreIn
  <1>10. IsStore(D, t)
    BY <1>9 DEF IsStore
  <1>11. QED BY <1>7, <1>8, <1>9, <1>10

\* What one assignment leaves.
LEMMA DataFacts ==
    ASSUME NEW D, NEW s, IsStore(D, s), NEW d, NEW t,
           \/ t = [s EXCEPT !.curSize = d]
           \/ t = [s EXCEPT !.bm = d]
    PROVE  /\ IsStore(D, t) /\ t.array = s.array
           /\ t.head = s.head /\ t.tail = s.tail /\ t.process = s.process
  <1>1. PICK A : s \in StoreIn(D, A)
    BY DEF IsStore
  <1>2. s \in StoreIn(D, A \cup {d})
    BY <1>1 DEF StoreIn, EntryIn
  <1>3. t \in StoreIn(D, A \cup {d})
    BY <1>2 DEF StoreIn
  <1>4. IsStore(D, t)
    BY <1>3 DEF IsStore
  <1>5. t.array = s.array /\ t.head = s.head /\ t.tail = s.tail /\ t.process = s.process
    BY <1>2 DEF StoreIn
  <1>6. QED BY <1>4, <1>5

LEMMA TailFacts ==
    ASSUME NEW D, NEW s, IsStore(D, s), NEW k \in Int, NEW t, t = [s EXCEPT !.tail = k]
    PROVE  /\ IsStore(D, t) /\ t.array = s.array
           /\ t.head = s.head /\ t.tail = k /\ t.process = s.process
  <1>1. PICK A : s \in StoreIn(D, A)
    BY DEF IsStore
  <1>2. t \in StoreIn(D, A)
    BY <1>1 DEF StoreIn
  <1>3. IsStore(D, t)
    BY <1>2 DEF IsStore
  <1>4. t.array = s.array /\ t.head = s.head /\ t.tail = k /\ t.process = s.process
    BY <1>1 DEF StoreIn
  <1>5. QED BY <1>3, <1>4

LEMMA ProcessFacts ==
    ASSUME NEW D, NEW s, IsStore(D, s), NEW p \in {"run", "exit", "wild"},
           NEW t, t = [s EXCEPT !.process = p]
    PROVE  /\ IsStore(D, t) /\ t.array = s.array
           /\ t.head = s.head /\ t.tail = s.tail /\ t.process = p
  <1>1. PICK A : s \in StoreIn(D, A)
    BY DEF IsStore
  <1>2. t \in StoreIn(D, A)
    BY <1>1 DEF StoreIn
  <1>3. IsStore(D, t)
    BY <1>2 DEF IsStore
  <1>4. t.array = s.array /\ t.head = s.head /\ t.tail = s.tail /\ t.process = p
    BY <1>1 DEF StoreIn
  <1>5. QED BY <1>3, <1>4

\* An entry of any data.
IsEntry(e) == \E A : e \in EntryIn(A)

LEMMA EntryFacts ==
    ASSUME NEW D, NEW s, IsStore(D, s), NEW k \in D
    PROVE  IsEntry(s.array[k])
  <1>1. PICK A : s \in StoreIn(D, A)
    BY DEF IsStore
  <1>2. s.array[k] \in EntryIn(A)
    BY <1>1 DEF StoreIn
  <1>3. QED BY <1>2 DEF IsEntry

Put(s, k, e) == [s EXCEPT !.array[k] = e]

LEMMA PutFacts ==
    ASSUME NEW D, NEW s, IsStore(D, s), NEW k \in D, NEW e, IsEntry(e),
           NEW t, t = Put(s, k, e)
    PROVE  /\ IsStore(D, t)
           /\ t.array[k] = e /\ \A j \in D \ {k} : t.array[j] = s.array[j]
           /\ t.head = s.head /\ t.tail = s.tail /\ t.process = s.process
  <1>1. PICK A : s \in StoreIn(D, A)
    BY DEF IsStore
  <1>2. PICK B : e \in EntryIn(B)
    BY DEF IsEntry
  <1>3. s \in StoreIn(D, A \cup B) /\ e \in EntryIn(A \cup B)
    BY <1>1, <1>2 DEF StoreIn, EntryIn
  <1>4. t \in StoreIn(D, A \cup B)
    BY <1>3 DEF StoreIn, Put
  <1>5. IsStore(D, t)
    BY <1>4 DEF IsStore
  <1>6. /\ t.array[k] = e /\ \A j \in D \ {k} : t.array[j] = s.array[j]
        /\ t.head = s.head /\ t.tail = s.tail /\ t.process = s.process
    BY <1>3 DEF StoreIn, Put
  <1>7. QED BY <1>5, <1>6

LEMMA ReleaseFacts ==
    ASSUME NEW e, IsEntry(e), NEW r, r = Release(e)
    PROVE  /\ IsEntry(r)
           /\ r.used = e.used /\ r.dirty = e.dirty /\ r.cached = e.cached
           /\ r.pinned = e.pinned
           /\ r.prev = NoKey /\ r.next = NoKey /\ r.value = NoValue
  <1>1. PICK A : e \in EntryIn(A)
    BY DEF IsEntry
  <1>2. e \in EntryIn(A \cup {NoValue})
    BY <1>1 DEF EntryIn
  <1>3. r = [e EXCEPT !.value = NoValue, !.prev = NoKey, !.next = NoKey]
    BY DEF Release
  <1>4. NoKey \in Int
    BY DEF NoKey
  <1>5. r \in EntryIn(A \cup {NoValue})
    BY <1>2, <1>3, <1>4 DEF EntryIn
  <1>6. IsEntry(r)
    BY <1>5 DEF IsEntry
  <1>7. /\ r.used = e.used /\ r.dirty = e.dirty /\ r.cached = e.cached
        /\ r.pinned = e.pinned
        /\ r.prev = NoKey /\ r.next = NoKey /\ r.value = NoValue
    BY <1>2, <1>3, <1>4 DEF EntryIn
  <1>8. QED BY <1>6, <1>7

LEMMA UncachedFacts ==
    ASSUME NEW e, IsEntry(e), NEW r, r = [e EXCEPT !.cached = FALSE]
    PROVE  /\ IsEntry(r)
           /\ r.used = e.used /\ r.dirty = e.dirty /\ r.cached = FALSE
           /\ r.pinned = e.pinned
           /\ r.prev = e.prev /\ r.next = e.next /\ r.value = e.value
  <1>1. PICK A : e \in EntryIn(A)
    BY DEF IsEntry
  <1>2. r \in EntryIn(A)
    BY <1>1 DEF EntryIn
  <1>3. IsEntry(r)
    BY <1>2 DEF IsEntry
  <1>4. /\ r.used = e.used /\ r.dirty = e.dirty /\ r.cached = FALSE
        /\ r.pinned = e.pinned
        /\ r.prev = e.prev /\ r.next = e.next /\ r.value = e.value
    BY <1>1 DEF EntryIn
  <1>5. QED BY <1>3, <1>4

-----------------------------------------------------------------------------
(* The methods keep the list linked                                        *)

ListedOf(D, s) == {k \in D : s.array[k].cached /\ ~s.array[k].pinned}

\* What every method leaves: the entries in memory that are not pinned are
\* linked, pinned ones are in memory, and nothing outside was written.  In
\* between the entries X are not in the list.
Sound(D, s, X) ==
    /\ IsStore(D, s)
    /\ Linked(ListedOf(D, s) \ X, s.array, s.head, s.tail)
    /\ \A k \in D : s.array[k].pinned => s.array[k].cached
    /\ s.process # "wild"

\* Nothing comes into memory, or out of use, from s to t.
Kept(D, s, t) ==
    \A j \in D : /\ t.array[j].used = s.array[j].used
                 /\ t.array[j].pinned = s.array[j].pinned
                 /\ t.array[j].cached => /\ s.array[j].cached
                                         /\ t.array[j].value = s.array[j].value

LEMMA BoolFacts ==
    ASSUME NEW D, NEW s, IsStore(D, s), NEW k \in D
    PROVE  /\ s.array[k].used \in BOOLEAN /\ s.array[k].cached \in BOOLEAN
           /\ s.array[k].pinned \in BOOLEAN
           /\ s.array[k].next \in Int /\ s.array[k].prev \in Int
  BY DEF IsStore, StoreIn, EntryIn

LEMMA SwapOutSound ==
    ASSUME NEW D, NEW s, NEW X, Sound(D, s, X), NEW t, t = SwapOut(s)
    PROVE  Sound(D, t, X) /\ Kept(D, s, t)
  <1> DEFINE L == ListedOf(D, s) \ X
             k == s.head
             n == s.array[k].next
             t1 == SetNext(s, NoKey, n)
             u1 == IF n # NoKey THEN SetPrev(t1, n, NoKey) ELSE [t1 EXCEPT !.tail = NoKey]
             w1 == IF s.array[k].dirty THEN WriteBack(u1, k) ELSE u1
             c1 == (w1.curSize - LenOf(s.array[k].value)) % SizeRange
  <1>0. t = IF k = NoKey THEN [s EXCEPT !.process = "exit"]
            ELSE [w1 EXCEPT !.curSize = c1,
                            !.array[k] = [Release(@) EXCEPT !.cached = FALSE]]
    BY DEF SwapOut
  <1>1. /\ IsStore(D, s) /\ Linked(L, s.array, s.head, s.tail)
        /\ L \subseteq D /\ D \subseteq Nat
        /\ \A j \in D : s.array[j].pinned => s.array[j].cached
        /\ \A j \in D : j \in L <=> s.array[j].cached /\ ~s.array[j].pinned /\ j \notin X
        /\ s.process # "wild" /\ NoKey \notin D /\ NoKey \in Int
    BY DEF Sound, ListedOf, IsStore, NoKey
  <1> HIDE DEF c1, L
  <1>2. CASE k = NoKey
    <2>1. t = [s EXCEPT !.process = "exit"]
      BY <1>0, <1>2
    <2>2. /\ IsStore(D, t) /\ t.array = s.array
          /\ t.head = s.head /\ t.tail = s.tail /\ t.process = "exit"
      BY <2>1, <1>1, ProcessFacts
    <2>3. Kept(D, s, t)
      BY <2>2 DEF Kept
    <2>4. Sound(D, t, X)
      BY <2>2, <1>1 DEF Sound, ListedOf, L
    <2>5. QED BY <2>3, <2>4
  <1>3. CASE k # NoKey
    <2>1. /\ k \in L /\ k \in D /\ n \in (L \ {k}) \cup {NoKey} /\ n \in Int
          /\ s.array[k].prev = NoKey /\ s.tail \in Int
          /\ n = NoKey <=> k = s.tail
      <3>0. Ends(L, s.array, s.head, s.tail)
        BY <1>1, LinkedEnds
      <3>1. s.head \in L \cup {NoKey} /\ s.tail \in L \cup {NoKey}
        BY <3>0 DEF Ends
      <3>2. k \in L /\ k \in D
        BY <3>1, <1>1, <1>3
      <3>3. n \in (L \ {k}) \cup {NoKey} /\ s.array[k].prev = NoKey
        BY <3>0, <3>2 DEF Ends
      <3>4. n = NoKey <=> k = s.tail
        BY <3>0, <3>2 DEF Ends
      <3> HIDE DEF n, k
      <3>5. n \in Int /\ s.tail \in Int
        BY <3>1, <3>3, <1>1
      <3>6. QED BY <3>2, <3>3, <3>4, <3>5
    <2> HIDE DEF n
    <2>2. /\ IsStore(D, t1)
          /\ \A j \in D : /\ SameBut(t1.array[j], s.array[j])
                          /\ t1.array[j].next = s.array[j].next
                          /\ t1.array[j].prev = s.array[j].prev
          /\ t1.head = n /\ t1.tail = s.tail /\ t1.process = s.process
      <3> t1 = SetNext(s, NoKey, n)
        OBVIOUS
      <3> HIDE DEF t1
      <3>1. NextSet(D, s, NoKey, n, t1)
        BY <1>1, <2>1, NextFacts
      <3>2. QED BY <3>1, <1>1 DEF NextSet
    <2> HIDE DEF t1
    <2>3. /\ IsStore(D, u1)
          /\ \A j \in D : /\ SameBut(u1.array[j], s.array[j])
                          /\ u1.array[j].next = s.array[j].next
                          /\ u1.array[j].prev = IF j = n THEN NoKey ELSE s.array[j].prev
          /\ u1.head = n /\ u1.process = s.process
          /\ u1.tail = IF n = NoKey THEN NoKey ELSE s.tail
      <3>1. CASE n # NoKey
        <4>1. n \in D /\ u1 = SetPrev(t1, n, NoKey)
          BY <3>1, <2>1, <1>1
        <4> HIDE DEF u1
        <4>2. PrevSet(D, t1, n, NoKey, u1)
          BY <4>1, <2>2, <1>1, PrevFacts
        <4>3. QED BY <4>2, <3>1, <2>2 DEF SameBut, PrevSet
      <3>2. CASE n = NoKey
        <4>1. u1 = [t1 EXCEPT !.tail = NoKey]
          BY <3>2
        <4>2. /\ IsStore(D, u1) /\ u1.array = t1.array
              /\ u1.head = t1.head /\ u1.tail = NoKey /\ u1.process = t1.process
          BY <4>1, <2>2, <1>1, TailFacts
        <4> HIDE DEF u1
        <4>3. QED BY <4>2, <3>2, <2>2, <1>1
      <3>3. QED BY <3>1, <3>2
    <2> HIDE DEF u1
    <2>4. /\ IsStore(D, w1)
          /\ \A j \in D : /\ SameBut(w1.array[j], s.array[j])
                          /\ w1.array[j].next = s.array[j].next
                          /\ w1.array[j].prev = IF j = n THEN NoKey ELSE s.array[j].prev
          /\ w1.head = n /\ w1.process = s.process
          /\ w1.tail = IF n = NoKey THEN NoKey ELSE s.tail
      <3>1. CASE s.array[k].dirty
        <4>1. w1 = WriteBack(u1, k)
          BY <3>1
        <4>2. /\ IsStore(D, w1)
              /\ \A j \in D : /\ SameBut(w1.array[j], u1.array[j])
                              /\ w1.array[j].prev = u1.array[j].prev
                              /\ w1.array[j].next = u1.array[j].next
              /\ w1.head = u1.head /\ w1.tail = u1.tail /\ w1.process = u1.process
          BY <4>1, <2>1, <2>3, WriteBackFacts
        <4> HIDE DEF w1
        <4>3. QED BY <4>2, <2>3 DEF SameBut
      <3>2. CASE ~s.array[k].dirty
        BY <3>2, <2>3
      <3>3. QED BY <3>1, <3>2
    <2> HIDE DEF w1
    <2> DEFINE v1 == [w1 EXCEPT !.curSize = c1]
               r1 == Release(w1.array[k])
               e1 == [r1 EXCEPT !.cached = FALSE]
    <2>5. /\ IsStore(D, v1) /\ v1.array = w1.array
          /\ v1.head = w1.head /\ v1.tail = w1.tail /\ v1.process = w1.process
      BY <2>4, DataFacts
    <2>6. t = Put(v1, k, e1)
      <3>1. t = [w1 EXCEPT !.curSize = c1, !.array[k] = [Release(@) EXCEPT !.cached = FALSE]]
        BY <1>0, <1>3
      <3>2. PICK A : w1 \in StoreIn(D, A)
        BY <2>4 DEF IsStore
      <3>3. QED BY <3>1, <3>2, <2>1 DEF StoreIn, Put
    <2> HIDE DEF v1, k
    <2>7. IsEntry(w1.array[k])
      BY <2>1, <2>4, EntryFacts
    <2>8. /\ IsEntry(r1) /\ r1.used = w1.array[k].used /\ r1.pinned = w1.array[k].pinned
      BY <2>7, ReleaseFacts
    <2> HIDE DEF r1
    <2>9. /\ IsEntry(e1) /\ e1.used = r1.used /\ e1.pinned = r1.pinned /\ e1.cached = FALSE
      BY <2>8, UncachedFacts
    <2> HIDE DEF e1
    <2>10. /\ IsStore(D, t)
           /\ t.array[k] = e1 /\ \A j \in D \ {k} : t.array[j] = v1.array[j]
           /\ t.head = v1.head /\ t.tail = v1.tail /\ t.process = v1.process
      BY <2>1, <2>5, <2>6, <2>9, PutFacts
    <2>11. /\ t.array[k].used = s.array[k].used /\ t.array[k].pinned = s.array[k].pinned
           /\ t.array[k].cached = FALSE
      BY <2>1, <2>4, <2>8, <2>9, <2>10 DEF SameBut
    <2>12. \A j \in D \ {k} : /\ SameBut(t.array[j], s.array[j])
                              /\ t.array[j].next = s.array[j].next
                              /\ t.array[j].prev = IF j = n THEN NoKey ELSE s.array[j].prev
      BY <2>4, <2>5, <2>10
    <2>13. ListedOf(D, t) \ X = L \ {k}
      BY <2>11, <2>12, <2>1 DEF ListedOf, SameBut, L
    <2>14. Linked(L \ {k}, t.array, t.head, t.tail)
      <3>1. \A x \in L \ {k} :
              /\ t.array[x].next = IF x = s.array[k].prev THEN s.array[k].next
                                   ELSE s.array[x].next
              /\ t.array[x].prev = IF x = s.array[k].next THEN s.array[k].prev
                                   ELSE s.array[x].prev
        BY <2>12, <2>1, <1>1 DEF n
      <3>2. t.head = IF s.array[k].prev = NoKey THEN s.array[k].next ELSE s.head
        BY <2>10, <2>5, <2>4, <2>1, <1>1 DEF n, k
      <3>3. t.tail = IF s.array[k].next = NoKey THEN s.array[k].prev ELSE s.tail
        BY <2>10, <2>5, <2>4, <2>1, <1>1 DEF n, k
      <3>4. Removed(L, s.array, s.head, s.tail, k, t.array, t.head, t.tail)
        BY <3>1, <3>2, <3>3 DEF Removed
      <3>5. QED BY <3>4, <2>1, <1>1, LinkedWithout
    <2>15. \A j \in D : t.array[j].pinned => t.array[j].cached
      BY <2>11, <2>12, <2>1, <1>1 DEF SameBut
    <2>16. Kept(D, s, t)
      BY <2>11, <2>12 DEF Kept, SameBut
    <2>17. QED BY <2>4, <2>5, <2>10, <2>13, <2>14, <2>15, <2>16, <1>1 DEF Sound
  <1>4. QED BY <1>2, <1>3

LEMMA KeptTrans ==
    ASSUME NEW D, NEW s, NEW t, NEW u, Kept(D, s, t), Kept(D, t, u)
    PROVE  Kept(D, s, u)
  BY DEF Kept

Evicting == INSTANCE Fold_proofs WITH Op <- Evict
Saving   == INSTANCE Fold_proofs WITH Op <- SaveOne

LEMMA MakeRoomSound ==
    ASSUME NEW D, NEW s, NEW X, Sound(D, s, X), NEW len, NEW t, t = MakeRoom(s, len),
           setup.maxKey \in Nat
    PROVE  Sound(D, t, X) /\ Kept(D, s, t)
  <1> DEFINE xs == [i \in 1..(setup.maxKey + 2) |-> len]
             N == setup.maxKey + 2
  <1>1. Len(xs) = N /\ N \in Nat /\ \A i \in 1..N : xs[i] = len
    OBVIOUS
  <1>2. t = Each(Evict, s, xs)
    BY DEF MakeRoom
  <1> HIDE DEF xs
  <1>3. PICK a : /\ a[0] = s
                 /\ \A n \in 0..(Len(xs) - 1) : a[n + 1] = Evict(a[n], xs[n + 1])
                 /\ Evicting!Each(s, xs) = a[Len(xs)]
    BY <1>1, Evicting!Turns
  <1>4. t = a[N]
    <2>1. Each(Evict, s, xs) = a[Len(xs)]
      BY <1>3, Zenon DEF Each, Evicting!Each
    <2>2. QED BY <2>1, <1>1, <1>2
  <1> DEFINE T == {n \in Nat : n <= N => Sound(D, a[n], X) /\ Kept(D, s, a[n])}
  <1>5. 0 \in T
    <2>1. Kept(D, s, s)
      BY DEF Kept
    <2>2. QED BY <2>1, <1>3
  <1>6. ASSUME NEW n \in T PROVE n + 1 \in T
    <2>1. SUFFICES ASSUME n + 1 <= N PROVE Sound(D, a[n + 1], X) /\ Kept(D, s, a[n + 1])
      OBVIOUS
    <2>2. n <= N /\ n \in 0..(Len(xs) - 1) /\ n + 1 \in 1..N
      BY <2>1, <1>1
    <2>3. Sound(D, a[n], X) /\ Kept(D, s, a[n])
      BY <2>2
    <2>4. a[n + 1] = Evict(a[n], len)
      BY <2>2, <1>1, <1>3
    <2>5. CASE a[n + 1] = a[n]
      BY <2>3, <2>5
    <2>6. CASE a[n + 1] = SwapOut(a[n])
      <3>1. Sound(D, a[n + 1], X) /\ Kept(D, a[n], a[n + 1])
        BY <2>3, <2>6, SwapOutSound
      <3>2. QED BY <3>1, <2>3, KeptTrans
    <2>7. QED BY <2>4, <2>5, <2>6 DEF Evict
  <1>7. T = Nat
    <2>1. T \in SUBSET Nat
      OBVIOUS
    <2> HIDE DEF T
    <2>2. QED BY <2>1, <1>5, <1>6, Evicting!SetInduction
  <1>8. QED BY <1>1, <1>4, <1>7

\* Only k comes into memory from s to t, with v.
Adds(D, s, k, v, t) ==
    \A j \in D : /\ t.array[j].used = s.array[j].used
                 /\ t.array[j].pinned = s.array[j].pinned
                 /\ t.array[j].cached =>
                       \/ j = k /\ t.array[j].value = v
                       \/ s.array[j].cached /\ t.array[j].value = s.array[j].value

\* What AddInCache leaves of an entry.
CachedWith(e, v) == [[e EXCEPT !.value = v] EXCEPT !.cached = TRUE]

InMemory(e, v, r) ==
    /\ IsEntry(r) /\ r.used = e.used /\ r.pinned = e.pinned
    /\ r.cached /\ r.value = v
    /\ r.prev = e.prev /\ r.next = e.next

LEMMA CachedWithFacts ==
    ASSUME NEW e, IsEntry(e), NEW v, NEW r, r = CachedWith(e, v)
    PROVE  InMemory(e, v, r)
  <1>1. PICK A : e \in EntryIn(A)
    BY DEF IsEntry
  <1>2. e \in EntryIn(A \cup {v})
    BY <1>1 DEF EntryIn
  <1> DEFINE f == [e EXCEPT !.value = v]
  <1>3. /\ f \in EntryIn(A \cup {v}) /\ f.used = e.used /\ f.pinned = e.pinned
        /\ f.value = v /\ f.prev = e.prev /\ f.next = e.next
    BY <1>2 DEF EntryIn
  <1>4. r = [f EXCEPT !.cached = TRUE]
    BY DEF CachedWith
  <1> HIDE DEF f
  <1>5. r \in EntryIn(A \cup {v})
    BY <1>3, <1>4 DEF EntryIn
  <1>6. IsEntry(r)
    BY <1>5 DEF IsEntry
  <1>7. QED BY <1>3, <1>4, <1>6 DEF EntryIn, InMemory

LEMMA AddInCacheSound ==
    ASSUME NEW D, NEW s, NEW k \in D, Sound(D, s, {k}), ~s.array[k].pinned,
           setup.maxKey \in Nat, NEW v, NEW t, t = AddInCache(s, k, v)
    PROVE  \/ LenOf(v) > MaxCacheSize /\ t = s
           \/ t.process = "exit" /\ Kept(D, s, t)
           \/ Sound(D, t, {}) /\ Adds(D, s, k, v, t)
  <1> DEFINE m == MakeRoom(s, LenOf(v))
             u1 == SetNext(m, m.tail, k)
             u2 == SetPrev(u1, k, m.tail)
             u3 == SetNext(u2, k, NoKey)
             c == (u3.curSize + LenOf(v)) % SizeRange
             L == ListedOf(D, m) \ {k}
  <1>1. t = IF LenOf(v) > MaxCacheSize THEN s
            ELSE IF m.process # "run" THEN m
            ELSE [u3 EXCEPT !.tail = k,
                            !.curSize = (@ + LenOf(v)) % SizeRange,
                            !.array[k].value = v,
                            !.array[k].cached = TRUE]
    BY DEF AddInCache
  <1>2. m = MakeRoom(s, LenOf(v))
    OBVIOUS
  <1> HIDE DEF m
  <1>3. Sound(D, m, {k}) /\ Kept(D, s, m)
    BY <1>2, MakeRoomSound
  <1>4. SUFFICES ASSUME ~(LenOf(v) > MaxCacheSize), m.process = "run"
                 PROVE  Sound(D, t, {}) /\ Adds(D, s, k, v, t)
    <2>1. m.process \in {"run", "exit"}
      BY <1>3 DEF Sound, IsStore, StoreIn
    <2>2. CASE LenOf(v) > MaxCacheSize
      BY <1>1, <2>2
    <2>3. CASE ~(LenOf(v) > MaxCacheSize) /\ m.process # "run"
      BY <1>1, <1>3, <2>1, <2>3
    <2>4. QED BY <2>1, <2>2, <2>3, <1>4
  <1>5. /\ IsStore(D, m) /\ Linked(L, m.array, m.head, m.tail)
        /\ L \subseteq D /\ D \subseteq Nat /\ k \notin L /\ k \in Int /\ NoKey \in Int
        /\ \A j \in D : m.array[j].pinned => m.array[j].cached
        /\ \A j \in D : j \in L <=> m.array[j].cached /\ ~m.array[j].pinned /\ j # k
        /\ NoKey \notin D /\ ~m.array[k].pinned
    BY <1>3 DEF Sound, ListedOf, IsStore, NoKey, Kept
  <1>6. m.tail \in L \cup {NoKey} /\ m.tail \in Int /\ m.tail \in D \cup {NoKey} /\ m.tail # k
    <2>1. m.tail \in L \cup {NoKey}
      BY <1>5, LinkedEnds DEF Ends
    <2>2. QED BY <2>1, <1>5
  <1> HIDE DEF L
  <1>7. NextSet(D, m, m.tail, k, u1)
    <2> u1 = SetNext(m, m.tail, k)
      OBVIOUS
    <2> HIDE DEF u1
    <2>1. QED BY <1>5, <1>6, NextFacts
  <1> HIDE DEF u1
  <1>8. PrevSet(D, u1, k, m.tail, u2)
    <2> u2 = SetPrev(u1, k, m.tail)
      OBVIOUS
    <2> HIDE DEF u2
    <2>1. IsStore(D, u1)
      BY <1>7 DEF NextSet
    <2>2. QED BY <2>1, <1>6, PrevFacts
  <1> HIDE DEF u2
  <1>9. NextSet(D, u2, k, NoKey, u3)
    <2> u3 = SetNext(u2, k, NoKey)
      OBVIOUS
    <2> HIDE DEF u3
    <2>1. IsStore(D, u2)
      BY <1>8 DEF PrevSet
    <2>2. QED BY <2>1, <1>5, NextFacts
  <1> HIDE DEF u3, c
  <1>10. /\ IsStore(D, u3)
         /\ \A j \in D : SameBut(u3.array[j], m.array[j])
         /\ \A j \in L : /\ u3.array[j].next = IF j = m.tail THEN k ELSE m.array[j].next
                         /\ u3.array[j].prev = m.array[j].prev
         /\ u3.array[k].next = NoKey /\ u3.array[k].prev = m.tail
         /\ u3.head = (IF m.tail = NoKey THEN k ELSE m.head) /\ u3.process = "run"
    <2>1. IsStore(D, u3)
      BY <1>9 DEF NextSet
    <2>2. \A j \in D : SameBut(u3.array[j], m.array[j])
      BY <1>7, <1>8, <1>9 DEF NextSet, PrevSet, SameBut
    <2>3. ASSUME NEW j \in L
          PROVE  /\ u3.array[j].next = IF j = m.tail THEN k ELSE m.array[j].next
                 /\ u3.array[j].prev = m.array[j].prev
      <3>1. j \in D /\ j # k
        BY <1>5
      <3>2. QED BY <3>1, <1>7, <1>8, <1>9 DEF NextSet, PrevSet
    <2>4. u3.array[k].next = NoKey /\ u3.array[k].prev = m.tail
      BY <1>7, <1>8, <1>9 DEF NextSet, PrevSet
    <2>5. k # NoKey
      BY <1>5
    <2>6. u3.head = (IF m.tail = NoKey THEN k ELSE m.head) /\ u3.process = "run"
      BY <2>5, <1>4, <1>7, <1>8, <1>9 DEF NextSet, PrevSet
    <2>7. QED BY <2>1, <2>2, <2>3, <2>4, <2>6
  <1> DEFINE v1 == [u3 EXCEPT !.tail = k]
             v2 == [v1 EXCEPT !.curSize = c]
             e1 == CachedWith(u3.array[k], v)
  <1>11. /\ IsStore(D, v1) /\ v1.array = u3.array
         /\ v1.head = u3.head /\ v1.tail = k /\ v1.process = u3.process
    BY <1>5, <1>10, TailFacts
  <1>12. t = Put(v2, k, e1)
    <2>1. t = [u3 EXCEPT !.tail = k, !.curSize = (@ + LenOf(v)) % SizeRange,
                         !.array[k].value = v, !.array[k].cached = TRUE]
      BY <1>1, <1>4
    <2>2. PICK A : u3 \in StoreIn(D, A)
      BY <1>10 DEF IsStore
    <2>3. QED BY <2>1, <2>2, ZenonT(60) DEF StoreIn, EntryIn, Put, CachedWith, c
  <1> HIDE DEF v1
  <1>13. /\ IsStore(D, v2) /\ v2.array = v1.array
         /\ v2.head = v1.head /\ v2.tail = v1.tail /\ v2.process = v1.process
    BY <1>11, DataFacts
  <1> HIDE DEF v2
  <1>14. InMemory(u3.array[k], v, e1)
    <2>1. IsEntry(u3.array[k])
      BY <1>10, EntryFacts
    <2>2. e1 = CachedWith(u3.array[k], v)
      OBVIOUS
    <2> HIDE DEF e1
    <2>3. QED BY <2>1, <2>2, CachedWithFacts
  <1> HIDE DEF e1
  <1>15. /\ IsStore(D, t)
         /\ t.array[k] = e1 /\ \A j \in D \ {k} : t.array[j] = u3.array[j]
         /\ t.head = u3.head /\ t.tail = k /\ t.process = "run"
    <2>1. /\ IsStore(D, t)
          /\ t.array[k] = e1 /\ \A j \in D \ {k} : t.array[j] = v2.array[j]
          /\ t.head = v2.head /\ t.tail = v2.tail /\ t.process = v2.process
      BY <1>12, <1>13, <1>14, PutFacts DEF InMemory
    <2>2. QED BY <2>1, <1>10, <1>11, <1>13
  <1>16. ListedOf(D, t) \ {} = L \cup {k}
    <2>1. \A j \in D : j # k => (t.array[j].cached /\ ~t.array[j].pinned <=> j \in L)
      BY <1>5, <1>10, <1>15 DEF SameBut
    <2>2. t.array[k].cached /\ ~t.array[k].pinned
      BY <1>5, <1>10, <1>14, <1>15 DEF SameBut, InMemory
    <2>3. QED BY <2>1, <2>2, <1>5 DEF ListedOf
  <1>17. Linked(L \cup {k}, t.array, t.head, t.tail)
    <2>1. \A j \in L : /\ t.array[j].next = IF j = m.tail THEN k ELSE m.array[j].next
                       /\ t.array[j].prev = m.array[j].prev
      BY <1>5, <1>10, <1>15
    <2>2. /\ t.array[k].next = NoKey /\ t.array[k].prev = m.tail
          /\ t.head = IF m.tail = NoKey THEN k ELSE m.head
      BY <1>10, <1>14, <1>15 DEF InMemory
    <2>3. k \in Nat \ L /\ Linked(L, m.array, m.head, m.tail)
      BY <1>5
    <2>4. Appended(L, m.array, m.head, m.tail, k, t.array, t.head)
      BY <2>1, <2>2 DEF Appended
    <2>5. Linked(L \cup {k}, t.array, t.head, k)
      BY <2>3, <2>4, LinkedWith
    <2>6. QED BY <2>5, <1>15
  <1>18. \A j \in D : t.array[j].pinned => t.array[j].cached
    BY <1>5, <1>10, <1>14, <1>15 DEF SameBut, InMemory
  <1>19. Adds(D, s, k, v, t)
    BY <1>3, <1>10, <1>14, <1>15 DEF Kept, Adds, SameBut, InMemory
  <1>20. QED BY <1>15, <1>16, <1>17, <1>18, <1>19 DEF Sound

\* u is s with k taken out of the list of L.
TakenOut(D, s, L, k, u) ==
    /\ IsStore(D, u)
    /\ \A j \in D : SameBut(u.array[j], s.array[j])
    /\ Linked(L \ {k}, u.array, u.head, u.tail)
    /\ u.process = s.process

\* p gets the place of the prev of n, or of the tail.
Behind(t, n, p) == IF n # NoKey THEN SetPrev(t, n, p) ELSE [t EXCEPT !.tail = p]

LEMMA UnlinkFacts ==
    ASSUME NEW D, NEW s, IsStore(D, s), NEW L, L \subseteq D,
           Linked(L, s.array, s.head, s.tail), NEW k \in L,
           NEW p, p = s.array[k].prev, NEW n, n = s.array[k].next,
           NEW t, t = SetNext(s, p, n),
           NEW u, u = Behind(t, n, p)
    PROVE  TakenOut(D, s, L, k, u)
  <1>1. p \in (L \ {k}) \cup {NoKey} /\ n \in (L \ {k}) \cup {NoKey}
    BY LinkedEnds DEF Ends
  <1>2. n = NoKey <=> k = s.tail
    BY LinkedEnds DEF Ends
  <1>3. D \subseteq Nat /\ NoKey \in Int /\ NoKey \notin D
    BY DEF IsStore, NoKey
  <1>4. p \in Int /\ n \in Int /\ p \in D \cup {NoKey}
    BY <1>1, <1>3
  <1>5. NextSet(D, s, p, n, t)
    BY <1>4, NextFacts
  <1> DEFINE Bypassed(j) ==
               /\ SameBut(u.array[j], s.array[j])
               /\ u.array[j].next = IF j = p THEN n ELSE s.array[j].next
               /\ u.array[j].prev = IF j = n THEN p ELSE s.array[j].prev
  <1>6. /\ IsStore(D, u)
        /\ \A j \in D : Bypassed(j)
        /\ u.head = IF p = NoKey THEN n ELSE s.head
        /\ u.tail = IF n = NoKey THEN p ELSE s.tail
        /\ u.process = s.process
    <2>1. CASE n # NoKey
      <3>1. n \in D /\ u = SetPrev(t, n, p) /\ IsStore(D, t)
        BY <2>1, <1>1, <1>5 DEF NextSet, Behind
      <3>2. PrevSet(D, t, n, p, u)
        BY <3>1, <1>4, PrevFacts
      <3>3. ASSUME NEW j \in D PROVE Bypassed(j)
        <4>1. /\ SameBut(u.array[j], t.array[j]) /\ u.array[j].next = t.array[j].next
              /\ u.array[j].prev = IF j = n THEN p ELSE t.array[j].prev
          BY <3>2 DEF PrevSet
        <4>2. /\ SameBut(t.array[j], s.array[j]) /\ t.array[j].prev = s.array[j].prev
              /\ t.array[j].next = IF j = p THEN n ELSE s.array[j].next
          BY <1>5 DEF NextSet
        <4>3. SameBut(u.array[j], s.array[j])
          BY <4>1, <4>2 DEF SameBut
        <4>4. QED BY <4>1, <4>2, <4>3
      <3>4. /\ IsStore(D, u)
            /\ u.head = IF p = NoKey THEN n ELSE s.head
            /\ u.tail = s.tail /\ u.process = s.process
        BY <3>2, <1>5 DEF NextSet, PrevSet
      <3>5. QED
        <4> HIDE DEF Bypassed
        <4>1. QED BY <2>1, <3>3, <3>4
    <2>2. CASE n = NoKey
      <3>1. u = [t EXCEPT !.tail = p] /\ IsStore(D, t)
        BY <2>2, <1>5 DEF NextSet, Behind
      <3>2. /\ IsStore(D, u) /\ u.array = t.array
            /\ u.head = t.head /\ u.tail = p /\ u.process = t.process
        BY <3>1, <1>4, TailFacts
      <3>3. ASSUME NEW j \in D PROVE Bypassed(j)
        <4>1. j # n /\ u.array[j] = t.array[j]
          BY <2>2, <3>2, <1>3
        <4>2. /\ SameBut(t.array[j], s.array[j]) /\ t.array[j].prev = s.array[j].prev
              /\ t.array[j].next = IF j = p THEN n ELSE s.array[j].next
          BY <1>5 DEF NextSet
        <4>3. QED BY <4>1, <4>2
      <3>4. u.head = (IF p = NoKey THEN n ELSE s.head) /\ u.process = s.process
        BY <3>2, <1>5 DEF NextSet
      <3>5. QED
        <4> HIDE DEF Bypassed
        <4>1. QED BY <2>2, <3>2, <3>3, <3>4
    <2>3. QED BY <2>1, <2>2
  <1>7. Removed(L, s.array, s.head, s.tail, k, u.array, u.head, u.tail)
    BY <1>6 DEF Removed
  <1>8. Linked(L \ {k}, u.array, u.head, u.tail)
    BY <1>7, LinkedWithout
  <1>9. QED BY <1>6, <1>8 DEF TakenOut

\* An entry that is in memory and can be swapped out is in the list.
LEMMA UpdateTimeSound ==
    ASSUME NEW D, NEW s, NEW k \in D, Sound(D, s, {}), s.array[k].cached,
           NEW t, t = UpdateTime(s, k)
    PROVE  Sound(D, t, {}) /\ Kept(D, s, t) /\ t.process = s.process
  <1> DEFINE L == ListedOf(D, s)
             p == s.array[k].prev
             n == s.array[k].next
             t1 == SetNext(s, p, n)
             t2 == SetPrev(t1, n, p)
             x1 == SetNext(t2, s.tail, k)
             x2 == SetNext(x1, k, NoKey)
             u == SetPrev(x2, k, s.tail)
  <1>1. t = IF s.array[k].pinned \/ k = s.tail THEN s
            ELSE IF n = NoKey THEN Outside(s)
            ELSE [u EXCEPT !.tail = k]
    BY DEF UpdateTime
  <1>2. /\ IsStore(D, s) /\ Linked(L, s.array, s.head, s.tail)
        /\ L \subseteq D /\ D \subseteq Nat /\ k \in Int /\ NoKey \in Int
        /\ \A j \in D : s.array[j].pinned => s.array[j].cached
        /\ s.process # "wild" /\ NoKey \notin D
    BY DEF Sound, ListedOf, IsStore, NoKey
  <1>3. CASE s.array[k].pinned \/ k = s.tail
    BY <1>1, <1>3 DEF Kept
  <1>4. CASE ~(s.array[k].pinned \/ k = s.tail)
    <2>1. k \in L
      BY <1>4 DEF ListedOf
    <2> HIDE DEF L
    <2>2. /\ n # NoKey /\ s.tail \in L \ {k}
          /\ p \in (L \ {k}) \cup {NoKey} /\ n \in L \ {k}
      <3>1. Ends(L, s.array, s.head, s.tail)
        BY <1>2, LinkedEnds
      <3>2. /\ n \in (L \ {k}) \cup {NoKey} /\ p \in (L \ {k}) \cup {NoKey}
            /\ n = NoKey <=> k = s.tail
        BY <2>1, <3>1 DEF Ends
      <3>3. s.tail \in L \cup {NoKey} /\ (s.tail = NoKey <=> L = {})
        BY <3>1 DEF Ends
      <3>4. QED BY <3>2, <3>3, <1>4, <2>1
    <2>3. t2 = Behind(t1, n, p)
      BY <2>2 DEF Behind
    <2>4. TakenOut(D, s, L, k, t2) /\ t2.tail = s.tail
      <3> t1 = SetNext(s, p, n) /\ p = s.array[k].prev /\ n = s.array[k].next
        OBVIOUS
      <3> t2 = SetPrev(t1, n, p)
        OBVIOUS
      <3> HIDE DEF t1, t2, p, n
      <3>1. TakenOut(D, s, L, k, t2)
        BY <2>1, <2>3, <1>2, UnlinkFacts
      <3>2. p \in D \cup {NoKey} /\ n \in Int /\ p \in Int /\ n \in D
        <4>1. p \in D \cup {NoKey} /\ n \in D
          BY <1>2, <2>2
        <4>2. n \in Nat /\ (p \in Nat \/ p = NoKey)
          BY <4>1, <1>2
        <4>3. QED BY <4>1, <4>2, <1>2
      <3>3. NextSet(D, s, p, n, t1)
        BY <3>2, <1>2, NextFacts
      <3>4. IsStore(D, t1)
        BY <3>3 DEF NextSet
      <3>5. PrevSet(D, t1, n, p, t2)
        BY <3>2, <3>4, PrevFacts
      <3>6. QED BY <3>1, <3>3, <3>5 DEF NextSet, PrevSet
    <2> HIDE DEF t2
    <2>5. t = [u EXCEPT !.tail = k]
      BY <1>1, <1>4, <2>2
    <2> HIDE DEF p, n
    <2>6. s.tail \in D \cup {NoKey} /\ s.tail \in Int /\ s.tail \in D /\ s.tail # k
      <3>1. s.tail \in D /\ s.tail # k
        BY <2>2, <1>2
      <3>2. s.tail \in Nat
        BY <3>1, <1>2
      <3>3. QED BY <3>1, <3>2
    <2>7. NextSet(D, t2, s.tail, k, x1)
      <3> x1 = SetNext(t2, s.tail, k)
        OBVIOUS
      <3> HIDE DEF x1
      <3>1. QED BY <2>4, <2>6, <1>2, NextFacts DEF TakenOut
    <2> HIDE DEF x1
    <2>8. NextSet(D, x1, k, NoKey, x2)
      <3> x2 = SetNext(x1, k, NoKey)
        OBVIOUS
      <3> HIDE DEF x2
      <3>1. IsStore(D, x1)
        BY <2>7 DEF NextSet
      <3>2. QED BY <3>1, <1>2, NextFacts
    <2> HIDE DEF x2
    <2>9. PrevSet(D, x2, k, s.tail, u)
      <3> u = SetPrev(x2, k, s.tail)
        OBVIOUS
      <3> HIDE DEF u
      <3>1. IsStore(D, x2)
        BY <2>8 DEF NextSet
      <3>2. QED BY <3>1, <2>6, PrevFacts
    <2> HIDE DEF u
    <2>10. /\ IsStore(D, t) /\ t.array = u.array
           /\ t.head = u.head /\ t.tail = k /\ t.process = u.process
      BY <2>5, <2>9, <1>2, TailFacts DEF PrevSet
    <2>11. \A j \in D : SameBut(t.array[j], s.array[j])
      <3>1. \A j \in D : SameBut(t.array[j], t2.array[j])
        BY <2>7, <2>8, <2>9, <2>10 DEF NextSet, PrevSet, SameBut
      <3>2. QED BY <3>1, <2>4 DEF TakenOut, SameBut
    <2>12. Appended(L \ {k}, t2.array, t2.head, t2.tail, k, t.array, t.head)
      <3>1. ASSUME NEW j \in L \ {k}
            PROVE  /\ t.array[j].next = IF j = t2.tail THEN k ELSE t2.array[j].next
                   /\ t.array[j].prev = t2.array[j].prev
        <4>1. j \in D /\ j # k
          BY <1>2
        <4>2. QED BY <4>1, <2>4, <2>7, <2>8, <2>9, <2>10 DEF NextSet, PrevSet
      <3>2. t.array[k].next = NoKey /\ t.array[k].prev = t2.tail
        BY <2>4, <2>7, <2>8, <2>9, <2>10 DEF NextSet, PrevSet
      <3>3. t.head = IF t2.tail = NoKey THEN k ELSE t2.head
        BY <1>2, <2>4, <2>6, <2>7, <2>8, <2>9, <2>10 DEF NextSet, PrevSet
      <3>4. QED BY <3>1, <3>2, <3>3 DEF Appended
    <2>13. Linked((L \ {k}) \cup {k}, t.array, t.head, k)
      <3>1. k \in Nat \ (L \ {k})
        BY <1>2
      <3>2. QED BY <3>1, <2>4, <2>12, LinkedWith DEF TakenOut
    <2>14. ListedOf(D, t) \ {} = (L \ {k}) \cup {k}
      BY <2>1, <2>11 DEF ListedOf, SameBut, L
    <2>15. t.process = s.process
      BY <2>4, <2>7, <2>8, <2>9, <2>10 DEF NextSet, PrevSet, TakenOut
    <2>16. Sound(D, t, {})
      BY <2>10, <2>11, <2>13, <2>14, <2>15, <1>2 DEF Sound, SameBut
    <2>17. QED BY <2>11, <2>15, <2>16 DEF Kept, SameBut
  <1>5. QED BY <1>3, <1>4

\* What RemoveFromLRUQueue leaves of an entry.
Dropped(e) == [[[e EXCEPT !.cached = FALSE] EXCEPT !.prev = NoKey] EXCEPT !.next = NoKey]

OutOfMemory(e, r) ==
    /\ IsEntry(r) /\ r.used = e.used /\ r.pinned = e.pinned
    /\ ~r.cached /\ r.value = e.value

LEMMA DroppedFacts ==
    ASSUME NEW e, IsEntry(e), NEW r, r = Dropped(e)
    PROVE  OutOfMemory(e, r)
  <1>1. PICK A : e \in EntryIn(A)
    BY DEF IsEntry
  <1> DEFINE f == [e EXCEPT !.cached = FALSE]
             g == [f EXCEPT !.prev = NoKey]
  <1>2. r = [g EXCEPT !.next = NoKey] /\ NoKey \in Int
    BY DEF Dropped, NoKey
  <1>3. /\ f \in EntryIn(A) /\ f.used = e.used /\ f.pinned = e.pinned
        /\ f.cached = FALSE /\ f.value = e.value
    BY <1>1 DEF EntryIn
  <1> HIDE DEF f
  <1>4. /\ g \in EntryIn(A) /\ g.used = e.used /\ g.pinned = e.pinned
        /\ g.cached = FALSE /\ g.value = e.value
    BY <1>2, <1>3 DEF EntryIn
  <1> HIDE DEF g
  <1>5. /\ r \in EntryIn(A) /\ r.used = e.used /\ r.pinned = e.pinned
        /\ r.cached = FALSE /\ r.value = e.value
    BY <1>2, <1>4 DEF EntryIn
  <1>6. IsEntry(r)
    BY <1>5 DEF IsEntry
  <1>7. QED BY <1>5, <1>6 DEF OutOfMemory

\* An entry that is pinned stays as it is, any other one leaves the list.
LEMMA RemoveSound ==
    ASSUME NEW D, NEW s, NEW k \in D, Sound(D, s, {}),
           NEW t, t = RemoveFromLRUQueue(s, k)
    PROVE  /\ Sound(D, t, {}) /\ Kept(D, s, t) /\ t.process = s.process
           /\ t.array[k].cached => t.array[k].pinned
  <1> DEFINE L == ListedOf(D, s)
             p == s.array[k].prev
             n == s.array[k].next
             t1 == SetNext(s, p, n)
             u == Bypass(s, k)
  <1>1. t = IF ~s.array[k].cached \/ s.array[k].pinned THEN s
            ELSE [u EXCEPT !.array[k].cached = FALSE,
                           !.array[k].prev = NoKey, !.array[k].next = NoKey]
    BY DEF RemoveFromLRUQueue
  <1>2. /\ IsStore(D, s) /\ Linked(L, s.array, s.head, s.tail)
        /\ L \subseteq D /\ \A j \in D : s.array[j].pinned => s.array[j].cached
        /\ s.process # "wild"
    BY DEF Sound, ListedOf
  <1>3. CASE ~s.array[k].cached \/ s.array[k].pinned
    BY <1>1, <1>3 DEF Kept
  <1>4. CASE ~(~s.array[k].cached \/ s.array[k].pinned)
    <2>1. k \in L
      BY <1>4 DEF ListedOf
    <2> HIDE DEF L
    <2>2. TakenOut(D, s, L, k, u)
      <3>1. u = Behind(t1, n, p)
        BY DEF Behind, Bypass
      <3> t1 = SetNext(s, p, n) /\ p = s.array[k].prev /\ n = s.array[k].next
        OBVIOUS
      <3> HIDE DEF u, t1, p, n
      <3>2. QED BY <3>1, <2>1, <1>2, UnlinkFacts
    <2>3. t = [u EXCEPT !.array[k].cached = FALSE,
                        !.array[k].prev = NoKey, !.array[k].next = NoKey]
      BY <1>1, <1>4
    <2> HIDE DEF u
    <2> DEFINE e == Dropped(u.array[k])
    <2>4. t = Put(u, k, e)
      <3>1. PICK A : u \in StoreIn(D, A)
        BY <2>2 DEF TakenOut, IsStore
      <3>2. QED BY <2>3, <3>1, ZenonT(60) DEF StoreIn, EntryIn, Put, Dropped
    <2>5. OutOfMemory(u.array[k], e)
      <3>1. IsStore(D, u)
        BY <2>2 DEF TakenOut
      <3>2. IsEntry(u.array[k])
        BY <3>1, EntryFacts
      <3>3. e = Dropped(u.array[k])
        OBVIOUS
      <3> HIDE DEF e
      <3>4. QED BY <3>2, <3>3, DroppedFacts
    <2> HIDE DEF e
    <2>6. /\ IsStore(D, t)
          /\ t.array[k] = e /\ \A j \in D \ {k} : t.array[j] = u.array[j]
          /\ t.head = u.head /\ t.tail = u.tail /\ t.process = u.process
      BY <2>2, <2>4, <2>5, PutFacts DEF TakenOut, OutOfMemory
    <2>7. \A j \in D \ {k} : SameBut(t.array[j], s.array[j])
      BY <2>2, <2>6 DEF TakenOut
    <2>8. /\ t.array[k].used = s.array[k].used /\ t.array[k].pinned = s.array[k].pinned
          /\ ~t.array[k].cached
      BY <2>2, <2>5, <2>6 DEF TakenOut, OutOfMemory, SameBut
    <2>9. ListedOf(D, t) \ {} = L \ {k}
      BY <2>7, <2>8 DEF ListedOf, SameBut, L
    <2>10. Linked(L \ {k}, u.array, u.head, u.tail)
      BY <2>2 DEF TakenOut
    <2>11. \A x \in L \ {k} : /\ t.array[x].next = u.array[x].next
                              /\ t.array[x].prev = u.array[x].prev
      BY <2>6, <1>2
    <2>12. Linked(L \ {k}, t.array, t.head, t.tail)
      BY <2>6, <2>10, <2>11, LinkedSame
    <2>13. t.process = s.process
      BY <2>2, <2>6 DEF TakenOut
    <2>14. \A j \in D : t.array[j].pinned => t.array[j].cached
      BY <1>2, <1>4, <2>7, <2>8 DEF SameBut
    <2>15. Sound(D, t, {})
      BY <2>6, <2>9, <2>12, <2>13, <2>14, <1>2 DEF Sound
    <2>16. Kept(D, s, t)
      BY <2>7, <2>8 DEF Kept, SameBut
    <2>17. QED BY <2>8, <2>13, <2>15, <2>16
  <1>5. QED BY <1>3, <1>4

\* What comes into memory from s to t is not long.
Brings(D, s, t) ==
    \A j \in D : /\ t.array[j].used = s.array[j].used
                 /\ t.array[j].pinned = s.array[j].pinned
                 /\ t.array[j].cached =>
                       \/ s.array[j].cached /\ t.array[j].value = s.array[j].value
                       \/ s.array[j].used /\ ~IsLong(t.array[j].value)

LEMMA SearchSound ==
    ASSUME NEW D, NEW s, NEW k \in D, Sound(D, s, {}), setup.maxKey \in Nat,
           NEW t, t = Search(s, k)
    PROVE  Brings(D, s, t) /\ (t.process = "exit" \/ Sound(D, t, {}))
  <1> DEFINE v == ReadValue(s.bm, s.array[k].store)
  <1>1. t = IF ~IsUsed(s, k) THEN s
            ELSE IF s.array[k].cached THEN UpdateTime(s, k)
            ELSE IF v = NoValue \/ IsLong(v) THEN s
            ELSE AddInCache(s, k, v)
    BY Zenon DEF Search
  <1> HIDE DEF v
  <1>2. \A x : Kept(D, s, x) => Brings(D, s, x)
    BY DEF Kept, Brings
  <1>3. Kept(D, s, s)
    BY DEF Kept
  <1>4. CASE t = s
    BY <1>2, <1>3, <1>4
  <1>5. CASE s.array[k].cached /\ t = UpdateTime(s, k)
    BY <1>2, <1>5, UpdateTimeSound
  <1>6. CASE ~s.array[k].cached /\ IsUsed(s, k) /\ ~IsLong(v) /\ t = AddInCache(s, k, v)
    <2>1. Sound(D, s, {k}) /\ ~s.array[k].pinned
      <3>1. ListedOf(D, s) \ {k} = ListedOf(D, s) \ {}
        BY <1>6 DEF ListedOf
      <3>2. QED BY <3>1, <1>6 DEF Sound
    <2>2. \/ t = s
          \/ t.process = "exit" /\ Kept(D, s, t)
          \/ Sound(D, t, {}) /\ Adds(D, s, k, v, t)
      BY <2>1, <1>6, AddInCacheSound
    <2>3. Adds(D, s, k, v, t) => Brings(D, s, t)
      BY <1>6 DEF Adds, Brings, IsUsed
    <2>4. QED BY <2>2, <2>3, <1>2, <1>3
  <1>7. QED BY <1>1, <1>4, <1>5, <1>6

\* An entry is changed that is in the list neither before nor after it, or
\* its links are left alone.
LEMMA PutSound ==
    ASSUME NEW D, NEW s, NEW X, Sound(D, s, X), NEW k \in D, NEW e, IsEntry(e),
           NEW t, t = Put(s, k, e), e.pinned => e.cached,
           \/ /\ s.array[k].cached => s.array[k].pinned \/ k \in X
              /\ e.cached => e.pinned \/ k \in X
           \/ /\ e.cached = s.array[k].cached /\ e.pinned = s.array[k].pinned
              /\ e.next = s.array[k].next /\ e.prev = s.array[k].prev
    PROVE  /\ Sound(D, t, X) /\ t.process = s.process
           /\ t.array[k] = e /\ \A j \in D \ {k} : t.array[j] = s.array[j]
  <1>1. /\ IsStore(D, s) /\ Linked(ListedOf(D, s) \ X, s.array, s.head, s.tail)
        /\ \A j \in D : s.array[j].pinned => s.array[j].cached
        /\ s.process # "wild"
    BY DEF Sound
  <1>2. /\ IsStore(D, t)
        /\ t.array[k] = e /\ \A j \in D \ {k} : t.array[j] = s.array[j]
        /\ t.head = s.head /\ t.tail = s.tail /\ t.process = s.process
    BY <1>1, PutFacts
  <1>3. ListedOf(D, t) \ X = ListedOf(D, s) \ X
    BY <1>2 DEF ListedOf
  <1>4. \A x \in ListedOf(D, s) \ X : /\ t.array[x].next = s.array[x].next
                                      /\ t.array[x].prev = s.array[x].prev
    BY <1>2 DEF ListedOf
  <1>5. Linked(ListedOf(D, s) \ X, t.array, t.head, t.tail)
    <2>1. Linked(ListedOf(D, s) \ X, t.array, s.head, s.tail)
      BY <1>1, <1>4, LinkedSame
    <2>2. QED BY <2>1, <1>2
  <1>6. Sound(D, t, X)
    BY <1>1, <1>2, <1>3, <1>5 DEF Sound
  <1>7. QED BY <1>2, <1>6

LEMMA DataSound ==
    ASSUME NEW D, NEW s, NEW X, Sound(D, s, X), NEW d, NEW t,
           \/ t = [s EXCEPT !.curSize = d]
           \/ t = [s EXCEPT !.bm = d]
    PROVE  Sound(D, t, X) /\ t.array = s.array /\ t.process = s.process
  <1>1. /\ IsStore(D, s) /\ Linked(ListedOf(D, s) \ X, s.array, s.head, s.tail)
        /\ \A j \in D : s.array[j].pinned => s.array[j].cached
        /\ s.process # "wild"
    BY DEF Sound
  <1>2. /\ IsStore(D, t) /\ t.array = s.array
        /\ t.head = s.head /\ t.tail = s.tail /\ t.process = s.process
    BY <1>1, DataFacts
  <1>3. QED BY <1>1, <1>2 DEF Sound, ListedOf

\* Other flags, and where the value is in the file, are nothing to the list.
Flags(e, r) ==
    /\ IsEntry(r) /\ r.value = e.value
    /\ r.cached = e.cached /\ r.pinned = e.pinned
    /\ r.next = e.next /\ r.prev = e.prev

LEMMA FlagFacts ==
    ASSUME NEW e, IsEntry(e), NEW b \in BOOLEAN, NEW r,
           \/ r = [e EXCEPT !.used = b]
           \/ r = [e EXCEPT !.dirty = b]
    PROVE  /\ Flags(e, r)
           /\ r = [e EXCEPT !.used = b] => r.used = b
           /\ r = [e EXCEPT !.dirty = b] => r.used = e.used
  <1>1. PICK A : e \in EntryIn(A)
    BY DEF IsEntry
  <1>2. r \in EntryIn(A)
    BY <1>1 DEF EntryIn
  <1>3. IsEntry(r)
    BY <1>2 DEF IsEntry
  <1>4. /\ r.value = e.value /\ r.cached = e.cached /\ r.pinned = e.pinned
        /\ r.next = e.next /\ r.prev = e.prev
    BY <1>1 DEF EntryIn
  <1>5. /\ r = [e EXCEPT !.used = b] => r.used = b
        /\ r = [e EXCEPT !.dirty = b] => r.used = e.used
    BY <1>1 DEF EntryIn
  <1>6. QED BY <1>3, <1>4, <1>5 DEF Flags

LEMMA StoreFacts ==
    ASSUME NEW e, IsEntry(e), NEW d, NEW r, r = [e EXCEPT !.store = d]
    PROVE  Flags(e, r) /\ r.used = e.used
  <1>1. PICK A : e \in EntryIn(A)
    BY DEF IsEntry
  <1>2. e \in EntryIn(A \cup {d})
    BY <1>1 DEF EntryIn
  <1>3. r \in EntryIn(A \cup {d})
    BY <1>2 DEF EntryIn
  <1>4. IsEntry(r)
    BY <1>3 DEF IsEntry
  <1>5. /\ r.value = e.value /\ r.cached = e.cached /\ r.pinned = e.pinned
        /\ r.next = e.next /\ r.prev = e.prev /\ r.used = e.used
    BY <1>2 DEF EntryIn
  <1>6. QED BY <1>4, <1>5 DEF Flags

LEMMA PinFacts ==
    ASSUME NEW e, IsEntry(e), NEW b \in BOOLEAN, NEW r, r = [e EXCEPT !.pinned = b]
    PROVE  /\ IsEntry(r) /\ r.value = e.value /\ r.used = e.used
           /\ r.cached = e.cached /\ r.pinned = b
           /\ r.next = e.next /\ r.prev = e.prev
  <1>1. PICK A : e \in EntryIn(A)
    BY DEF IsEntry
  <1>2. r \in EntryIn(A)
    BY <1>1 DEF EntryIn
  <1>3. IsEntry(r)
    BY <1>2 DEF IsEntry
  <1>4. /\ r.value = e.value /\ r.used = e.used /\ r.cached = e.cached /\ r.pinned = b
        /\ r.next = e.next /\ r.prev = e.prev
    BY <1>1 DEF EntryIn
  <1>5. QED BY <1>3, <1>4


\* An entry outside the list is outside whatever it is left out of.
LEMMA SoundWithout ==
    ASSUME NEW D, NEW s, NEW k, Sound(D, s, {}), k \notin ListedOf(D, s)
    PROVE  Sound(D, s, {k})
  <1>1. ListedOf(D, s) \ {k} = ListedOf(D, s) \ {}
    OBVIOUS
  <1>2. QED BY <1>1 DEF Sound

\* Only k may come into memory from s to t, and nothing comes into use.
Only(D, s, k, t) ==
    \A j \in D : /\ t.array[j].used => s.array[j].used
                 /\ j # k => t.array[j].used = s.array[j].used
                 /\ t.array[j].cached => s.array[j].cached \/ j = k

\* What modify and remove leave of the entry before its value is replaced.
Emptied(e) == Release([e EXCEPT !.pinned = FALSE])

LEMMA EmptiedFacts ==
    ASSUME NEW e, IsEntry(e), NEW r, r = Emptied(e)
    PROVE  IsEntry(r) /\ r.used = e.used /\ r.cached = e.cached /\ r.pinned = FALSE
  <1> DEFINE f == [e EXCEPT !.pinned = FALSE]
  <1>1. IsEntry(f) /\ f.used = e.used /\ f.cached = e.cached /\ f.pinned = FALSE
    BY PinFacts
  <1>2. r = Release(f)
    BY DEF Emptied
  <1> HIDE DEF f
  <1>3. QED BY <1>1, <1>2, ReleaseFacts

LEMMA ModifyCachedSound ==
    ASSUME NEW D, NEW s, NEW k \in D, Sound(D, s, {}), setup.maxKey \in Nat,
           NEW v, ~(LenOf(v) > MaxCacheSize), NEW t, t = ModifyCached(s, k, v)
    PROVE  \/ t.process = "exit"
           \/ Sound(D, t, {}) /\ Only(D, s, k, t) /\ t.array[k].used = s.array[k].used
  <1> DEFINE t0 == RemoveFromLRUQueue(s, k)
             t1 == Unpinned(t0, k)
             c  == (t1.curSize - LenOf(t1.array[k].value)) % SizeRange
             u  == [t1 EXCEPT !.array[k] = Release(@), !.curSize = c]
             e  == Emptied(t0.array[k])
             u0 == Put(t0, k, e)
  <1>1. t = AddInCache(u, k, v)
    BY Zenon DEF ModifyCached
  <1>2. /\ Sound(D, t0, {}) /\ Kept(D, s, t0)
        /\ t0.array[k].cached => t0.array[k].pinned
    BY RemoveSound
  <1> HIDE DEF c, t0
  <1>3. u = [u0 EXCEPT !.curSize = c]
    <2>1. PICK A : t0 \in StoreIn(D, A)
      BY <1>2 DEF Sound, IsStore
    <2>2. t1 = [t0 EXCEPT !.array[k].pinned = FALSE]
      BY DEF Unpinned
    <2>3. t1 = Put(t0, k, [t0.array[k] EXCEPT !.pinned = FALSE])
      BY <2>1, <2>2 DEF StoreIn, EntryIn, Put
    <2> DEFINE f == [t0.array[k] EXCEPT !.pinned = FALSE]
    <2>4. f \in EntryIn(A)
      BY <2>1, ZenonT(60) DEF StoreIn, EntryIn
    <2> HIDE DEF f, t1
    <2>5. u = [t1 EXCEPT !.array[k] = Release(t1.array[k]), !.curSize = c]
      <3>1. t1 = Put(t0, k, f)
        BY <2>3 DEF f
      <3>2. t1 \in StoreIn(D, A)
        BY <3>1, <2>1, <2>4 DEF StoreIn, Put
      <3>3. QED BY <3>2 DEF StoreIn
    <2>6. u0 = Put(t0, k, Release(f))
      BY DEF f, Emptied
    <2>7. t1 = Put(t0, k, f)
      BY <2>3 DEF f
    <2>8. t1.array[k] = f /\ t1 \in StoreIn(D, A)
      BY <2>7, <2>1, <2>4 DEF StoreIn, Put
    <2>9. u = [t1 EXCEPT !.array[k] = Release(f), !.curSize = c]
      BY <2>5, <2>8
    <2> DEFINE r == Release(f)
    <2> HIDE DEF r
    <2>10. u = [t1 EXCEPT !.array[k] = r, !.curSize = c] /\ u0 = Put(t0, k, r)
      BY <2>6, <2>9 DEF r
    <2> HIDE DEF u, u0
    <2>11. QED BY <2>7, <2>10, <2>1, <2>4 DEF StoreIn, Put
  <1> HIDE DEF u, e
  <1>4. IsEntry(e) /\ e.used = t0.array[k].used /\ e.cached = t0.array[k].cached /\ ~e.pinned
    <2>1. IsEntry(t0.array[k])
      BY <1>2, EntryFacts DEF Sound
    <2>2. e = Emptied(t0.array[k])
      BY DEF e
    <2>3. QED BY <2>1, <2>2, EmptiedFacts
  <1>5. Sound(D, t0, {k})
    <2>1. k \notin ListedOf(D, t0)
      BY <1>2 DEF ListedOf
    <2>2. QED BY <2>1, <1>2, SoundWithout
  <1>6. /\ Sound(D, u0, {k}) /\ u0.array[k] = e
        /\ \A j \in D \ {k} : u0.array[j] = t0.array[j]
    <2> u0 = Put(t0, k, e)
      OBVIOUS
    <2> HIDE DEF u0
    <2>1. QED BY <1>4, <1>5, PutSound
  <1> HIDE DEF u0
  <1>7. Sound(D, u, {k}) /\ u.array = u0.array
    BY <1>3, <1>6, DataSound
  <1>8. \/ t.process = "exit"
        \/ Sound(D, t, {}) /\ Adds(D, u, k, v, t)
    BY <1>1, <1>4, <1>6, <1>7, AddInCacheSound
  <1>9. Adds(D, u, k, v, t) => Only(D, s, k, t) /\ t.array[k].used = s.array[k].used
    BY <1>2, <1>4, <1>6, <1>7 DEF Kept, Adds, Only
  <1>10. QED BY <1>8, <1>9

\* modify
LEMMA ModifySound ==
    ASSUME NEW D, NEW s, NEW k \in D, Sound(D, s, {}), setup.maxKey \in Nat,
           NEW v, ~(LenOf(v) > MaxCacheSize), NEW stale,
           NEW t, t = ModifyValue(s, k, v, stale)
    PROVE  \/ t.process = "exit"
           \/ Sound(D, t, {}) /\ Only(D, s, k, t) /\ t.array[k].used = s.array[k].used
  <1> DEFINE t0 == [s EXCEPT !.array[k].dirty = TRUE]
             e  == [s.array[k] EXCEPT !.dirty = TRUE]
             b  == FreeBlocks(t0.bm, s.array[k].store, stale)
             t1 == [t0 EXCEPT !.bm = b]
  <1>1. t = IF s.array[k].cached THEN ModifyCached(t0, k, v) ELSE AddInCache(t1, k, v)
    BY Zenon DEF ModifyValue
  <1>2. t0 = Put(s, k, e)
    <2>1. PICK A : s \in StoreIn(D, A)
      BY DEF Sound, IsStore
    <2>2. QED BY <2>1 DEF StoreIn, EntryIn, Put
  <1>3. Flags(s.array[k], e) /\ e.used = s.array[k].used
    <2>1. IsEntry(s.array[k])
      BY EntryFacts DEF Sound
    <2>2. e = [s.array[k] EXCEPT !.dirty = TRUE]
      OBVIOUS
    <2> HIDE DEF e
    <2>3. QED BY <2>1, <2>2, FlagFacts, ZenonT(60)
  <1> HIDE DEF t0, e
  <1>4. /\ Sound(D, t0, {}) /\ t0.array[k] = e
        /\ \A j \in D \ {k} : t0.array[j] = s.array[j]
    <2>1. e.pinned => e.cached
      BY <1>3 DEF Flags, Sound
    <2>2. QED BY <1>2, <1>3, <2>1, PutSound DEF Flags
  <1>5. CASE s.array[k].cached
    <2>1. t = ModifyCached(t0, k, v)
      BY <1>1, <1>5
    <2>2. \/ t.process = "exit"
          \/ /\ Sound(D, t, {}) /\ Only(D, t0, k, t)
             /\ t.array[k].used = t0.array[k].used
      BY <2>1, <1>4, ModifyCachedSound
    <2>3. Only(D, t0, k, t) /\ t.array[k].used = t0.array[k].used
             => Only(D, s, k, t) /\ t.array[k].used = s.array[k].used
      BY <1>3, <1>4 DEF Only, Flags
    <2>4. QED BY <2>2, <2>3
  <1>6. CASE ~s.array[k].cached
    <2>1. t = AddInCache(t1, k, v) /\ ~s.array[k].pinned
      BY <1>1, <1>6 DEF Sound
    <2>2. Sound(D, t1, {}) /\ t1.array = t0.array
      <3> t1 = [t0 EXCEPT !.bm = b]
        OBVIOUS
      <3> HIDE DEF t1, b
      <3>1. QED BY <1>4, DataSound
    <2> HIDE DEF t1
    <2>3. Sound(D, t1, {k})
      <3>1. k \notin ListedOf(D, t1)
        BY <2>2, <1>3, <1>4, <1>6 DEF ListedOf, Flags
      <3>2. QED BY <3>1, <2>2, SoundWithout
    <2>4. ~t1.array[k].pinned
      BY <2>1, <2>2, <1>3, <1>4 DEF Flags
    <2>5. \/ t.process = "exit"
          \/ Sound(D, t, {}) /\ Adds(D, t1, k, v, t)
      BY <2>1, <2>3, <2>4, AddInCacheSound
    <2>6. Adds(D, t1, k, v, t) => Only(D, s, k, t) /\ t.array[k].used = s.array[k].used
      BY <2>2, <1>3, <1>4 DEF Adds, Only, Flags
    <2>7. QED BY <2>5, <2>6
  <1>7. QED BY <1>5, <1>6

\* remove, of an entry that is in memory: what is left of the entry.
Gone(e) == Emptied([e EXCEPT !.cached = FALSE])

LEMMA GoneFacts ==
    ASSUME NEW e, IsEntry(e), NEW r, r = Gone(e)
    PROVE  IsEntry(r) /\ r.used = e.used /\ r.cached = FALSE /\ r.pinned = FALSE
  <1> DEFINE f == [e EXCEPT !.cached = FALSE]
  <1>1. IsEntry(f) /\ f.used = e.used /\ f.cached = FALSE
    BY UncachedFacts
  <1>2. r = Emptied(f)
    BY DEF Gone
  <1> HIDE DEF f
  <1>3. QED BY <1>1, <1>2, EmptiedFacts

\* The flags and the block number of an entry that is no longer used.
Unused(e) == [[[e EXCEPT !.used = FALSE] EXCEPT !.dirty = TRUE] EXCEPT !.store = 0]

LEMMA UnusedFacts ==
    ASSUME NEW e, IsEntry(e), NEW r, r = Unused(e)
    PROVE  Flags(e, r) /\ r.used = FALSE
  <1> DEFINE f == [e EXCEPT !.used = FALSE]
             g == [f EXCEPT !.dirty = TRUE]
  <1>1. Flags(e, f) /\ f.used = FALSE
    BY FlagFacts
  <1>2. r = [g EXCEPT !.store = 0]
    BY DEF Unused
  <1> HIDE DEF f
  <1>3. Flags(f, g) /\ g.used = FALSE
    BY <1>1, FlagFacts DEF Flags
  <1> HIDE DEF g
  <1>4. Flags(g, r) /\ r.used = FALSE
    <2>1. IsEntry(g)
      BY <1>3 DEF Flags
    <2>2. Flags(g, r) /\ r.used = g.used
      BY <2>1, <1>2, StoreFacts
    <2>3. QED BY <2>2, <1>3
  <1>5. QED BY <1>1, <1>3, <1>4 DEF Flags

LEMMA RemoveValueSound ==
    ASSUME NEW D, NEW s, NEW k \in D, Sound(D, s, {}), NEW stale,
           NEW t, t = RemoveValue(s, k, stale)
    PROVE  Sound(D, t, {}) /\ Only(D, s, k, t) /\ ~t.array[k].cached
  <1> DEFINE b   == FreeBlocks(s.bm, s.array[k].store, stale)
             t0  == [s EXCEPT !.bm = b]
             e0  == Unused(s.array[k])
             t1  == Put(t0, k, e0)
             len == LenOf(s.array[k].value)
             r   == RemoveFromLRUQueue(t1, k)
             c   == (r.curSize + len) % SizeRange
             r1  == [r EXCEPT !.curSize = c]
             u   == [r EXCEPT !.curSize = (@ + len) % SizeRange, !.array[k].cached = FALSE]
             w(x) == [Unpinned(x, k) EXCEPT !.array[k] = Release(@)]
  <1>1. PICK A : s \in StoreIn(D, A)
    BY DEF Sound, IsStore
  <1> DEFINE t2 == [s EXCEPT !.bm = FreeBlocks(@, s.array[k].store, stale),
                             !.array[k].used = FALSE, !.array[k].dirty = TRUE,
                             !.array[k].store = 0]
  <1>2. t1 = t2
    BY <1>1, ZenonT(60) DEF StoreIn, EntryIn, Put, Unused
  <1>3. t = IF ~s.array[k].cached THEN w(t1) ELSE w(u)
    <2> DEFINE x == IF ~s.array[k].cached THEN t2
                    ELSE [RemoveFromLRUQueue(t2, k) EXCEPT
                            !.curSize = (@ + len) % SizeRange, !.array[k].cached = FALSE]
    <2>1. t = w(x)
      BY Zenon DEF RemoveValue
    <2> HIDE DEF t1, t2, w, len
    <2>2. x = IF ~s.array[k].cached THEN t1 ELSE u
      BY <1>2
    <2>3. QED BY <2>1, <2>2
  <1>4. Sound(D, t0, {}) /\ t0.array = s.array
    <2> t0 = [s EXCEPT !.bm = b]
      OBVIOUS
    <2> HIDE DEF t0, b
    <2>1. QED BY DataSound
  <1> HIDE DEF t0
  <1>5. Flags(s.array[k], e0) /\ e0.used = FALSE
    <2>1. IsEntry(s.array[k])
      BY EntryFacts DEF Sound
    <2>2. e0 = Unused(s.array[k])
      OBVIOUS
    <2> HIDE DEF e0
    <2>3. QED BY <2>1, <2>2, UnusedFacts
  <1> HIDE DEF e0
  <1>6. /\ Sound(D, t1, {}) /\ t1.array[k] = e0
        /\ \A j \in D \ {k} : t1.array[j] = s.array[j]
    <2> t1 = Put(t0, k, e0)
      OBVIOUS
    <2> HIDE DEF t1
    <2>1. e0.pinned => e0.cached
      BY <1>5 DEF Flags, Sound
    <2>2. QED BY <1>4, <1>5, <2>1, PutSound DEF Flags
  <1> HIDE DEF t1
  <1>7. ASSUME NEW x, Sound(D, x, {})
        PROVE  w(x) = Put(x, k, Emptied(x.array[k]))
    <2>1. PICK B : x \in StoreIn(D, B)
      BY <1>7 DEF Sound, IsStore
    <2> DEFINE f == [x.array[k] EXCEPT !.pinned = FALSE]
               y == Unpinned(x, k)
    <2>2. y = Put(x, k, f)
      BY <2>1 DEF Unpinned, StoreIn, EntryIn, Put
    <2>3. f \in EntryIn(B)
      BY <2>1, ZenonT(60) DEF StoreIn, EntryIn
    <2>4. w(x) = [y EXCEPT !.array[k] = Release(y.array[k])] /\ Emptied(x.array[k]) = Release(f)
      <3>1. w(x) = [y EXCEPT !.array[k] = Release(@)] /\ Emptied(x.array[k]) = Release(f)
        BY DEF Emptied
      <3> HIDE DEF y, f, w
      <3>2. y \in StoreIn(D, B)
        BY <2>1, <2>2, <2>3 DEF StoreIn, Put
      <3>3. QED BY <3>1, <3>2 DEF StoreIn
    <2> HIDE DEF y, f, w
    <2>5. y.array[k] = f /\ y \in StoreIn(D, B)
      BY <2>1, <2>2, <2>3 DEF StoreIn, Put
    <2> DEFINE g == Release(f)
    <2> HIDE DEF g
    <2>6. w(x) = [y EXCEPT !.array[k] = g] /\ Emptied(x.array[k]) = g
      BY <2>4, <2>5 DEF g
    <2>7. w(x) = Put(x, k, g)
      BY <2>1, <2>2, <2>3, <2>6 DEF StoreIn, Put
    <2>8. QED BY <2>6, <2>7
  <1>8. CASE ~s.array[k].cached
    <2> DEFINE e == Emptied(t1.array[k])
    <2>1. t = Put(t1, k, e)
      BY <1>3, <1>6, <1>7, <1>8
    <2>2. IsEntry(e) /\ e.used = FALSE /\ ~e.cached /\ ~e.pinned
      <3>1. IsEntry(t1.array[k]) /\ t1.array[k].used = FALSE /\ ~t1.array[k].cached
        BY <1>5, <1>6, <1>8 DEF Flags
      <3>2. e = Emptied(t1.array[k])
        OBVIOUS
      <3> HIDE DEF e
      <3>3. QED BY <3>1, <3>2, EmptiedFacts
    <2> HIDE DEF e
    <2>3. ~t1.array[k].cached
      BY <1>5, <1>6, <1>8 DEF Flags
    <2>4. Sound(D, t, {}) /\ t.array[k] = e /\ \A j \in D \ {k} : t.array[j] = t1.array[j]
      BY <2>1, <2>2, <2>3, <1>6, PutSound
    <2>5. QED BY <2>2, <2>4, <1>6 DEF Only
  <1>9. CASE s.array[k].cached
    <2>1. /\ Sound(D, r, {}) /\ Kept(D, t1, r)
          /\ r.array[k].cached => r.array[k].pinned
      BY <1>6, RemoveSound
    <2> HIDE DEF r
    <2>2. Sound(D, r1, {}) /\ r1.array = r.array
      <3> r1 = [r EXCEPT !.curSize = c]
        OBVIOUS
      <3> HIDE DEF r1, c
      <3>1. QED BY <2>1, DataSound
    <2> DEFINE e == Gone(r.array[k])
    <2>3. t = Put(r1, k, e)
      <3>1. t = w(u)
        BY <1>3, <1>9
      <3>2. PICK B : r \in StoreIn(D, B)
        BY <2>1 DEF Sound, IsStore
      <3> DEFINE f == [r.array[k] EXCEPT !.cached = FALSE]
                 g == [f EXCEPT !.pinned = FALSE]
                 y == Unpinned(u, k)
                 C == B \cup {c}
      <3>3. r \in StoreIn(D, C) /\ c \in C
        BY <3>2 DEF StoreIn, EntryIn
      <3> HIDE DEF C
      <3>4. f \in EntryIn(C) /\ g \in EntryIn(C)
        <4>1. f \in EntryIn(C)
          BY <3>3, ZenonT(60) DEF StoreIn, EntryIn
        <4> HIDE DEF f
        <4>2. QED BY <4>1 DEF EntryIn
      <3>5. u = [r EXCEPT !.curSize = c, !.array[k] = f]
        BY <3>3 DEF StoreIn, EntryIn
      <3> HIDE DEF u, c
      <3>6. u = Put(r1, k, f) /\ r1 \in StoreIn(D, C)
        <4> HIDE DEF f
        <4>1. QED BY <3>3, <3>4, <3>5 DEF StoreIn, Put
      <3> HIDE DEF r1
      <3>7. u \in StoreIn(D, C) /\ u.array[k] = f
        <4> HIDE DEF f
        <4>1. QED BY <3>4, <3>6 DEF StoreIn, Put
      <3>8. y = [u EXCEPT !.array[k].pinned = FALSE]
        BY DEF Unpinned
      <3>9. y = Put(r1, k, g) /\ y \in StoreIn(D, C) /\ y.array[k] = g
        <4> HIDE DEF f
        <4>1. y = Put(u, k, [u.array[k] EXCEPT !.pinned = FALSE])
          BY <3>7, <3>8 DEF StoreIn, EntryIn, Put
        <4>2. y = Put(u, k, g)
          BY <4>1, <3>7
        <4> HIDE DEF y, g
        <4>3. QED BY <4>2, <3>4, <3>6, <3>7 DEF StoreIn, Put
      <3>10. w(u) = [y EXCEPT !.array[k] = Release(@)] /\ e = Release(g)
        BY DEF Gone, Emptied
      <3> HIDE DEF y, f, g, w, e
      <3>11. w(u) = [y EXCEPT !.array[k] = Release(g)]
        BY <3>9, <3>10 DEF StoreIn
      <3>12. w(u) = [y EXCEPT !.array[k] = e]
        BY <3>10, <3>11
      <3>13. w(u) = Put(r1, k, e)
        BY <3>4, <3>6, <3>9, <3>12 DEF StoreIn, Put
      <3>14. QED BY <3>1, <3>13
    <2>4. IsEntry(e) /\ e.used = FALSE /\ ~e.cached /\ ~e.pinned
      <3>1. IsEntry(r.array[k])
        BY <2>1, EntryFacts DEF Sound
      <3>2. r.array[k].used = FALSE
        BY <2>1, <1>5, <1>6 DEF Kept
      <3>3. e = Gone(r.array[k])
        OBVIOUS
      <3> HIDE DEF e
      <3>4. QED BY <3>1, <3>2, <3>3, GoneFacts
    <2> HIDE DEF e, r1
    <2>5. Sound(D, t, {}) /\ t.array[k] = e /\ \A j \in D \ {k} : t.array[j] = r1.array[j]
      <3>1. r1.array[k].cached => r1.array[k].pinned
        BY <2>1, <2>2
      <3>2. QED BY <2>2, <2>3, <2>4, <3>1, PutSound
    <2>6. QED BY <2>1, <2>2, <2>4, <2>5, <1>6 DEF Only, Kept
  <1>10. QED BY <1>8, <1>9

\* What PinCache leaves of an entry that has not been in memory.
PinnedWith(e, v) == [CachedWith(e, v) EXCEPT !.pinned = TRUE]

LEMMA PinnedWithFacts ==
    ASSUME NEW e, IsEntry(e), NEW v, NEW r, r = PinnedWith(e, v)
    PROVE  IsEntry(r) /\ r.used = e.used /\ r.cached /\ r.pinned = TRUE
  <1> DEFINE f == CachedWith(e, v)
  <1>1. InMemory(e, v, f)
    <2> f = CachedWith(e, v)
      OBVIOUS
    <2> HIDE DEF f
    <2>1. QED BY CachedWithFacts
  <1>2. r = [f EXCEPT !.pinned = TRUE]
    BY DEF PinnedWith
  <1> HIDE DEF f
  <1>3. QED BY <1>1, <1>2, PinFacts DEF InMemory

\* PinCache, of an entry that is not in the list.
LEMMA PinSound ==
    ASSUME NEW D, NEW s, NEW k \in D, Sound(D, s, {}),
           s.array[k].cached => s.array[k].pinned, NEW t, t = Pin(s, k)
    PROVE  /\ Sound(D, t, {}) /\ t.process = s.process
           /\ \A j \in D \ {k} : t.array[j] = s.array[j]
           /\ t.array[k].used = s.array[k].used
           /\ t.array[k].cached => s.array[k].used \/ s.array[k].cached
           /\ t.array[k].cached => t.array[k].pinned
  <1> DEFINE v == ReadValue(s.bm, s.array[k].store)
             t0 == RemoveFromLRUQueue(s, k)
             e == [s.array[k] EXCEPT !.pinned = TRUE]
             f == PinnedWith(s.array[k], v)
  <1>1. PICK A : s \in StoreIn(D, A)
    BY DEF Sound, IsStore
  <1>2. t = IF ~IsUsed(s, k) THEN s
            ELSE IF s.array[k].cached THEN [t0 EXCEPT !.array[k].pinned = TRUE]
            ELSE IF v = NoValue THEN s
            ELSE [s EXCEPT !.array[k].value = v, !.array[k].cached = TRUE,
                           !.array[k].pinned = TRUE]
    BY Zenon DEF Pin
  <1> HIDE DEF v
  <1>3. IsEntry(s.array[k]) /\ (s.array[k].pinned => s.array[k].cached)
    BY EntryFacts DEF Sound
  <1>4. CASE t = s
    BY <1>4
  <1>5. CASE s.array[k].cached /\ t = [t0 EXCEPT !.array[k].pinned = TRUE]
    <2>1. t0 = s
      BY <1>5 DEF RemoveFromLRUQueue
    <2> HIDE DEF t0
    <2>2. t = Put(s, k, e)
      BY <2>1, <1>1, <1>5 DEF StoreIn, EntryIn, Put
    <2>3. IsEntry(e) /\ e.used = s.array[k].used /\ e.cached /\ e.pinned = TRUE
      <3>1. e = [s.array[k] EXCEPT !.pinned = TRUE]
        OBVIOUS
      <3> HIDE DEF e
      <3>2. /\ IsEntry(e) /\ e.used = s.array[k].used /\ e.cached = s.array[k].cached
            /\ e.pinned = TRUE
        BY <1>3, <3>1, PinFacts
      <3>3. s.array[k].cached
        BY <1>5
      <3>4. QED BY <3>2, <3>3
    <2> HIDE DEF e
    <2>4. /\ Sound(D, t, {}) /\ t.process = s.process
          /\ t.array[k] = e /\ \A j \in D \ {k} : t.array[j] = s.array[j]
      BY <2>2, <2>3, <1>3, PutSound
    <2>5. QED BY <2>3, <2>4, <1>5
  <1>6. CASE /\ ~s.array[k].cached /\ IsUsed(s, k)
             /\ t = [s EXCEPT !.array[k].value = v, !.array[k].cached = TRUE,
                              !.array[k].pinned = TRUE]
    <2>1. t = Put(s, k, f)
      BY <1>1, <1>6, ZenonT(60) DEF StoreIn, EntryIn, Put, PinnedWith, CachedWith
    <2>2. IsEntry(f) /\ f.used = s.array[k].used /\ f.cached /\ f.pinned = TRUE
      <3>1. f = PinnedWith(s.array[k], v)
        OBVIOUS
      <3> HIDE DEF f
      <3>2. QED BY <1>3, <3>1, PinnedWithFacts
    <2> HIDE DEF f
    <2>3. /\ Sound(D, t, {}) /\ t.process = s.process
          /\ t.array[k] = f /\ \A j \in D \ {k} : t.array[j] = s.array[j]
      <3>1. ~s.array[k].cached
        BY <1>6
      <3>2. QED BY <2>1, <2>2, <3>1, PutSound
    <2>4. QED BY <2>2, <2>3, <1>6 DEF IsUsed
  <1>7. QED BY <1>2, <1>4, <1>5, <1>6

\* The entries of a new or a doubled array.
LEMMA NewEntryFacts ==
    /\ NewEntry.used = FALSE /\ NewEntry.cached = FALSE /\ NewEntry.pinned = FALSE
    /\ \A A : 0 \in A /\ NoValue \in A => NewEntry \in EntryIn(A)
  BY DEF NewEntry, EntryIn, NoKey

\* The entries D that t has more than s, those up to E, are unused.
Doubled(D, E, s, t) ==
    /\ D \subseteq E /\ Sound(E, t, {}) /\ t.process = s.process
    /\ \A j \in D : t.array[j].used = s.array[j].used /\ t.array[j].cached = s.array[j].cached
    /\ \A j \in E \ D : t.array[j].used = FALSE /\ t.array[j].cached = FALSE

Size0(n) == 0..(n - 1)

LEMMA ExpandedSound ==
    ASSUME NEW n \in Nat \ {0}, NEW D, D = Size0(n), NEW s, Sound(D, s, {}),
           NEW k \in Nat, k <= n,
           k \in D \/ \A j \in D : ~s.array[j].pinned,
           NEW t, t = Expanded(s, k)
    PROVE  \E m \in Nat \ {0} : k \in Size0(m) /\ Doubled(D, Size0(m), s, t)
  <1>1. PICK A : s \in StoreIn(D, A)
    BY DEF Sound, IsStore
  <1>2. DOMAIN s.array = D
    BY <1>1 DEF StoreIn
  <1>3. CASE k \in D
    <2>1. t = s
      BY <1>2, <1>3 DEF Expanded
    <2>2. QED BY <2>1, <1>3 DEF Doubled
  <1>4. CASE k \notin D
    <2> DEFINE m == 2 * n
               E == Size0(m)
               B == A \cup {0, NoValue}
               old(i) == [s.array[i] EXCEPT !.pinned = FALSE]
               a == [i \in E |-> IF i < n THEN old(i) ELSE NewEntry]
    <2>1. Cardinality(D) = n
      <3>1. 0 \in Int /\ n - 1 \in Int /\ n - 1 >= 0
        OBVIOUS
      <3>2. Cardinality(0..(n - 1)) = IF 0 > n - 1 THEN 0 ELSE (n - 1) - 0 + 1
        BY <3>1, FS_Interval
      <3>3. QED BY <3>1, <3>2 DEF Size0
    <2>2. t = [s EXCEPT !.array = [i \in 0..(2 * n - 1) |->
                 IF i < n THEN [@[i] EXCEPT !.pinned = FALSE] ELSE NewEntry]]
      BY <1>2, <1>4, <2>1 DEF Expanded
    <2>3. t = [s EXCEPT !.array = a]
      BY <2>2 DEF Size0
    <2>4. D \subseteq E /\ k \in E /\ m \in Nat \ {0} /\ E \subseteq Nat
          /\ \A i \in E : i < n <=> i \in D
      BY DEF Size0
    <2>5. ASSUME NEW i \in D
          PROVE  /\ old(i) \in EntryIn(B) /\ old(i).used = s.array[i].used
                 /\ old(i).cached = s.array[i].cached /\ old(i).pinned = FALSE
                 /\ old(i).next = s.array[i].next /\ old(i).prev = s.array[i].prev
      <3>1. s.array[i] \in EntryIn(B)
        BY <1>1 DEF StoreIn, EntryIn
      <3> HIDE DEF B
      <3>2. QED BY <3>1 DEF EntryIn
    <2>6. NewEntry \in EntryIn(B)
      BY NewEntryFacts
    <2> HIDE DEF old, E, m, B
    <2>7. a \in [E -> EntryIn(B)]
      BY <2>4, <2>5, <2>6
    <2>8. \A i \in E : a[i] = IF i < n THEN old(i) ELSE NewEntry
      OBVIOUS
    <2> HIDE DEF a
    <2>9. s.curSize \in B /\ s.bm \in B
      BY <1>1 DEF StoreIn, B
    <2>10. t \in StoreIn(E, B) /\ t.array = a
           /\ t.head = s.head /\ t.tail = s.tail /\ t.process = s.process
      BY <1>1, <2>3, <2>7, <2>9 DEF StoreIn
    <2>11. \A j \in D : /\ t.array[j].used = s.array[j].used
                        /\ t.array[j].cached = s.array[j].cached
                        /\ t.array[j].pinned = FALSE
                        /\ t.array[j].next = s.array[j].next
                        /\ t.array[j].prev = s.array[j].prev
      BY <2>4, <2>5, <2>8, <2>10
    <2>12. \A j \in E \ D : /\ t.array[j].used = FALSE /\ t.array[j].cached = FALSE
                            /\ t.array[j].pinned = FALSE
      BY <2>4, <2>8, <2>10, NewEntryFacts
    <2>13. ListedOf(E, t) = ListedOf(D, s)
      BY <1>4, <2>4, <2>11, <2>12 DEF ListedOf
    <2>14. Linked(ListedOf(D, s), t.array, t.head, t.tail)
      <3>1. Linked(ListedOf(D, s), s.array, s.head, s.tail)
        BY DEF Sound
      <3>2. \A x \in ListedOf(D, s) : /\ t.array[x].next = s.array[x].next
                                      /\ t.array[x].prev = s.array[x].prev
        BY <2>11 DEF ListedOf
      <3>3. Linked(ListedOf(D, s), t.array, s.head, s.tail)
        BY <3>1, <3>2, LinkedSame
      <3>4. QED BY <3>3, <2>10
    <2>15. Sound(E, t, {})
      <3>1. IsStore(E, t)
        BY <2>4, <2>10 DEF IsStore
      <3>2. \A j \in E : ~t.array[j].pinned
        BY <2>11, <2>12
      <3>3. s.process # "wild"
        BY DEF Sound
      <3>4. QED BY <2>10, <2>13, <2>14, <3>1, <3>2, <3>3 DEF Sound
    <2>16. Doubled(D, E, s, t)
      BY <2>4, <2>10, <2>11, <2>12, <2>15 DEF Doubled
    <2>17. QED BY <2>4, <2>16 DEF E
  <1>5. QED BY <1>3, <1>4

\* What is in memory is in use.
InUse(D, s) == \A j \in D : s.array[j].cached => s.array[j].used

\* An entry that comes into use.
Used(e) == [[e EXCEPT !.used = TRUE] EXCEPT !.dirty = TRUE]

LEMMA UsedFacts ==
    ASSUME NEW e, IsEntry(e), NEW r, r = Used(e)
    PROVE  Flags(e, r) /\ r.used = TRUE
  <1> DEFINE f == [e EXCEPT !.used = TRUE]
  <1>1. Flags(e, f) /\ f.used = TRUE
    BY FlagFacts
  <1>2. r = [f EXCEPT !.dirty = TRUE]
    BY DEF Used
  <1> HIDE DEF f
  <1>3. Flags(f, r) /\ r.used = TRUE
    BY <1>1, <1>2, FlagFacts DEF Flags
  <1>4. QED BY <1>1, <1>3 DEF Flags

\* A value that has not been in memory is written.
LEMMA WriteThroughSound ==
    ASSUME NEW D, NEW s, NEW k \in D, Sound(D, s, {}), NEW v,
           NEW t, t = WriteThrough(s, k, v)
    PROVE  /\ Sound(D, t, {}) /\ t.process = s.process
           /\ \A j \in D : /\ t.array[j].used = s.array[j].used
                           /\ t.array[j].cached = s.array[j].cached
  <1> DEFINE w == WhereTo(s.bm, v)
             m == WriteValue(s.bm, v)
             e == [s.array[k] EXCEPT !.store = w]
             u == Put(s, k, e)
  <1>1. t = [s EXCEPT !.array[k].store = w, !.bm = m]
    BY DEF WriteThrough
  <1> HIDE DEF w, m
  <1>2. t = [u EXCEPT !.bm = m]
    <2>1. PICK A : s \in StoreIn(D, A)
      BY DEF Sound, IsStore
    <2>2. QED BY <1>1, <2>1 DEF StoreIn, Put
  <1>3. Flags(s.array[k], e) /\ e.used = s.array[k].used
    <2>1. IsEntry(s.array[k])
      BY EntryFacts DEF Sound
    <2>2. e = [s.array[k] EXCEPT !.store = w]
      OBVIOUS
    <2> HIDE DEF e
    <2>3. QED BY <2>1, <2>2, StoreFacts
  <1> HIDE DEF e
  <1>4. /\ Sound(D, u, {}) /\ u.process = s.process
        /\ u.array[k] = e /\ \A j \in D \ {k} : u.array[j] = s.array[j]
    <2> u = Put(s, k, e)
      OBVIOUS
    <2> HIDE DEF u
    <2>1. e.pinned => e.cached
      BY <1>3 DEF Flags, Sound
    <2>2. QED BY <1>3, <2>1, PutSound DEF Flags
  <1> HIDE DEF u
  <1>5. Sound(D, t, {}) /\ t.array = u.array /\ t.process = u.process
    BY <1>2, <1>4, DataSound
  <1>6. QED BY <1>3, <1>4, <1>5 DEF Flags

\* insert, of a key that is not used
LEMMA InsertSound ==
    ASSUME NEW n \in Nat \ {0}, NEW D, D = Size0(n), NEW s, Sound(D, s, {}),
           InUse(D, s), NEW k \in Nat, k <= n, ~IsUsed(s, k),
           k \in D \/ \A j \in D : ~s.array[j].pinned, setup.maxKey \in Nat,
           NEW v, ~(LenOf(v) > MaxCacheSize), NEW t, t = InsertValue(s, k, v)
    PROVE  \/ t.process = "exit"
           \/ \E m \in Nat \ {0} : Sound(Size0(m), t, {}) /\ InUse(Size0(m), t)
  <1> DEFINE x == Expanded(s, k)
             u == IF IsLong(v) THEN WriteThrough(x, k, v) ELSE AddInCache(x, k, v)
  <1>1. t = IF u.process # "run" THEN u
            ELSE [u EXCEPT !.array[k].used = TRUE, !.array[k].dirty = TRUE]
    BY Zenon DEF InsertValue
  <1>2. PICK m \in Nat \ {0} : k \in Size0(m) /\ Doubled(D, Size0(m), s, x)
    BY ExpandedSound
  <1> DEFINE E == Size0(m)
  <1>3. Sound(E, x, {}) /\ InUse(E, x) /\ ~x.array[k].cached /\ k \in E
    <2>1. ~s.array[k].cached \/ k \notin D
      <3>1. PICK A : s \in StoreIn(D, A)
        BY DEF Sound, IsStore
      <3>2. DOMAIN s.array = D
        BY <3>1 DEF StoreIn
      <3>3. QED BY <3>2 DEF IsUsed, InUse
    <2>2. QED BY <2>1, <1>2 DEF Doubled, InUse
  <1> HIDE DEF x, E
  <1>4. \/ u.process = "exit"
        \/ Sound(E, u, {}) /\ \A j \in E : /\ j # k => u.array[j].used = x.array[j].used
                                           /\ u.array[j].cached => x.array[j].cached \/ j = k
    <2>1. CASE IsLong(v)
      <3>1. u = WriteThrough(x, k, v)
        BY <2>1
      <3> HIDE DEF u
      <3>2. QED BY <3>1, <1>3, WriteThroughSound
    <2>2. CASE ~IsLong(v)
      <3>1. u = AddInCache(x, k, v)
        BY <2>2
      <3> HIDE DEF u
      <3>2. Sound(E, x, {k}) /\ ~x.array[k].pinned
        <4>1. k \notin ListedOf(E, x)
          BY <1>3 DEF ListedOf
        <4>2. QED BY <4>1, <1>3, SoundWithout DEF Sound
      <3>3. \/ u.process = "exit"
            \/ Sound(E, u, {}) /\ Adds(E, x, k, v, u)
        BY <3>1, <3>2, <1>3, AddInCacheSound
      <3>4. QED BY <3>3 DEF Adds
    <2>3. QED BY <2>1, <2>2
  <1> HIDE DEF u
  <1>5. CASE u.process # "run"
    <2>1. t = u
      BY <1>1, <1>5
    <2>2. Sound(E, u, {}) => u.process = "exit"
      BY <1>5 DEF Sound, IsStore, StoreIn
    <2>3. QED BY <2>1, <2>2, <1>4
  <1>6. CASE u.process = "run"
    <2> DEFINE e == Used(u.array[k])
    <2>1. /\ Sound(E, u, {})
          /\ \A j \in E : /\ j # k => u.array[j].used = x.array[j].used
                          /\ u.array[j].cached => x.array[j].cached \/ j = k
      BY <1>4, <1>6
    <2>2. t = Put(u, k, e)
      <3>1. PICK A : u \in StoreIn(E, A)
        BY <2>1 DEF Sound, IsStore
      <3>2. t = [u EXCEPT !.array[k].used = TRUE, !.array[k].dirty = TRUE]
        BY <1>1, <1>6
      <3>3. QED BY <3>1, <3>2, <1>3 DEF StoreIn, EntryIn, Put, Used
    <2>3. Flags(u.array[k], e) /\ e.used = TRUE
      <3>1. IsEntry(u.array[k])
        BY <2>1, <1>3, EntryFacts DEF Sound
      <3>2. e = Used(u.array[k])
        OBVIOUS
      <3> HIDE DEF e
      <3>3. QED BY <3>1, <3>2, UsedFacts
    <2> HIDE DEF e
    <2>4. /\ Sound(E, t, {}) /\ t.array[k] = e
          /\ \A j \in E \ {k} : t.array[j] = u.array[j]
      <3>1. e.pinned => e.cached
        BY <2>1, <2>3, <1>3 DEF Flags, Sound
      <3>2. QED BY <2>1, <2>2, <2>3, <3>1, <1>3, PutSound DEF Flags
    <2>5. InUse(E, t)
      BY <2>1, <2>3, <2>4, <1>3 DEF InUse
    <2>6. QED BY <2>4, <2>5 DEF E
  <1>7. QED BY <1>5, <1>6


\* What save changes is nothing to the list, nor to what is in memory.
Resting(D, s, t) ==
    /\ Sound(D, t, {}) /\ t.process = s.process
    /\ \A j \in D : /\ t.array[j].used = s.array[j].used
                    /\ t.array[j].cached = s.array[j].cached

LEMMA WriteBackSound ==
    ASSUME NEW D, NEW s, NEW k \in D, Sound(D, s, {}), NEW t, t = WriteBack(s, k)
    PROVE  Resting(D, s, t)
  <1>1. /\ IsStore(D, t)
        /\ \A j \in D : /\ SameBut(t.array[j], s.array[j])
                        /\ t.array[j].prev = s.array[j].prev
                        /\ t.array[j].next = s.array[j].next
        /\ t.head = s.head /\ t.tail = s.tail /\ t.process = s.process
    BY WriteBackFacts DEF Sound
  <1>2. ListedOf(D, t) \ {} = ListedOf(D, s) \ {}
    BY <1>1 DEF ListedOf, SameBut
  <1>3. Linked(ListedOf(D, s) \ {}, t.array, t.head, t.tail)
    <2>1. Linked(ListedOf(D, s) \ {}, s.array, s.head, s.tail)
      BY DEF Sound
    <2>2. \A x \in ListedOf(D, s) \ {} : /\ t.array[x].next = s.array[x].next
                                         /\ t.array[x].prev = s.array[x].prev
      BY <1>1 DEF ListedOf
    <2>3. Linked(ListedOf(D, s) \ {}, t.array, s.head, s.tail)
      BY <2>1, <2>2, LinkedSame
    <2>4. QED BY <2>3, <1>1
  <1>4. Sound(D, t, {})
    <2>1. \A j \in D : t.array[j].pinned => t.array[j].cached
      BY <1>1 DEF Sound, SameBut
    <2>2. s.process # "wild"
      BY DEF Sound
    <2>3. QED BY <1>1, <1>2, <1>3, <2>1, <2>2 DEF Sound
  <1>5. QED BY <1>1, <1>4 DEF Resting, SameBut

LEMMA SaveOneSound ==
    ASSUME NEW D, NEW x, NEW k \in D, Sound(D, x.store, {}), NEW y, y = SaveOne(x, k)
    PROVE  Resting(D, x.store, y.store)
  <1> DEFINE s == x.store
             b == s.array[k].used /\ s.array[k].value # NoValue
             t == IF b THEN WriteBack(s, k) ELSE s
             f == [t EXCEPT !.array[k].dirty = FALSE]
             e == [t.array[k] EXCEPT !.dirty = FALSE]
  <1>1. \/ y = x
        \/ y.store = f
    BY Zenon DEF SaveOne
  <1> HIDE DEF b
  <1>2. Resting(D, s, s)
    BY DEF Resting
  <1>3. Resting(D, s, t)
    <2>1. CASE t = WriteBack(s, k)
      <3> HIDE DEF t, s
      <3>1. QED BY <2>1, WriteBackSound DEF s
    <2>2. CASE t = s
      BY <2>2, <1>2
    <2>3. QED BY <2>1, <2>2
  <1> HIDE DEF t, s
  <1>4. f = Put(t, k, e)
    <2>1. PICK A : t \in StoreIn(D, A)
      BY <1>3 DEF Resting, Sound, IsStore
    <2>2. QED BY <2>1 DEF StoreIn, EntryIn, Put
  <1>5. Flags(t.array[k], e) /\ e.used = t.array[k].used
    <2>1. IsEntry(t.array[k])
      BY <1>3, EntryFacts DEF Resting, Sound
    <2>2. e = [t.array[k] EXCEPT !.dirty = FALSE]
      OBVIOUS
    <2> HIDE DEF e
    <2>3. QED BY <2>1, <2>2, FlagFacts
  <1> HIDE DEF e, f
  <1>6. /\ Sound(D, f, {}) /\ f.process = t.process
        /\ f.array[k] = e /\ \A j \in D \ {k} : f.array[j] = t.array[j]
    <2>1. e.pinned => e.cached
      BY <1>3, <1>5 DEF Flags, Resting, Sound
    <2>2. QED BY <1>3, <1>4, <1>5, <2>1, PutSound DEF Flags, Resting
  <1>7. Resting(D, s, f)
    BY <1>3, <1>5, <1>6 DEF Resting, Flags
  <1>8. QED BY <1>1, <1>2, <1>7 DEF s

\* save
LEMMA SavedSound ==
    ASSUME NEW n \in Nat, NEW D, D = Size0(n), NEW s, Sound(D, s, {}), NEW x, x = Saved(s)
    PROVE  Resting(D, s, x.store)
  <1> DEFINE x0 == [store |-> s, ivfile |-> ivfile]
             N  == Cardinality(DOMAIN s.array)
             xs == [i \in 1..N |-> i - 1]
  <1>1. N = n
    <2>1. PICK A : s \in StoreIn(D, A)
      BY DEF Sound, IsStore
    <2>2. DOMAIN s.array = 0..(n - 1)
      BY <2>1 DEF StoreIn, Size0
    <2>3. 0 \in Int /\ n - 1 \in Int
      OBVIOUS
    <2>4. Cardinality(0..(n - 1)) = IF 0 > n - 1 THEN 0 ELSE (n - 1) - 0 + 1
      BY <2>3, FS_Interval
    <2>5. QED BY <2>2, <2>4
  <1>2. x = Each(SaveOne, x0, xs)
    BY DEF Saved
  <1> HIDE DEF N
  <1>3. Len(xs) = n /\ \A i \in 1..n : xs[i] \in D
    BY <1>1 DEF Size0
  <1> HIDE DEF xs
  <1>4. PICK a : /\ a[0] = x0
                 /\ \A m \in 0..(Len(xs) - 1) : a[m + 1] = SaveOne(a[m], xs[m + 1])
                 /\ Saving!Each(x0, xs) = a[Len(xs)]
    BY <1>3, Saving!Turns
  <1>5. x = a[n]
    <2>1. Each(SaveOne, x0, xs) = a[Len(xs)]
      BY <1>4, Zenon DEF Each, Saving!Each
    <2>2. QED BY <2>1, <1>2, <1>3
  <1> DEFINE T == {m \in Nat : m <= n => Resting(D, s, a[m].store)}
  <1>6. 0 \in T
    BY <1>4 DEF Resting
  <1>7. ASSUME NEW m \in T PROVE m + 1 \in T
    <2>1. SUFFICES ASSUME m + 1 <= n PROVE Resting(D, s, a[m + 1].store)
      OBVIOUS
    <2>2. m <= n /\ m \in 0..(Len(xs) - 1) /\ m + 1 \in 1..n
      BY <2>1, <1>3
    <2>3. Resting(D, s, a[m].store)
      BY <2>2
    <2>4. a[m + 1] = SaveOne(a[m], xs[m + 1]) /\ xs[m + 1] \in D
      BY <2>2, <1>3, <1>4
    <2>5. Resting(D, a[m].store, a[m + 1].store)
      BY <2>3, <2>4, SaveOneSound DEF Resting
    <2>6. QED BY <2>3, <2>5 DEF Resting
  <1>8. T = Nat
    <2>1. T \in SUBSET Nat
      OBVIOUS
    <2> HIDE DEF T
    <2>2. QED BY <2>1, <1>6, <1>7, Saving!SetInduction
  <1>9. QED BY <1>5, <1>8

\* An array that is opened has nothing in memory.
LEMMA OpenedSound ==
    ASSUME NEW D, NEW x, Sound(D, x.store, {}), NEW t, t = Opened(x)
    PROVE  Sound(D, t, {}) /\ \A j \in D : ~t.array[j].cached
  <1> DEFINE a == [k \in DOMAIN x.store.array |->
                     [NewEntry EXCEPT !.store = x.ivfile[k], !.dirty = FALSE,
                                      !.used = x.ivfile[k] > 0]]
             b == Reopened(x.store.bm)
             A == {b, 0, NoValue} \cup {x.ivfile[k] : k \in D}
  <1>1. PICK B : x.store \in StoreIn(D, B)
    BY DEF Sound, IsStore
  <1>2. DOMAIN x.store.array = D
    BY <1>1 DEF StoreIn
  <1>3. t = [array |-> a, head |-> NoKey, tail |-> NoKey, curSize |-> 0,
             bm |-> b, process |-> "run"]
    BY DEF Opened
  <1> HIDE DEF b
  <1>4. ASSUME NEW k \in D
        PROVE  a[k] \in EntryIn(A) /\ a[k].cached = FALSE /\ a[k].pinned = FALSE
    <2> DEFINE i == x.ivfile[k]
               c == i > 0
    <2>1. i \in A /\ c \in BOOLEAN
      OBVIOUS
    <2>2. NewEntry \in EntryIn(A) /\ NewEntry.cached = FALSE /\ NewEntry.pinned = FALSE
      BY NewEntryFacts
    <2>3. a[k] = [NewEntry EXCEPT !.store = i, !.dirty = FALSE, !.used = c]
      BY <1>2
    <2> HIDE DEF a, i, c, A
    <2>4. QED BY <2>1, <2>2, <2>3 DEF EntryIn
  <1>5. a \in [D -> EntryIn(A)]
    BY <1>2, <1>4
  <1>6. b \in A /\ 0 \in A
    OBVIOUS
  <1> HIDE DEF a, A
  <1>7. t \in StoreIn(D, A) /\ t.array = a /\ t.head = NoKey /\ t.tail = NoKey
        /\ t.process = "run"
    BY <1>3, <1>5, <1>6 DEF StoreIn, NoKey
  <1>8. IsStore(D, t)
    BY <1>7 DEF IsStore, Sound
  <1>9. ListedOf(D, t) \ {} = {}
    BY <1>4, <1>7 DEF ListedOf
  <1>10. Linked(ListedOf(D, t) \ {}, t.array, t.head, t.tail)
    BY <1>7, <1>9, LinkedNone
  <1>11. \A j \in D : ~t.array[j].cached /\ ~t.array[j].pinned
    BY <1>4, <1>7
  <1>12. QED BY <1>7, <1>8, <1>10, <1>11 DEF Sound

-----------------------------------------------------------------------------
(* The theorem                                                             *)

\* Nothing that SwapOut may take is longer than b.
Short(D, s, b) == \A j \in ListedOf(D, s) : ~(LenOf(s.array[j].value) > b)

\* An array of n entries; while lists are loaded, l, none in the list is long.
Good(n, s, l, b) ==
    /\ Sound(Size0(n), s, {})
    /\ InUse(Size0(n), s)
    /\ l => Short(Size0(n), s, b)

\* The server never writes outside an array, and as long as it runs the
\* entries in memory that are not pinned are linked.
LRUInv ==
    /\ setup \in Setups
    /\ process # "wild"
    /\ process = "run" => \E n \in Nat \ {0} : Good(n, Store, loading, setup.border)

\* MAX_CACHE_SIZE holds any value.
Fits == \A v \in Values, s \in Setups : Size[v] <= s.cache

LEMMA FitsFacts ==
    ASSUME setup \in Setups, Fits, NEW v \in Values
    PROVE  ~(LenOf(v) > MaxCacheSize)
  <1>1. setup.cache \in Nat
    BY ArrayAssumption
  <1>2. CASE v = NoValue
    BY <1>1, <1>2 DEF LenOf, MaxCacheSize
  <1>3. CASE v # NoValue
    <2>1. Size[v] <= setup.cache /\ Size[v] \in Nat
      BY SizeAssumption DEF Fits
    <2>2. QED BY <1>1, <1>3, <2>1 DEF LenOf, MaxCacheSize
  <1>4. QED BY <1>2, <1>3

LEMMA SetupFacts ==
    ASSUME setup \in Setups
    PROVE  setup.maxKey \in Nat /\ setup.maxKey <= MaxKey
  BY ArrayAssumption

\* What a search leaves is what the invariant asks for.
LEMMA BringsGood ==
    ASSUME NEW n, NEW s, NEW l, Good(n, s, l, setup.border),
           NEW t, Brings(Size0(n), s, t), Sound(Size0(n), t, {})
    PROVE  Good(n, t, l, setup.border)
  <1>1. InUse(Size0(n), t)
    BY DEF Good, Brings, InUse
  <1>2. l => Short(Size0(n), t, setup.border)
    BY DEF Good, Brings, Short, ListedOf, IsLong, LengthBorder
  <1>3. QED BY <1>1, <1>2 DEF Good

\* A step that leaves such a store, or ends the server.
LEMMA Becomes ==
    ASSUME setup \in Setups, NEW n \in Nat \ {0}, NEW s, Become(s),
           \/ s.process = "exit"
           \/ Good(n, s, loading', setup.border)
    PROVE  LRUInv'
  <1>1. /\ setup' = setup
        /\ array' = s.array /\ head' = s.head /\ tail' = s.tail
        /\ curSize' = s.curSize /\ bm' = s.bm /\ process' = s.process
    BY DEF Become
  <1>2. CASE s.process = "exit"
    BY <1>1, <1>2 DEF LRUInv
  <1>3. CASE Good(n, s, loading', setup.border)
    <2>1. PICK A : s \in StoreIn(Size0(n), A)
      BY <1>3 DEF Good, Sound, IsStore
    <2>2. Store' = s
      BY <2>1, <1>1 DEF Store, StoreIn
    <2>3. process' # "wild"
      BY <1>1, <1>3 DEF Good, Sound
    <2>4. Good(n, Store', loading', setup'.border)
      BY <1>1, <1>3, <2>2
    <2>5. QED BY <1>1, <2>3, <2>4 DEF LRUInv
  <1>4. QED BY <1>2, <1>3

\* What the invariant says of an array that is in use.
LEMMA InvFacts ==
    ASSUME LRUInv, process = "run"
    PROVE  /\ setup \in Setups /\ setup.maxKey \in Nat
           /\ \E n \in Nat \ {0} : /\ Good(n, Store, loading, setup.border)
                                   /\ DOMAIN array = Size0(n)
  <1>1. setup \in Setups /\ setup.maxKey \in Nat
    BY SetupFacts DEF LRUInv
  <1>2. PICK n \in Nat \ {0} : Good(n, Store, loading, setup.border)
    BY DEF LRUInv
  <1>3. PICK A : Store \in StoreIn(Size0(n), A)
    BY <1>2 DEF Good, Sound, IsStore
  <1>4. DOMAIN array = Size0(n)
    BY <1>3 DEF StoreIn, Store
  <1>5. QED BY <1>1, <1>2, <1>4

LEMMA StoreArray == Store.array = array /\ Store.process = process
  BY DEF Store

LEMMA LookStep ==
    ASSUME LRUInv, NEW r, NEW k, Look(r, k)
    PROVE  LRUInv'
  <1> DEFINE s == Search(Store, k)
  <1>1. process = "run" /\ IsUsed(Store, k) /\ Become(s) /\ loading' = loading
    BY DEF Look, Serving, Running
  <1>2. PICK n \in Nat \ {0} : /\ Good(n, Store, loading, setup.border)
                               /\ DOMAIN array = Size0(n)
    BY <1>1, InvFacts
  <1>3. setup \in Setups /\ setup.maxKey \in Nat
    BY <1>1, InvFacts
  <1>4. k \in Size0(n)
    BY <1>1, <1>2, StoreArray DEF IsUsed
  <1>5. Brings(Size0(n), Store, s) /\ (s.process = "exit" \/ Sound(Size0(n), s, {}))
    BY <1>2, <1>3, <1>4, SearchSound DEF Good
  <1> HIDE DEF s
  <1>6. s.process = "exit" \/ Good(n, s, loading', setup.border)
    <2>1. s.process = "exit" \/ Good(n, s, loading, setup.border)
      BY <1>2, <1>5, BringsGood
    <2>2. QED BY <1>1, <2>1
  <1>7. QED BY <1>1, <1>2, <1>3, <1>6, Becomes

LEMMA InsertStep ==
    ASSUME LRUInv, Fits, NEW k \in Keys, NEW v \in Values, InsertKey(k, v),
           k \in DOMAIN array \/ \A j \in DOMAIN array : ~array[j].pinned
    PROVE  LRUInv'
  <1> DEFINE s == InsertValue(Store, k, v)
  <1>1. /\ process = "run" /\ ~loading /\ ~IsUsed(Store, k) /\ Become(s)
        /\ k <= Cardinality(DOMAIN array) /\ loading' = loading
    BY DEF InsertKey, Alone, Serving, Running
  <1>2. PICK n \in Nat \ {0} : /\ Good(n, Store, loading, setup.border)
                               /\ DOMAIN array = Size0(n)
    BY <1>1, InvFacts
  <1>3. setup \in Setups /\ setup.maxKey \in Nat
    BY <1>1, InvFacts
  <1>4. k \in Nat /\ k <= n
    <2>1. 0 \in Int /\ n - 1 \in Int
      OBVIOUS
    <2>2. Cardinality(0..(n - 1)) = IF 0 > n - 1 THEN 0 ELSE (n - 1) - 0 + 1
      BY <2>1, FS_Interval
    <2>3. MaxKey \in Nat
      BY ArrayAssumption
    <2>4. QED BY <1>1, <1>2, <2>2, <2>3 DEF Size0, Keys
  <1>5. ~(LenOf(v) > MaxCacheSize)
    BY <1>3, FitsFacts
  <1>6. k \in Size0(n) \/ \A j \in Size0(n) : ~Store.array[j].pinned
    BY <1>2, StoreArray
  <1>7. \/ s.process = "exit"
        \/ \E m \in Nat \ {0} : Sound(Size0(m), s, {}) /\ InUse(Size0(m), s)
    <2> s = InsertValue(Store, k, v)
      OBVIOUS
    <2> HIDE DEF s
    <2>1. Sound(Size0(n), Store, {}) /\ InUse(Size0(n), Store)
      BY <1>2 DEF Good
    <2>2. QED BY <1>1, <1>3, <1>4, <1>5, <1>6, <2>1, InsertSound
  <1> HIDE DEF s
  <1>8. CASE s.process = "exit"
    BY <1>1, <1>2, <1>3, <1>8, Becomes
  <1>9. CASE \E m \in Nat \ {0} : Sound(Size0(m), s, {}) /\ InUse(Size0(m), s)
    <2>1. PICK m \in Nat \ {0} : Sound(Size0(m), s, {}) /\ InUse(Size0(m), s)
      BY <1>9
    <2>2. Good(m, s, loading', setup.border)
      BY <1>1, <2>1 DEF Good
    <2>3. QED BY <1>1, <1>3, <2>2, Becomes
  <1>10. QED BY <1>7, <1>8, <1>9

\* KVstore has read the key it modifies, so the change is made to what the
\* search has left, unless that ended the server.
LEMMA ModifyStep ==
    ASSUME LRUInv, Fits, NEW k \in Keys, NEW v \in Values, ModifyKey(k, v)
    PROVE  LRUInv'
  <1> DEFINE s == Search(Store, k)
  <1>1. /\ process = "run" /\ ~loading /\ IsUsed(Store, k) /\ loading' = loading
        /\ \E stale \in StaleReads :
             Become(IF s.process = "run" THEN ModifyValue(s, k, v, stale) ELSE s)
    BY DEF ModifyKey, Alone, Serving, Running
  <1>2. PICK n \in Nat \ {0} : /\ Good(n, Store, loading, setup.border)
                               /\ DOMAIN array = Size0(n)
    BY <1>1, InvFacts
  <1>3. setup \in Setups /\ setup.maxKey \in Nat /\ ~(LenOf(v) > MaxCacheSize)
    BY <1>1, InvFacts, FitsFacts
  <1> DEFINE D == Size0(n)
  <1>4. k \in D /\ array[k].used
    BY <1>1, <1>2, StoreArray DEF IsUsed
  <1>5. Brings(D, Store, s) /\ (s.process = "exit" \/ Sound(D, s, {}))
    BY <1>2, <1>3, <1>4, SearchSound DEF Good
  <1> HIDE DEF s
  <1>6. PICK stale \in StaleReads :
          Become(IF s.process = "run" THEN ModifyValue(s, k, v, stale) ELSE s)
    BY <1>1
  <1>7. s.process = "exit" \/ s.process = "run"
    BY <1>5 DEF Sound, IsStore, StoreIn
  <1>8. CASE s.process = "exit"
    BY <1>2, <1>3, <1>6, <1>8, Becomes
  <1>9. CASE s.process = "run"
    <2> DEFINE t == ModifyValue(s, k, v, stale)
    <2>1. Sound(D, s, {}) /\ InUse(D, s) /\ s.array[k].used = array[k].used
      <3>1. Sound(D, s, {})
        BY <1>5, <1>9
      <3>2. Good(n, s, loading, setup.border)
        BY <3>1, <1>2, <1>5, BringsGood
      <3>3. QED BY <3>1, <3>2, <1>4, <1>5, StoreArray DEF Good, Brings
    <2>2. \/ t.process = "exit"
          \/ Sound(D, t, {}) /\ Only(D, s, k, t) /\ t.array[k].used = s.array[k].used
      <3> t = ModifyValue(s, k, v, stale)
        OBVIOUS
      <3> HIDE DEF t
      <3>1. QED BY <2>1, <1>3, <1>4, ModifySound
    <2>3. Become(t)
      BY <1>6, <1>9
    <2> HIDE DEF t
    <2>4. t.process = "exit" \/ Good(n, t, loading', setup.border)
      BY <1>1, <1>4, <2>1, <2>2 DEF Only, InUse, Good
    <2>5. QED BY <1>3, <2>3, <2>4, Becomes
  <1>10. QED BY <1>7, <1>8, <1>9

LEMMA RemoveStep ==
    ASSUME LRUInv, NEW k \in Keys, RemoveKey(k)
    PROVE  LRUInv'
  <1> DEFINE s == Search(Store, k)
  <1>1. /\ process = "run" /\ ~loading /\ IsUsed(Store, k) /\ loading' = loading
        /\ \E stale \in StaleReads :
             Become(IF s.process = "run" THEN RemoveValue(s, k, stale) ELSE s)
    BY DEF RemoveKey, Alone, Serving, Running
  <1>2. PICK n \in Nat \ {0} : /\ Good(n, Store, loading, setup.border)
                               /\ DOMAIN array = Size0(n)
    BY <1>1, InvFacts
  <1>3. setup \in Setups /\ setup.maxKey \in Nat
    BY <1>1, InvFacts
  <1> DEFINE D == Size0(n)
  <1>4. k \in D
    BY <1>1, <1>2, StoreArray DEF IsUsed
  <1>5. Brings(D, Store, s) /\ (s.process = "exit" \/ Sound(D, s, {}))
    BY <1>2, <1>3, <1>4, SearchSound DEF Good
  <1> HIDE DEF s
  <1>6. PICK stale \in StaleReads :
          Become(IF s.process = "run" THEN RemoveValue(s, k, stale) ELSE s)
    BY <1>1
  <1>7. s.process = "exit" \/ s.process = "run"
    BY <1>5 DEF Sound, IsStore, StoreIn
  <1>8. CASE s.process = "exit"
    BY <1>2, <1>3, <1>6, <1>8, Becomes
  <1>9. CASE s.process = "run"
    <2> DEFINE t == RemoveValue(s, k, stale)
    <2>1. Sound(D, s, {}) /\ InUse(D, s)
      <3>1. Sound(D, s, {})
        BY <1>5, <1>9
      <3>2. Good(n, s, loading, setup.border)
        BY <3>1, <1>2, <1>5, BringsGood
      <3>3. QED BY <3>1, <3>2 DEF Good
    <2>2. Sound(D, t, {}) /\ Only(D, s, k, t) /\ ~t.array[k].cached
      <3> t = RemoveValue(s, k, stale)
        OBVIOUS
      <3> HIDE DEF t
      <3>1. QED BY <2>1, <1>4, RemoveValueSound
    <2>3. Become(t)
      BY <1>6, <1>9
    <2> HIDE DEF t
    <2>4. Good(n, t, loading', setup.border)
      BY <1>1, <2>1, <2>2 DEF Only, InUse, Good
    <2>5. QED BY <1>3, <2>3, <2>4, Becomes
  <1>10. QED BY <1>7, <1>8, <1>9

\* While lists are loaded only short ones are in the list, so a long one
\* that is pinned is not.
LEMMA LoadStep ==
    ASSUME LRUInv, NEW k \in Keys, LoadKey(k)
    PROVE  LRUInv'
  <1> DEFINE s == Search(Store, k)
             v == IF s.array[k].cached THEN s.array[k].value
                  ELSE ReadValue(s.bm, s.array[k].store)
             t == Pin(s, k)
  <1>1. /\ process = "run" /\ loading /\ IsUsed(Store, k) /\ loading' = loading
        /\ Become(IF s.process = "run" /\ IsLong(v) THEN t ELSE s)
    BY Zenon DEF LoadKey, Running
  <1>2. PICK n \in Nat \ {0} : /\ Good(n, Store, loading, setup.border)
                               /\ DOMAIN array = Size0(n)
    BY <1>1, InvFacts
  <1>3. setup \in Setups /\ setup.maxKey \in Nat
    BY <1>1, InvFacts
  <1> DEFINE D == Size0(n)
  <1>4. k \in D
    BY <1>1, <1>2, StoreArray DEF IsUsed
  <1>5. Brings(D, Store, s) /\ (s.process = "exit" \/ Sound(D, s, {}))
    BY <1>2, <1>3, <1>4, SearchSound DEF Good
  <1> HIDE DEF s, t
  <1>6. s.process = "exit" \/ Good(n, s, loading, setup.border)
    BY <1>2, <1>5, BringsGood
  <1>7. CASE ~(s.process = "run" /\ IsLong(v))
    <2>1. Become(s)
      BY <1>1, <1>7
    <2>2. s.process = "exit" \/ Good(n, s, loading', setup.border)
      BY <1>1, <1>6
    <2>3. QED BY <1>3, <2>1, <2>2, Becomes
  <1>8. CASE s.process = "run" /\ IsLong(v)
    <2>1. Become(t)
      BY <1>1, <1>8
    <2>2. Good(n, s, loading, setup.border)
      BY <1>6, <1>8
    <2>3. Sound(D, s, {}) /\ InUse(D, s) /\ Short(D, s, setup.border)
      BY <1>1, <2>2 DEF Good
    <2>4. s.array[k].cached => s.array[k].pinned
      <3>1. SUFFICES ASSUME s.array[k].cached, ~s.array[k].pinned PROVE FALSE
        OBVIOUS
      <3>2. k \in ListedOf(D, s) /\ v = s.array[k].value
        BY <3>1, <1>4 DEF ListedOf
      <3>3. QED BY <3>2, <2>3, <1>8 DEF Short, IsLong, LengthBorder
    <2>5. /\ Sound(D, t, {})
          /\ \A j \in D \ {k} : t.array[j] = s.array[j]
          /\ t.array[k].used = s.array[k].used
          /\ t.array[k].cached => s.array[k].used \/ s.array[k].cached
          /\ t.array[k].cached => t.array[k].pinned
      <3>1. t = Pin(s, k)
        BY DEF t
      <3>2. QED BY <3>1, <2>3, <2>4, <1>4, PinSound
    <2>6. InUse(D, t)
      BY <2>3, <2>5, <1>4 DEF InUse
    <2>7. Short(D, t, setup.border)
      <3>1. ASSUME NEW j \in ListedOf(D, t)
            PROVE  j \in ListedOf(D, s) /\ t.array[j] = s.array[j]
        BY <2>5, <1>4 DEF ListedOf
      <3>2. QED BY <3>1, <2>3 DEF Short
    <2>8. Good(n, t, loading', setup.border)
      BY <2>5, <2>6, <2>7 DEF Good
    <2>9. QED BY <1>3, <2>1, <2>8, Becomes
  <1>9. QED BY <1>7, <1>8

LEMMA SaveStep ==
    ASSUME LRUInv, Save \/ CloseAndOpen
    PROVE  LRUInv'
  <1> DEFINE x == Saved(Store)
             t == Opened(x)
  <1>1. process = "run" /\ ~loading
    BY DEF Save, CloseAndOpen, Alone, Serving, Running
  <1>2. \/ Become(x.store) /\ loading' = loading
        \/ Become(t)
    BY DEF Save, CloseAndOpen
  <1>3. PICK n \in Nat \ {0} : Good(n, Store, loading, setup.border)
    BY <1>1, InvFacts
  <1>4. setup \in Setups
    BY <1>1, InvFacts
  <1> DEFINE D == Size0(n)
  <1>5. Resting(D, Store, x.store)
    <2> x = Saved(Store)
      OBVIOUS
    <2> HIDE DEF x
    <2>1. QED BY <1>3, SavedSound DEF Good
  <1> HIDE DEF x
  <1>6. CASE Become(x.store) /\ loading' = loading
    <2>1. Good(n, x.store, loading', setup.border)
      BY <1>1, <1>3, <1>5, <1>6 DEF Good, Resting, InUse
    <2>2. QED BY <1>4, <1>6, <2>1, Becomes
  <1>7. CASE Become(t)
    <2>1. Sound(D, t, {}) /\ \A j \in D : ~t.array[j].cached
      <3> t = Opened(x)
        OBVIOUS
      <3> HIDE DEF t
      <3>1. QED BY <1>5, OpenedSound DEF Resting
    <2> HIDE DEF t
    <2>2. Good(n, t, loading', setup.border)
      BY <2>1 DEF Good, InUse, Short, ListedOf
    <2>3. QED BY <1>4, <1>7, <2>2, Becomes
  <1>8. QED BY <1>2, <1>6, <1>7

LEMMA StepKeepsLRUInv ==
    ASSUME LRUInv, Fits, [Next]_vars,
           \A k \in Keys, v \in Values : InsertKey(k, v) =>
               k \in DOMAIN array \/ \A j \in DOMAIN array : ~array[j].pinned
    PROVE  LRUInv'
  <1>1. ASSUME /\ setup' = setup /\ array' = array /\ head' = head /\ tail' = tail
               /\ curSize' = curSize /\ bm' = bm /\ process' = process,
               loading' => loading
        PROVE  LRUInv'
    <2>1. Store' = Store
      BY <1>1 DEF Store
    <2>2. CASE process = "run"
      <3>1. PICK n \in Nat \ {0} : Good(n, Store, loading, setup.border)
        BY <2>2 DEF LRUInv
      <3>2. Good(n, Store', loading', setup'.border)
        BY <3>1, <2>1, <1>1 DEF Good
      <3>3. QED BY <3>2, <1>1 DEF LRUInv
    <2>3. CASE process # "run"
      BY <2>3, <1>1 DEF LRUInv
    <2>4. QED BY <2>2, <2>3
  <1>2. CASE UNCHANGED vars
    BY <1>1, <1>2 DEF vars
  <1>3. CASE \E r \in setup.readers : CopyOut(r)
    BY <1>1, <1>3 DEF CopyOut
  <1>4. CASE \E r \in setup.readers, k \in Keys : Look(r, k)
    BY <1>4, LookStep
  <1>5. CASE \E k \in Keys : RemoveKey(k)
    BY <1>5, RemoveStep
  <1>6. CASE \E k \in Keys : LoadKey(k)
    BY <1>6, LoadStep
  <1>7. CASE \E k \in Keys, v \in Values : InsertKey(k, v)
    BY <1>7, InsertStep
  <1>8. CASE \E k \in Keys, v \in Values : ModifyKey(k, v)
    BY <1>8, ModifyStep
  <1>9. CASE Loaded
    BY <1>1, <1>9 DEF Loaded
  <1>10. CASE Save \/ CloseAndOpen
    BY <1>10, SaveStep
  <1>11. QED
    BY <1>2, <1>3, <1>4, <1>5, <1>6, <1>7, <1>8, <1>9, <1>10 DEF Next

LEMMA InitGivesLRUInv ==
    ASSUME Init PROVE LRUInv
  <1> DEFINE n == FirstEntryNum
             D == Size0(n)
             A == {bm, 0, NoValue}
  <1>1. n \in Nat \ {0} /\ D \subseteq Nat
    BY ArrayAssumption DEF Size0
  <1>2. NewEntry \in EntryIn(A)
    BY NewEntryFacts
  <1>3. array = [k \in D |-> NewEntry]
    BY DEF Init, Size0
  <1>4. bm \in A /\ 0 \in A
    OBVIOUS
  <1> HIDE DEF A, D, n
  <1>5. array \in [D -> EntryIn(A)]
    BY <1>2, <1>3
  <1>6. Store \in StoreIn(D, A)
    BY <1>4, <1>5 DEF Init, Store, StoreIn, NoKey
  <1>7. \A j \in D : ~Store.array[j].cached /\ ~Store.array[j].pinned
    BY <1>3, NewEntryFacts DEF Store
  <1>8. Sound(D, Store, {})
    <2>1. IsStore(D, Store)
      BY <1>1, <1>6 DEF IsStore
    <2>2. ListedOf(D, Store) \ {} = {}
      BY <1>7 DEF ListedOf
    <2>3. Store.head = NoKey /\ Store.tail = NoKey /\ Store.process = "run"
      BY DEF Store, Init
    <2>4. Linked(ListedOf(D, Store) \ {}, Store.array, Store.head, Store.tail)
      BY <2>2, <2>3, LinkedNone
    <2>5. QED BY <1>7, <2>1, <2>3, <2>4 DEF Sound
  <1>9. Good(n, Store, loading, setup.border)
    BY <1>7, <1>8 DEF Good, InUse, Short, ListedOf, D
  <1>10. QED BY <1>1, <1>9 DEF LRUInv, Init

\* Walking a linked list is going through its entries in their order.
LEMMA WalkIsOrder ==
    ASSUME NEW n \in Nat, NEW q, InOrder(n, q, Listed, array, head, tail),
           Cardinality(Listed) = n
    PROVE  LRUListSound
  <1>1. q \in [1..n -> Listed]
    BY DEF InOrder
  <1>2. /\ \A x \in Listed : \E i \in 1..n : q[i] = x
        /\ head = IF n = 0 THEN NoKey ELSE q[1]
        /\ tail = IF n = 0 THEN NoKey ELSE q[n]
        /\ \A i \in 1..n : /\ array[q[i]].next = IF i = n THEN NoKey ELSE q[i + 1]
                           /\ array[q[i]].prev = IF i = 1 THEN NoKey ELSE q[i - 1]
    BY DEF InOrder
  <1> DEFINE Walks(w) == w = [i \in 1..n |-> IF i = 1 THEN head ELSE array[w[i - 1]].next]
             walk == CHOOSE w : Walks(w)
  <1>3. Walks(q)
    <2>1. ASSUME NEW i \in 1..n PROVE q[i] = IF i = 1 THEN head ELSE array[q[i - 1]].next
      <3>1. CASE i = 1
        BY <3>1, <1>2
      <3>2. CASE i # 1
        <4>1. i - 1 \in 1..n /\ i - 1 # n /\ (i - 1) + 1 = i
          BY <3>2
        <4>2. QED BY <4>1, <3>2, <1>2
      <3>3. QED BY <3>1, <3>2
    <2>2. QED BY <2>1, <1>1
  <1>4. Walks(walk)
    <2> HIDE DEF Walks
    <2>1. QED BY <1>3
  <1> HIDE DEF walk
  <1> DEFINE T == {i \in Nat : i + 1 \in 1..n => walk[i + 1] = q[i + 1]}
  <1>5. 0 \in T
    BY <1>4, <1>2
  <1>6. ASSUME NEW i \in T PROVE i + 1 \in T
    <2>1. SUFFICES ASSUME (i + 1) + 1 \in 1..n PROVE walk[(i + 1) + 1] = q[(i + 1) + 1]
      OBVIOUS
    <2>2. i \in Nat /\ i + 1 \in 1..n /\ ((i + 1) + 1) - 1 = i + 1 /\ (i + 1) + 1 # 1
      BY <2>1
    <2>3. walk[i + 1] = q[i + 1]
      BY <2>2
    <2>4. walk[(i + 1) + 1] = array[walk[i + 1]].next
      BY <2>1, <2>2, <1>4
    <2>5. q[(i + 1) + 1] = array[q[i + 1]].next
      BY <2>1, <2>2, <1>3
    <2>6. QED BY <2>3, <2>4, <2>5
  <1>7. T = Nat
    <2>1. T \in SUBSET Nat
      OBVIOUS
    <2> HIDE DEF T
    <2>2. QED BY <2>1, <1>5, <1>6, Evicting!SetInduction
  <1>8. \A i \in 1..n : walk[i] = q[i]
    <2>1. ASSUME NEW i \in 1..n PROVE walk[i] = q[i]
      <3>1. i - 1 \in Nat /\ (i - 1) + 1 = i
        OBVIOUS
      <3>2. i - 1 \in T
        <4> HIDE DEF T
        <4>1. QED BY <3>1, <1>7
      <3>3. QED BY <3>1, <3>2
    <2>2. QED BY <2>1
  <1>9. n = 0 => head = NoKey /\ tail = NoKey
    BY <1>2
  <1>10. ASSUME n > 0
         PROVE  /\ {walk[i] : i \in 1..n} = Listed
                /\ tail = walk[n] /\ array[tail].next = NoKey
                /\ array[head].prev = NoKey
                /\ \A i \in 2..n : array[walk[i]].prev = walk[i - 1]
    <2>1. 1 \in 1..n /\ n \in 1..n /\ n # 0
      BY <1>10
    <2>2. {walk[i] : i \in 1..n} = Listed
      <3>1. \A i \in 1..n : walk[i] \in Listed
        BY <1>1, <1>8
      <3>2. ASSUME NEW x \in Listed PROVE \E i \in 1..n : walk[i] = x
        <4>1. PICK i \in 1..n : q[i] = x
          BY <1>2
        <4>2. QED BY <4>1, <1>8
      <3> HIDE DEF T
      <3>3. QED BY <3>1, <3>2
    <2>3. tail = walk[n] /\ array[tail].next = NoKey /\ array[head].prev = NoKey
      BY <2>1, <1>2, <1>8
    <2>4. ASSUME NEW i \in 2..n PROVE array[walk[i]].prev = walk[i - 1]
      <3>1. i \in 1..n /\ i - 1 \in 1..n /\ i # 1
        OBVIOUS
      <3>2. QED BY <3>1, <1>2, <1>8
    <2>5. QED BY <2>2, <2>3, <2>4
  <1>11. walk = CHOOSE w : w = [i \in 1..Cardinality(Listed) |->
                                  IF i = 1 THEN head ELSE array[w[i - 1]].next]
    BY DEF walk
  <1> HIDE DEF T
  <1>12. QED BY <1>9, <1>10, <1>11 DEF LRUListSound

LEMMA LRUInvGivesSound ==
    ASSUME LRUInv PROVE LRUListSound
  <1>1. CASE process # "run"
    BY <1>1 DEF LRUListSound, Running
  <1>2. CASE process = "run"
    <2>1. PICK m \in Nat \ {0} : /\ Good(m, Store, loading, setup.border)
                                 /\ DOMAIN array = Size0(m)
      BY <1>2, InvFacts
    <2>2. Listed = ListedOf(Size0(m), Store)
      BY <2>1, StoreArray DEF Listed, ListedOf
    <2>3. Linked(Listed, array, head, tail)
      <3>1. Linked(ListedOf(Size0(m), Store) \ {}, Store.array, Store.head, Store.tail)
        BY <2>1 DEF Good, Sound
      <3>2. ListedOf(Size0(m), Store) \ {} = Listed
        BY <2>2
      <3>3. Store.head = head /\ Store.tail = tail
        BY DEF Store
      <3>4. QED BY <3>1, <3>2, <3>3, StoreArray
    <2>4. PICK n \in Nat : \E q : InOrder(n, q, Listed, array, head, tail)
      BY <2>3 DEF Linked
    <2>5. PICK q : InOrder(n, q, Listed, array, head, tail)
      BY <2>4
    <2>6. Cardinality(Listed) = n
      <3>1. ExistsBijection(1..n, Listed)
        BY <2>5 DEF InOrder, ExistsBijection, Bijection, Injection, Surjection, IsInjective
      <3>2. QED BY <3>1, FS_CountingElements
    <2>7. QED BY <2>5, <2>6, WalkIsOrder
  <1>3. QED BY <1>1, <1>2

\* No key is inserted behind the end of the array while a list is pinned:
\* IVEntry::Copy forgets the pin when the array grows.
GrowsUnpinned ==
    [][\A k \in Keys, v \in Values : InsertKey(k, v) =>
         k \in DOMAIN array \/ \A j \in DOMAIN array : ~array[j].pinned]_vars

\* The LRU list of an index array is sound at all times and no method writes
\* outside the array, for arrays of any size, any values and any number of
\* keys and queries, where MAX_CACHE_SIZE holds any value and no key is
\* inserted behind the end of the array while a list is pinned.
THEOREM LRUListAlwaysSound ==
    ASSUME Fits PROVE Spec /\ GrowsUnpinned => [](LRUListSound /\ process # "wild")
  <1> DEFINE Grows == \A k \in Keys, v \in Values : InsertKey(k, v) =>
                        k \in DOMAIN array \/ \A j \in DOMAIN array : ~array[j].pinned
  <1>1. Init => LRUInv
    BY InitGivesLRUInv
  <1>2. LRUInv /\ [Next]_vars /\ [Grows]_vars => LRUInv'
    <2>1. CASE UNCHANGED vars
      <3>1. LRUInv /\ UNCHANGED vars => LRUInv'
        <4>1. SUFFICES ASSUME LRUInv PROVE LRUInv'
          BY <2>1
        <4>2. setup' = setup /\ process' = process /\ loading' = loading /\ Store' = Store
          BY <2>1 DEF vars, Store
        <4>3. QED BY <4>1, <4>2 DEF LRUInv
      <3>2. QED BY <2>1, <3>1
    <2>2. CASE ~UNCHANGED vars
      BY <2>2, StepKeepsLRUInv
    <2>3. QED BY <2>1, <2>2
  <1>3. LRUInv => LRUListSound /\ process # "wild"
    BY LRUInvGivesSound DEF LRUInv
  <1>4. QED BY <1>1, <1>2, <1>3, PTL DEF Spec, GrowsUnpinned
=============================================================================

------------------------------ MODULE Fold_proofs ------------------------------
(***************************************************************************)
(* What Each, the loop of Updates and of IVArray, computes for any         *)
(* operator: tlapm cannot put an operator for a parameter of a lemma, but  *)
(* it can for a constant of a module.                                      *)
(***************************************************************************)
EXTENDS Integers, Sequences, WellFoundedInduction, TLAPS

CONSTANT Op(_, _)

Each(d, xs) ==
    LET after[i \in 0..Len(xs)] == IF i = 0 THEN d ELSE Op(after[i - 1], xs[i])
    IN  after[Len(xs)]

\* Induction over numbers, on the set of those a fact holds for.
LEMMA SetInduction ==
    ASSUME NEW T \in SUBSET Nat, 0 \in T, \A n \in T : n + 1 \in T
    PROVE  T = Nat
  <1> SUFFICES ASSUME Nat \ T # {} PROVE FALSE
    OBVIOUS
  <1> DEFINE R == {p \in Nat \X Nat : p[1] < p[2]}
  <1>1. IsWellFoundedOn(R, Nat)
    BY NatLessThanWellFounded DEF OpToRel
  <1>2. \E x \in Nat \ T : \A y \in Nat \ T : <<y, x>> \notin R
    <2> HIDE DEF R
    <2>1. QED BY <1>1, WFMin
  <1>3. PICK x \in Nat \ T : \A y \in Nat \ T : ~(y < x)
    BY <1>2
  <1>4. x # 0 /\ x - 1 \in Nat
    OBVIOUS
  <1>5. x - 1 \in T
    BY <1>3, <1>4
  <1>6. QED BY <1>4, <1>5

\* There is the sequence of what a fold goes through: it begins with d, every
\* next one is Op of the one before, and the last one is what the fold gives.
LEMMA Turns ==
    ASSUME NEW d, NEW xs, Len(xs) \in Nat
    PROVE  \E a : /\ a[0] = d
                  /\ \A n \in 0..(Len(xs) - 1) : a[n + 1] = Op(a[n], xs[n + 1])
                  /\ Each(d, xs) = a[Len(xs)]
  <1> DEFINE N == Len(xs)
             Follows(a, k) ==
               a = [i \in 0..k |-> IF i = 0 THEN d ELSE Op(a[i - 1], xs[i])]
             T == {k \in Nat : \E a : Follows(a, k)}
  <1>1. 0 \in T
    <2>1. Follows([n \in 0..0 |-> d], 0)
      OBVIOUS
    <2>2. QED BY <2>1
  <1>2. ASSUME NEW k \in T PROVE k + 1 \in T
    <2>1. PICK a : Follows(a, k)
      OBVIOUS
    <2> DEFINE c == [n \in 0..(k + 1) |-> IF n = k + 1 THEN Op(a[k], xs[k + 1]) ELSE a[n]]
    <2>2. ASSUME NEW n \in 0..(k + 1)
          PROVE  c[n] = IF n = 0 THEN d ELSE Op(c[n - 1], xs[n])
      <3>1. CASE n = k + 1
        BY <3>1
      <3>2. CASE n # k + 1
        <4>1. n \in 0..k /\ (n # 0 => n - 1 \in 0..k /\ n - 1 # k + 1)
          BY <3>2
        <4>2. a[n] = IF n = 0 THEN d ELSE Op(a[n - 1], xs[n])
          BY <2>1, <4>1
        <4>3. c[n] = a[n] /\ (n # 0 => c[n - 1] = a[n - 1])
          BY <4>1, <3>2
        <4>4. QED BY <4>2, <4>3
      <3>3. QED BY <3>1, <3>2
    <2>3. Follows(c, k + 1)
      BY <2>2
    <2>4. \E b : Follows(b, k + 1)
      <3> HIDE DEF c, Follows
      <3>1. QED BY <2>3
    <2> HIDE DEF c, Follows
    <2>5. QED BY <2>4
  <1>3. T = Nat
    <2>1. T \in SUBSET Nat
      OBVIOUS
    <2> HIDE DEF T
    <2>2. QED BY <2>1, <1>1, <1>2, SetInduction
  <1>4. \E a : Follows(a, N)
    BY <1>3
  <1>5. Follows(CHOOSE a : Follows(a, N), N)
    BY <1>4
  <1>6. Each(d, xs) = (CHOOSE a : Follows(a, N))[N]
    BY DEF Each
  <1>7. PICK a : Follows(a, N) /\ Each(d, xs) = a[N]
    BY <1>5, <1>6
  <1>8. ASSUME NEW n \in 0..(N - 1) PROVE a[n + 1] = Op(a[n], xs[n + 1])
    <2>1. n + 1 \in 0..N /\ n + 1 # 0 /\ (n + 1) - 1 = n
      OBVIOUS
    <2>2. QED BY <1>7, <2>1
  <1>9. a[0] = d
    BY <1>7
  <1>10. QED
    <2> HIDE DEF Follows
    <2>1. QED BY <1>7, <1>8, <1>9
=============================================================================

----------------------------- MODULE NatLemmas ------------------------------
(***************************************************************************)
(* Least elements and induction over the naturals, stated about sets of    *)
(* numbers: the sequence numbers, clocks and identifiers of the components *)
(* are naturals, and min() and max() of a set of them are elements of it;  *)
(* and the functions that bounded loops compute step by step.              *)
(***************************************************************************)
EXTENDS Naturals, FiniteSetsExt, WellFoundedInduction, TLAPS

\* A non-empty set of naturals has a least element.
LEMMA NatLeast ==
  ASSUME NEW S \in SUBSET Nat, S # {}
  PROVE  \E m \in S : \A n \in S : m <= n
<1>1. PICK m \in S : \A n \in S : ~(<<n, m>> \in OpToRel(<, Nat))
  <2>1. IsWellFoundedOn(OpToRel(<, Nat), Nat)
    BY NatLessThanWellFounded
  <2>. DEFINE R == OpToRel(<, Nat)
  <2>2. IsWellFoundedOn(R, Nat)
    BY <2>1
  <2>. HIDE DEF R
  <2>3. \E x \in S : \A y \in S : ~(<<y, x>> \in R)
    BY <2>2, WFMin
  <2>. QED BY <2>3 DEF R
<1>2. \A n \in S : ~(n < m)
  BY <1>1 DEF OpToRel
<1>. QED BY <1>2

\* A set of naturals that holds 0 and every successor of an element holds all.
LEMMA NatSetInduction ==
  ASSUME NEW S, 0 \in S, \A n \in Nat : n \in S => n + 1 \in S
  PROVE  Nat \subseteq S
<1>. SUFFICES ASSUME Nat \ S # {} PROVE FALSE
  OBVIOUS
<1>1. PICK m \in Nat \ S : \A n \in Nat \ S : m <= n
  BY NatLeast
<1>2. m # 0 /\ m - 1 \in Nat /\ m - 1 \in S
  BY <1>1
<1>. QED BY <1>1, <1>2

\* Min of a non-empty set of naturals is its least element.
LEMMA MinOfNats ==
  ASSUME NEW S \in SUBSET Nat, S # {}
  PROVE  Min(S) \in S /\ \A n \in S : Min(S) <= n
  BY NatLeast DEF Min

\* Max of a non-empty set of naturals with a bound is its greatest element.
LEMMA MaxOfBounded ==
  ASSUME NEW b \in Nat, NEW S \in SUBSET 0..b, S # {}
  PROVE  Max(S) \in S /\ \A n \in S : n <= Max(S)
<1>. DEFINE R == {b - n : n \in S}
<1>1. R \in SUBSET Nat /\ R # {}
  <2>1. \A n \in S : n \in 0..b /\ b - n \in Nat
    OBVIOUS
  <2>2. PICK n \in S : TRUE
    OBVIOUS
  <2>. QED BY <2>1, <2>2
<1>2. PICK m \in R : \A n \in R : m <= n
  BY <1>1, NatLeast
<1>3. PICK x \in S : m = b - x
  BY <1>2
<1>4. ASSUME NEW n \in S PROVE x >= n
  <2>1. m <= b - n /\ n \in 0..b /\ x \in 0..b
    BY <1>2, <1>4
  <2>. QED BY <2>1, <1>3
<1>5. Max(S) \in S /\ \A n \in S : Max(S) >= n
  BY <1>4 DEF Max
<1>. QED BY <1>5

-----------------------------------------------------------------------------
(* Iteration: a function on the naturals exists whose values follow from one  *)
(* another.                                                                   *)

Iterates(f, m, a, g) == f[0] = a /\ \A i \in 0..m - 1 : f[i + 1] = g[f[i]]

\* Two iterations agree as far as both go.
LEMMA IteratesAgree ==
  ASSUME NEW S, NEW a \in S, NEW g \in [S -> S], NEW m \in Nat, NEW n \in Nat,
         NEW f, NEW h, Iterates(f, m, a, g), Iterates(h, n, a, g)
  PROVE  \A i \in Nat : i <= m /\ i <= n => f[i] = h[i]
<1>. DEFINE T == {i \in Nat : i <= m /\ i <= n => f[i] = h[i]}
<1>1. 0 \in T
  BY DEF Iterates
<1>2. ASSUME NEW i \in Nat, i \in T PROVE i + 1 \in T
  <2>. SUFFICES ASSUME i + 1 <= m, i + 1 <= n PROVE f[i + 1] = h[i + 1]
    OBVIOUS
  <2>1. i \in 0..m - 1 /\ i \in 0..n - 1 /\ f[i] = h[i]
    BY <1>2
  <2>. QED BY <2>1 DEF Iterates
<1>. HIDE DEF T
<1>3. Nat \subseteq T
  BY <1>1, <1>2, NatSetInduction
<1>. QED BY <1>3 DEF T

LEMMA IterationExists ==
  ASSUME NEW S, NEW a \in S, NEW g \in [S -> S]
  PROVE  \E f \in [Nat -> S] : f[0] = a /\ \A n \in Nat : f[n + 1] = g[f[n]]
<1>. DEFINE T == {m \in Nat : \E f \in [0..m -> S] : Iterates(f, m, a, g)}
<1>1. 0 \in T
  <2>. DEFINE f == [i \in 0..0 |-> a]
  <2>1. f \in [0..0 -> S] /\ Iterates(f, 0, a, g)
    BY DEF Iterates
  <2>. QED BY <2>1
<1>2. ASSUME NEW m \in Nat, m \in T PROVE m + 1 \in T
  <2>1. PICK f \in [0..m -> S] : Iterates(f, m, a, g)
    BY <1>2
  <2>. DEFINE h == [i \in 0..m + 1 |-> IF i = m + 1 THEN g[f[m]] ELSE f[i]]
  <2>2. h \in [0..m + 1 -> S]
    <3>1. g[f[m]] \in S
      OBVIOUS
    <3>. QED BY <3>1
  <2>3. /\ h[m + 1] = g[f[m]]
        /\ \A i \in 0..m : h[i] = f[i]
    OBVIOUS
  <2>. HIDE DEF h
  <2>4. \A i \in 0..(m + 1) - 1 : h[i + 1] = g[h[i]]
    <3>. SUFFICES ASSUME NEW i \in 0..(m + 1) - 1 PROVE h[i + 1] = g[h[i]]
      OBVIOUS
    <3>1. CASE i = m
      BY <3>1, <2>3
    <3>2. CASE i # m
      <4>1. i \in 0..m - 1 /\ i + 1 \in 0..m /\ i \in 0..m
        BY <3>2
      <4>. QED BY <4>1, <2>1, <2>3 DEF Iterates
    <3>. QED BY <3>1, <3>2
  <2>5. h[0] = a
    BY <2>1, <2>3 DEF Iterates
  <2>6. Iterates(h, m + 1, a, g)
    BY <2>4, <2>5 DEF Iterates
  <2>. QED BY <2>2, <2>6
<1>3. Nat \subseteq T
  <2>. HIDE DEF T
  <2>. QED BY <1>1, <1>2, NatSetInduction
<1>. DEFINE upTo(m) == CHOOSE f \in [0..m -> S] : Iterates(f, m, a, g)
            F == [m \in Nat |-> upTo(m)[m]]
<1>4. ASSUME NEW m \in Nat PROVE upTo(m) \in [0..m -> S] /\ Iterates(upTo(m), m, a, g)
  <2>1. \E f \in [0..m -> S] : Iterates(f, m, a, g)
    BY <1>3
  <2>. QED BY <2>1
<1>. HIDE DEF upTo, T
<1>5. F \in [Nat -> S] /\ \A m \in Nat : F[m] = upTo(m)[m]
  <2>1. \A m \in Nat : upTo(m)[m] \in S
    BY <1>4
  <2>. QED BY <2>1
<1>. HIDE DEF F
<1>6. F[0] = a
  BY <1>4, <1>5 DEF Iterates
<1>7. ASSUME NEW n \in Nat PROVE F[n + 1] = g[F[n]]
  <2>1. Iterates(upTo(n), n, a, g) /\ Iterates(upTo(n + 1), n + 1, a, g)
    BY <1>4
  <2>2. upTo(n)[n] = upTo(n + 1)[n]
    BY <2>1, IteratesAgree
  <2>3. upTo(n + 1)[n + 1] = g[upTo(n + 1)[n]]
    <3>1. n \in 0..(n + 1) - 1
      OBVIOUS
    <3>. QED BY <3>1, <2>1 DEF Iterates
  <2>. QED BY <2>2, <2>3, <1>5
<1>. QED BY <1>5, <1>6, <1>7
=============================================================================

------------------------------ MODULE Induction ------------------------------
(***************************************************************************)
(* Induction and recursion over the natural numbers, for the proofs about  *)
(* operators that walk through a sequence.  Both are derived from the      *)
(* minimum principle of well-founded relations, whose library theorem      *)
(* (WFMin) speaks of a set and not of an operator.                         *)
(***************************************************************************)
EXTENDS Integers, WellFoundedInduction, TLAPS

\* A set of natural numbers that is not empty has a least element.
LEMMA LeastIn ==
  ASSUME NEW T \in SUBSET Nat, T # {}
  PROVE  \E n \in T : \A m \in T : n <= m
<1>1. PICK x \in T : \A y \in T : ~ (<<y, x>> \in OpToRel(<, Nat))
  BY NatLessThanWellFounded, WFMin, Zenon
<1>2. ASSUME NEW y \in T PROVE x <= y
  <2>1. <<y, x>> \notin {ss \in Nat \X Nat : ss[1] < ss[2]}
    BY <1>1 DEF OpToRel
  <2>2. QED
    BY <2>1
<1>3. QED
  BY <1>2

\* Induction: a set that holds 0, and n + 1 with every n, holds every natural number.
LEMMA NatInd ==
  ASSUME NEW T, 0 \in T, \A n \in Nat : n \in T => n + 1 \in T
  PROVE  Nat \subseteq T
<1> SUFFICES ASSUME Nat \ T # {} PROVE FALSE
  OBVIOUS
<1>1. PICK n \in Nat \ T : \A m \in Nat \ T : n <= m
  BY LeastIn
<1>2. QED
  BY <1>1

\* f is defined by recursion over 0 .. n: it starts with a, and g[i] makes the value
\* at i of the one before.
Iterates(f, n, S, a, g) ==
  f \in [0 .. n -> S] /\ f[0] = a /\ \A i \in 1 .. n : f[i] = g[i][f[i - 1]]

\* There is a function that is so defined.
LEMMA Recursion ==
  ASSUME NEW n \in Nat, NEW S, NEW a \in S, NEW g \in [1 .. n -> [S -> S]]
  PROVE  \E f : Iterates(f, n, S, a, g)
<1> DEFINE Is(f, m) == f[0] = a /\ \A i \in 1 .. m : f[i] = g[i][f[i - 1]]
           T == {m \in Nat : m <= n => \E f \in [0 .. m -> S] : Is(f, m)}
<1>1. 0 \in T
  <2>1. Is([k \in 0 .. 0 |-> a], 0)
    OBVIOUS
  <2>2. QED
    BY <2>1
<1>2. ASSUME NEW m \in Nat, m \in T PROVE m + 1 \in T
  <2> SUFFICES ASSUME m + 1 <= n PROVE \E f \in [0 .. m + 1 -> S] : Is(f, m + 1)
    OBVIOUS
  <2>1. PICK f \in [0 .. m -> S] : Is(f, m)
    BY <1>2
  <2> DEFINE h == [k \in 0 .. m + 1 |-> IF k <= m THEN f[k] ELSE g[m + 1][f[m]]]
  <2>2. h \in [0 .. m + 1 -> S]
    OBVIOUS
  <2>3. \A k \in 0 .. m : h[k] = f[k]
    OBVIOUS
  <2>4. h[m + 1] = g[m + 1][f[m]]
    OBVIOUS
  <2> HIDE DEF h
  <2>5. h[0] = a
    BY <2>1, <2>3
  <2>6. ASSUME NEW k \in 1 .. m + 1 PROVE h[k] = g[k][h[k - 1]]
    <3>1. CASE k = m + 1
      BY <3>1, <2>3, <2>4
    <3>2. CASE k <= m
      <4>1. f[k] = g[k][f[k - 1]]
        BY <2>1, <3>2
      <4>2. h[k] = f[k] /\ h[k - 1] = f[k - 1]
        BY <2>3, <3>2
      <4>3. QED
        BY <4>1, <4>2
    <3>3. QED
      BY <3>1, <3>2
  <2>7. Is(h, m + 1)
    BY <2>5, <2>6
  <2>8. QED
    BY <2>2, <2>7
<1> HIDE DEF T
<1>3. n \in T
  BY <1>1, <1>2, NatInd
<1>4. QED
  BY <1>3 DEF T, Iterates
==============================================================================

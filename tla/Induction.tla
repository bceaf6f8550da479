----------------------------- MODULE Induction -----------------------------
(***************************************************************************)
(* Induction over the natural numbers in a first-order form, as facts about *)
(* sets of numbers, for what a loop of the code computes.                  *)
(***************************************************************************)
EXTENDS Integers, WellFoundedInduction, TLAPS

\* Of the numbers for which a claim fails there is a least one.
LEMMA Least ==
    ASSUME NEW T, T \subseteq Nat, T # {}
    PROVE  \E n \in T : \A m \in T : n <= m
<1>1. PICK x \in T : \A y \in T : ~(<<y, x>> \in OpToRel(<, Nat))
  <2>1. IsWellFoundedOn(OpToRel(<, Nat), Nat)
    BY NatLessThanWellFounded
  <2> QED
    BY <2>1, WFMin
<1>2. ASSUME NEW y \in T PROVE x <= y
  <2>1. ~(<<y, x>> \in OpToRel(<, Nat))
    BY <1>1
  <2>2. <<y, x>> \in Nat \X Nat
    OBVIOUS
  <2>3. ~(y < x)
    BY <2>1, <2>2 DEF OpToRel
  <2> QED
    BY <2>3
<1> QED
  BY <1>2

\* A set that has 0 and, with a number below N, the next one, has all up to N.
LEMMA Inducts ==
    ASSUME NEW N \in Nat, NEW T, 0 \in T, \A n \in 0..(N - 1) : n \in T => n + 1 \in T
    PROVE  \A n \in 0..N : n \in T
<1> DEFINE F == {n \in 0..N : n \notin T}
<1> SUFFICES ASSUME F # {} PROVE FALSE
  OBVIOUS
<1>1. F \subseteq Nat
  OBVIOUS
<1>2. PICK n \in F : \A m \in F : n <= m
  <2> HIDE DEF F
  <2> QED
    BY <1>1, Least
<1>3. n # 0 /\ n - 1 \in 0..(N - 1)
  BY <1>2
<1>4. n - 1 \in T
  BY <1>2, <1>3
<1> QED
  BY <1>2, <1>3, <1>4

\* N functions, each from A to A, and what applying them one by one to a gives.
StepsOn(F, A, N) == \A n \in 1..N : \A x \in A : F[n][x] \in A
Iteration(g, F, A, a, N) ==
    g \in [0..N -> A] /\ g[0] = a /\ \A n \in 1..N : g[n] = F[n][g[n - 1]]

\* A finite number of functions can be applied one after the other.
LEMMA Iterates ==
    ASSUME NEW A, NEW a \in A, NEW N \in Nat, NEW F, StepsOn(F, A, N)
    PROVE  \E g : Iteration(g, F, A, a, N)
<1> DEFINE T == {n \in 0..N : \E g : Iteration(g, F, A, a, n)}
<1>1. 0 \in T
  <2> DEFINE g == [i \in 0..0 |-> a]
  <2>1. Iteration(g, F, A, a, 0)
    BY DEF Iteration
  <2> HIDE DEF g
  <2> QED
    BY <2>1
<1>2. ASSUME NEW n \in 0..(N - 1), n \in T PROVE n + 1 \in T
  <2>1. PICK g : Iteration(g, F, A, a, n)
    BY <1>2
  <2> DEFINE h == [i \in 0..(n + 1) |-> IF i = n + 1 THEN F[n + 1][g[n]] ELSE g[i]]
  <2>2. F[n + 1][g[n]] \in A
    BY <2>1 DEF StepsOn, Iteration
  <2>3. h \in [0..(n + 1) -> A] /\ h[0] = a
    BY <2>1, <2>2 DEF Iteration
  <2>4. ASSUME NEW k \in 1..(n + 1) PROVE h[k] = F[k][h[k - 1]]
    BY <2>1 DEF Iteration
  <2>5. Iteration(h, F, A, a, n + 1)
    <3> HIDE DEF h
    <3> QED
      BY <2>3, <2>4 DEF Iteration
  <2>6. n + 1 \in 0..N
    OBVIOUS
  <2> HIDE DEF h
  <2> QED
    BY <2>5, <2>6
<1>3. \A n \in 0..N : n \in T
  <2> HIDE DEF T
  <2>1. \A n \in 0..(N - 1) : n \in T => n + 1 \in T
    BY <1>2
  <2> QED
    BY <1>1, <2>1, Inducts
<1>4. N \in T
  BY <1>3
<1> QED
  BY <1>4

=============================================================================

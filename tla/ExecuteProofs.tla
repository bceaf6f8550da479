--------------------------- MODULE ExecuteProofs ---------------------------
(***************************************************************************)
(* The data path of execute_job, for every config, lake and order of failed *)
(* requests: types, the source a file is read with, what validation is      *)
(* worth, the rows a mapping writes, what lookups answer and what the paths *)
(* of a JSON source give.                                                  *)
(*                                                                         *)
(* The invariants Shaped, Control, Listing, Downloads, Outcomes, Registry   *)
(* and Computed are inductive, each with the help of those before it; the   *)
(* properties of Execute follow from them.                                 *)
(***************************************************************************)
EXTENDS Execute, Induction, TLAPS
LOCAL INSTANCE SequencesExt

-----------------------------------------------------------------------------
\* Lists

\* The partial sums of a sequence of sequences.
Sums(g, ss, S) ==
    /\ g \in [0..Len(ss) -> Seq(S)]
    /\ g[0] = <<>>
    /\ \A n \in 1..Len(ss) : g[n] = g[n - 1] \o ss[n]

\* A sequence of sequences has partial sums.
LEMMA SumsExist ==
    ASSUME NEW S, NEW ss \in Seq(Seq(S))
    PROVE  \E g : Sums(g, ss, S)
<1>1. PICK A, N, e : A = Seq(S) /\ N = Len(ss) /\ e = <<>>
  OBVIOUS
<1>2. N \in Nat /\ e \in A
  BY <1>1
<1>3. \A n \in 1..N : \A x \in A : x \o ss[n] \in A
  BY <1>1
<1>4. PICK F : F = [n \in 1..N |-> [x \in A |-> x \o ss[n]]]
  OBVIOUS
<1>5. StepsOn(F, A, N)
  BY <1>3, <1>4 DEF StepsOn
<1>6. PICK g : Iteration(g, F, A, e, N)
  BY <1>2, <1>5, Iterates
<1>7. ASSUME NEW n \in 1..N PROVE g[n] = g[n - 1] \o ss[n]
  <2>1. n - 1 \in 0..N
    BY <1>2
  <2>2. g[n - 1] \in A
    BY <1>6, <2>1 DEF Iteration
  <2> QED
    BY <1>4, <1>6, <2>2 DEF Iteration
<1>8. g \in [0..Len(ss) -> Seq(S)] /\ g[0] = <<>>
  BY <1>1, <1>6 DEF Iteration
<1>9. \A n \in 1..Len(ss) : g[n] = g[n - 1] \o ss[n]
  BY <1>1, <1>7
<1> QED
  BY <1>8, <1>9 DEF Sums

\* FlattenSeq is the last of the partial sums.
LEMMA FlattenSums ==
    ASSUME NEW S, NEW ss \in Seq(Seq(S))
    PROVE  \E g : Sums(g, ss, S) /\ FlattenSeq(ss) = g[Len(ss)]
<1>1. PICK g : Sums(g, ss, S)
  BY SumsExist
<1> DEFINE N == Len(ss)
           Fl(f) == f = [i \in 1..N |-> IF i = 1 THEN ss[i] ELSE f[i - 1] \o ss[i]]
           fl == CHOOSE f : Fl(f)
           h == [i \in 1..N |-> g[i]]
<1>2. FlattenSeq(ss) = IF N = 0 THEN ss ELSE fl[N]
  BY DEF FlattenSeq
<1>3. N \in Nat
  OBVIOUS
<1>4. CASE N = 0
  <2>1. ss = <<>>
    BY <1>4
  <2> QED
    BY <1>1, <1>2, <1>4, <2>1 DEF Sums
<1>5. CASE N # 0
  <2>1. ASSUME NEW i \in 1..N PROVE g[i] = IF i = 1 THEN ss[i] ELSE h[i - 1] \o ss[i]
    <3>1. g[i] = g[i - 1] \o ss[i]
      BY <1>1 DEF Sums
    <3>2. ss[i] \in Seq(S)
      OBVIOUS
    <3>3. ASSUME i = 1 PROVE g[i] = ss[i]
      <4>1. i - 1 = 0
        BY <3>3
      <4>2. g[i] = <<>> \o ss[i]
        BY <1>1, <3>1, <4>1 DEF Sums
      <4> QED
        BY <3>2, <4>2
    <3>4. i # 1 => i - 1 \in 1..N /\ h[i - 1] = g[i - 1]
      BY <1>3
    <3> QED
      BY <3>1, <3>3, <3>4
  <2>2. Fl(h)
    <3> HIDE DEF N
    <3> QED
      BY <2>1
  <2>3. Fl(fl)
    <3> HIDE DEF h, Fl
    <3> QED
      BY <2>2
  <2> DEFINE T == {n \in 0..N : n # 0 => fl[n] = g[n]}
  <2>4. 0 \in T
    BY <1>3
  <2>5. ASSUME NEW n \in 0..(N - 1), n \in T PROVE n + 1 \in T
    <3>1. n + 1 \in 1..N
      BY <1>3
    <3>2. fl[n + 1] = IF n + 1 = 1 THEN ss[n + 1] ELSE fl[(n + 1) - 1] \o ss[n + 1]
      <4> HIDE DEF fl, N
      <4> QED
        BY <2>3, <3>1
    <3>3. g[n + 1] = IF n + 1 = 1 THEN ss[n + 1] ELSE h[(n + 1) - 1] \o ss[n + 1]
      BY <2>1, <3>1
    <3>4. (n + 1) - 1 = n /\ (n + 1 = 1 <=> n = 0)
      OBVIOUS
    <3>5. n # 0 => fl[n] = g[n] /\ h[n] = g[n]
      BY <2>5, <1>3
    <3> HIDE DEF fl, h
    <3>6. fl[n + 1] = g[n + 1]
      BY <3>2, <3>3, <3>4, <3>5
    <3> QED
      BY <3>1, <3>6
  <2>6. \A n \in 0..N : n \in T
    <3> HIDE DEF T, N
    <3> QED
      BY <1>3, <2>4, <2>5, Inducts
  <2>7. fl[N] = g[N]
    <3>1. N \in 0..N
      BY <1>3
    <3>2. N \in T
      BY <2>6, <3>1
    <3> QED
      BY <1>5, <3>2
  <2> QED
    BY <1>1, <1>2, <1>5, <2>7
<1> QED
  BY <1>4, <1>5

\* The elements of a concatenation are those of its parts.
LEMMA RangeOfConcat ==
    ASSUME NEW S, NEW a \in Seq(S), NEW b \in Seq(S)
    PROVE  Range(a \o b) = Range(a) \cup Range(b)
<1>1. a \o b \in Seq(S) /\ Len(a \o b) = Len(a) + Len(b) /\ Len(a) \in Nat /\ Len(b) \in Nat
  OBVIOUS
<1>2. \A i \in 1..Len(a) : (a \o b)[i] = a[i] /\ i \in 1..(Len(a) + Len(b))
  OBVIOUS
<1>3. \A j \in 1..Len(b) : (a \o b)[Len(a) + j] = b[j] /\ Len(a) + j \in 1..(Len(a) + Len(b))
  OBVIOUS
<1>4. \A i \in 1..(Len(a) + Len(b)) : i \in 1..Len(a) \/ \E j \in 1..Len(b) : i = Len(a) + j
  <2> SUFFICES ASSUME NEW i \in 1..(Len(a) + Len(b)), i \notin 1..Len(a)
               PROVE  \E j \in 1..Len(b) : i = Len(a) + j
    OBVIOUS
  <2>1. i - Len(a) \in 1..Len(b) /\ i = Len(a) + (i - Len(a))
    BY <1>1
  <2> QED
    BY <2>1
<1>5. DOMAIN (a \o b) = 1..(Len(a) + Len(b)) /\ DOMAIN a = 1..Len(a) /\ DOMAIN b = 1..Len(b)
  BY <1>1
<1>6. ASSUME NEW x \in Range(a \o b) PROVE x \in Range(a) \cup Range(b)
  <2>1. PICK i \in 1..(Len(a) + Len(b)) : x = (a \o b)[i]
    BY <1>5 DEF Range
  <2>2. CASE i \in 1..Len(a)
    BY <1>2, <1>5, <2>1, <2>2 DEF Range
  <2>3. CASE i \notin 1..Len(a)
    <3>1. PICK j \in 1..Len(b) : i = Len(a) + j
      BY <1>4, <2>3
    <3> QED
      BY <1>3, <1>5, <2>1, <3>1 DEF Range
  <2> QED
    BY <2>2, <2>3
<1>7. ASSUME NEW x \in Range(a) PROVE x \in Range(a \o b)
  <2>1. PICK i \in 1..Len(a) : x = a[i]
    BY <1>5 DEF Range
  <2> QED
    BY <1>2, <1>5, <2>1 DEF Range
<1>8. ASSUME NEW x \in Range(b) PROVE x \in Range(a \o b)
  <2>1. PICK j \in 1..Len(b) : x = b[j]
    BY <1>5 DEF Range
  <2> QED
    BY <1>3, <1>5, <2>1 DEF Range
<1> QED
  BY <1>6, <1>7, <1>8

\* The elements of the concatenation of lists are those of the lists.
LEMMA RangeOfFlatten ==
    ASSUME NEW S, NEW ss \in Seq(Seq(S))
    PROVE  /\ FlattenSeq(ss) \in Seq(S)
           /\ \A x : x \in Range(FlattenSeq(ss)) <=> \E i \in DOMAIN ss : x \in Range(ss[i])
<1>1. PICK g : Sums(g, ss, S) /\ FlattenSeq(ss) = g[Len(ss)]
  BY FlattenSums
<1>2. PICK N : N = Len(ss)
  OBVIOUS
<1>3. N \in Nat /\ DOMAIN ss = 1..N
  BY <1>2
<1> DEFINE T == {n \in 0..N : \A x : x \in Range(g[n]) <=> \E i \in 1..n : x \in Range(ss[i])}
<1>4. 0 \in T
  <2>1. g[0] = <<>>
    BY <1>1 DEF Sums
  <2>2. Range(<<>>) = {}
    BY DEF Range
  <2> QED
    BY <1>3, <2>1, <2>2
<1>5. ASSUME NEW n \in 0..(N - 1), n \in T PROVE n + 1 \in T
  <2>1. n + 1 \in 1..N /\ (n + 1) - 1 = n /\ n \in 0..N
    BY <1>3
  <2>2. g[n + 1] = g[(n + 1) - 1] \o ss[n + 1]
    BY <1>1, <1>2, <2>1 DEF Sums
  <2>3. g[n] \in Seq(S) /\ ss[n + 1] \in Seq(S)
    <3>1. g \in [0..N -> Seq(S)]
      BY <1>1, <1>2 DEF Sums
    <3>2. g[n] \in Seq(S)
      BY <2>1, <3>1
    <3>3. ss[n + 1] \in Seq(S)
      BY <1>2, <2>1
    <3> QED
      BY <3>2, <3>3
  <2>4. Range(g[n + 1]) = Range(g[n]) \cup Range(ss[n + 1])
    BY <2>1, <2>2, <2>3, RangeOfConcat
  <2>5. \A x : x \in Range(g[n]) <=> \E i \in 1..n : x \in Range(ss[i])
    BY <1>5
  <2>6. 1..(n + 1) = (1..n) \cup {n + 1}
    OBVIOUS
  <2>7. \A x : x \in Range(g[n + 1]) <=> \E i \in 1..(n + 1) : x \in Range(ss[i])
    BY <2>4, <2>5, <2>6
  <2> QED
    BY <2>1, <2>7
<1>6. \A n \in 0..N : n \in T
  <2> HIDE DEF T
  <2> QED
    BY <1>3, <1>4, <1>5, Inducts
<1>7. \A x : x \in Range(g[N]) <=> \E i \in 1..N : x \in Range(ss[i])
  <2>1. N \in 0..N
    BY <1>3
  <2>2. N \in T
    BY <1>6, <2>1
  <2> QED
    BY <2>2
<1>8. g[N] \in Seq(S)
  BY <1>1, <1>2, <1>3 DEF Sums
<1> QED
  BY <1>1, <1>2, <1>3, <1>7, <1>8

\* The positions in I up to n, in order.
Enumerates(e, I, n) ==
    /\ e \in Seq(Nat)
    /\ \A k, l \in DOMAIN e : k < l => e[k] < e[l]
    /\ \A k \in DOMAIN e : e[k] \in I /\ e[k] \in 1..n
    /\ \A i \in 1..n : i \in I => \E k \in DOMAIN e : e[k] = i

\* An enumeration of the members of I up to n is continued to n + 1.
LEMMA EnumeratesNext ==
    ASSUME NEW I, NEW n \in Nat, NEW e, Enumerates(e, I, n)
    PROVE  /\ n + 1 \in I => Enumerates(Append(e, n + 1), I, n + 1)
           /\ n + 1 \notin I => Enumerates(e, I, n + 1)
<1>1. CASE n + 1 \notin I
  <2>1. \A i \in 1..(n + 1) : i \in I => i \in 1..n
    BY <1>1
  <2> QED
    BY <1>1, <2>1 DEF Enumerates
<1>2. CASE n + 1 \in I
  <2> DEFINE a == Append(e, n + 1)
  <2>1. e \in Seq(Nat)
    BY DEF Enumerates
  <2>2. a \in Seq(Nat) /\ Len(e) \in Nat /\ DOMAIN e = 1..Len(e) /\ DOMAIN a = 1..(Len(e) + 1)
    BY <2>1
  <2>3. \A k \in DOMAIN e : a[k] = e[k] /\ e[k] \in Nat /\ e[k] < n + 1
    BY <2>1, <2>2 DEF Enumerates
  <2>4. a[Len(e) + 1] = n + 1
    BY <2>1
  <2>5. \A k \in DOMAIN a : k \in DOMAIN e \/ k = Len(e) + 1
    BY <2>2
  <2> HIDE DEF a
  <2>6. \A k, l \in DOMAIN a : k < l => a[k] < a[l]
    <3> SUFFICES ASSUME NEW k \in DOMAIN a, NEW l \in DOMAIN a, k < l PROVE a[k] < a[l]
      OBVIOUS
    <3>1. k \in DOMAIN e
      BY <2>2
    <3>2. CASE l \in DOMAIN e
      BY <2>3, <3>1, <3>2 DEF Enumerates
    <3>3. CASE l = Len(e) + 1
      BY <2>3, <2>4, <3>1, <3>3
    <3> QED
      BY <2>5, <3>2, <3>3
  <2>7. \A k \in DOMAIN a : a[k] \in I /\ a[k] \in 1..(n + 1)
    BY <1>2, <2>3, <2>4, <2>5 DEF Enumerates
  <2>8. \A i \in 1..(n + 1) : i \in I => \E k \in DOMAIN a : a[k] = i
    <3> SUFFICES ASSUME NEW i \in 1..(n + 1), i \in I PROVE \E k \in DOMAIN a : a[k] = i
      OBVIOUS
    <3>1. CASE i = n + 1
      BY <2>2, <2>4, <3>1
    <3>2. CASE i \in 1..n
      <4>1. PICK k \in DOMAIN e : e[k] = i
        BY <3>2 DEF Enumerates
      <4> QED
        BY <2>2, <2>3, <4>1
    <3> QED
      BY <3>1, <3>2
  <2> QED
    BY <1>2, <2>2, <2>6, <2>7, <2>8 DEF Enumerates, a
<1> QED
  BY <1>1, <1>2

\* What is kept of a sequence: its elements at the positions in I, in order.
IsKept(q, s, I, n, e) == Enumerates(e, I, n) /\ q = [k \in DOMAIN e |-> s[e[k]]]

\* Kept lists the elements at the positions of I, in order.
LEMMA KeptEnumerates ==
    ASSUME NEW S, NEW s \in Seq(S), NEW I
    PROVE  \E e : IsKept(Kept(s, I), s, I, Len(s), e)
<1> DEFINE ss == [i \in DOMAIN s |-> IF i \in I THEN <<s[i]>> ELSE <<>>]
<1>1. PICK N : N = Len(s)
  OBVIOUS
<1>2. N \in Nat /\ DOMAIN s = 1..N
  BY <1>1
<1>3. ss \in Seq(Seq(S)) /\ Len(ss) = N
  <2>1. ASSUME NEW i \in 1..N PROVE ss[i] \in Seq(S)
    <3>1. s[i] \in S
      BY <1>1
    <3> QED
      BY <1>2, <3>1
  <2>2. ss \in [1..N -> Seq(S)]
    BY <1>2, <2>1
  <2> HIDE DEF ss
  <2> QED
    BY <1>2, <2>2
<1>4. Kept(s, I) = FlattenSeq(ss)
  BY DEF Kept
<1>5. \A i \in 1..N : ss[i] = IF i \in I THEN <<s[i]>> ELSE <<>>
  BY <1>2
<1>6. PICK g : Sums(g, ss, S) /\ FlattenSeq(ss) = g[Len(ss)]
  <2> HIDE DEF ss
  <2> QED
    BY <1>3, FlattenSums
<1> HIDE DEF ss
<1> DEFINE T == {n \in 0..N : \E e : IsKept(g[n], s, I, n, e)}
<1>7. 0 \in T
  <2>1. g[0] = <<>>
    BY <1>6 DEF Sums
  <2>2. IsKept(g[0], s, I, 0, <<>>)
    BY <2>1 DEF IsKept, Enumerates
  <2> QED
    BY <1>2, <2>2
<1>8. ASSUME NEW n \in 0..(N - 1), n \in T PROVE n + 1 \in T
  <2>1. n + 1 \in 1..N /\ (n + 1) - 1 = n /\ n \in 0..N /\ n \in Nat /\ n + 1 \in 0..N
    BY <1>2
  <2>2. g[n + 1] = g[(n + 1) - 1] \o ss[n + 1]
    BY <1>3, <1>6, <2>1 DEF Sums
  <2>3. g[n] \in Seq(S)
    BY <1>3, <1>6, <2>1 DEF Sums
  <2>4. PICK e : IsKept(g[n], s, I, n, e)
    BY <1>8
  <2>5. Enumerates(e, I, n) /\ g[n] = [k \in DOMAIN e |-> s[e[k]]] /\ e \in Seq(Nat)
    BY <2>4 DEF IsKept, Enumerates
  <2>6. CASE n + 1 \in I
    <3>1. s[n + 1] \in S
      BY <1>1, <2>1
    <3>2. g[n + 1] = g[n] \o <<s[n + 1]>>
      BY <1>5, <2>1, <2>2, <2>6
    <3>5. Append(g[n], s[n + 1]) \in Seq(S) /\ g[n + 1] = Append(g[n], s[n + 1])
      BY <2>3, <3>1, <3>2
    <3>3. Enumerates(Append(e, n + 1), I, n + 1)
      BY <2>1, <2>5, <2>6, EnumeratesNext
    <3>4. Append(g[n], s[n + 1]) =
            [k \in DOMAIN Append(e, n + 1) |-> s[Append(e, n + 1)[k]]]
      <4>1. DOMAIN g[n] = 1..Len(e) /\ Len(g[n]) = Len(e) /\ Len(e) \in Nat
        BY <2>3, <2>5
      <4>2. DOMAIN Append(e, n + 1) = 1..(Len(e) + 1)
        BY <2>5
      <4>3. Append(g[n], s[n + 1]) \in [1..(Len(e) + 1) -> S]
        <5>1. Len(Append(g[n], s[n + 1])) = Len(e) + 1
          BY <2>3, <3>1, <4>1
        <5>2. PICK q : q = Append(g[n], s[n + 1])
          OBVIOUS
        <5>3. q \in Seq(S) /\ Len(q) = Len(e) + 1
          BY <3>5, <5>1, <5>2
        <5>4. q \in [1..(Len(e) + 1) -> S]
          BY <5>3
        <5> QED
          BY <5>2, <5>4
      <4>4. ASSUME NEW k \in 1..(Len(e) + 1)
            PROVE  Append(g[n], s[n + 1])[k] = s[Append(e, n + 1)[k]]
        <5>1. CASE k \in 1..Len(e)
          BY <2>3, <2>5, <4>1, <5>1
        <5>2. CASE k = Len(e) + 1
          BY <2>3, <2>5, <4>1, <5>2
        <5> QED
          BY <4>1, <5>1, <5>2
      <4> QED
        BY <4>2, <4>3, <4>4
    <3> QED
      BY <2>1, <3>5, <3>3, <3>4 DEF IsKept
  <2>7. CASE n + 1 \notin I
    <3>1. g[n + 1] = g[n]
      <4>1. g[n + 1] = g[n] \o <<>>
        BY <1>5, <2>1, <2>2, <2>7
      <4> QED
        BY <2>3, <4>1
    <3>2. Enumerates(e, I, n + 1)
      BY <2>1, <2>5, <2>7, EnumeratesNext
    <3> QED
      BY <2>1, <2>5, <3>1, <3>2 DEF IsKept
  <2> QED
    BY <2>6, <2>7
<1>9. \A n \in 0..N : n \in T
  <2> HIDE DEF T
  <2> QED
    BY <1>2, <1>7, <1>8, Inducts
<1>10. N \in T
  BY <1>2, <1>9
<1> QED
  BY <1>1, <1>3, <1>4, <1>6, <1>10

\* What is kept is typed, and each element comes from a position in I.
LEMMA KeptFacts ==
    ASSUME NEW S, NEW s \in Seq(S), NEW I
    PROVE  /\ Kept(s, I) \in Seq(S)
           /\ \A k \in DOMAIN Kept(s, I) : \E i \in DOMAIN s : i \in I /\ Kept(s, I)[k] = s[i]
           /\ \A i \in DOMAIN s : i \in I => \E k \in DOMAIN Kept(s, I) : Kept(s, I)[k] = s[i]
           /\ IsInjective(s) => IsInjective(Kept(s, I))
<1>1. PICK e : IsKept(Kept(s, I), s, I, Len(s), e)
  BY KeptEnumerates
<1>2. PICK q : q = Kept(s, I)
  OBVIOUS
<1>3. /\ e \in Seq(Nat) /\ q = [k \in DOMAIN e |-> s[e[k]]] /\ DOMAIN s = 1..Len(s)
      /\ \A k \in DOMAIN e : e[k] \in I /\ e[k] \in DOMAIN s
      /\ \A i \in DOMAIN s : i \in I => \E k \in DOMAIN e : e[k] = i
      /\ \A k, l \in DOMAIN e : k < l => e[k] < e[l]
  BY <1>1, <1>2 DEF IsKept, Enumerates
<1>4. \A k \in DOMAIN e : s[e[k]] \in S
  BY <1>3
<1>5. q \in Seq(S)
  BY <1>3, <1>4
<1>6. ASSUME IsInjective(s) PROVE IsInjective(q)
  <2>1. \A k, l \in DOMAIN e : e[k] = e[l] => k = l
    <3> SUFFICES ASSUME NEW k \in DOMAIN e, NEW l \in DOMAIN e, e[k] = e[l] PROVE k = l
      OBVIOUS
    <3>1. k \in Nat /\ l \in Nat /\ e[k] \in Nat
      BY <1>3
    <3>2. ~(k < l) /\ ~(l < k)
      BY <1>3, <3>1
    <3> QED
      BY <3>1, <3>2
  <2>2. \A k, l \in DOMAIN e : s[e[k]] = s[e[l]] => k = l
    BY <1>3, <1>6, <2>1 DEF IsInjective
  <2> QED
    BY <1>3, <2>2 DEF IsInjective
<1>7. \A k \in DOMAIN q : \E i \in DOMAIN s : i \in I /\ q[k] = s[i]
  BY <1>3
<1>8. \A i \in DOMAIN s : i \in I => \E k \in DOMAIN q : q[k] = s[i]
  BY <1>3
<1> QED
  BY <1>2, <1>5, <1>6, <1>7, <1>8

\* Of two enumerations that agree below k, one that goes on to k has no less
\* there than the other, which goes on too.
LEMMA EnumerationHalf ==
    ASSUME NEW I, NEW n \in Nat, NEW a, NEW b, Enumerates(a, I, n), Enumerates(b, I, n),
           NEW k \in DOMAIN a,
           \A l \in 1..(k - 1) : l \in DOMAIN a /\ l \in DOMAIN b /\ a[l] = b[l]
    PROVE  k \in DOMAIN b /\ b[k] <= a[k]
<1>1. /\ a \in Seq(Nat) /\ b \in Seq(Nat)
      /\ \A i, j \in DOMAIN a : i < j => a[i] < a[j]
      /\ \A i, j \in DOMAIN b : i < j => b[i] < b[j]
  BY DEF Enumerates
<1>2. /\ DOMAIN a = 1..Len(a) /\ Len(a) \in Nat /\ DOMAIN b = 1..Len(b) /\ Len(b) \in Nat
      /\ \A i \in DOMAIN a : a[i] \in Nat
      /\ \A i \in DOMAIN b : b[i] \in Nat
  BY <1>1
<1>3. PICK l \in DOMAIN b : b[l] = a[k]
  BY DEF Enumerates
<1>4. l >= k
  <2> SUFFICES ASSUME l < k PROVE FALSE
    BY <1>2
  <2>1. l \in 1..(k - 1)
    BY <1>2
  <2>2. a[l] = a[k] /\ l \in DOMAIN a
    BY <1>3, <2>1
  <2>3. a[l] < a[k]
    BY <1>1, <2>2
  <2> QED
    BY <1>2, <2>2, <2>3
<1>5. k \in DOMAIN b
  BY <1>2, <1>4
<1>6. CASE l = k
  BY <1>2, <1>3, <1>5, <1>6
<1>7. CASE l # k
  <2>1. k < l
    BY <1>2, <1>4, <1>7
  <2>2. b[k] < b[l]
    BY <1>1, <1>5, <2>1
  <2> QED
    BY <1>2, <1>3, <1>5, <2>2
<1> QED
  BY <1>6, <1>7

\* There is one enumeration of the members of I up to n.
LEMMA EnumerationUnique ==
    ASSUME NEW I, NEW n \in Nat, NEW a, NEW b, Enumerates(a, I, n), Enumerates(b, I, n)
    PROVE  a = b
<1>1. /\ a \in Seq(Nat) /\ b \in Seq(Nat)
      /\ DOMAIN a = 1..Len(a) /\ Len(a) \in Nat /\ DOMAIN b = 1..Len(b) /\ Len(b) \in Nat
      /\ \A i \in DOMAIN a : a[i] \in Nat
      /\ \A i \in DOMAIN b : b[i] \in Nat
  BY DEF Enumerates
<1> DEFINE B == {k \in DOMAIN a \cup DOMAIN b :
                    ~(k \in DOMAIN a /\ k \in DOMAIN b /\ a[k] = b[k])}
<1>2. B = {}
  <2> SUFFICES ASSUME B # {} PROVE FALSE
    OBVIOUS
  <2>1. B \subseteq Nat
    BY <1>1
  <2>2. PICK k \in B : \A l \in B : k <= l
    <3> HIDE DEF B
    <3> QED
      BY <2>1, Least
  <2>3. k \in Nat /\ k >= 1
    BY <1>1, <2>2
  <2>4. \A l \in 1..(k - 1) : l \in DOMAIN a /\ l \in DOMAIN b /\ a[l] = b[l]
    <3> SUFFICES ASSUME NEW l \in 1..(k - 1)
                 PROVE  l \in DOMAIN a /\ l \in DOMAIN b /\ a[l] = b[l]
      OBVIOUS
    <3>1. l \notin B
      BY <2>2, <2>3
    <3>2. l \in DOMAIN a \cup DOMAIN b
      BY <1>1, <2>2, <2>3
    <3> QED
      BY <3>1, <3>2
  <2>5. k \in DOMAIN a => k \in DOMAIN b /\ b[k] <= a[k]
    BY <2>4, EnumerationHalf
  <2>6. k \in DOMAIN b => k \in DOMAIN a /\ a[k] <= b[k]
    <3>1. \A l \in 1..(k - 1) : l \in DOMAIN b /\ l \in DOMAIN a /\ b[l] = a[l]
      BY <2>4
    <3> QED
      BY <3>1, EnumerationHalf
  <2>7. k \in DOMAIN a /\ k \in DOMAIN b
    BY <2>2, <2>5, <2>6
  <2>8. a[k] = b[k]
    BY <1>1, <2>5, <2>6, <2>7
  <2> QED
    BY <2>2, <2>7, <2>8
<1>3. DOMAIN a = DOMAIN b /\ \A k \in DOMAIN a : a[k] = b[k]
  <2>1. \A k : k \in DOMAIN a \/ k \in DOMAIN b =>
            k \in DOMAIN a /\ k \in DOMAIN b /\ a[k] = b[k]
    BY <1>2
  <2> HIDE DEF B
  <2> QED
    BY <2>1
<1>4. Len(a) = Len(b)
  <2>1. PICK x, y : x = Len(a) /\ y = Len(b)
    OBVIOUS
  <2>2. x \in Nat /\ y \in Nat /\ 1..x = 1..y
    BY <1>1, <1>3, <2>1
  <2>3. x = y
    <3>1. x > y => x \in 1..x /\ x \notin 1..y
      BY <2>2
    <3>2. y > x => y \in 1..y /\ y \notin 1..x
      BY <2>2
    <3> QED
      BY <2>2, <3>1, <3>2
  <2> QED
    BY <2>1, <2>3
<1>5. /\ a = [k \in 1..Len(a) |-> a[k]]
      /\ b = [k \in 1..Len(a) |-> b[k]]
  BY <1>1, <1>4
<1> QED
  BY <1>1, <1>3, <1>5

\* What is kept of the images of a list: the images of what is kept.
LEMMA KeptMaps ==
    ASSUME NEW S, NEW s \in Seq(S), NEW R, NEW t \in Seq(R), Len(s) = Len(t), NEW I
    PROVE  \E e : /\ Enumerates(e, I, Len(s))
                  /\ Kept(s, I) = [k \in DOMAIN e |-> s[e[k]]]
                  /\ Kept(t, I) = [k \in DOMAIN e |-> t[e[k]]]
<1>1. PICK e : IsKept(Kept(s, I), s, I, Len(s), e)
  BY KeptEnumerates
<1>2. PICK d : IsKept(Kept(t, I), t, I, Len(t), d)
  BY KeptEnumerates
<1>3. Enumerates(e, I, Len(s)) /\ Enumerates(d, I, Len(s))
  BY <1>1, <1>2 DEF IsKept
<1>4. e = d
  BY <1>3, EnumerationUnique
<1> QED
  BY <1>1, <1>2, <1>3, <1>4 DEF IsKept

\* All of a list is kept where all of its positions are.
LEMMA KeptAll ==
    ASSUME NEW S, NEW s \in Seq(S), NEW I, DOMAIN s \subseteq I
    PROVE  Kept(s, I) = s
<1>1. PICK N : N = Len(s)
  OBVIOUS
<1>2. N \in Nat /\ DOMAIN s = 1..N
  BY <1>1
<1> DEFINE id == [k \in 1..N |-> k]
<1>3. Enumerates(id, I, N)
  <2>1. id \in Seq(Nat) /\ DOMAIN id = 1..N /\ \A k \in 1..N : id[k] = k
    BY <1>2
  <2> HIDE DEF id
  <2> QED
    BY <1>2, <2>1 DEF Enumerates
<1>4. PICK e : IsKept(Kept(s, I), s, I, N, e)
  BY <1>1, KeptEnumerates
<1>5. e = id
  BY <1>2, <1>3, <1>4, EnumerationUnique DEF IsKept
<1>6. Kept(s, I) = [k \in 1..N |-> s[k]]
  BY <1>4, <1>5 DEF IsKept
<1> QED
  BY <1>1, <1>6

\* The concatenation of lists is that of those at the positions enumerated,
\* if the others are empty.
LEMMA FlattenSkips ==
    ASSUME NEW S, NEW qs \in Seq(Seq(S)), NEW I, NEW e, Enumerates(e, I, Len(qs)),
           \A i \in DOMAIN qs : i \notin I => qs[i] = <<>>
    PROVE  FlattenSeq([k \in DOMAIN e |-> qs[e[k]]]) = FlattenSeq(qs)
<1>1. PICK N, M, ss : N = Len(qs) /\ M = Len(e) /\ ss = [k \in DOMAIN e |-> qs[e[k]]]
  OBVIOUS
<1>2. /\ N \in Nat /\ DOMAIN qs = 1..N
      /\ e \in Seq(Nat) /\ M \in Nat /\ DOMAIN e = 1..M
      /\ \A k \in 1..M : e[k] \in 1..N /\ e[k] \in I
      /\ \A k, l \in 1..M : k < l => e[k] < e[l]
      /\ \A i \in 1..N : i \in I => \E k \in 1..M : e[k] = i
  <2>1. N \in Nat /\ DOMAIN qs = 1..N /\ e \in Seq(Nat)
    BY <1>1 DEF Enumerates
  <2>2. M \in Nat /\ DOMAIN e = 1..M
    BY <1>1, <2>1
  <2> QED
    BY <1>1, <2>1, <2>2 DEF Enumerates
<1>3. /\ ss \in Seq(Seq(S)) /\ Len(ss) = M
      /\ \A k \in 1..M : ss[k] = qs[e[k]]
  <2>1. \A k \in 1..M : qs[e[k]] \in Seq(S)
    BY <1>2
  <2>2. ss \in [1..M -> Seq(S)]
    BY <1>1, <1>2, <2>1
  <2> QED
    BY <1>1, <1>2, <2>2
<1>4. PICK g : Sums(g, qs, S) /\ FlattenSeq(qs) = g[Len(qs)]
  BY FlattenSums
<1>5. PICK h : Sums(h, ss, S) /\ FlattenSeq(ss) = h[Len(ss)]
  BY <1>3, FlattenSums
<1>6. /\ g[0] = <<>> /\ h[0] = <<>>
      /\ \A n \in 0..N : g[n] \in Seq(S)
      /\ \A n \in 1..N : g[n] = g[n - 1] \o qs[n]
      /\ \A n \in 1..M : h[n] = h[n - 1] \o ss[n]
  BY <1>1, <1>3, <1>4, <1>5 DEF Sums
<1> DEFINE Up(n, c) == \A k \in 1..M : e[k] <= n <=> k <= c
           T == {n \in 0..N : \E c \in 0..M : Up(n, c) /\ g[n] = h[c]}
<1>7. 0 \in T
  <2>1. Up(0, 0)
    BY <1>2
  <2>2. 0 \in 0..N /\ 0 \in 0..M /\ g[0] = h[0]
    BY <1>2, <1>6
  <2> HIDE DEF Up
  <2> QED
    BY <2>1, <2>2
<1>8. ASSUME NEW n \in 0..(N - 1), n \in T PROVE n + 1 \in T
  <2>1. PICK c \in 0..M : Up(n, c) /\ g[n] = h[c]
    BY <1>8
  <2>2. n + 1 \in 1..N /\ n + 1 \in 0..N /\ (n + 1) - 1 = n /\ n \in 0..N
    BY <1>2
  <2>3. g[n + 1] = g[n] \o qs[n + 1] /\ g[n] \in Seq(S)
    BY <1>6, <2>2
  <2>4. CASE n + 1 \in I
    <3>1. PICK k \in 1..M : e[k] = n + 1
      BY <1>2, <2>2, <2>4
    <3>2. k > c
      BY <1>2, <2>1, <3>1
    <3>3. k = c + 1
      <4> SUFFICES ASSUME k > c + 1 PROVE FALSE
        BY <1>2, <3>2
      <4>1. c + 1 \in 1..M
        BY <1>2
      <4>2. e[c + 1] < e[k]
        BY <1>2, <4>1
      <4>3. e[c + 1] <= n
        BY <1>2, <3>1, <4>1, <4>2
      <4> QED
        BY <2>1, <4>1, <4>3
    <3>4. c + 1 \in 1..M /\ c + 1 \in 0..M /\ (c + 1) - 1 = c
      BY <1>2, <3>3
    <3>5. Up(n + 1, c + 1)
      <4> SUFFICES ASSUME NEW l \in 1..M PROVE e[l] <= n + 1 <=> l <= c + 1
        OBVIOUS
      <4>1. e[l] \in Nat /\ (e[l] <= n <=> l <= c)
        BY <1>2, <2>1
      <4>2. l < k => e[l] < e[k]
        BY <1>2
      <4>3. k < l => e[k] < e[l]
        BY <1>2
      <4>4. k \in Nat /\ l \in Nat /\ c \in Nat /\ n \in Nat /\ k = c + 1
        BY <1>2, <3>3
      <4>5. CASE l = k
        BY <3>1, <4>4, <4>5
      <4>6. CASE l < k
        BY <3>1, <4>1, <4>2, <4>4, <4>6
      <4>7. CASE k < l
        <5>1. e[l] > n + 1
          BY <3>1, <4>1, <4>3, <4>7
        <5> QED
          BY <4>1, <4>4, <4>7, <5>1
      <4> QED
        BY <4>4, <4>5, <4>6, <4>7
    <3>6. ss[c + 1] = qs[n + 1]
      BY <1>3, <3>1, <3>3
    <3>7. h[c + 1] = h[c] \o ss[c + 1]
      BY <1>6, <3>4
    <3>8. g[n + 1] = h[c + 1]
      BY <2>1, <2>3, <3>6, <3>7
    <3> HIDE DEF Up
    <3> QED
      BY <2>2, <3>4, <3>5, <3>8
  <2>5. CASE n + 1 \notin I
    <3>1. qs[n + 1] = <<>>
      BY <1>2, <2>2, <2>5
    <3>2. g[n + 1] = g[n]
      BY <2>3, <3>1
    <3>3. Up(n + 1, c)
      <4> SUFFICES ASSUME NEW l \in 1..M PROVE e[l] <= n + 1 <=> l <= c
        OBVIOUS
      <4>1. e[l] \in Nat /\ (e[l] <= n <=> l <= c) /\ e[l] # n + 1
        BY <1>2, <2>1, <2>5
      <4> QED
        BY <4>1
    <3> HIDE DEF Up
    <3> QED
      BY <2>1, <2>2, <3>2, <3>3
  <2> QED
    BY <2>4, <2>5
<1>9. N \in T
  <2> HIDE DEF T
  <2>1. \A n \in 0..N : n \in T
    BY <1>2, <1>7, <1>8, Inducts
  <2> QED
    BY <1>2, <2>1
<1>10. PICK c \in 0..M : Up(N, c) /\ g[N] = h[c]
  BY <1>9
<1>11. c = M
  <2> SUFFICES ASSUME c < M PROVE FALSE
    BY <1>2
  <2>1. M \in 1..M /\ e[M] <= N
    BY <1>2
  <2> QED
    BY <1>2, <1>10, <2>1
<1> QED
  BY <1>1, <1>3, <1>4, <1>5, <1>10, <1>11

-----------------------------------------------------------------------------
\* Files

\* A vector is a sequence of its elements.
LEMMA ListIsSeq ==
    ASSUME NEW s, IsList(s)
    PROVE  s \in Seq(Range(s)) /\ DOMAIN s = 1..Len(s) /\ Len(s) \in Nat
<1>1. PICK n : n = Len(s)
  OBVIOUS
<1>2. n \in Nat /\ s = [i \in 1..n |-> s[i]]
  BY <1>1 DEF IsList
<1>3. DOMAIN s = 1..n
  BY <1>2
<1>4. s \in [1..n -> Range(s)]
  BY <1>2, <1>3 DEF Range
<1> QED
  BY <1>1, <1>2, <1>3, <1>4

\* The config and the files have the types that the worker deserializes.
Shaped == ScenarioShape(scenario)

\* No step changes the config or the lake.
LEMMA ScenarioStays == ASSUME [Next]_vars PROVE scenario' = scenario
  BY DEF vars, Next, CheckConfig, ListSource, ListSourceFails, Listed, Download,
         DownloadFails, Downloaded, Cancel, LoadDimension, LoadDimensionFails,
         DimensionsLoaded, MapNext, Finish

\* The types hold throughout a job.
LEMMA ShapedInv == Spec => []Shaped
<1>1. Init => Shaped
  BY ScenarioAssumption DEF Init, Shaped
<1>2. Shaped /\ [Next]_vars => Shaped'
  BY ScenarioStays DEF Shaped
<1> QED
  BY <1>1, <1>2, PTL DEF Spec

\* Two lists without repetitions and without a common element make one.
LEMMA ConcatInjective ==
    ASSUME NEW S, NEW a \in Seq(S), NEW b \in Seq(S), IsInjective(a), IsInjective(b),
           \A i \in DOMAIN a : \A j \in DOMAIN b : a[i] # b[j]
    PROVE  IsInjective(a \o b)
<1>1. Len(a) \in Nat /\ Len(b) \in Nat /\ DOMAIN a = 1..Len(a) /\ DOMAIN b = 1..Len(b)
      /\ DOMAIN (a \o b) = 1..(Len(a) + Len(b))
  OBVIOUS
<1>2. \A i \in DOMAIN (a \o b) :
         (a \o b)[i] = IF i \in DOMAIN a THEN a[i] ELSE b[i - Len(a)]
  OBVIOUS
<1>3. \A i \in DOMAIN (a \o b) : i \notin DOMAIN a => i - Len(a) \in DOMAIN b
  BY <1>1
<1> SUFFICES ASSUME NEW i \in DOMAIN (a \o b), NEW j \in DOMAIN (a \o b),
                    (a \o b)[i] = (a \o b)[j]
             PROVE  i = j
  BY DEF IsInjective
<1>4. CASE i \in DOMAIN a /\ j \in DOMAIN a
  BY <1>2, <1>4 DEF IsInjective
<1>5. CASE i \in DOMAIN a /\ j \notin DOMAIN a
  BY <1>2, <1>3, <1>5
<1>6. CASE i \notin DOMAIN a /\ j \in DOMAIN a
  BY <1>2, <1>3, <1>6
<1>7. CASE i \notin DOMAIN a /\ j \notin DOMAIN a
  <2>1. i - Len(a) = j - Len(a)
    BY <1>2, <1>3, <1>7 DEF IsInjective
  <2> QED
    BY <1>1, <2>1
<1> QED
  BY <1>4, <1>5, <1>6, <1>7

\* Lists
LEMMA ListKeysFacts ==
    ASSUME Shaped, NEW prefix
    PROVE  /\ ListKeys(prefix) \in Seq(DOMAIN lake) /\ IsInjective(ListKeys(prefix))
           /\ \A k \in DOMAIN ListKeys(prefix) :
                 StartsWith(lake[ListKeys(prefix)[k]].key, prefix)
<1> DEFINE all == [i \in DOMAIN lake |-> i]
           I == {i \in DOMAIN lake : StartsWith(lake[i].key, prefix)}
<1>1. PICK L : L = lake
  OBVIOUS
<1>2. IsList(L)
  BY <1>1 DEF Shaped, ScenarioShape, lake
<1>3. DOMAIN L = 1..Len(L) /\ Len(L) \in Nat
  BY <1>2, ListIsSeq
<1>4. all \in Seq(DOMAIN lake) /\ IsInjective(all) /\ DOMAIN all = DOMAIN lake
  <2>1. [i \in DOMAIN L |-> i] \in Seq(DOMAIN L)
    BY <1>3
  <2> QED
    BY <1>1, <2>1 DEF IsInjective
<1>5. ListKeys(prefix) = Kept(all, I)
  BY DEF ListKeys
<1>6. \A i \in DOMAIN all : all[i] = i /\ (i \in I => StartsWith(lake[i].key, prefix))
  OBVIOUS
<1> HIDE DEF all, I
<1> QED
  BY <1>4, <1>5, <1>6, KeptFacts

\* A source lists the file and has its format.
Sourced(f) ==
    \E j \in DOMAIN cfg.sources :
        /\ StartsWith(lake[f].key, cfg.sources[j].prefix)
        /\ HasExtension(f, Extensions(cfg.sources[j].format))

\* What the control variables can be.
Control ==
    /\ pc \in {"validate", "list", "download", "dims", "map", "completed"} \cup Failures
    /\ next \in Nat \ {0}
    /\ faults \in 0..MaxFaults

\* candidate_keys: no key twice, and each for a source that lists it.
Listing ==
    /\ keys \in Seq(DOMAIN lake) /\ IsInjective(keys)
    /\ \A k \in DOMAIN keys : Sourced(keys[k])

\* all_files: no file twice, and each for a key that has been gone through.
Downloads ==
    /\ files \in Seq(DOMAIN lake) /\ IsInjective(files)
    /\ \A k \in DOMAIN files :
          \E i \in DOMAIN keys : files[k] = keys[i] /\ (pc = "download" => i < next)
    /\ pc \in {"validate", "list"} => files = <<>>

\* A result for each mapping gone through.
Outcomes ==
    /\ IsList(results)
    /\ pc \notin {"map", "completed", "Cancelled"} => results = <<>>
    /\ pc = "map" => Len(results) = next - 1
    /\ Len(results) <= Len(cfg.mappings)

\* The control variables stay in their ranges.
LEMMA ControlInv == Spec => []Control
<1>1. Init => Control
  BY ExecuteAssumption DEF Init, Control
<1>2. Control /\ [Next]_vars => Control'
  <2> SUFFICES ASSUME Control, [Next]_vars PROVE Control'
    OBVIOUS
  <2> USE ExecuteAssumption DEF Control, Goto, Fault, Skip, Failures
  <2>1. CASE CheckConfig
    BY <2>1 DEF CheckConfig
  <2>2. CASE ListSource
    BY <2>2 DEF ListSource
  <2>3. CASE ListSourceFails
    BY <2>3 DEF ListSourceFails
  <2>4. CASE Listed
    BY <2>4 DEF Listed
  <2>5. CASE Download
    BY <2>5 DEF Download
  <2>6. CASE DownloadFails
    BY <2>6 DEF DownloadFails
  <2>7. CASE Downloaded
    <3>1. faults' = faults /\ next' = 1
      BY <2>7 DEF Downloaded
    <3>2. pc' \in {"NoFiles", "Dimension", "dims"}
      BY <2>7, Zenon DEF Downloaded, Goto
    <3> QED
      BY <3>1, <3>2
  <2>8. CASE Cancel
    BY <2>8 DEF Cancel
  <2>9. CASE LoadDimension
    <3>1. faults' = faults
      BY <2>9 DEF LoadDimension
    <3>2. \/ pc' = pc /\ next' = next + 1
          \/ pc' = "Dimension" /\ next' = 1
      BY <2>9, Zenon DEF LoadDimension, Goto
    <3> QED
      BY <3>1, <3>2
  <2>10. CASE LoadDimensionFails
    BY <2>10 DEF LoadDimensionFails
  <2>11. CASE DimensionsLoaded
    BY <2>11 DEF DimensionsLoaded
  <2>12. CASE MapNext
    BY <2>12 DEF MapNext
  <2>13. CASE Finish
    BY <2>13 DEF Finish
  <2>14. CASE UNCHANGED vars
    BY <2>14 DEF vars
  <2> QED
    BY <2>1, <2>2, <2>3, <2>4, <2>5, <2>6, <2>7, <2>8, <2>9, <2>10, <2>11, <2>12, <2>13,
       <2>14 DEF Next
<1> QED
  BY <1>1, <1>2, PTL DEF Spec

\* Only the listing of a source changes candidate_keys.
LEMMA KeysGrow == ASSUME [Next]_vars PROVE ListSource \/ keys' = keys
  BY DEF vars, Next, CheckConfig, ListSourceFails, Listed, Download,
         DownloadFails, Downloaded, Cancel, LoadDimension, LoadDimensionFails,
         DimensionsLoaded, MapNext, Finish

\* The keys of a source that are new extend candidate_keys.
LEMMA ListSourceKeeps ==
    ASSUME Shaped, Listing, ListSource
    PROVE  Listing'
<1> DEFINE sc == cfg.sources[next]
           listed == ListKeys(sc.prefix)
           I == {i \in DOMAIN listed : HasExtension(listed[i], Extensions(sc.format))
                                       /\ listed[i] \notin Range(keys)}
           new == Kept(listed, I)
<1>1. keys' = keys \o new /\ next \in DOMAIN cfg.sources /\ scenario' = scenario
  BY DEF ListSource
<1>2. /\ listed \in Seq(DOMAIN lake) /\ IsInjective(listed)
      /\ \A k \in DOMAIN listed : StartsWith(lake[listed[k]].key, sc.prefix)
  BY ListKeysFacts
<1>3. \A i \in DOMAIN listed :
         i \in I => /\ HasExtension(listed[i], Extensions(sc.format))
                    /\ \A k \in DOMAIN keys : keys[k] # listed[i]
  BY DEF Range
<1>4. /\ new \in Seq(DOMAIN lake) /\ IsInjective(new)
      /\ \A k \in DOMAIN new : \E i \in DOMAIN listed : i \in I /\ new[k] = listed[i]
  <2> HIDE DEF listed, I
  <2> QED
    BY <1>2, KeptFacts
<1> HIDE DEF listed, I, new
<1>5. \A k \in DOMAIN new : Sourced(new[k]) /\ \A j \in DOMAIN keys : keys[j] # new[k]
  BY <1>1, <1>2, <1>3, <1>4 DEF Sourced
<1>6. keys \o new \in Seq(DOMAIN lake) /\ IsInjective(keys \o new)
  BY <1>4, <1>5, ConcatInjective DEF Listing
<1>7. ASSUME NEW k \in DOMAIN (keys \o new) PROVE Sourced((keys \o new)[k])
  <2>1. (keys \o new)[k] = IF k \in DOMAIN keys THEN keys[k] ELSE new[k - Len(keys)]
    BY <1>4 DEF Listing
  <2>2. k \notin DOMAIN keys => k - Len(keys) \in DOMAIN new
    BY <1>4 DEF Listing
  <2> QED
    BY <1>5, <2>1, <2>2 DEF Listing
<1>8. lake' = lake /\ cfg' = cfg
  BY <1>1 DEF lake, cfg
<1>9. \A f : Sourced(f) => Sourced(f)'
  BY <1>8 DEF Sourced, HasExtension
<1> QED
  BY <1>1, <1>6, <1>7, <1>8, <1>9 DEF Listing

\* No key is listed twice, and each is for a source that lists it.
LEMMA ListingInv == Spec => []Listing
<1>1. Init => Listing
  BY DEF Init, Listing, IsInjective
<1>2. Shaped /\ Listing /\ [Next]_vars => Listing'
  <2> SUFFICES ASSUME Shaped, Listing, [Next]_vars PROVE Listing'
    OBVIOUS
  <2>1. CASE keys' = keys
    <3>1. lake' = lake /\ cfg' = cfg
      BY ScenarioStays DEF lake, cfg
    <3> QED
      BY <2>1, <3>1 DEF Listing, Sourced, HasExtension
  <2> QED
    BY <2>1, KeysGrow, ListSourceKeeps
<1> QED
  BY <1>1, <1>2, ShapedInv, PTL DEF Spec

\* A download adds the file of the next key, which has not been downloaded.
LEMMA DownloadKeeps ==
    ASSUME Control, Listing, Downloads, Download
    PROVE  Downloads'
<1>1. /\ files' = Append(files, keys[next]) /\ keys' = keys /\ scenario' = scenario
      /\ pc = "download" /\ pc' = "download" /\ next \in DOMAIN keys /\ next' = next + 1
  BY DEF Download
<1>2. keys[next] \in DOMAIN lake /\ lake' = lake /\ next \in Nat
  BY <1>1 DEF Listing, lake, Control
<1>3. \A k \in DOMAIN files : files[k] # keys[next]
  BY <1>1, <1>2 DEF Downloads, Listing, IsInjective
<1>4. files' \in Seq(DOMAIN lake) /\ DOMAIN files' = DOMAIN files \cup {Len(files) + 1}
  BY <1>1, <1>2 DEF Downloads
<1>5. /\ \A k \in DOMAIN files : files'[k] = files[k]
      /\ files'[Len(files) + 1] = keys[next]
  BY <1>1, <1>2 DEF Downloads
<1>6. IsInjective(files')
  BY <1>3, <1>4, <1>5 DEF Downloads, IsInjective
<1>7. \A k \in DOMAIN files' :
         \E i \in DOMAIN keys' : files'[k] = keys'[i] /\ i < next'
  <2> SUFFICES ASSUME NEW k \in DOMAIN files'
               PROVE  \E i \in DOMAIN keys : files'[k] = keys[i] /\ i < next + 1
    BY <1>1
  <2>1. CASE k \in DOMAIN files
    <3>1. PICK i \in DOMAIN keys : files[k] = keys[i] /\ i < next
      BY <1>1, <2>1 DEF Downloads
    <3>2. i \in Nat
      BY DEF Listing
    <3> QED
      BY <1>2, <1>5, <2>1, <3>1, <3>2
  <2>2. CASE k = Len(files) + 1
    BY <1>1, <1>2, <1>5, <2>2
  <2> QED
    BY <1>4, <2>1, <2>2
<1> QED
  BY <1>1, <1>2, <1>4, <1>6, <1>7 DEF Downloads

\* No file is downloaded twice, however downloads fail.
LEMMA DownloadsInv == Spec => []Downloads
<1>1. Init => Downloads
  BY DEF Init, Downloads, IsInjective
<1>2. Control /\ Listing /\ Downloads /\ [Next]_vars => Downloads'
  <2> SUFFICES ASSUME Control, Listing, Downloads, [Next]_vars PROVE Downloads'
    OBVIOUS
  <2>1. lake' = lake
    BY ScenarioStays DEF lake
  <2>2. CASE Download
    BY <2>2, DownloadKeeps
  <2>3. CASE ListSource
    <3>1. pc = "list" /\ pc' = pc /\ files' = files
      BY <2>3 DEF ListSource
    <3> QED
      BY <2>1, <3>1 DEF Downloads
  <2>4. CASE ~Download /\ ~ListSource
    <3>1. files' = files /\ keys' = keys
      BY <2>4 DEF vars, Next, CheckConfig, ListSourceFails, Listed,
             DownloadFails, Downloaded, Cancel, LoadDimension, LoadDimensionFails,
             DimensionsLoaded, MapNext, Finish
    <3>2. pc' = "download" => \/ pc = "download" /\ (next' = next \/ next' = next + 1)
                              \/ files = <<>>
      BY <2>4, Zenon DEF vars, Next, CheckConfig, ListSourceFails, Listed, Goto, Skip,
             DownloadFails, Downloaded, Cancel, LoadDimension, LoadDimensionFails,
             DimensionsLoaded, MapNext, Finish, Downloads
    <3>3. pc' \in {"validate", "list"} => pc \in {"validate", "list"}
      BY <2>4, Zenon DEF vars, Next, CheckConfig, ListSourceFails, Listed, Goto, Skip,
             DownloadFails, Downloaded, Cancel, LoadDimension, LoadDimensionFails,
             DimensionsLoaded, MapNext, Finish
    <3>4. ASSUME pc' = "download", NEW k \in DOMAIN files
          PROVE  \E i \in DOMAIN keys : files[k] = keys[i] /\ i < next'
      <4>1. k \in 1..Len(files) /\ DOMAIN keys \subseteq Nat
        BY DEF Downloads, Listing
      <4>2. pc = "download" /\ (next' = next \/ next' = next + 1)
        BY <3>2, <3>4, <4>1
      <4> QED
        BY <4>1, <4>2 DEF Downloads, Control
    <3> QED
      BY <2>1, <3>1, <3>3, <3>4 DEF Downloads
  <2> QED
    BY <2>2, <2>3, <2>4
<1> QED
  BY <1>1, <1>2, ControlInv, ListingInv, PTL DEF Spec

\* A list with one more element is a list.
LEMMA AppendToList ==
    ASSUME NEW s, IsList(s), NEW x
    PROVE  IsList(Append(s, x)) /\ Len(Append(s, x)) = Len(s) + 1
           /\ Append(s, x)[Len(s) + 1] = x
           /\ \A i \in DOMAIN s : Append(s, x)[i] = s[i]
<1>1. PICK S : S = Range(s) \cup {x}
  OBVIOUS
<1>2. s \in Seq(S) /\ x \in S /\ Len(s) \in Nat
  BY <1>1, ListIsSeq
<1>3. PICK a : a = Append(s, x)
  OBVIOUS
<1>4. a \in Seq(S) /\ Len(a) = Len(s) + 1 /\ a[Len(s) + 1] = x /\ \A i \in DOMAIN s : a[i] = s[i]
  BY <1>2, <1>3
<1>5. a = [i \in 1..Len(a) |-> a[i]]
  BY <1>4
<1> QED
  BY <1>2, <1>3, <1>4, <1>5 DEF IsList

\* The results keep pace with the mappings.
LEMMA OutcomesInv == Spec => []Outcomes
<1>1. Init => Outcomes
  <2> SUFFICES ASSUME Init PROVE Outcomes
    OBVIOUS
  <2>1. Len(cfg.mappings) \in Nat
    BY ScenarioAssumption, ListIsSeq DEF Init, ScenarioShape, cfg
  <2>2. IsList(<<>>) /\ Len(<<>>) = 0
    BY DEF IsList
  <2> QED
    BY <2>1, <2>2 DEF Init, Outcomes
<1>2. Shaped /\ Control /\ Outcomes /\ [Next]_vars => Outcomes'
  <2> SUFFICES ASSUME Shaped, Control, Outcomes, [Next]_vars PROVE Outcomes'
    OBVIOUS
  <2>1. cfg' = cfg
    BY ScenarioStays DEF cfg
  <2>2. /\ IsList(cfg.mappings) /\ DOMAIN cfg.mappings = 1..Len(cfg.mappings)
        /\ Len(cfg.mappings) \in Nat
    BY ListIsSeq DEF Shaped, ScenarioShape, cfg
  <2>3. CASE MapNext
    <3>1. /\ pc = "map" /\ pc' = pc /\ next \in DOMAIN cfg.mappings /\ next' = next + 1
          /\ \E x : results' = Append(results, x)
      BY <2>3 DEF MapNext
    <3>2. IsList(results') /\ Len(results') = Len(results) + 1
      BY <3>1, AppendToList DEF Outcomes
    <3>3. Len(results) = next - 1 /\ next \in 1..Len(cfg.mappings)
      BY <2>2, <3>1 DEF Outcomes
    <3> QED
      BY <2>1, <2>2, <3>1, <3>2, <3>3 DEF Outcomes
  <2>4. CASE ~MapNext
    <3>1. results' = results
      BY <2>4 DEF vars, Next, CheckConfig, ListSource, ListSourceFails, Listed, Download,
             DownloadFails, Downloaded, Cancel, LoadDimension, LoadDimensionFails,
             DimensionsLoaded, Finish
    <3>2. \/ pc' = pc /\ (pc = "map" => next' = next)
          \/ pc' = "map" /\ next' = 1 /\ pc = "dims"
          \/ pc' # "map" /\ (pc \in {"map", "completed", "Cancelled"} =>
                                pc' \in {"map", "completed", "Cancelled"})
      BY <2>4, Zenon DEF vars, Next, CheckConfig, ListSource, ListSourceFails, Listed,
             Download, DownloadFails, Downloaded, Cancel, LoadDimension,
             LoadDimensionFails, DimensionsLoaded, Finish, Goto, Skip
    <3>3. Len(<<>>) = 0
      OBVIOUS
    <3> QED
      BY <2>1, <3>1, <3>2, <3>3 DEF Outcomes
  <2> QED
    BY <2>3, <2>4
<1> QED
  BY <1>1, <1>2, ShapedInv, ControlInv, PTL DEF Spec

-----------------------------------------------------------------------------
\* The registry of dimensions

\* A result without an error.
Fine(r) == r.error = ""

\* Ok is no error and has its value.
LEMMA OkIsFine == \A v : Fine(Ok(v)) /\ Ok(v).value = v
<1>1. \A v : Fine(Ok(v))
  BY Zenon DEF Fine, Ok
<1>2. \A v : Ok(v).value = v
  BY Zenon DEF Ok
<1> QED
  BY <1>1, <1>2

\* The names of errors.
Causes ==
    {"TooManyRows", "DuplicateKey", "FileRead", "MissingColumn", "path", "array", "frame",
     "read", "headers", "compile", "column", "eval", "source", "NoFilesSucceeded", "collect",
     "table", "assertion", "dedup", "partition", "skipped"}

\* The causes that the code reports are errors.
LEMMA ErrorsAreNotFine ==
    \A e \in Causes : ~Fine(Error(e)) /\ \A s : ~Fine(Failed(s, e))
<1>1. "" \notin Causes
  BY Zenon DEF Causes
<1>2. \A e \in Causes : e # ""
  BY <1>1, Zenon
<1>3. \A e \in Causes : ~Fine(Error(e))
  BY <1>2, Zenon DEF Fine, Error
<1>4. \A e \in Causes : \A s : ~Fine(Failed(s, e))
  BY <1>2, Zenon DEF Fine, Failed
<1> QED
  BY <1>3, <1>4

\* The matcher of the rows is built.
Accepted(dim, rows) == Fine(NewMatcher(dim, rows))

\* No two items have the same id.
UniqueBy(items) == \A i, j \in DOMAIN items : items[i].id = items[j].id => i = j

\* What validate promises, without the checks of empty names.
LEMMA ValidParts ==
    ASSUME NEW c, Validate(c)
    PROVE  /\ UniqueBy(c.sources) /\ UniqueBy(c.dims) /\ UniqueBy(c.tables)
           /\ \A i \in DOMAIN c.mappings : MappingValid(c, c.mappings[i])
           /\ \A i \in DOMAIN c.tables : TableValid(c.tables[i])
           /\ PrefixesValid(PrefixesOf(c))
  BY Zenon DEF Validate, UniqueIds, UniqueBy

\* The item with the id of an item is that item.
LEMMA ByIdFinds ==
    ASSUME NEW items, UniqueBy(items), NEW i \in DOMAIN items
    PROVE  /\ ById(items, items[i].id) = items[i]
           /\ \A j \in DOMAIN items : items[j].id = items[i].id => j = i
<1>1. \A j \in DOMAIN items : items[j].id = items[i].id => j = i
  BY DEF UniqueBy
<1> DEFINE c == CHOOSE j \in DOMAIN items : items[j].id = items[i].id
<1>2. c = i
  BY <1>1
<1>3. ById(items, items[i].id) = items[c]
  BY DEF ById
<1> QED
  BY <1>1, <1>2, <1>3

\* The dimensions whose rows are in the config.
InlineOf(dims) == {i \in DOMAIN dims : ~dims[i].file}

\* The registry of the inline dimensions, if it is built.
LEMMA InlineBuilt ==
    ASSUME NEW dims, DOMAIN dims \subseteq Nat, UniqueBy(dims),
           Fine(BuildInlineRegistry(dims))
    PROVE  LET value == BuildInlineRegistry(dims).value
           IN  /\ DOMAIN value = {dims[i].id : i \in InlineOf(dims)}
               /\ \A i \in InlineOf(dims) :
                     /\ Accepted(dims[i], dims[i].rows)
                     /\ value[dims[i].id] = NewMatcher(dims[i], dims[i].rows).value
<1> DEFINE inline == InlineOf(dims)
           built == [i \in inline |-> NewMatcher(dims[i], dims[i].rows)]
           bad == {i \in inline : ~Fine(built[i])}
           first == CHOOSE i \in bad : \A j \in bad : i <= j
           last(id) == CHOOSE i \in inline : dims[i].id = id
                           /\ \A j \in inline : dims[j].id = id => j <= i
           made == [id \in {dims[i].id : i \in inline} |-> built[last(id)].value]
<1>1. BuildInlineRegistry(dims) = IF bad # {} THEN built[first] ELSE Ok(made)
  BY Zenon DEF BuildInlineRegistry, Fine, InlineOf
<1>2. inline \subseteq Nat /\ bad \subseteq inline
  BY DEF InlineOf
<1>3. bad = {}
  <2> SUFFICES ASSUME bad # {} PROVE FALSE
    OBVIOUS
  <2>1. \E i \in bad : \A j \in bad : i <= j
    <3> HIDE DEF bad, inline
    <3> QED
      BY <1>2, Least
  <2>2. first \in bad
    <3> HIDE DEF bad
    <3> QED
      BY <2>1
  <2>3. ~Fine(built[first])
    <3> HIDE DEF first, built
    <3> QED
      BY <2>2
  <2> HIDE DEF bad, first, built, made
  <2>4. BuildInlineRegistry(dims) = built[first]
    BY <1>1
  <2> QED
    BY <2>3, <2>4
<1>4. BuildInlineRegistry(dims).value = made
  <2> HIDE DEF bad, first, built, made
  <2> QED
    BY <1>1, <1>3, OkIsFine
<1>5. ASSUME NEW i \in inline
      PROVE  /\ Accepted(dims[i], dims[i].rows)
             /\ made[dims[i].id] = NewMatcher(dims[i], dims[i].rows).value
  <2>1. Fine(built[i]) /\ built[i] = NewMatcher(dims[i], dims[i].rows)
    BY <1>3
  <2>2. \A j \in inline : dims[j].id = dims[i].id => j = i
    BY DEF UniqueBy, InlineOf
  <2>3. last(dims[i].id) = i
    <3>1. i \in Nat
      BY <1>2
    <3> DEFINE P(x) == dims[x].id = dims[i].id
                          /\ \A j \in inline : dims[j].id = dims[i].id => j <= x
    <3>2. P(i) /\ \A x \in inline : P(x) => x = i
      BY <2>2, <3>1
    <3>3. last(dims[i].id) = CHOOSE x \in inline : P(x)
      OBVIOUS
    <3> HIDE DEF P, last, inline
    <3> QED
      BY <3>2, <3>3
  <2>4. made[dims[i].id] = built[last(dims[i].id)].value
    OBVIOUS
  <2> HIDE DEF made, built, last
  <2> QED
    BY <2>1, <2>3, <2>4 DEF Accepted
<1>6. DOMAIN made = {dims[i].id : i \in InlineOf(dims)}
  OBVIOUS
<1> HIDE DEF made
<1> QED
  BY <1>4, <1>5, <1>6

\* The rows that the matcher of a dimension is built from.
RowsOf(dim) == IF dim.file THEN FileRows(dim).value ELSE dim.rows

\* The matcher is that of the dimension's rows.
Built(matcher, dim) ==
    /\ dim.file => Fine(FileRows(dim))
    /\ Accepted(dim, RowsOf(dim))
    /\ matcher = NewMatcher(dim, RowsOf(dim)).value

\* The dimensions whose matchers are built.
Done(n) == {i \in DOMAIN cfg.dims : ~cfg.dims[i].file \/ i < n}

\* The registry has the matchers of the dimensions done, and no other.
Registered(done) ==
    /\ DOMAIN matchers = {cfg.dims[i].id : i \in done}
    /\ \A i \in done : Built(matchers[cfg.dims[i].id], cfg.dims[i])

\* The registry through the life of a job.
Registry ==
    /\ pc \notin {"validate", "ConfigInvalid"} => Validate(cfg)
    /\ pc \in {"validate", "ConfigInvalid", "list", "download", "NoFiles"} => matchers = <<>>
    /\ pc = "dims" => Registered(Done(next))
    /\ Mapping => Registered(DOMAIN cfg.dims)
    /\ DOMAIN matchers \subseteq Ids(cfg.dims)

\* The dimensions are numbered from one.
LEMMA DimsListed ==
    ASSUME Shaped
    PROVE  /\ DOMAIN cfg.dims = 1..Len(cfg.dims) /\ Len(cfg.dims) \in Nat
           /\ DOMAIN cfg.dims \subseteq Nat
<1>1. IsList(cfg.dims)
  BY DEF Shaped, ScenarioShape, cfg
<1> QED
  BY <1>1, ListIsSeq

\* After the downloads the inline dimensions are registered.
LEMMA DownloadedRegisters ==
    ASSUME Shaped, Control, Registry, Downloaded
    PROVE  Registry'
<1> DEFINE inline == BuildInlineRegistry(cfg.dims)
<1>1. /\ pc = "download" /\ scenario' = scenario /\ files' = files /\ next' = 1
      /\ pc' = IF files = <<>> THEN "NoFiles"
               ELSE IF ~Fine(inline) THEN "Dimension" ELSE "dims"
      /\ matchers' = IF files = <<>> \/ ~Fine(inline) THEN matchers ELSE inline.value
  BY Zenon DEF Downloaded, Goto, Fine
<1>2. Validate(cfg) /\ matchers = <<>> /\ cfg' = cfg /\ lake' = lake
  BY <1>1 DEF Registry, cfg, lake
<1>3. CASE files = <<>> \/ ~Fine(inline)
  <2>1. matchers' = <<>> /\ pc' \in {"NoFiles", "Dimension"}
    BY <1>1, <1>2, <1>3
  <2> QED
    BY <1>2, <2>1 DEF Registry, Mapping
<1>4. CASE ~(files = <<>> \/ ~Fine(inline))
  <2>1. pc' = "dims" /\ matchers' = inline.value /\ next' = 1
    BY <1>1, <1>4
  <2>2. /\ DOMAIN inline.value = {cfg.dims[i].id : i \in InlineOf(cfg.dims)}
        /\ \A i \in InlineOf(cfg.dims) :
              /\ Accepted(cfg.dims[i], cfg.dims[i].rows)
              /\ inline.value[cfg.dims[i].id] = NewMatcher(cfg.dims[i], cfg.dims[i].rows).value
    <3>1. UniqueBy(cfg.dims)
      BY <1>2, ValidParts
    <3> QED
      BY <1>4, <3>1, DimsListed, InlineBuilt
  <2>3. Done(1) = InlineOf(cfg.dims)
    BY DimsListed DEF Done, InlineOf
  <2>4. \A i \in Done(1) : Built(inline.value[cfg.dims[i].id], cfg.dims[i])
    BY <2>2, <2>3 DEF Built, RowsOf, InlineOf
  <2> HIDE DEF inline
  <2>5. /\ DOMAIN matchers' = {cfg.dims[i].id : i \in Done(1)}
        /\ \A i \in Done(1) : Built(matchers'[cfg.dims[i].id], cfg.dims[i])
    BY <2>1, <2>2, <2>3, <2>4
  <2>6. Done(1)' = Done(1) /\ \A m, dim : Built(m, dim)' = Built(m, dim)
    BY <1>2 DEF Done, Built, RowsOf, FileRows, ListKeys, HasExtension
  <2> QED
    BY <1>2, <2>1, <2>5, <2>6 DEF Registry, Registered, Mapping, Ids, Done
<1> QED
  BY <1>3, <1>4

\* What a matcher has to be does not change with a step.
LEMMA BuiltStays ==
    ASSUME [Next]_vars
    PROVE  /\ cfg' = cfg /\ lake' = lake
           /\ \A m, dim : Built(m, dim)' <=> Built(m, dim)
           /\ \A n : Done(n)' = Done(n)
<1>1. cfg' = cfg /\ lake' = lake
  BY ScenarioStays DEF cfg, lake
<1> QED
  BY <1>1 DEF Built, RowsOf, FileRows, ListKeys, HasExtension, Done

\* A dimension read from the lake adds its own matcher and no other.
LEMMA LoadDimensionRegisters ==
    ASSUME Shaped, Control, Registry, LoadDimension
    PROVE  Registry'
<1> DEFINE dim == cfg.dims[next]
           rows == FileRows(dim)
           new == IF ~Fine(rows) THEN rows ELSE NewMatcher(dim, rows.value)
<1>1. /\ pc = "dims" /\ next \in DOMAIN cfg.dims /\ scenario' = scenario
      /\ IF ~dim.file
         THEN next' = next + 1 /\ UNCHANGED <<pc, matchers>>
         ELSE IF ~Fine(new)
         THEN pc' = "Dimension" /\ next' = 1 /\ UNCHANGED matchers
         ELSE /\ matchers' = [id \in DOMAIN matchers \cup {dim.id} |->
                                 IF id = dim.id THEN new.value ELSE matchers[id]]
              /\ next' = next + 1
              /\ UNCHANGED pc
  BY Zenon DEF LoadDimension, Goto, Fine
<1>2. [Next]_vars
  BY DEF Next
<1>3. Validate(cfg) /\ Registered(Done(next)) /\ cfg' = cfg
  BY <1>1, <1>2, BuiltStays DEF Registry
<1>4. \A i, j \in DOMAIN cfg.dims : cfg.dims[i].id = cfg.dims[j].id => i = j
  BY <1>3, ValidParts DEF UniqueBy
<1>5. next \in Nat /\ DOMAIN cfg.dims \subseteq Nat
  BY DimsListed DEF Control
<1>6. Done(next + 1) = Done(next) \cup {next}
  BY <1>1, <1>5 DEF Done
<1>7. Done(next) \subseteq DOMAIN cfg.dims
  BY DEF Done
<1>8. CASE ~dim.file
  <2>1. next' = next + 1 /\ pc' = "dims" /\ matchers' = matchers
    BY <1>1, <1>8
  <2>2. Done(next)' = Done(next)
    <3>1. next \in Done(next)
      BY <1>1, <1>8 DEF Done
    <3>2. Done(next)' = Done(next + 1)
      BY <1>3, <2>1 DEF Done
    <3> QED
      BY <1>6, <3>1, <3>2
  <2>3. Registered(Done(next))'
    BY <1>2, <1>3, <2>1, <2>2, BuiltStays DEF Registered
  <2>4. DOMAIN matchers \subseteq Ids(cfg.dims)
    BY DEF Registry
  <2> QED
    BY <1>3, <2>1, <2>3, <2>4 DEF Registry, Mapping
<1>9. CASE dim.file /\ ~Fine(new)
  <2> HIDE DEF new
  <2> QED
    BY <1>1, <1>3, <1>9 DEF Registry, Mapping, Ids
<1>10. CASE dim.file /\ Fine(new)
  <2>1. /\ matchers' = [id \in DOMAIN matchers \cup {dim.id} |->
                                 IF id = dim.id THEN new.value ELSE matchers[id]]
        /\ next' = next + 1 /\ pc' = "dims"
    <3> HIDE DEF new
    <3> QED
      BY <1>1, <1>10
  <2>2. Fine(rows) /\ new = NewMatcher(dim, rows.value)
    <3> HIDE DEF rows
    <3> QED
      BY <1>10
  <2>3. Built(new.value, dim)
    <3> HIDE DEF dim
    <3> QED
      BY <1>10, <2>2 DEF Built, Accepted, RowsOf
  <2> HIDE DEF new
  <2>4. \A i \in Done(next) \cup {next} : Built(matchers'[cfg.dims[i].id], cfg.dims[i])
    <3> SUFFICES ASSUME NEW i \in Done(next) \cup {next}
                 PROVE  Built(matchers'[cfg.dims[i].id], cfg.dims[i])
      OBVIOUS
    <3>1. CASE i = next
      <4>1. matchers'[dim.id] = new.value
        BY <2>1
      <4> QED
        BY <2>3, <3>1, <4>1
    <3>2. CASE i # next
      <4>1. i \in Done(next) /\ cfg.dims[i].id # dim.id
        BY <1>1, <1>4, <1>7, <3>2
      <4>2. cfg.dims[i].id \in DOMAIN matchers
        BY <1>3, <4>1 DEF Registered
      <4>3. matchers'[cfg.dims[i].id] = matchers[cfg.dims[i].id]
        BY <2>1, <4>1, <4>2
      <4> QED
        BY <1>3, <4>1, <4>3 DEF Registered
    <3> QED
      BY <3>1, <3>2
  <2>5. DOMAIN matchers' = {cfg.dims[i].id : i \in Done(next) \cup {next}}
    BY <1>3, <2>1 DEF Registered
  <2>6. Registered(Done(next))'
    <3>1. Done(next)' = Done(next + 1)
      BY <1>3, <2>1 DEF Done
    <3> QED
      BY <1>2, <1>3, <1>6, <2>4, <2>5, <3>1, BuiltStays DEF Registered
  <2>7. DOMAIN matchers' \subseteq Ids(cfg.dims)
    BY <1>1, <1>7, <2>5 DEF Ids
  <2> QED
    BY <1>3, <2>1, <2>6, <2>7 DEF Registry, Mapping
<1> QED
  BY <1>8, <1>9, <1>10

-----------------------------------------------------------------------------
\* Types, and the source of a file

\* The registry has exactly the matchers of the dimensions done.
LEMMA RegistryInv == Spec => []Registry
<1>1. Init => Registry
  BY DEF Init, Registry, Mapping
<1>2. Shaped /\ Control /\ Registry /\ [Next]_vars => Registry'
  <2> SUFFICES ASSUME Shaped, Control, Registry, [Next]_vars PROVE Registry'
    OBVIOUS
  <2>1. CASE Downloaded
    BY <2>1, DownloadedRegisters
  <2>2. CASE LoadDimension
    BY <2>2, LoadDimensionRegisters
  <2>3. CASE CheckConfig
    <3>1. /\ pc = "validate" /\ matchers' = matchers
          /\ pc' = IF Validate(cfg) THEN "list" ELSE "ConfigInvalid"
      BY <2>3 DEF CheckConfig, Goto
    <3> QED
      BY <3>1, BuiltStays DEF Registry, Mapping
  <2>4. CASE DimensionsLoaded
    <3>1. /\ pc = "dims" /\ pc' = "map" /\ matchers' = matchers
          /\ next \notin DOMAIN cfg.dims
      BY <2>4 DEF DimensionsLoaded, Goto
    <3>2. Done(next) = DOMAIN cfg.dims
      BY <3>1, DimsListed DEF Done, Control
    <3>3. Registered(DOMAIN cfg.dims)
      BY <3>1, <3>2 DEF Registry
    <3>4. Registered(DOMAIN cfg.dims)'
      BY <3>1, <3>3, BuiltStays DEF Registered
    <3> QED
      BY <3>1, <3>4, BuiltStays DEF Registry, Mapping
  <2>5. CASE ~Downloaded /\ ~LoadDimension /\ ~CheckConfig /\ ~DimensionsLoaded
    <3>1. matchers' = matchers
      BY <2>5 DEF vars, Next, ListSource, ListSourceFails, Listed, Download,
             DownloadFails, Cancel, LoadDimensionFails, MapNext, Finish
    <3>2. \/ pc' = pc /\ (pc = "dims" => next' = next)
          \/ pc = "list" /\ pc' = "download"
          \/ pc \in {"download", "map"} /\ pc' = "Cancelled"
          \/ pc = "dims" /\ pc' = "Dimension"
          \/ pc = "map" /\ pc' = "completed"
      BY <2>5, Zenon DEF vars, Next, ListSource, ListSourceFails, Listed, Download,
             DownloadFails, Cancel, LoadDimensionFails, MapNext, Finish, Goto, Skip
    <3>3. ASSUME pc' = "dims" PROVE Registered(Done(next))'
      <4>1. next' = next /\ Registered(Done(next))
        BY <3>2, <3>3 DEF Registry
      <4>2. Done(next)' = Done(next)
        BY <4>1, BuiltStays DEF Done
      <4> QED
        BY <3>1, <4>1, <4>2, BuiltStays DEF Registered
    <3>4. ASSUME Mapping' PROVE Registered(DOMAIN cfg.dims)'
      <4>1. Registered(DOMAIN cfg.dims)
        BY <3>2, <3>4 DEF Registry, Mapping
      <4> QED
        BY <3>1, <4>1, BuiltStays DEF Registered
    <3> QED
      BY <3>1, <3>2, <3>3, <3>4, BuiltStays DEF Registry
  <2> QED
    BY <2>1, <2>2, <2>3, <2>4, <2>5
<1> QED
  BY <1>1, <1>2, ShapedInv, ControlInv, PTL DEF Spec

\* Every variable of execute_job keeps its type, through failed requests and
\* cancellation: no file is listed or downloaded twice, and there are no more
\* results than mappings.
THEOREM TypeCorrect == Spec => []TypeOK
<1>1. Control /\ Listing /\ Downloads /\ Outcomes /\ Registry => TypeOK
  <2> SUFFICES ASSUME Control, Listing, Downloads, Outcomes, Registry PROVE TypeOK
    OBVIOUS
  <2>1. Range(keys) \subseteq DOMAIN lake
    BY DEF Listing, Range
  <2>2. Range(files) \subseteq Range(keys)
    BY DEF Downloads, Range
  <2> QED
    BY <2>1, <2>2 DEF TypeOK, Control, Listing, Downloads, Outcomes, Registry
<1> QED
  BY <1>1, ControlInv, ListingInv, DownloadsInv, OutcomesInv, RegistryInv, PTL

\* Of two prefixes of a key the shorter is a prefix of the longer.
LEMMA PrefixesCompare ==
    ASSUME NEW C, NEW k \in Seq(C), NEW p \in Seq(C), NEW q \in Seq(C),
           StartsWith(k, p), StartsWith(k, q), Len(p) <= Len(q)
    PROVE  StartsWith(q, p)
BY DEF StartsWith

\* In a config that validate accepts, no key lies under two sources: the
\* sentence "nesting makes that ambiguous" (config.rs), turned around.
THEOREM OneSource ==
    ASSUME NEW C, NEW prefixes \in Seq(Seq(C)), NEW key \in Seq(C),
           PrefixesValid(prefixes),
           NEW i \in Matching(prefixes, key), NEW j \in Matching(prefixes, key)
    PROVE  i = j
<1> USE DEF Matching
<1>1. /\ prefixes[i] \in Seq(C) /\ prefixes[j] \in Seq(C)
      /\ i \in DOMAIN prefixes /\ j \in DOMAIN prefixes
  OBVIOUS
<1>2. prefixes[i] # <<>> /\ prefixes[j] # <<>>
  BY <1>1 DEF PrefixesValid, WellFormed
<1>3. CASE Len(prefixes[i]) <= Len(prefixes[j])
  <2>1. StartsWith(prefixes[j], prefixes[i])
    BY <1>1, <1>3, PrefixesCompare
  <2> QED
    BY <1>1, <1>2, <2>1 DEF PrefixesValid, Nested
<1>4. CASE Len(prefixes[j]) <= Len(prefixes[i])
  <2>1. StartsWith(prefixes[i], prefixes[j])
    BY <1>1, <1>4, PrefixesCompare
  <2> QED
    BY <1>1, <1>2, <2>1 DEF PrefixesValid, Nested
<1>5. Len(prefixes[i]) \in Nat /\ Len(prefixes[j]) \in Nat
  BY <1>1
<1> QED
  BY <1>3, <1>4, <1>5

\* So the source whose schema ingest_file reads a file with is the one whose
\* mapping execute_job gave it to, for all numbers of sources and all keys.
THEOREM SourceAgrees ==
    ASSUME NEW C, NEW prefixes \in Seq(Seq(C)), NEW key \in Seq(C),
           PrefixesValid(prefixes),
           NEW s \in DOMAIN prefixes, StartsWith(key, prefixes[s])
    PROVE  ResolveSource(prefixes, key) = s
<1>1. s \in Matching(prefixes, key)
  BY DEF Matching
<1>2. \A i \in Matching(prefixes, key) : i = s
  BY <1>1, OneSource
<1>3. s \in Nat
  OBVIOUS
<1> DEFINE M == Matching(prefixes, key)
<1>4. M = {s}
  BY <1>1, <1>2
<1> HIDE DEF M
<1>5. (CHOOSE i \in M : \A j \in M : i <= j) = s
  BY <1>3, <1>4
<1> QED
  BY <1>1, <1>5 DEF ResolveSource, M

\* The files of a mapping: files that lie under the prefix of its source.
LEMMA MappingFilesFacts ==
    ASSUME Shaped, Downloads, NEW m
    PROVE  /\ MappingFiles(m) \in Seq(DOMAIN lake)
           /\ MappingFiles(m) # <<>> =>
                 m.source \in Ids(cfg.sources) /\ SourceIndex(m) \in DOMAIN cfg.sources
                 /\ cfg.sources[SourceIndex(m)].id = m.source
                 /\ cfg.sources[SourceIndex(m)] = ById(cfg.sources, m.source)
           /\ \A k \in DOMAIN MappingFiles(m) :
                 /\ StartsWith(lake[MappingFiles(m)[k]].key, cfg.sources[SourceIndex(m)].prefix)
                 /\ \E n \in DOMAIN files : MappingFiles(m)[k] = files[n]
<1>1. CASE m.source \notin Ids(cfg.sources)
  <2>1. MappingFiles(m) = <<>>
    BY <1>1 DEF MappingFiles
  <2> QED
    BY <2>1
<1>2. CASE m.source \in Ids(cfg.sources)
  <2> DEFINE sc == cfg.sources[SourceIndex(m)]
             I == {n \in DOMAIN files : StartsWith(lake[files[n]].key, sc.prefix)}
  <2>1. MappingFiles(m) = Kept(files, I)
    BY <1>2 DEF MappingFiles
  <2>2. SourceIndex(m) \in DOMAIN cfg.sources /\ sc.id = m.source
    BY <1>2 DEF Ids, SourceIndex
  <2>3. sc = ById(cfg.sources, m.source)
    BY DEF ById, SourceIndex
  <2>4. \A n \in DOMAIN files : n \in I => StartsWith(lake[files[n]].key, sc.prefix)
    OBVIOUS
  <2>5. files \in Seq(DOMAIN lake)
    BY DEF Downloads
  <2> HIDE DEF I, sc
  <2>6. /\ Kept(files, I) \in Seq(DOMAIN lake)
        /\ \A k \in DOMAIN Kept(files, I) :
              \E n \in DOMAIN files : n \in I /\ Kept(files, I)[k] = files[n]
    BY <2>5, KeptFacts
  <2> QED
    BY <1>2, <2>1, <2>2, <2>3, <2>4, <2>6 DEF sc
<1> QED
  BY <1>1, <1>2

\* The source that reads a file of a mapping is the mapping's.
LEMMA ReadsOwnSource ==
    ASSUME Shaped, Downloads, Validate(cfg), NEW m, NEW k \in DOMAIN MappingFiles(m)
    PROVE  ResolveSource(PrefixesOf(cfg), lake[MappingFiles(m)[k]].key) = SourceIndex(m)
<1> DEFINE i == MappingFiles(m)[k]
           p == PrefixesOf(cfg)
           s == SourceIndex(m)
<1>1. MappingFiles(m) # <<>> /\ i \in DOMAIN lake
  BY MappingFilesFacts
<1>2. s \in DOMAIN cfg.sources /\ StartsWith(lake[i].key, cfg.sources[s].prefix)
  BY <1>1, MappingFilesFacts
<1>3. PrefixesValid(p)
  BY ValidParts
<1>4. lake[i].key \in Seq(STRING)
  BY <1>1 DEF Shaped, ScenarioShape, lake
<1>5. p \in Seq(Seq(STRING)) /\ DOMAIN p = DOMAIN cfg.sources /\ p[s] = cfg.sources[s].prefix
  <2>1. /\ \A j \in DOMAIN cfg.sources : cfg.sources[j].prefix \in Seq(STRING)
        /\ IsList(cfg.sources)
    BY DEF Shaped, ScenarioShape, cfg
  <2>2. DOMAIN cfg.sources = 1..Len(cfg.sources) /\ Len(cfg.sources) \in Nat
    BY <2>1, ListIsSeq
  <2> QED
    BY <1>2, <2>1, <2>2 DEF PrefixesOf
<1> HIDE DEF i, p, s
<1>6. ResolveSource(p, lake[i].key) = s
  BY <1>2, <1>3, <1>4, <1>5, SourceAgrees
<1> QED
  BY <1>6 DEF i, p, s

\* A mapping job reads each file with the schema of the source whose mapping
\* it is for, for every accepted config and every lake.
THEOREM ReadWithOwnSource == Spec => []OwnSource
<1>1. Shaped /\ Downloads /\ Registry => OwnSource
  <2> SUFFICES ASSUME Shaped, Downloads, Registry, Mapping PROVE OwnSource
    BY DEF OwnSource
  <2>1. Validate(cfg)
    BY DEF Registry, Mapping
  <2> QED
    BY <2>1, ReadsOwnSource DEF OwnSource, Range
<1> QED
  BY <1>1, ShapedInv, DownloadsInv, RegistryInv, PTL

-----------------------------------------------------------------------------
\* Validation

\* The first position of an element.
FirstAt(s, x) == CHOOSE i \in DOMAIN s : s[i] = x /\ \A j \in DOMAIN s : s[j] = x => i <= j

\* The first position of an element has it.
LEMMA FirstIsAt ==
    ASSUME NEW s, DOMAIN s \subseteq Nat, NEW x, x \in Range(s)
    PROVE  FirstAt(s, x) \in DOMAIN s /\ s[FirstAt(s, x)] = x
<1>1. PICK T : T = {i \in DOMAIN s : s[i] = x}
  OBVIOUS
<1>2. T \subseteq Nat /\ T # {}
  BY <1>1 DEF Range
<1>3. PICK i \in T : \A j \in T : i <= j
  BY <1>2, Least
<1>4. i \in DOMAIN s /\ s[i] = x /\ \A j \in DOMAIN s : s[j] = x => i <= j
  BY <1>1, <1>3
<1> QED
  BY <1>4 DEF FirstAt

\* A value column that a dimension has, or none.
Named(dim, name) == name = "" \/ name \in Range(dim.values)

\* A value that a dimension names has a column.
LEMMA ValueIndexFound ==
    ASSUME NEW dim, IsList(dim.values), NEW name, Named(dim, name)
    PROVE  ValueIndex(dim, name) # 0
<1>1. CASE name = ""
  <2>1. ValueIndex(dim, name) = 1
    BY <1>1, Zenon DEF ValueIndex
  <2> QED
    BY <2>1
<1>2. CASE ~(name = "")
  <2>1. name \in Range(dim.values)
    BY <1>2, Zenon DEF Named
  <2>2. ValueIndex(dim, name) = FirstAt(dim.values, name)
    BY <1>2, <2>1, Zenon DEF ValueIndex, FirstAt
  <2>3. DOMAIN dim.values = 1..Len(dim.values) /\ Len(dim.values) \in Nat
    BY ListIsSeq
  <2>4. FirstAt(dim.values, name) \in DOMAIN dim.values
    BY <2>1, <2>3, FirstIsAt
  <2> QED
    BY <2>2, <2>3, <2>4
<1> QED
  BY <1>1, <1>2, Zenon

\* A matcher remembers its dimension.
LEMMA MatcherDim ==
    ASSUME NEW matcher, NEW dim, Built(matcher, dim)
    PROVE  matcher.dim = dim
<1>1. Fine(NewMatcher(dim, RowsOf(dim))) /\ matcher = NewMatcher(dim, RowsOf(dim)).value
  BY DEF Built, Accepted
<1>2. ASSUME NEW rows, Fine(NewMatcher(dim, rows)) PROVE NewMatcher(dim, rows).value.dim = dim
  <2>1. PICK e1, e2 : e1 = Error("TooManyRows") /\ e2 = Error("DuplicateKey")
    OBVIOUS
  <2>2. ~Fine(e1) /\ ~Fine(e2)
    BY <2>1, ErrorsAreNotFine DEF Causes
  <2>3. NewMatcher(dim, rows) = e1 \/ NewMatcher(dim, rows) = e2
        \/ \E f, x : NewMatcher(dim, rows) = Ok([dim |-> dim, rows |-> f, index |-> x])
    BY <2>1 DEF NewMatcher
  <2>4. PICK f, x : NewMatcher(dim, rows) = Ok([dim |-> dim, rows |-> f, index |-> x])
    BY <1>2, <2>2, <2>3
  <2> QED
    BY <2>4, OkIsFine
<1> QED
  BY <1>1, <1>2

\* The registry of a job that maps has every dimension of the config.
LEMMA Resolved ==
    ASSUME Shaped, Registry, Mapping, NEW id \in Ids(cfg.dims)
    PROVE  /\ id \in DOMAIN matchers
           /\ Built(matchers[id], ById(cfg.dims, id))
           /\ matchers[id].dim = ById(cfg.dims, id)
           /\ DimShape(ById(cfg.dims, id))
<1>1. PICK i \in DOMAIN cfg.dims : cfg.dims[i].id = id
  BY DEF Ids
<1>2. Registered(DOMAIN cfg.dims) /\ Validate(cfg)
  BY DEF Registry, Mapping
<1>3. ById(cfg.dims, id) = cfg.dims[i]
  BY <1>1, <1>2, ValidParts, ByIdFinds
<1>4. id \in DOMAIN matchers /\ Built(matchers[id], cfg.dims[i])
  BY <1>1, <1>2 DEF Registered
<1>5. DimShape(cfg.dims[i])
  BY <1>1 DEF Shaped, ScenarioShape, cfg
<1> QED
  BY <1>3, <1>4, <1>5, MatcherDim

\* A column expression that validate accepts compiles.
LEMMA ColumnsCompile ==
    ASSUME Shaped, Registry, Mapping, NEW expr, ColumnDimsResolve(cfg, expr)
    PROVE  Compiles(expr, matchers)
<1>1. \A r \in DimRefs(expr) : r[1] \in Ids(cfg.dims) /\ Named(ById(cfg.dims, r[1]), r[2])
  BY Zenon DEF ColumnDimsResolve, Named, Range
<1>2. ASSUME NEW r \in DimRefs(expr)
      PROVE  r[1] \in DOMAIN matchers /\ ValueIndex(matchers[r[1]].dim, r[2]) # 0
  <2>1. PICK id, name : id = r[1] /\ name = r[2]
    OBVIOUS
  <2>2. id \in Ids(cfg.dims) /\ Named(ById(cfg.dims, id), name)
    BY <1>1, <2>1
  <2>3. /\ id \in DOMAIN matchers /\ matchers[id].dim = ById(cfg.dims, id)
        /\ IsList(ById(cfg.dims, id).values)
    BY <2>2, Resolved DEF DimShape
  <2>4. ValueIndex(ById(cfg.dims, id), name) # 0
    BY <2>2, <2>3, ValueIndexFound
  <2> QED
    BY <2>1, <2>3, <2>4
<1> QED
  BY <1>2 DEF Compiles

\* The fields of the error of a stage.
LEMMA FailedFields ==
    \A s, e : Failed(s, e).error = e /\ Failed(s, e).stage = s
  BY DEF Failed

\* The value of an expression, or why there is none.
LEMMA ColumnResult ==
    ASSUME NEW expr, NEW rows, NEW cols, NEW ms, NEW stage
    PROVE  LET c == Column(expr, rows, cols, ms, stage)
           IN  \/ ~Compiles(expr, ms) /\ c = Failed(stage, "compile")
               \/ ~(ColRefs(expr) \subseteq cols) /\ c = Failed(stage, "column")
               \/ c = Failed(stage, "eval")
               \/ c = Ok([r \in DOMAIN rows |-> Eval(expr, rows[r], ms)])
  BY DEF Column

\* The rows for which a predicate is true.
TrueAt(pred, rows, ms) == {r \in DOMAIN rows : Eval(pred, rows[r], ms) = BoolCell(TRUE)}

\* What filtering can give.
LEMMA FilterResult ==
    ASSUME NEW pred, NEW rows, NEW cols, NEW ms, NEW stage
    PROVE  LET f == Filter(pred, rows, cols, ms, stage)
           IN  \/ ~Compiles(pred, ms) /\ f = Failed(stage, "compile")
               \/ ~(ColRefs(pred) \subseteq cols) /\ f = Failed(stage, "column")
               \/ f = Failed(stage, "eval")
               \/ f = Ok(Kept(rows, TrueAt(pred, rows, ms)))
<1> DEFINE c == Column(pred, rows, cols, ms, stage)
           vs == [r \in DOMAIN rows |-> Eval(pred, rows[r], ms)]
           f == Filter(pred, rows, cols, ms, stage)
           I(w) == {r \in DOMAIN rows : w[r] = BoolCell(TRUE)}
<1>1. f = IF ~Fine(c) THEN c ELSE Ok(Kept(rows, I(c.value)))
  BY Zenon DEF Filter, Then, Fine
<1>2. I(vs) = TrueAt(pred, rows, ms)
  BY DEF TrueAt
<1>3. \A e \in {"compile", "column", "eval"} : ~Fine(Failed(stage, e))
  BY ErrorsAreNotFine DEF Causes
<1>4. \/ ~Compiles(pred, ms) /\ c = Failed(stage, "compile")
      \/ ~(ColRefs(pred) \subseteq cols) /\ c = Failed(stage, "column")
      \/ c = Failed(stage, "eval")
      \/ c = Ok(vs)
  BY ColumnResult
<1> HIDE DEF c, vs, f, I
<1>5. CASE c = Ok(vs)
  <2>1. f = Ok(Kept(rows, I(vs)))
    BY <1>1, <1>5, OkIsFine
  <2> QED
    BY <1>2, <2>1 DEF f
<1>6. CASE ~Fine(c)
  <2>1. f = c
    BY <1>1, <1>6
  <2>2. c # Ok(vs)
    BY <1>6, OkIsFine
  <2> QED
    BY <1>4, <2>1, <2>2 DEF f
<1> QED
  BY <1>3, <1>4, <1>5, <1>6

\* Reading fails for other reasons than a file without a source.
LEMMA ReadErrors ==
    ASSUME NEW sc, NEW content, NEW ms
    PROVE  LET read == ReadFile(sc, content, ms)
           IN  ~Fine(read) => read.error # "source"
<1> DEFINE Bad(r) == ~Fine(r) /\ r.error = "source"
<1>1. \A v : ~Bad(Ok(v))
  BY OkIsFine
<1>2. \A e : e # "source" => ~Bad(Error(e)) /\ \A s : ~Bad(Failed(s, e))
  BY DEF Error, Failed
<1>3. ~Bad(ReadCsvSource(content, sc.schema))
  <2>1. \/ \E e \in {"read", "headers", "frame"} : ReadCsvSource(content, sc.schema) = Error(e)
        \/ \E v : ReadCsvSource(content, sc.schema) = Ok(v)
    BY DEF ReadCsvSource
  <2> HIDE DEF Bad
  <2> QED
    BY <1>1, <1>2, <2>1
<1>4. ~Bad(ReadJsonSource(content, sc.schema))
  <2>1. \/ \E e \in {"array", "path", "frame"} : ReadJsonSource(content, sc.schema) = Error(e)
        \/ \E v : ReadJsonSource(content, sc.schema) = Ok(v)
    BY Zenon DEF ReadJsonSource
  <2> HIDE DEF Bad
  <2> QED
    BY <1>1, <1>2, <2>1
<1>5. \A p, rows, cols : ~Bad(Filter(p, rows, cols, ms, "filter"))
  <2> SUFFICES ASSUME NEW p, NEW rows, NEW cols
               PROVE  ~Bad(Filter(p, rows, cols, ms, "filter"))
    OBVIOUS
  <2>1. \/ \E e \in {"compile", "column", "eval"} :
              Filter(p, rows, cols, ms, "filter") = Failed("filter", e)
        \/ \E v : Filter(p, rows, cols, ms, "filter") = Ok(v)
    BY FilterResult
  <2> HIDE DEF Bad
  <2> QED
    BY <1>1, <1>2, <2>1
<1> DEFINE json == ReadJsonSource(content, sc.schema)
<1>6. ReadFile(sc, content, ms) =
        IF sc.format = "csv" THEN ReadCsvSource(content, sc.schema)
        ELSE IF ~Fine(json) THEN json
        ELSE IF sc.filter = <<>> THEN Ok(json.value)
        ELSE Filter(sc.filter[1], json.value, Names(sc.schema), ms, "filter")
  BY Zenon DEF ReadFile, Then, Fine
<1> HIDE DEF json
<1>7. ~Bad(ReadFile(sc, content, ms))
  <2>1. ~Bad(json)
    BY <1>4 DEF json
  <2> HIDE DEF Bad
  <2> QED
    BY <1>1, <1>3, <1>5, <1>6, <2>1
<1> QED
  BY <1>7

\* The stages of ingest_file, for a file that has a source.
Read(m, i) ==
    ReadStage(ReadFile(cfg.sources[SourceIndex(m)], lake[i].content, matchers))

\* The rows that the columns of a mapping make of those read.
Mapped(m, rows) ==
    MapColumns(m, rows, Names(cfg.sources[SourceIndex(m)].schema), matchers)

\* The rows for which the `where` of a mapping is true.
Where(m, rows) ==
    IF m.where = <<>> THEN Ok(rows)
    ELSE Filter(m.where[1], rows, Names(m.columns), matchers, "where")

\* ingest_file reads, maps and filters, up to the first error.
LEMMA IngestStages ==
    ASSUME NEW m, NEW i, SourceIndex(m) # 0,
           ResolveSource(PrefixesOf(cfg), lake[i].key) = SourceIndex(m)
    PROVE  IngestFile(cfg, m, lake[i], matchers) =
             IF ~Fine(Read(m, i)) THEN Read(m, i)
             ELSE IF ~Fine(Mapped(m, Read(m, i).value)) THEN Mapped(m, Read(m, i).value)
             ELSE Where(m, Mapped(m, Read(m, i).value).value)
<1> DEFINE s == ResolveSource(PrefixesOf(cfg), lake[i].key)
           sc == cfg.sources[s]
           rd == ReadStage(ReadFile(sc, lake[i].content, matchers))
           mp == MapColumns(m, rd.value, Names(sc.schema), matchers)
<1>1. IngestFile(cfg, m, lake[i], matchers) =
        IF s = 0 THEN Failed("read", "source")
        ELSE IF ~Fine(rd) THEN rd ELSE IF ~Fine(mp) THEN mp ELSE Where(m, mp.value)
  BY Zenon DEF IngestFile, Then, Fine, Where
<1>2. s = SourceIndex(m) /\ s # 0
  OBVIOUS
<1>3. rd = Read(m, i) /\ mp = Mapped(m, rd.value)
  BY DEF Read, Mapped
<1> HIDE DEF s, rd, mp
<1> QED
  BY <1>1, <1>2, <1>3

\* The errors of a select whose columns compile.
LEMMA MapColumnsResult ==
    ASSUME NEW m, DOMAIN m.columns \subseteq Nat, NEW rows, NEW cols, NEW ms,
           \A j \in DOMAIN m.columns :
               Compiles(m.columns[j].expr, ms) /\ ColRefs(m.columns[j].expr) \subseteq cols
    PROVE  \/ \E e \in {"eval", "frame"} : MapColumns(m, rows, cols, ms) = Failed("select", e)
           \/ \E v : MapColumns(m, rows, cols, ms) = Ok(v)
<1> DEFINE vs == [j \in DOMAIN m.columns |->
                     Column(m.columns[j].expr, rows, cols, ms, "select")]
           bad == {j \in DOMAIN vs : ~Fine(vs[j])}
           first == CHOOSE j \in bad : \A k \in bad : j <= k
<1>1. \/ MapColumns(m, rows, cols, ms) = vs[first] /\ bad # {}
      \/ MapColumns(m, rows, cols, ms) = Failed("select", "frame")
      \/ \E v : MapColumns(m, rows, cols, ms) = Ok(v)
  BY Zenon DEF MapColumns, Fine
<1>2. ASSUME bad # {} PROVE vs[first] = Failed("select", "eval")
  <2>1. bad \subseteq Nat
    OBVIOUS
  <2>2. \E j \in bad : \A k \in bad : j <= k
    <3> HIDE DEF bad
    <3> QED
      BY <1>2, <2>1, Least
  <2>3. first \in bad
    <3> HIDE DEF bad
    <3> QED
      BY <2>2
  <2> HIDE DEF first
  <2>4. /\ first \in DOMAIN m.columns /\ ~Fine(vs[first])
        /\ vs[first] = Column(m.columns[first].expr, rows, cols, ms, "select")
    BY <2>3
  <2>5. PICK x : x = m.columns[first].expr
    OBVIOUS
  <2>6. Compiles(x, ms) /\ ColRefs(x) \subseteq cols
    <3> HIDE DEF vs
    <3> QED
      BY <2>4, <2>5
  <2>7. \/ Column(x, rows, cols, ms, "select") = Failed("select", "eval")
        \/ \E v : Column(x, rows, cols, ms, "select") = Ok(v)
    BY <2>6, ColumnResult
  <2> HIDE DEF vs
  <2> QED
    BY <2>4, <2>5, <2>7, OkIsFine
<1> HIDE DEF vs, bad, first
<1> QED
  BY <1>1, <1>2

\* What validation promises of the expressions of a mapping with files.
LEMMA ExpressionsValid ==
    ASSUME Shaped, Downloads, Registry, Mapping, NEW n \in DOMAIN cfg.mappings,
           MappingFiles(cfg.mappings[n]) # <<>>
    PROVE  LET m == cfg.mappings[n]
           IN  /\ DOMAIN m.columns \subseteq Nat
               /\ \A j \in DOMAIN m.columns :
                     /\ Compiles(m.columns[j].expr, matchers)
                     /\ ColRefs(m.columns[j].expr) \subseteq
                           Names(cfg.sources[SourceIndex(m)].schema)
               /\ m.where # <<>> => ColRefs(m.where[1]) \subseteq Names(m.columns)
<1> DEFINE m == cfg.mappings[n]
<1>1. Validate(cfg)
  BY DEF Registry, Mapping
<1>2. MappingValid(cfg, m)
  BY <1>1, ValidParts
<1>3. IsList(m.columns)
  BY DEF Shaped, ScenarioShape, cfg
<1>4. m.source \in Ids(cfg.sources) /\ cfg.sources[SourceIndex(m)] = ById(cfg.sources, m.source)
  BY MappingFilesFacts
<1>5. /\ \A j \in DOMAIN m.columns : ColumnDimsResolve(cfg, m.columns[j].expr)
      /\ WhereResolves(cfg, m)
      /\ m.source \in Ids(cfg.sources) =>
            \A j \in DOMAIN m.columns :
                ColRefs(m.columns[j].expr) \subseteq Names(ById(cfg.sources, m.source).schema)
  BY <1>2, Zenon DEF MappingValid
<1> HIDE DEF m
<1>6. \A j \in DOMAIN m.columns : Compiles(m.columns[j].expr, matchers)
  BY <1>5, ColumnsCompile
<1>7. DOMAIN m.columns \subseteq Nat
  BY <1>3, ListIsSeq
<1>8. m.where # <<>> => ColRefs(m.where[1]) \subseteq Names(m.columns)
  BY <1>5 DEF WhereResolves
<1> QED
  BY <1>4, <1>5, <1>6, <1>7, <1>8 DEF m

\* With a config that validate accepts, ingest_file does not fail because a
\* column expression does not compile, a column is missing or a file has no
\* source: for every such config, lake and order of failures.
THEOREM ValidationSuffices == Spec => []AcceptedConfigRuns
<1>1. Shaped /\ Downloads /\ Registry => AcceptedConfigRuns
  <2> SUFFICES ASSUME Shaped, Downloads, Registry, Mapping,
                      NEW n \in DOMAIN cfg.mappings,
                      NEW k \in DOMAIN MappingFiles(cfg.mappings[n])
               PROVE  LET r == IngestFile(cfg, cfg.mappings[n],
                                      lake[MappingFiles(cfg.mappings[n])[k]], matchers)
                      IN  ~Fine(r) => <<r.stage, r.error>> \notin
                              {<<"select", "compile">>, <<"select", "column">>,
                               <<"where", "column">>, <<"read", "source">>}
    BY Zenon DEF AcceptedConfigRuns, Fine, Range
  <2> DEFINE m == cfg.mappings[n]
             i == MappingFiles(m)[k]
             r == IngestFile(cfg, m, lake[i], matchers)
             rd == Read(m, i)
             mp == Mapped(m, rd.value)
             Allowed(x) == Fine(x) \/ <<x.stage, x.error>> \notin
                              {<<"select", "compile">>, <<"select", "column">>,
                               <<"where", "column">>, <<"read", "source">>}
  <2>1. Validate(cfg) /\ MappingFiles(m) # <<>>
    <3>1. Validate(cfg)
      BY DEF Registry, Mapping
    <3>2. MappingFiles(m) # <<>>
      OBVIOUS
    <3> QED
      BY <3>1, <3>2
  <2>2. SourceIndex(m) \in DOMAIN cfg.sources
    BY <2>1, MappingFilesFacts
  <2>3. SourceIndex(m) # 0
    <3>1. IsList(cfg.sources)
      BY DEF Shaped, ScenarioShape, cfg
    <3> QED
      BY <2>2, <3>1, ListIsSeq
  <2>4. r = IF ~Fine(rd) THEN rd ELSE IF ~Fine(mp) THEN mp ELSE Where(m, mp.value)
    BY <2>1, <2>3, ReadsOwnSource, IngestStages
  <2>5. Allowed(rd)
    <3> DEFINE read == ReadFile(cfg.sources[SourceIndex(m)], lake[i].content, matchers)
    <3>1. rd = IF Fine(read) THEN read ELSE Failed("read", read.error)
      BY Zenon DEF Read, ReadStage, Fine
    <3>2. ~Fine(read) => read.error # "source"
      BY ReadErrors
    <3> HIDE DEF read, rd
    <3> QED
      BY <3>1, <3>2, FailedFields
  <2>6. \A e : e \in {"eval", "frame"} => Allowed(Failed("select", e))
    BY FailedFields
  <2>7. \A e : e \in {"eval", "compile"} => Allowed(Failed("where", e))
    BY FailedFields
  <2>8. \A v : Allowed(Ok(v))
    BY OkIsFine
  <2>9. Allowed(mp)
    <3>1. \/ \E e \in {"eval", "frame"} : mp = Failed("select", e)
          \/ \E v : mp = Ok(v)
      <4> HIDE DEF rd
      <4> QED
        BY <2>1, ExpressionsValid, MapColumnsResult DEF Mapped
    <3> HIDE DEF mp, Allowed
    <3> QED
      BY <2>6, <2>8, <3>1
  <2>10. Allowed(Where(m, mp.value))
    <3> DEFINE w == Where(m, mp.value)
    <3>1. m.where # <<>> => ColRefs(m.where[1]) \subseteq Names(m.columns)
      BY <2>1, ExpressionsValid
    <3> HIDE DEF m, mp
    <3>2. \/ \E e \in {"eval", "compile"} : w = Failed("where", e)
          \/ \E v : w = Ok(v)
      BY <3>1, FilterResult DEF Where
    <3> HIDE DEF w, Allowed
    <3>3. Allowed(w)
      BY <2>7, <2>8, <3>2
    <3> QED
      BY <3>3 DEF w
  <2>11. Allowed(r)
    <3> HIDE DEF r, rd, mp, m, Allowed
    <3> QED
      BY <2>4, <2>5, <2>9, <2>10
  <2> QED
    BY <2>11
<1> QED
  BY <1>1, ShapedInv, DownloadsInv, RegistryInv, PTL

-----------------------------------------------------------------------------
\* Rows

\* A list of rows.
IsRows(s) == s \in Seq(Range(s))

\* A function on 1..n is a list.
LEMMA RowsAre ==
    ASSUME NEW s, NEW n \in Nat, DOMAIN s = 1..n, s = [i \in 1..n |-> s[i]]
    PROVE  IsRows(s)
<1>1. s \in [1..n -> Range(s)]
  BY DEF Range
<1> QED
  BY <1>1 DEF IsRows

\* A sequence is a list.
LEMMA SeqIsRows ==
    ASSUME NEW S, NEW s \in Seq(S)
    PROVE  IsRows(s)
<1>1. s = [i \in 1..Len(s) |-> s[i]] /\ Len(s) \in Nat /\ DOMAIN s = 1..Len(s)
  OBVIOUS
<1> QED
  BY <1>1, RowsAre

\* A part of a list is a list of elements at the positions kept.
LEMMA KeptIsRows ==
    ASSUME NEW s, IsRows(s), NEW I
    PROVE  /\ IsRows(Kept(s, I)) /\ Range(Kept(s, I)) \subseteq Range(s)
           /\ \A x \in Range(Kept(s, I)) : \E i \in DOMAIN s : i \in I /\ x = s[i]
<1>1. PICK S : S = Range(s)
  OBVIOUS
<1>2. s \in Seq(S)
  BY <1>1 DEF IsRows
<1>3. PICK q : q = Kept(s, I)
  OBVIOUS
<1>4. q \in Seq(S) /\ \A k \in DOMAIN q : \E i \in DOMAIN s : i \in I /\ q[k] = s[i]
  BY <1>2, <1>3, KeptFacts
<1>5. IsRows(q)
  BY <1>4, SeqIsRows
<1>6. \A x \in Range(q) : \E i \in DOMAIN s : i \in I /\ x = s[i]
  BY <1>4 DEF Range
<1>7. Range(q) \subseteq Range(s)
  BY <1>6 DEF Range
<1> QED
  BY <1>3, <1>5, <1>6, <1>7

\* A frame with a row for each element of a sequence.
LEMMA RowPerElement ==
    ASSUME NEW s, IsRows(s), NEW f, DOMAIN f = DOMAIN s, f = [i \in DOMAIN f |-> f[i]]
    PROVE  IsRows(f)
<1>1. DOMAIN s = 1..Len(s) /\ Len(s) \in Nat
  BY DEF IsRows
<1> QED
  BY <1>1, RowsAre

\* A vector is a list.
LEMMA ListIsRows == \A s : IsList(s) => IsRows(s)
  BY ListIsSeq DEF IsRows

\* The CSV reader gives a list of rows.
LEMMA CsvRows ==
    ASSUME NEW content, NEW schema, IsList(content.rows),
           Fine(ReadCsvSource(content, schema))
    PROVE  IsRows(ReadCsvSource(content, schema).value)
<1> DEFINE f == [r \in DOMAIN content.rows |->
                    [n \in Names(schema) |-> content.rows[r][IndexOf(content.header, n)]]]
           r == ReadCsvSource(content, schema)
<1>1. r \in {Error("read"), Error("headers"), Error("frame"), Ok(f)}
  BY Zenon DEF ReadCsvSource
<1>2. PICK s : s = content.rows
  OBVIOUS
<1>3. DOMAIN f = DOMAIN s /\ f = [i \in DOMAIN f |-> f[i]]
  BY <1>2
<1>4. IsRows(s)
  BY <1>2, ListIsRows
<1>5. \A e \in {"read", "headers", "frame"} : ~Fine(Error(e))
  BY ErrorsAreNotFine DEF Causes
<1> HIDE DEF f, r
<1>6. IsRows(f)
  BY <1>3, <1>4, RowPerElement
<1>7. r = Ok(f)
  BY <1>1, <1>5 DEF r
<1> QED
  BY <1>6, <1>7, OkIsFine DEF r

\* The NDJSON reader gives a list of rows.
LEMMA JsonRows ==
    ASSUME NEW content, NEW schema, IsList(content.lines),
           Fine(ReadJsonSource(content, schema))
    PROVE  IsRows(ReadJsonSource(content, schema).value)
<1> DEFINE r == ReadJsonSource(content, schema)
           records == ParseRecords(content.lines)
           paths == [i \in DOMAIN schema |-> CompilePath(PathOf(schema[i]))]
           column(n) == CHOOSE i \in DOMAIN schema : schema[i].name = n
           cell(x, n) == Push(schema[column(n)].type, Resolve(x, paths[column(n)].value))
           rows == [i \in DOMAIN records |->
                       [n \in {schema[j].name : j \in DOMAIN schema} |-> cell(records[i], n)]]
<1>0. \/ r = Error("array") \/ r = Error("path") \/ r = Error("frame") \/ r = Ok(rows)
  BY Zenon DEF ReadJsonSource
<1>1. \/ r \in {Error("array"), Error("path"), Error("frame")}
      \/ \E f : r = Ok(f) /\ DOMAIN f = DOMAIN records /\ f = [i \in DOMAIN f |-> f[i]]
  <2>1. DOMAIN rows = DOMAIN records /\ rows = [i \in DOMAIN rows |-> rows[i]]
    OBVIOUS
  <2> HIDE DEF r, rows, records, paths, column, cell
  <2> QED
    BY <1>0, <2>1
<1>2. IsRows(records)
  BY ListIsRows, KeptIsRows DEF ParseRecords
<1>3. \A e \in {"array", "path", "frame"} : ~Fine(Error(e))
  BY ErrorsAreNotFine DEF Causes
<1> HIDE DEF r, records
<1>4. PICK f : r = Ok(f) /\ DOMAIN f = DOMAIN records /\ f = [i \in DOMAIN f |-> f[i]]
  BY <1>1, <1>3 DEF r
<1>5. IsRows(f)
  BY <1>2, <1>4, RowPerElement
<1> QED
  BY <1>4, <1>5, OkIsFine DEF r

\* Filtering keeps rows, and those for which the predicate is true.
LEMMA FilterRows ==
    ASSUME NEW pred, NEW rows, NEW cols, NEW ms, NEW stage, IsRows(rows),
           Fine(Filter(pred, rows, cols, ms, stage))
    PROVE  LET v == Filter(pred, rows, cols, ms, stage).value
           IN  /\ IsRows(v) /\ Range(v) \subseteq Range(rows)
               /\ \A row \in Range(v) : Eval(pred, row, ms) = BoolCell(TRUE)
<1> DEFINE f == Filter(pred, rows, cols, ms, stage)
           I == TrueAt(pred, rows, ms)
<1>1. \/ f = Failed(stage, "compile") \/ f = Failed(stage, "column")
      \/ f = Failed(stage, "eval") \/ f = Ok(Kept(rows, I))
  BY FilterResult
<1>2. \A e \in {"compile", "column", "eval"} : ~Fine(Failed(stage, e))
  BY ErrorsAreNotFine DEF Causes
<1>3. \A i \in I : Eval(pred, rows[i], ms) = BoolCell(TRUE)
  BY DEF TrueAt
<1> HIDE DEF f, I
<1>4. f = Ok(Kept(rows, I))
  BY <1>1, <1>2 DEF f
<1>5. PICK q : q = Kept(rows, I)
  OBVIOUS
<1>6. f.value = q
  BY <1>4, <1>5, OkIsFine
<1>7. /\ IsRows(q) /\ Range(q) \subseteq Range(rows)
      /\ \A x \in Range(q) : \E i \in DOMAIN rows : i \in I /\ x = rows[i]
  BY <1>5, KeptIsRows
<1>8. \A x \in Range(q) : Eval(pred, x, ms) = BoolCell(TRUE)
  BY <1>3, <1>7
<1> QED
  BY <1>6, <1>7, <1>8 DEF f

\* ingest_file reads a list of rows, in either format.
LEMMA FileRowsRead ==
    ASSUME NEW sc, NEW content, NEW ms,
           IsList(IF sc.format = "csv" THEN content.rows ELSE content.lines),
           Fine(ReadFile(sc, content, ms))
    PROVE  IsRows(ReadFile(sc, content, ms).value)
<1> DEFINE json == ReadJsonSource(content, sc.schema)
           r == ReadFile(sc, content, ms)
<1>1. r = IF sc.format = "csv" THEN ReadCsvSource(content, sc.schema)
        ELSE IF ~Fine(json) THEN json
        ELSE IF sc.filter = <<>> THEN Ok(json.value)
        ELSE Filter(sc.filter[1], json.value, Names(sc.schema), ms, "filter")
  BY Zenon DEF ReadFile, Then, Fine
<1>2. CASE sc.format = "csv"
  BY <1>1, <1>2, CsvRows
<1>3. CASE sc.format # "csv"
  <2>1. Fine(json) => IsRows(json.value)
    BY <1>3, JsonRows
  <2>2. Fine(json)
    <3> HIDE DEF json
    <3> QED
      BY <1>1, <1>3
  <2> HIDE DEF json, r
  <2>3. CASE sc.filter = <<>>
    BY <1>1, <1>3, <2>1, <2>2, <2>3, OkIsFine DEF r
  <2>4. CASE sc.filter # <<>>
    <3>1. r = Filter(sc.filter[1], json.value, Names(sc.schema), ms, "filter")
      BY <1>1, <1>3, <2>2, <2>4
    <3>2. Fine(r)
      BY DEF r
    <3> QED
      BY <2>1, <2>2, <3>1, <3>2, FilterRows DEF r
  <2> QED
    BY <2>3, <2>4
<1> QED
  BY <1>2, <1>3

\* A frame of the mapping's columns.
IsFrame(m, s) == IsRows(s) /\ \A row \in Range(s) : DOMAIN row = Names(m.columns)

\* The columns of a mapping make a frame.
LEMMA SelectedRows ==
    ASSUME NEW m, DOMAIN m.columns \subseteq Nat, NEW rows, IsRows(rows), NEW cols, NEW ms,
           Fine(MapColumns(m, rows, cols, ms))
    PROVE  IsFrame(m, MapColumns(m, rows, cols, ms).value)
<1> DEFINE vs == [j \in DOMAIN m.columns |->
                     Column(m.columns[j].expr, rows, cols, ms, "select")]
           bad == {j \in DOMAIN vs : ~Fine(vs[j])}
           first == CHOOSE j \in bad : \A k \in bad : j <= k
           at(n) == IndexOf(NameSeq(m.columns), n)
           f == [r \in DOMAIN rows |-> [n \in Names(m.columns) |-> vs[at(n)].value[r]]]
           r == MapColumns(m, rows, cols, ms)
<1>1. \/ r = vs[first] /\ bad # {}
      \/ r = Failed("select", "frame")
      \/ r = Ok(f)
  BY Zenon DEF MapColumns, Fine
<1>2. ASSUME bad # {} PROVE ~Fine(vs[first])
  <2>1. bad \subseteq Nat
    OBVIOUS
  <2>2. \E j \in bad : \A k \in bad : j <= k
    <3> HIDE DEF bad
    <3> QED
      BY <1>2, <2>1, Least
  <2>3. first \in bad
    <3> HIDE DEF bad
    <3> QED
      BY <2>2
  <2> HIDE DEF first
  <2> QED
    BY <2>3
<1>3. DOMAIN f = DOMAIN rows /\ f = [i \in DOMAIN f |-> f[i]]
      /\ \A i \in DOMAIN f : DOMAIN f[i] = Names(m.columns)
  OBVIOUS
<1>4. ~Fine(Failed("select", "frame"))
  BY ErrorsAreNotFine DEF Causes
<1> HIDE DEF vs, bad, first, f, r
<1>5. r = Ok(f)
  BY <1>1, <1>2, <1>4 DEF r
<1>6. IsRows(f)
  BY <1>3, RowPerElement
<1>7. IsFrame(m, f)
  BY <1>3, <1>6 DEF IsFrame, Range
<1> QED
  BY <1>5, <1>7, OkIsFine DEF r

\* What a mapping reads of the n-th of its files.
ReadOf(m, n) == IngestFile(cfg, m, lake[MappingFiles(m)[n]], matchers)

\* A file of a mapping is of the format of the mapping's source.
LEMMA FilesFit ==
    ASSUME Shaped, Listing, Downloads, Validate(cfg), NEW m, NEW k \in DOMAIN MappingFiles(m)
    PROVE  LET sc == cfg.sources[SourceIndex(m)]
               content == lake[MappingFiles(m)[k]].content
           IN  IsList(IF sc.format = "csv" THEN content.rows ELSE content.lines)
<1> DEFINE i == MappingFiles(m)[k]
           s == SourceIndex(m)
           p == PrefixesOf(cfg)
<1>1. MappingFiles(m) # <<>> /\ i \in DOMAIN lake
  BY MappingFilesFacts
<1>2. s \in DOMAIN cfg.sources /\ StartsWith(lake[i].key, cfg.sources[s].prefix)
  BY <1>1, MappingFilesFacts
<1>3. PICK n \in DOMAIN files : i = files[n]
  BY MappingFilesFacts
<1>4. PICK j \in DOMAIN cfg.sources :
         /\ StartsWith(lake[i].key, cfg.sources[j].prefix)
         /\ HasExtension(i, Extensions(cfg.sources[j].format))
  <2>1. Sourced(i)
    BY <1>3 DEF Downloads, Listing
  <2> QED
    BY <2>1 DEF Sourced
<1>5. j = s
  <2>1. PrefixesValid(p)
    BY ValidParts
  <2>2. lake[i].key \in Seq(STRING)
    BY <1>1 DEF Shaped, ScenarioShape, lake
  <2>3. /\ p \in Seq(Seq(STRING)) /\ DOMAIN p = DOMAIN cfg.sources
        /\ p[s] = cfg.sources[s].prefix /\ p[j] = cfg.sources[j].prefix
    <3>1. /\ \A x \in DOMAIN cfg.sources : cfg.sources[x].prefix \in Seq(STRING)
          /\ IsList(cfg.sources)
      BY DEF Shaped, ScenarioShape, cfg
    <3>2. DOMAIN cfg.sources = 1..Len(cfg.sources) /\ Len(cfg.sources) \in Nat
      BY <3>1, ListIsSeq
    <3> QED
      BY <1>2, <3>1, <3>2 DEF PrefixesOf
  <2> HIDE DEF i, p, s
  <2>4. s \in Matching(p, lake[i].key) /\ j \in Matching(p, lake[i].key)
    BY <1>2, <1>4, <2>3 DEF Matching
  <2> QED
    BY <2>1, <2>2, <2>3, <2>4, OneSource
<1>6. ContentShape(cfg.sources[s], lake[i])
  BY <1>1, <1>2 DEF Shaped, ScenarioShape, cfg, lake
<1> HIDE DEF i, p, s
<1>7. IsList(IF cfg.sources[s].format = "csv" THEN lake[i].content.rows
             ELSE lake[i].content.lines)
  <2>1. \E e \in Extensions(cfg.sources[s].format) : EndsWith(lake[i].key, e)
    BY <1>4, <1>5 DEF HasExtension
  <2> QED
    BY <1>2, <1>6, <2>1 DEF ContentShape
<1> QED
  BY <1>7 DEF i, s

\* The rows that a mapping reads of a file: its columns, and true for `where`.
LEMMA IngestRows ==
    ASSUME Shaped, Listing, Downloads, Validate(cfg),
           NEW n \in DOMAIN cfg.mappings, NEW k \in DOMAIN MappingFiles(cfg.mappings[n]),
           Fine(ReadOf(cfg.mappings[n], k))
    PROVE  LET m == cfg.mappings[n]
               v == ReadOf(m, k).value
           IN  /\ IsFrame(m, v)
               /\ m.where # <<>> =>
                     \A row \in Range(v) : Eval(m.where[1], row, matchers) = BoolCell(TRUE)
<1>1. PICK m : m = cfg.mappings[n]
  OBVIOUS
<1>2. PICK i : i = MappingFiles(m)[k]
  OBVIOUS
<1> DEFINE rd == Read(m, i)
           mp == Mapped(m, rd.value)
           w == Where(m, mp.value)
<1>3. SourceIndex(m) # 0
  <2>1. MappingFiles(m) # <<>>
    BY <1>1
  <2>2. SourceIndex(m) \in DOMAIN cfg.sources
    BY <2>1, MappingFilesFacts
  <2>3. IsList(cfg.sources)
    BY DEF Shaped, ScenarioShape, cfg
  <2> QED
    BY <2>2, <2>3, ListIsSeq
<1>4. ReadOf(m, k) = IF ~Fine(rd) THEN rd ELSE IF ~Fine(mp) THEN mp ELSE w
  <2>1. ResolveSource(PrefixesOf(cfg), lake[i].key) = SourceIndex(m)
    BY <1>1, <1>2, ReadsOwnSource
  <2>2. ReadOf(m, k) = IngestFile(cfg, m, lake[i], matchers)
    BY <1>2 DEF ReadOf
  <2> QED
    BY <1>3, <2>1, <2>2, IngestStages
<1>5. Fine(rd) => IsRows(rd.value)
  <2> DEFINE sc == cfg.sources[SourceIndex(m)]
             read == ReadFile(sc, lake[i].content, matchers)
  <2>1. rd = IF Fine(read) THEN read ELSE Failed("read", read.error)
    BY Zenon DEF Read, ReadStage, Fine
  <2>2. ~Fine(read) => ~Fine(Failed("read", read.error))
    BY Zenon DEF Fine, Failed
  <2>3. IsList(IF sc.format = "csv" THEN lake[i].content.rows ELSE lake[i].content.lines)
    BY <1>1, <1>2, FilesFit
  <2>4. Fine(read) => IsRows(read.value)
    <3> HIDE DEF sc
    <3> QED
      BY <2>3, FileRowsRead
  <2> HIDE DEF rd, read
  <2> QED
    BY <2>1, <2>2, <2>4
<1>6. IsRows(rd.value) /\ Fine(mp) => IsFrame(m, mp.value)
  <2>1. IsList(m.columns)
    BY <1>1 DEF Shaped, ScenarioShape, cfg
  <2>2. DOMAIN m.columns \subseteq Nat
    BY <2>1, ListIsSeq
  <2> HIDE DEF rd
  <2> QED
    BY <2>2, SelectedRows DEF Mapped
<1>7. IsFrame(m, mp.value) /\ Fine(w) =>
         /\ IsFrame(m, w.value)
         /\ m.where # <<>> =>
               \A row \in Range(w.value) : Eval(m.where[1], row, matchers) = BoolCell(TRUE)
  <2> HIDE DEF mp
  <2>1. CASE m.where = <<>>
    BY <2>1, OkIsFine DEF Where
  <2>2. CASE m.where # <<>>
    <3>1. w = Filter(m.where[1], mp.value, Names(m.columns), matchers, "where")
      BY <2>2 DEF Where
    <3> HIDE DEF w
    <3> QED
      BY <3>1, FilterRows DEF IsFrame
  <2> QED
    BY <2>1, <2>2
<1>8. Fine(ReadOf(m, k))
  BY <1>1
<1> HIDE DEF rd, mp, w
<1>9. Fine(rd) /\ Fine(mp) /\ ReadOf(m, k) = w
  BY <1>4, <1>8
<1> QED
  BY <1>1, <1>5, <1>6, <1>7, <1>8, <1>9

\* The rows of the files of a mapping, none where a file cannot be read.
ReadRows(m) ==
    [k \in DOMAIN MappingFiles(m) |-> IF Fine(ReadOf(m, k)) THEN ReadOf(m, k).value ELSE <<>>]

\* They are lists of rows, and RowsRead is their concatenation.
LEMMA ReadRowsAre ==
    ASSUME Shaped, Listing, Downloads, Validate(cfg), NEW n \in DOMAIN cfg.mappings,
           NEW m, m = cfg.mappings[n]
    PROVE  /\ RowsRead(m) = FlattenSeq(ReadRows(m))
           /\ \E S : ReadRows(m) \in Seq(Seq(S))
<1> DEFINE L == DOMAIN MappingFiles(m)
           ss == ReadRows(m)
           S == UNION {Range(ss[k]) : k \in L}
<1>2. RowsRead(m) = FlattenSeq(ss)
  <2> DEFINE read == [i \in L |-> IngestFile(cfg, m, lake[MappingFiles(m)[i]], matchers)]
  <2>1. RowsRead(m) =
          FlattenSeq([i \in DOMAIN read |-> IF Fine(read[i]) THEN read[i].value ELSE <<>>])
    BY Zenon DEF RowsRead, Fine
  <2>2. DOMAIN read = L /\ \A i \in L : read[i] = ReadOf(m, i)
    BY DEF ReadOf
  <2>3. [i \in DOMAIN read |-> IF Fine(read[i]) THEN read[i].value ELSE <<>>] = ss
    <3> HIDE DEF read
    <3> QED
      BY <2>2 DEF ReadRows
  <2> QED
    BY <2>1, <2>3
<1>3. ASSUME NEW k \in L PROVE ss[k] \in Seq(S)
  <2>0. ss[k] = IF Fine(ReadOf(m, k)) THEN ReadOf(m, k).value ELSE <<>>
    BY DEF ReadRows
  <2>1. CASE Fine(ReadOf(m, k))
    <3>1. IsRows(ReadOf(m, k).value)
      BY <2>1, IngestRows DEF IsFrame
    <3>2. ss[k] \in Seq(Range(ss[k]))
      BY <2>0, <2>1, <3>1 DEF IsRows
    <3>3. Range(ss[k]) \subseteq S
      OBVIOUS
    <3> HIDE DEF ss, S
    <3> QED
      BY <3>2, <3>3
  <2>2. CASE ~Fine(ReadOf(m, k))
    <3>1. ss[k] = <<>>
      BY <2>0, <2>2
    <3> HIDE DEF ss, S
    <3> QED
      BY <3>1
  <2> QED
    BY <2>1, <2>2
<1>4. ss \in Seq(Seq(S))
  <2>1. MappingFiles(m) \in Seq(DOMAIN lake)
    BY MappingFilesFacts
  <2>2. L = 1..Len(MappingFiles(m)) /\ Len(MappingFiles(m)) \in Nat
    BY <2>1
  <2>3. DOMAIN ss = L /\ ss = [k \in L |-> ss[k]]
    BY DEF ReadRows
  <2> HIDE DEF ss, S, L
  <2>4. ss \in [L -> Seq(S)]
    BY <1>3, <2>3
  <2> QED
    BY <2>2, <2>4
<1> HIDE DEF S
<1> QED
  BY <1>2, <1>4

\* The rows of the files that can be read.
LEMMA RowsReadFacts ==
    ASSUME Shaped, Listing, Downloads, Validate(cfg), NEW n \in DOMAIN cfg.mappings
    PROVE  LET m == cfg.mappings[n]
           IN  /\ IsRows(RowsRead(m))
               /\ \A row \in Range(RowsRead(m)) :
                     \E k \in DOMAIN MappingFiles(m) :
                        Fine(ReadOf(m, k)) /\ row \in Range(ReadOf(m, k).value)
<1>1. PICK m, ss : m = cfg.mappings[n] /\ ss = ReadRows(m)
  OBVIOUS
<1>2. PICK S : ss \in Seq(Seq(S))
  BY <1>1, ReadRowsAre
<1>3. RowsRead(m) = FlattenSeq(ss)
  BY <1>1, ReadRowsAre
<1>4. ASSUME NEW k \in DOMAIN ss, NEW row \in Range(ss[k])
      PROVE  k \in DOMAIN MappingFiles(m) /\ Fine(ReadOf(m, k))
             /\ row \in Range(ReadOf(m, k).value)
  <2>1. /\ k \in DOMAIN MappingFiles(m)
        /\ ss[k] = IF Fine(ReadOf(m, k)) THEN ReadOf(m, k).value ELSE <<>>
    BY <1>1 DEF ReadRows
  <2>2. Range(<<>>) = {}
    BY DEF Range
  <2> QED
    BY <2>1, <2>2
<1>5. /\ FlattenSeq(ss) \in Seq(S)
      /\ \A row \in Range(FlattenSeq(ss)) : \E k \in DOMAIN ss : row \in Range(ss[k])
  BY <1>2, RangeOfFlatten
<1>6. IsRows(FlattenSeq(ss))
  BY <1>5, SeqIsRows
<1> QED
  BY <1>1, <1>3, <1>4, <1>5, <1>6

\* ingest_many gives the rows of the files that can be read, in their order.
LEMMA UnitedRows ==
    ASSUME Shaped, Listing, Downloads, Validate(cfg), NEW n \in DOMAIN cfg.mappings,
           NEW got,
           got = IngestMany(cfg, cfg.mappings[n],
                     [i \in DOMAIN MappingFiles(cfg.mappings[n]) |->
                         lake[MappingFiles(cfg.mappings[n])[i]]], matchers),
           Fine(got)
    PROVE  LET m == cfg.mappings[n]
           IN  IsRows(got.value) /\ got.value = RowsRead(m)
<1>1. PICK m : m = cfg.mappings[n]
  OBVIOUS
<1> DEFINE L == DOMAIN MappingFiles(m)
           read == [k \in L |-> ReadOf(m, k)]
           I == {k \in L : Fine(read[k])}
           frames == Kept(read, I)
           ss == [i \in DOMAIN frames |-> frames[i].value]
<1>2. got = Unite(m, ss)
  <2> DEFINE lf == [i \in L |-> lake[MappingFiles(m)[i]]]
             rd == [i \in DOMAIN lf |-> IngestFile(cfg, m, lf[i], matchers)]
             fr == Kept(rd, {i \in DOMAIN rd : Fine(rd[i])})
  <2>1. got = Unite(m, [i \in DOMAIN fr |-> fr[i].value])
    BY <1>1, Zenon DEF IngestMany, Frames, Fine
  <2>2. rd = read
    BY DEF ReadOf
  <2>3. {i \in DOMAIN rd : Fine(rd[i])} = I
    <3> HIDE DEF rd, read
    <3>1. DOMAIN read = L
      BY DEF read
    <3> QED
      BY <2>2, <3>1
  <2>4. fr = frames
    <3> HIDE DEF rd, read, I
    <3> QED
      BY <2>2, <2>3
  <2> HIDE DEF fr, frames
  <2> QED
    BY <2>1, <2>4
<1>3. got.value = FlattenSeq(ss)
  <2>1. PICK e1, e2 : e1 = Error("NoFilesSucceeded") /\ e2 = Error("collect")
    OBVIOUS
  <2>2. ~Fine(e1) /\ ~Fine(e2)
    BY <2>1, ErrorsAreNotFine DEF Causes
  <2> HIDE DEF ss
  <2>3. got = e1 \/ got = e2 \/ got = Ok(FlattenSeq(ss))
    BY <1>2, <2>1, Zenon DEF Unite
  <2> QED
    BY <2>2, <2>3, OkIsFine
<1>4. L = 1..Len(MappingFiles(m)) /\ Len(MappingFiles(m)) \in Nat
  <2>1. MappingFiles(m) \in Seq(DOMAIN lake)
    BY MappingFilesFacts
  <2> QED
    BY <2>1
<1>5. IsRows(read)
  <2>1. DOMAIN read = L /\ read = [i \in L |-> read[i]]
    OBVIOUS
  <2> HIDE DEF read, L
  <2> QED
    BY <1>4, <2>1, RowsAre
<1>6. DOMAIN read = L /\ \A k \in L : read[k] = ReadOf(m, k)
  OBVIOUS
<1>7. Len(read) = Len(MappingFiles(m))
  <2> HIDE DEF read
  <2> QED
    BY <1>4, <1>5, <1>6 DEF IsRows
<1>8. PICK e : IsKept(frames, read, I, Len(read), e)
  <2>1. PICK R : R = Range(read)
    OBVIOUS
  <2>2. read \in Seq(R)
    BY <1>5, <2>1 DEF IsRows
  <2> HIDE DEF read, I
  <2> QED
    BY <2>2, KeptEnumerates
<1>9. PICK qs : qs = ReadRows(m)
  OBVIOUS
<1>10. PICK S : qs \in Seq(Seq(S))
  BY <1>1, <1>9, ReadRowsAre
<1>11. Len(qs) = Len(read) /\ DOMAIN qs = L
  <2>1. DOMAIN qs = L
    BY <1>9 DEF ReadRows
  <2>2. PICK x, y : x = Len(qs) /\ y = Len(MappingFiles(m))
    OBVIOUS
  <2>3. x \in Nat /\ y \in Nat /\ 1..x = 1..y
    BY <1>4, <1>10, <2>1, <2>2
  <2>4. x = y
    <3>1. x > y => x \in 1..x /\ x \notin 1..y
      BY <2>3
    <3>2. y > x => y \in 1..y /\ y \notin 1..x
      BY <2>3
    <3> QED
      BY <2>3, <3>1, <3>2
  <2> QED
    BY <1>7, <2>1, <2>2, <2>4
<1>12. Enumerates(e, I, Len(qs)) /\ frames = [k \in DOMAIN e |-> read[e[k]]]
  BY <1>8, <1>11 DEF IsKept
<1>13. \A k \in L : qs[k] = IF k \in I THEN read[k].value ELSE <<>>
  <2>1. \A k \in L : k \in I <=> Fine(ReadOf(m, k))
    BY <1>6
  <2> HIDE DEF read, I
  <2> QED
    BY <1>6, <1>9, <2>1 DEF ReadRows
<1>14. ss = [k \in DOMAIN e |-> qs[e[k]]]
  <2>1. \A k \in DOMAIN e : e[k] \in I /\ e[k] \in L
    BY <1>11, <1>12 DEF Enumerates
  <2>2. \A k \in DOMAIN e : frames[k] = read[e[k]] /\ qs[e[k]] = read[e[k]].value
    <3> HIDE DEF frames, read, I, L
    <3> QED
      BY <1>12, <1>13, <2>1
  <2>3. DOMAIN frames = DOMAIN e
    <3> HIDE DEF frames
    <3> QED
      BY <1>12
  <2> HIDE DEF frames, read, I
  <2> QED
    BY <2>2, <2>3
<1>15. FlattenSeq(ss) = FlattenSeq(qs)
  <2>1. \A i \in DOMAIN qs : i \notin I => qs[i] = <<>>
    BY <1>11, <1>13
  <2> HIDE DEF ss, I
  <2> QED
    BY <1>10, <1>12, <1>14, <2>1, FlattenSkips
<1>16. RowsRead(m) = FlattenSeq(qs) /\ IsRows(RowsRead(m))
  BY <1>1, <1>9, ReadRowsAre, RowsReadFacts
<1> QED
  BY <1>1, <1>3, <1>15, <1>16

\* What a mapping gives.
ResultOf(m) ==
    IF MappingFiles(m) = <<>> THEN Error("skipped")
    ELSE RunMapping(cfg, m, [i \in DOMAIN MappingFiles(m) |-> lake[MappingFiles(m)[i]]],
                    matchers)

\* The results are those of the mappings on the files and dimensions there are.
Computed ==
    \A k \in DOMAIN results : k \in DOMAIN cfg.mappings /\ results[k] = ResultOf(cfg.mappings[k])

\* Every result is what run_mapping makes of the files and the registry.
LEMMA ComputedInv == Spec => []Computed
<1>1. Init => Computed
  BY DEF Init, Computed
<1>2. Control /\ Outcomes /\ Computed /\ [Next]_vars => Computed'
  <2> SUFFICES ASSUME Control, Outcomes, Computed, [Next]_vars PROVE Computed'
    OBVIOUS
  <2>1. cfg' = cfg /\ lake' = lake
    BY BuiltStays
  <2>2. ASSUME matchers' = matchers, files' = files, NEW m PROVE ResultOf(m)' = ResultOf(m)
    BY <2>1, <2>2 DEF ResultOf, MappingFiles, SourceIndex
  <2>3. CASE MapNext
    <3> DEFINE new == ResultOf(cfg.mappings[next])
    <3>1. /\ pc = "map" /\ next \in DOMAIN cfg.mappings /\ results' = Append(results, new)
          /\ matchers' = matchers /\ files' = files
      BY <2>3 DEF MapNext, ResultOf
    <3>2. PICK T : T = Range(results) \cup {new}
      OBVIOUS
    <3>3. results \in Seq(T) /\ new \in T
      <4>1. results \in Seq(Range(results))
        BY ListIsSeq DEF Outcomes
      <4> QED
        BY <3>2, <4>1
    <3>4. Len(results) = next - 1 /\ next \in Nat \ {0}
      BY <3>1 DEF Outcomes, Control
    <3> HIDE DEF new
    <3>5. ASSUME NEW k \in DOMAIN results'
          PROVE  \/ k \in DOMAIN results /\ results'[k] = results[k]
                 \/ k = next /\ results'[k] = new
      BY <3>1, <3>3, <3>4
    <3>6. \A k \in DOMAIN results' :
             k \in DOMAIN cfg.mappings /\ results'[k] = ResultOf(cfg.mappings[k])
      BY <3>1, <3>5 DEF Computed, new
    <3> QED
      BY <2>1, <2>2, <3>1, <3>6 DEF Computed
  <2>4. CASE ~MapNext
    <3>1. results' = results
      BY <2>4 DEF vars, Next, CheckConfig, ListSource, ListSourceFails, Listed, Download,
             DownloadFails, Downloaded, Cancel, LoadDimension, LoadDimensionFails,
             DimensionsLoaded, Finish
    <3>2. \/ matchers' = matchers /\ files' = files
          \/ pc \in {"download", "dims"}
      BY <2>4 DEF vars, Next, CheckConfig, ListSource, ListSourceFails, Listed, Download,
             DownloadFails, Downloaded, Cancel, LoadDimension, LoadDimensionFails,
             DimensionsLoaded, Finish
    <3>3. CASE pc \in {"download", "dims"}
      <4>1. results = <<>>
        BY <3>3 DEF Outcomes
      <4> QED
        BY <3>1, <4>1 DEF Computed
    <3>4. CASE matchers' = matchers /\ files' = files
      <4>1. \A m : ResultOf(m)' = ResultOf(m)
        BY <2>2, <3>4
      <4> QED
        BY <2>1, <3>1, <4>1 DEF Computed
    <3> QED
      BY <3>2, <3>3, <3>4
  <2> QED
    BY <2>3, <2>4
<1> QED
  BY <1>1, <1>2, ControlInv, OutcomesInv, PTL DEF Spec

\* A mapping that writes has read its files, and its rows meet the assertions.
LEMMA WrittenRows ==
    ASSUME Computed, NEW k \in DOMAIN results, Fine(results[k])
    PROVE  LET m == cfg.mappings[k]
               got == IngestMany(cfg, m, [i \in DOMAIN MappingFiles(m) |->
                                             lake[MappingFiles(m)[i]]], matchers)
           IN  /\ k \in DOMAIN cfg.mappings
               /\ Fine(got)
               /\ m.table \in Ids(cfg.tables)
               /\ AssertionsHold(ById(cfg.tables, m.table), got.value, Names(m.columns))
               /\ results[k] = ProducePartitions(ById(cfg.tables, m.table), m,
                                  DedupRows(got.value, ById(cfg.tables, m.table).dedup),
                                  Names(m.columns))
<1>1. PICK m : m = cfg.mappings[k]
  OBVIOUS
<1>2. PICK mine : mine = MappingFiles(m)
  OBVIOUS
<1> DEFINE fs == [i \in DOMAIN mine |-> lake[mine[i]]]
           got == IngestMany(cfg, m, fs, matchers)
           t == ById(cfg.tables, m.table)
           run == RunMapping(cfg, m, fs, matchers)
           parts == ProducePartitions(t, m, DedupRows(got.value, t.dedup), Names(m.columns))
<1>3. k \in DOMAIN cfg.mappings /\ results[k] = ResultOf(m)
  BY <1>1 DEF Computed
<1>4. results[k] = IF mine = <<>> THEN Error("skipped") ELSE run
  BY <1>2, <1>3 DEF ResultOf
<1>5. ~Fine(Error("skipped")) /\ ~Fine(Error("table")) /\ ~Fine(Error("assertion"))
      /\ ~Fine(Error("dedup"))
  BY ErrorsAreNotFine DEF Causes
<1>6. \/ run = got /\ ~Fine(got)
      \/ run = Error("table")
      \/ run = Error("assertion")
      \/ run = Error("dedup")
      \/ Fine(got) /\ m.table \in Ids(cfg.tables) /\ run = parts
             /\ AssertionsHold(t, got.value, Names(m.columns))
  BY Zenon DEF RunMapping, Then, Fine
<1> HIDE DEF fs, got, t, run, parts
<1>7. Fine(run)
  BY <1>4, <1>5
<1>8. /\ Fine(got) /\ m.table \in Ids(cfg.tables) /\ run = parts
      /\ AssertionsHold(t, got.value, Names(m.columns))
  BY <1>5, <1>6, <1>7
<1>9. results[k] = run
  BY <1>4, <1>5
<1> QED
  BY <1>1, <1>2, <1>3, <1>8, <1>9 DEF fs, got, t, parts

\* The rows wanted are rows read.
LEMMA WantedRows ==
    ASSUME Shaped, Listing, Downloads, Validate(cfg), NEW n \in DOMAIN cfg.mappings
    PROVE  LET m == cfg.mappings[n]
           IN  IsRows(RowsWanted(m)) /\ Range(RowsWanted(m)) \subseteq Range(RowsRead(m))
<1>1. PICK m : m = cfg.mappings[n]
  OBVIOUS
<1> DEFINE all == RowsRead(m)
           dd == ById(cfg.tables, m.table).dedup
           I == {i \in DOMAIN all :
                   \/ dd = <<>>
                   \/ \A j \in 1..(i - 1) : \E x \in Range(dd) : all[j][x] # all[i][x]}
<1>2. IsRows(all)
  BY <1>1, RowsReadFacts
<1>3. RowsWanted(m) = Kept(all, I)
  BY DEF RowsWanted, FirstOfEach
<1> HIDE DEF all, I
<1>4. IsRows(Kept(all, I)) /\ Range(Kept(all, I)) \subseteq Range(all)
  BY <1>2, KeptIsRows
<1> QED
  BY <1>1, <1>3, <1>4 DEF all

\* A row of a frame that meets the assertions is sound.
LEMMA AssertedIsSound ==
    ASSUME Shaped, NEW m, m.table \in Ids(cfg.tables), NEW rows,
           AssertionsHold(ById(cfg.tables, m.table), rows, Names(m.columns)),
           NEW row \in Range(rows), DOMAIN row = Names(m.columns)
    PROVE  Sound(ById(cfg.tables, m.table), row)
<1>1. PICK t : t = ById(cfg.tables, m.table)
  OBVIOUS
<1>2. \A j \in DOMAIN t.schema : BoundsShape(t.schema[j])
  <2>1. \E i \in DOMAIN cfg.tables : t = cfg.tables[i]
    BY <1>1 DEF Ids, ById
  <2> QED
    BY <2>1 DEF Shaped, ScenarioShape, cfg
<1> SUFFICES ASSUME NEW j \in DOMAIN t.schema, t.schema[j].asserts # <<>>
             PROVE  LET c == t.schema[j]
                    IN  /\ c.name \in DOMAIN row
                        /\ row[c.name] = Null => ~c.asserts[1].not_null
                        /\ \A x \in AsFloat(row[c.name]) :
                              /\ \A lo \in Range(c.asserts[1].min) : x >= lo
                              /\ \A hi \in Range(c.asserts[1].max) : x <= hi
  BY <1>1 DEF Sound
<1>3. PICK c : c = t.schema[j]
  OBVIOUS
<1>4. PICK a : a = c.asserts[1]
  OBVIOUS
<1>5. /\ a \in Range(c.asserts)
      /\ IsList(a.min) /\ Len(a.min) <= 1 /\ IsList(a.max) /\ Len(a.max) <= 1
  <2>1. PICK as : as = c.asserts
    OBVIOUS
  <2>2. IsList(as) /\ \A b \in Range(as) :
            IsList(b.min) /\ Len(b.min) <= 1 /\ IsList(b.max) /\ Len(b.max) <= 1
    BY <1>2, <1>3, <2>1 DEF BoundsShape
  <2>3. as \in Seq(Range(as)) /\ DOMAIN as = 1..Len(as) /\ Len(as) \in Nat
    BY <2>2, ListIsSeq
  <2>4. as # <<>>
    BY <1>3, <2>1
  <2>5. 1 \in DOMAIN as
    <3>1. CASE Len(as) = 0
      <4>1. as = <<>>
        BY <2>3, <3>1
      <4> QED
        BY <2>4, <4>1
    <3>2. CASE Len(as) # 0
      <4>1. PICK n : n = Len(as)
        OBVIOUS
      <4>2. n \in Nat /\ n # 0 /\ DOMAIN as = 1..n
        BY <2>3, <3>2, <4>1
      <4> QED
        BY <4>2
    <3> QED
      BY <3>1, <3>2
  <2> QED
    BY <1>4, <2>1, <2>2, <2>5 DEF Range
<1>6. PICK r \in DOMAIN rows : row = rows[r]
  BY DEF Range
<1>7. c.name \in Names(m.columns) /\ CheckColumn(a, rows, c.name)
  BY <1>1, <1>3, <1>4, Zenon DEF AssertionsHold
<1>8. row[c.name] = Null => ~a.not_null
  BY <1>6, <1>7 DEF CheckColumn
<1>9. ASSUME NEW x \in AsFloat(row[c.name])
      PROVE  /\ \A lo \in Range(a.min) : x >= lo
             /\ \A hi \in Range(a.max) : x <= hi
  <2>1. InRange(a, x)
    BY <1>6, <1>7 DEF CheckColumn
  <2>2. ASSUME NEW s, IsList(s), Len(s) <= 1, NEW e \in Range(s) PROVE s # <<>> /\ e = s[1]
    <3>1. DOMAIN s = 1..Len(s) /\ Len(s) \in Nat
      BY <2>2, ListIsSeq
    <3>2. PICK i \in DOMAIN s : e = s[i]
      BY DEF Range
    <3> QED
      BY <2>2, <3>1, <3>2
  <2> QED
    BY <1>5, <2>1, <2>2 DEF InRange
<1> QED
  BY <1>3, <1>4, <1>7, <1>8, <1>9

\* A mapping that writes has read no row that breaks an assertion of its table,
\* duplicates included: for every accepted config, lake and order of failures.
THEOREM OnlySoundRows == Spec => []RowsSound
<1>1. Shaped /\ Listing /\ Downloads /\ Outcomes /\ Registry /\ Computed => RowsSound
  <2> SUFFICES ASSUME Shaped, Listing, Downloads, Outcomes, Registry, Computed,
                      NEW k \in DOMAIN results, Fine(results[k]),
                      NEW row \in Range(RowsRead(cfg.mappings[k]))
               PROVE  Sound(ById(cfg.tables, cfg.mappings[k].table), row)
    BY Zenon DEF RowsSound, Written, Fine
  <2>1. PICK m : m = cfg.mappings[k]
    OBVIOUS
  <2>2. PICK got : got = IngestMany(cfg, m, [i \in DOMAIN MappingFiles(m) |->
                                              lake[MappingFiles(m)[i]]], matchers)
    OBVIOUS
  <2>3. /\ k \in DOMAIN cfg.mappings /\ Fine(got) /\ m.table \in Ids(cfg.tables)
        /\ AssertionsHold(ById(cfg.tables, m.table), got.value, Names(m.columns))
    BY <2>1, <2>2, WrittenRows
  <2>4. Validate(cfg)
    <3>1. results # <<>>
      OBVIOUS
    <3>2. pc \in {"map", "completed", "Cancelled"}
      BY <3>1 DEF Outcomes
    <3> QED
      BY <3>2 DEF Registry
  <2>5. row \in Range(RowsRead(m))
    BY <2>1
  <2>6. PICK n \in DOMAIN MappingFiles(m) :
          Fine(ReadOf(m, n)) /\ row \in Range(ReadOf(m, n).value)
    BY <2>1, <2>3, <2>4, <2>5, RowsReadFacts
  <2>7. DOMAIN row = Names(m.columns)
    BY <2>1, <2>3, <2>4, <2>6, IngestRows DEF IsFrame
  <2>8. row \in Range(got.value)
    BY <2>1, <2>2, <2>3, <2>4, <2>5, UnitedRows
  <2>9. Sound(ById(cfg.tables, m.table), row)
    BY <2>3, <2>7, <2>8, AssertedIsSound
  <2> QED
    BY <2>1, <2>9
<1> QED
  BY <1>1, ShapedInv, ListingInv, DownloadsInv, OutcomesInv, RegistryInv, ComputedInv, PTL

-----------------------------------------------------------------------------
\* Lookups

\* Rows of a dimension as they are deserialized.
RowsShaped(rows) == IsList(rows) /\ \A i \in DOMAIN rows : RowShape(rows[i])

\* The rows as the matcher keeps them, and the cell of a row it answers with.
Folded(dim, rows) ==
    [i \in DOMAIN rows |->
        [rows[i] EXCEPT !.patterns = [j \in DOMAIN @ |-> Fold(dim, @[j])]]]

\* A value of a row, null where the row is short.
CellOf(row, v) == IF v \in DOMAIN row.values THEN row.values[v] ELSE Null

\* Folding touches the patterns alone.
LEMMA FoldedRow ==
    ASSUME NEW dim, NEW rows, NEW i \in DOMAIN rows, RowShape(rows[i])
    PROVE  /\ Folded(dim, rows)[i].values = rows[i].values
           /\ Folded(dim, rows)[i].priority = rows[i].priority
           /\ DOMAIN Folded(dim, rows)[i].patterns = DOMAIN rows[i].patterns
           /\ \A j \in DOMAIN rows[i].patterns :
                 Folded(dim, rows)[i].patterns[j] = Fold(dim, rows[i].patterns[j])
<1> DEFINE P == [j \in DOMAIN rows[i].patterns |-> Fold(dim, rows[i].patterns[j])]
<1>1. PICK x, y, z : rows[i] = [patterns |-> x, values |-> y, priority |-> z]
  BY DEF RowShape
<1>2. Folded(dim, rows)[i] = [rows[i] EXCEPT !.patterns = P]
  BY DEF Folded
<1>3. /\ Folded(dim, rows)[i].patterns = P
      /\ Folded(dim, rows)[i].values = rows[i].values
      /\ Folded(dim, rows)[i].priority = rows[i].priority
  <2> HIDE DEF P
  <2> QED
    BY <1>1, <1>2
<1> QED
  BY <1>3

\* What a matcher that was accepted consists of.
LEMMA NewMatcherOk ==
    ASSUME NEW dim, NEW rows, Accepted(dim, rows)
    PROVE  /\ dim.match = "exact" => ~HasDuplicateKey(Folded(dim, rows))
           /\ NewMatcher(dim, rows).value =
                [dim   |-> dim, rows |-> Folded(dim, rows),
                 index |-> IF dim.match = "exact" THEN ExactIndex(Folded(dim, rows)) ELSE <<>>]
<1>1. PICK e1, e2 : e1 = Error("TooManyRows") /\ e2 = Error("DuplicateKey")
  OBVIOUS
<1>2. ~Fine(e1) /\ ~Fine(e2)
  BY <1>1, ErrorsAreNotFine DEF Causes
<1>3. \/ NewMatcher(dim, rows) = e1
      \/ NewMatcher(dim, rows) = e2
      \/ /\ ~(dim.match = "exact" /\ HasDuplicateKey(Folded(dim, rows)))
         /\ NewMatcher(dim, rows) =
               Ok([dim |-> dim, rows |-> Folded(dim, rows),
                   index |-> IF dim.match = "exact" THEN ExactIndex(Folded(dim, rows)) ELSE <<>>])
  BY <1>1 DEF NewMatcher, Folded
<1> QED
  BY <1>2, <1>3, OkIsFine DEF Accepted

\* Without duplicate keys the index gives a key the row that has it.
LEMMA IndexFinds ==
    ASSUME NEW rows, ~HasDuplicateKey(rows), NEW s
    PROVE  /\ s \in DOMAIN ExactIndex(rows) <=>
                \E i \in DOMAIN rows :
                    \E j \in DOMAIN rows[i].patterns : rows[i].patterns[j] = s
           /\ \A i \in DOMAIN rows : \A j \in DOMAIN rows[i].patterns :
                rows[i].patterns[j] = s => ExactIndex(rows)[s] = i
<1>1. \A ij : ij \in PatternsOf(rows) <=>
                 \E i \in DOMAIN rows : \E j \in DOMAIN rows[i].patterns : ij = <<i, j>>
  BY DEF PatternsOf
<1>2. \A i \in DOMAIN rows : \A j \in DOMAIN rows[i].patterns :
         <<i, j>> \in PatternsOf(rows) /\ PatternAt(rows, <<i, j>>) = rows[i].patterns[j]
  BY <1>1 DEF PatternAt
<1>3. s \in DOMAIN ExactIndex(rows) <=>
        \E ij \in PatternsOf(rows) : PatternAt(rows, ij) = s
  BY DEF ExactIndex
<1>4. ASSUME NEW i \in DOMAIN rows, NEW j \in DOMAIN rows[i].patterns,
             rows[i].patterns[j] = s
      PROVE  ExactIndex(rows)[s] = i
  <2> DEFINE found == CHOOSE ij \in PatternsOf(rows) : PatternAt(rows, ij) = s
  <2>1. <<i, j>> \in PatternsOf(rows) /\ PatternAt(rows, <<i, j>>) = s
    BY <1>2, <1>4
  <2>2. found \in PatternsOf(rows) /\ PatternAt(rows, found) = s
    BY <2>1
  <2>3. found = <<i, j>>
    BY <2>1, <2>2 DEF HasDuplicateKey
  <2>4. ExactIndex(rows)[s] = found[1]
    BY <2>1 DEF ExactIndex
  <2> HIDE DEF found
  <2> QED
    BY <2>3, <2>4
<1>5. (\E ij \in PatternsOf(rows) : PatternAt(rows, ij) = s) <=>
        \E i \in DOMAIN rows : \E j \in DOMAIN rows[i].patterns : rows[i].patterns[j] = s
  <2>1. ASSUME NEW ij \in PatternsOf(rows), PatternAt(rows, ij) = s
        PROVE  \E i \in DOMAIN rows :
                   \E j \in DOMAIN rows[i].patterns : rows[i].patterns[j] = s
    <3>1. PICK i \in DOMAIN rows : \E j \in DOMAIN rows[i].patterns : ij = <<i, j>>
      BY <1>1
    <3>2. PICK j \in DOMAIN rows[i].patterns : ij = <<i, j>>
      BY <3>1
    <3> QED
      BY <1>2, <2>1, <3>2
  <2> QED
    BY <1>2, <2>1
<1> QED
  BY <1>3, <1>4, <1>5

\* A row matches if its folded patterns do.
LEMMA MatchFolded ==
    ASSUME NEW dim, NEW rows, RowsShaped(rows), NEW input, NEW i \in DOMAIN rows
    PROVE  LET s == Fold(dim, input)
               row == Folded(dim, rows)[i]
           IN  /\ dim.match = "exact" =>
                     (RowMatches(dim, rows[i], input) <=>
                        \E j \in DOMAIN row.patterns : row.patterns[j] = s)
               /\ dim.match # "exact" => (RowMatches(dim, rows[i], input) <=> Hit(row, s))
<1>1. PICK row : row = Folded(dim, rows)[i]
  OBVIOUS
<1>2. RowShape(rows[i])
  BY DEF RowsShaped
<1>3. DOMAIN row.patterns = DOMAIN rows[i].patterns
      /\ \A j \in DOMAIN rows[i].patterns : row.patterns[j] = Fold(dim, rows[i].patterns[j])
  BY <1>1, <1>2, FoldedRow
<1>4. RowMatches(dim, rows[i], input) <=>
        \E j \in DOMAIN row.patterns :
            IF dim.match = "exact" THEN row.patterns[j] = Fold(dim, input)
            ELSE Occurs(row.patterns[j], Fold(dim, input))
  BY <1>3 DEF RowMatches
<1>5. CASE dim.match = "exact"
  BY <1>1, <1>4, <1>5
<1>6. CASE dim.match # "exact"
  BY <1>1, <1>4, <1>6 DEF Hit
<1> QED
  BY <1>5, <1>6

\* The rows that match, and the claim that row b is the best of them.
HitsOf(dim, rows, input) == {i \in DOMAIN rows : RowMatches(dim, rows[i], input)}

\* Row i comes before row j: of higher priority, or the same and earlier.
Beats(rows, i, j) ==
    rows[i].priority > rows[j].priority \/ (rows[i].priority = rows[j].priority /\ i < j)

\* The best of the rows that match is the only one.
LEMMA SpecAnswers ==
    ASSUME NEW dim, NEW rows, RowsShaped(rows), NEW input, NEW v,
           NEW b \in HitsOf(dim, rows, input),
           \A j \in HitsOf(dim, rows, input) \ {b} : Beats(rows, b, j)
    PROVE  LookupSpec(dim, rows, input, v) = CellOf(rows[b], v)
<1> DEFINE hits == HitsOf(dim, rows, input)
           P(i) == \A j \in hits \ {i} : Beats(rows, i, j)
           best == CHOOSE i \in hits : P(i)
<1>1. LookupSpec(dim, rows, input, v) =
        IF hits = {} THEN OnMiss(dim, input)
        ELSE IF v \in DOMAIN rows[best].values THEN rows[best].values[v] ELSE Null
  BY DEF LookupSpec, HitsOf, Beats
<1>2. \A i \in hits : i \in Nat /\ rows[i].priority \in Int
  BY ListIsSeq DEF RowsShaped, RowShape, HitsOf
<1>3. b \in hits /\ P(b)
  OBVIOUS
<1>4. ASSUME NEW i \in hits, P(i) PROVE i = b
  <2> SUFFICES ASSUME i # b PROVE FALSE
    OBVIOUS
  <2>1. Beats(rows, i, b) /\ Beats(rows, b, i)
    BY <1>3, <1>4
  <2> HIDE DEF hits
  <2> QED
    BY <1>2, <1>3, <2>1 DEF Beats
<1>5. best = b
  <2> HIDE DEF hits, P
  <2> QED
    BY <1>3, <1>4
<1> HIDE DEF hits, best
<1> QED
  BY <1>1, <1>3, <1>5 DEF CellOf

\* Without a matching row the rows give the miss policy.
LEMMA SpecMisses ==
    ASSUME NEW dim, NEW rows, NEW input, NEW v, HitsOf(dim, rows, input) = {}
    PROVE  LookupSpec(dim, rows, input, v) = OnMiss(dim, input)
  BY DEF LookupSpec, HitsOf

\* Row b is the best of the first n rows for s, 0 if none matches.
BestOf(b, rows, s, n) ==
    /\ b \in 0..n
    /\ b = 0 => \A i \in 1..n : ~Hit(rows[i], s)
    /\ b # 0 => Hit(rows[b], s) /\ \A j \in 1..n : Hit(rows[j], s) /\ j # b => Beats(rows, b, j)

\* One turn of the loop.
Turn(rows, s, n, b) ==
    IF Hit(rows[n], s) /\ (b = 0 \/ rows[b].priority < rows[n].priority) THEN n ELSE b

\* A turn of the loop of lookup keeps the best row so far.
LEMMA TurnKeepsBest ==
    ASSUME NEW rows, NEW s, NEW n \in Nat, \A i \in 1..(n + 1) : rows[i].priority \in Int,
           NEW b, BestOf(b, rows, s, n)
    PROVE  BestOf(Turn(rows, s, n + 1, b), rows, s, n + 1)
<1>1. 1..(n + 1) = (1..n) \cup {n + 1} /\ n + 1 # 0 /\ b \in 0..n /\ b # n + 1
  BY DEF BestOf
<1>2. CASE ~Hit(rows[n + 1], s)
  <2>1. Turn(rows, s, n + 1, b) = b
    BY <1>2 DEF Turn
  <2> QED
    BY <1>1, <1>2, <2>1 DEF BestOf
<1>3. CASE Hit(rows[n + 1], s) /\ b = 0
  <2>1. Turn(rows, s, n + 1, b) = n + 1
    BY <1>3 DEF Turn
  <2> QED
    BY <1>1, <1>3, <2>1 DEF BestOf
<1>4. CASE Hit(rows[n + 1], s) /\ b # 0 /\ rows[b].priority < rows[n + 1].priority
  <2>1. Turn(rows, s, n + 1, b) = n + 1
    BY <1>4 DEF Turn
  <2>2. ASSUME NEW j \in 1..n, Hit(rows[j], s) PROVE Beats(rows, n + 1, j)
    <3>1. j = b \/ Beats(rows, b, j)
      BY <1>4, <2>2 DEF BestOf
    <3>2. rows[b].priority \in Int /\ rows[j].priority \in Int /\ rows[n + 1].priority \in Int
      BY <1>1, <1>4
    <3>3. rows[n + 1].priority > rows[j].priority
      BY <1>4, <3>1, <3>2 DEF Beats
    <3> QED
      BY <3>3 DEF Beats
  <2> QED
    BY <1>1, <1>4, <2>1, <2>2 DEF BestOf
<1>5. CASE Hit(rows[n + 1], s) /\ b # 0 /\ ~(rows[b].priority < rows[n + 1].priority)
  <2>1. Turn(rows, s, n + 1, b) = b
    BY <1>5 DEF Turn
  <2>2. Beats(rows, b, n + 1)
    <3>1. rows[b].priority \in Int /\ rows[n + 1].priority \in Int /\ b < n + 1
      BY <1>1, <1>5
    <3> QED
      BY <1>5, <3>1 DEF Beats
  <2> QED
    BY <1>1, <1>5, <2>1, <2>2 DEF BestOf
<1> QED
  BY <1>2, <1>3, <1>4, <1>5

\* The loop of lookup finds the best row.
LEMMA BestRowIsBest ==
    ASSUME NEW rows, NEW s, NEW N \in Nat, N = Len(rows),
           \A i \in 1..N : rows[i].priority \in Int
    PROVE  BestOf(BestRow(rows, s), rows, s, N)
<1> DEFINE L(f) == f = [i \in 0..N |-> IF i = 0 THEN 0 ELSE Turn(rows, s, i, f[i - 1])]
           best == CHOOSE f : L(f)
<1>1. BestRow(rows, s) = best[N]
  BY DEF BestRow, Turn
<1>2. \E f : L(f)
  <2>1. PICK F : F = [n \in 1..N |-> [b \in 0..N |-> Turn(rows, s, n, b)]]
    OBVIOUS
  <2>2. PICK A, z : A = 0..N /\ z = 0
    OBVIOUS
  <2>3. StepsOn(F, A, N)
    BY <2>1, <2>2 DEF StepsOn, Turn
  <2>4. PICK g : Iteration(g, F, A, z, N)
    <3>1. z \in A /\ N \in Nat
      BY <2>2
    <3> QED
      BY <2>3, <3>1, Iterates
  <2>5. ASSUME NEW n \in 1..N PROVE g[n] = Turn(rows, s, n, g[n - 1])
    <3>1. n - 1 \in 0..N
      OBVIOUS
    <3>2. g[n - 1] \in 0..N
      BY <2>2, <2>4, <3>1 DEF Iteration
    <3> QED
      BY <2>1, <2>4, <3>2 DEF Iteration
  <2>6. g = [i \in 0..N |-> g[i]] /\ g[0] = 0
    BY <2>2, <2>4 DEF Iteration
  <2>7. \A i \in 0..N : g[i] = IF i = 0 THEN 0 ELSE Turn(rows, s, i, g[i - 1])
    <3> SUFFICES ASSUME NEW i \in 0..N
                 PROVE  g[i] = IF i = 0 THEN 0 ELSE Turn(rows, s, i, g[i - 1])
      OBVIOUS
    <3>1. i # 0 => i \in 1..N
      OBVIOUS
    <3>2. i # 0 => g[i] = Turn(rows, s, i, g[i - 1])
      BY <2>5, <3>1
    <3> QED
      BY <2>6, <3>2
  <2>8. L(g)
    BY <2>6, <2>7
  <2> QED
    BY <2>8
<1>3. L(best)
  <2> HIDE DEF L
  <2> QED
    BY <1>2
<1>4. \A i \in 0..N : best[i] = IF i = 0 THEN 0 ELSE Turn(rows, s, i, best[i - 1])
  <2> HIDE DEF best
  <2> QED
    BY <1>3
<1> HIDE DEF best, L
<1> DEFINE T == {n \in 0..N : BestOf(best[n], rows, s, n)}
<1>5. 0 \in T
  BY <1>4 DEF BestOf
<1>6. ASSUME NEW n \in 0..(N - 1), n \in T PROVE n + 1 \in T
  <2>1. n \in Nat /\ n + 1 \in 0..N /\ n + 1 # 0 /\ (n + 1) - 1 = n
    OBVIOUS
  <2>2. best[n + 1] = Turn(rows, s, n + 1, best[n])
    BY <1>4, <2>1
  <2>3. \A i \in 1..(n + 1) : rows[i].priority \in Int
    OBVIOUS
  <2>4. BestOf(best[n], rows, s, n)
    BY <1>6
  <2>5. BestOf(best[n + 1], rows, s, n + 1)
    BY <2>1, <2>2, <2>3, <2>4, TurnKeepsBest
  <2> QED
    BY <2>1, <2>5
<1>7. \A n \in 0..N : n \in T
  <2> HIDE DEF T
  <2> QED
    BY <1>5, <1>6, Inducts
<1>8. BestOf(best[N], rows, s, N)
  <2>1. N \in 0..N
    OBVIOUS
  <2>2. N \in T
    BY <1>7, <2>1
  <2> QED
    BY <2>2
<1> QED
  BY <1>1, <1>8

\* The row that a matcher answers with, 0 for none.
RowFor(matcher, s) ==
    IF matcher.dim.match = "keyword" THEN BestRow(matcher.rows, s)
    ELSE IF s \in DOMAIN matcher.index THEN matcher.index[s] ELSE 0

\* The matcher of a dimension answers with the best row that matches.
LEMMA RowForIsBest ==
    ASSUME NEW dim, NEW rows, dim.match \in {"exact", "keyword"}, RowsShaped(rows),
           Accepted(dim, rows), NEW input
    PROVE  LET b == RowFor(NewMatcher(dim, rows).value, Fold(dim, input))
               hits == HitsOf(dim, rows, input)
           IN  \/ b = 0 /\ hits = {}
               \/ b \in hits /\ b # 0 /\ \A j \in hits \ {b} : Beats(rows, b, j)
<1>1. PICK M : M = NewMatcher(dim, rows).value
  OBVIOUS
<1>2. PICK fs : fs = Folded(dim, rows)
  OBVIOUS
<1>3. PICK s : s = Fold(dim, input)
  OBVIOUS
<1>4. PICK hits : hits = HitsOf(dim, rows, input)
  OBVIOUS
<1>5. M = [dim |-> dim, rows |-> fs,
           index |-> IF dim.match = "exact" THEN ExactIndex(fs) ELSE <<>>]
  BY <1>1, <1>2, NewMatcherOk
<1>6. DOMAIN rows = 1..Len(rows) /\ Len(rows) \in Nat
  BY ListIsSeq DEF RowsShaped
<1>7. DOMAIN fs = DOMAIN rows
  BY <1>2 DEF Folded
<1>8. CASE dim.match = "keyword"
  <2>1. RowFor(M, s) = BestRow(fs, s)
    BY <1>5, <1>8 DEF RowFor
  <2>2. PICK n : n = Len(rows)
    OBVIOUS
  <2>3. n = Len(fs) /\ n \in Nat
    <3>1. fs = [i \in 1..n |-> fs[i]]
      BY <1>2, <1>6, <2>2 DEF Folded
    <3> QED
      BY <1>6, <2>2, <3>1
  <2>4. \A i \in 1..n : fs[i].priority = rows[i].priority /\ rows[i].priority \in Int
    BY <1>2, <1>6, <2>2, FoldedRow DEF RowsShaped, RowShape
  <2>5. BestOf(BestRow(fs, s), fs, s, n)
    BY <2>3, <2>4, BestRowIsBest
  <2>6. \A i \in 1..n : i \in hits <=> Hit(fs[i], s)
    BY <1>2, <1>3, <1>4, <1>6, <1>8, <2>2, MatchFolded DEF HitsOf
  <2>7. hits \subseteq 1..n
    BY <1>4, <1>6, <2>2 DEF HitsOf
  <2>8. PICK b : b = BestRow(fs, s)
    OBVIOUS
  <2>9. CASE b = 0
    <3>1. hits = {}
      BY <2>5, <2>6, <2>7, <2>8, <2>9 DEF BestOf
    <3> QED
      BY <1>1, <1>3, <1>4, <2>1, <2>8, <2>9, <3>1
  <2>10. CASE b # 0
    <3>1. b \in 1..n /\ Hit(fs[b], s)
      BY <2>3, <2>5, <2>8, <2>10 DEF BestOf
    <3>2. \A j \in hits \ {b} : Beats(fs, b, j)
      BY <2>5, <2>6, <2>7, <2>8, <2>10 DEF BestOf
    <3>3. \A j \in hits \ {b} : Beats(rows, b, j)
      BY <2>4, <2>7, <3>1, <3>2 DEF Beats
    <3>4. b \in hits
      BY <2>6, <3>1
    <3> QED
      BY <1>1, <1>3, <1>4, <2>1, <2>8, <2>10, <3>3, <3>4
  <2> QED
    BY <2>9, <2>10
<1>9. CASE dim.match = "exact"
  <2> DEFINE index == ExactIndex(fs)
  <2>1. RowFor(M, s) = IF s \in DOMAIN index THEN index[s] ELSE 0
    BY <1>5, <1>9 DEF RowFor
  <2>2. ~HasDuplicateKey(fs)
    BY <1>2, <1>9, NewMatcherOk
  <2>3. \A i \in DOMAIN rows :
           i \in hits <=> \E j \in DOMAIN fs[i].patterns : fs[i].patterns[j] = s
    BY <1>2, <1>3, <1>4, <1>9, MatchFolded DEF HitsOf
  <2>4. hits \subseteq DOMAIN rows
    BY <1>4 DEF HitsOf
  <2>5. /\ s \in DOMAIN index <=>
              \E i \in DOMAIN fs : \E j \in DOMAIN fs[i].patterns : fs[i].patterns[j] = s
        /\ \A i \in DOMAIN fs : \A j \in DOMAIN fs[i].patterns :
              fs[i].patterns[j] = s => index[s] = i
    BY <2>2, IndexFinds
  <2> HIDE DEF index
  <2>6. s \in DOMAIN index <=> hits # {}
    BY <1>7, <2>3, <2>4, <2>5
  <2>7. \A i \in hits : index[s] = i
    BY <1>7, <2>3, <2>4, <2>5
  <2>8. CASE hits = {}
    BY <1>1, <1>3, <1>4, <2>1, <2>6, <2>8
  <2>9. CASE hits # {}
    <3>1. PICK b : b \in hits
      BY <2>9
    <3>2. RowFor(M, s) = b /\ hits = {b}
      BY <2>1, <2>6, <2>7, <3>1
    <3>3. b # 0
      BY <1>6, <2>4, <3>1
    <3> QED
      BY <1>1, <1>3, <1>4, <3>1, <3>2, <3>3
  <2> QED
    BY <2>8, <2>9
<1> QED
  BY <1>8, <1>9

\* A dimension that is accepted answers every input, in every value column,
\* with the row of highest priority that matches it, the first of these, up
\* to case where the dimension folds it, and with the miss policy if no row
\* matches: what the hash index and the loop of lookup find is what the rows
\* say.
THEOREM LookupAnswers ==
    ASSUME NEW dim, NEW rows, dim.match \in {"exact", "keyword"}, RowsShaped(rows),
           Accepted(dim, rows), NEW input, NEW v
    PROVE  Lookup(NewMatcher(dim, rows).value, input, v) = LookupSpec(dim, rows, input, v)
<1>1. PICK M : M = NewMatcher(dim, rows).value
  OBVIOUS
<1>2. PICK b : b = RowFor(M, Fold(dim, input))
  OBVIOUS
<1>3. M.dim = dim /\ M.rows = Folded(dim, rows)
  <2>1. PICK x : x = IF dim.match = "exact" THEN ExactIndex(Folded(dim, rows)) ELSE <<>>
    OBVIOUS
  <2>2. M = [dim |-> dim, rows |-> Folded(dim, rows), index |-> x]
    BY <1>1, <2>1, NewMatcherOk
  <2> QED
    BY <2>2
<1>4. Lookup(M, input, v) = IF b = 0 THEN OnMiss(dim, input) ELSE CellOf(M.rows[b], v)
  BY <1>2, <1>3 DEF Lookup, RowFor, CellOf
<1>5. CASE b = 0 /\ HitsOf(dim, rows, input) = {}
  <2>1. Lookup(M, input, v) = OnMiss(dim, input)
    BY <1>4, <1>5
  <2>2. LookupSpec(dim, rows, input, v) = OnMiss(dim, input)
    BY <1>5, SpecMisses
  <2> QED
    BY <1>1, <2>1, <2>2
<1>6. CASE /\ b \in HitsOf(dim, rows, input) /\ b # 0
           /\ \A j \in HitsOf(dim, rows, input) \ {b} : Beats(rows, b, j)
  <2>1. LookupSpec(dim, rows, input, v) = CellOf(rows[b], v)
    BY <1>6, SpecAnswers
  <2>2. b \in DOMAIN rows /\ RowShape(rows[b])
    BY <1>6 DEF HitsOf, RowsShaped
  <2>3. Folded(dim, rows)[b].values = rows[b].values
    BY <2>2, FoldedRow
  <2>4. CellOf(M.rows[b], v) = CellOf(rows[b], v)
    BY <1>3, <2>3 DEF CellOf
  <2> QED
    BY <1>1, <1>4, <1>6, <2>1, <2>4
<1> QED
  BY <1>1, <1>2, <1>5, <1>6, RowForIsBest

\* A sequence is a vector.
LEMMA SeqIsList ==
    ASSUME NEW S, NEW s \in Seq(S)
    PROVE  IsList(s)
<1>1. Len(s) \in Nat /\ s = [i \in 1..Len(s) |-> s[i]]
  OBVIOUS
<1> QED
  BY <1>1 DEF IsList

\* The concatenation of lists of rows.
LEMMA RowsUnite ==
    ASSUME NEW ss, NEW n \in Nat, ss = [i \in 1..n |-> ss[i]],
           \A i \in 1..n : RowsShaped(ss[i])
    PROVE  RowsShaped(FlattenSeq(ss))
<1> DEFINE S == UNION {Range(ss[i]) : i \in 1..n}
<1>1. DOMAIN ss = 1..n
  OBVIOUS
<1>2. ASSUME NEW i \in 1..n PROVE ss[i] \in Seq(S)
  <2>1. ss[i] \in Seq(Range(ss[i]))
    BY ListIsSeq DEF RowsShaped
  <2>2. Range(ss[i]) \subseteq S
    OBVIOUS
  <2> HIDE DEF S
  <2> QED
    BY <2>1, <2>2
<1>3. ss \in Seq(Seq(S))
  <2> HIDE DEF S
  <2>1. ss \in [1..n -> Seq(S)]
    BY <1>2
  <2> QED
    BY <2>1
<1>4. ASSUME NEW x \in S PROVE RowShape(x)
  BY DEF RowsShaped, Range
<1> HIDE DEF S
<1>5. FlattenSeq(ss) \in Seq(S)
  BY <1>3, RangeOfFlatten
<1>6. PICK q : q = FlattenSeq(ss)
  OBVIOUS
<1>7. IsList(q) /\ \A i \in DOMAIN q : q[i] \in S
  <2>1. q \in Seq(S)
    BY <1>5, <1>6
  <2>2. IsList(q)
    BY <2>1, SeqIsList
  <2>3. \A i \in DOMAIN q : q[i] \in S
    BY <2>1
  <2> QED
    BY <2>2, <2>3
<1> QED
  BY <1>4, <1>6, <1>7 DEF RowsShaped

\* A priority that parses is a number.
LEMMA PriorityIsInt == \A s : ParseInt(s) # Null => ParseInt(s)[2] \in Int
  BY DEF ParseInt, IntCell, Null

\* A line of a reference file gives at most one row.
LEMMA RowOfShape ==
    ASSUME NEW dim, NEW header, NEW fields
    PROVE  RowsShaped(RowOf(dim, header, fields))
<1> DEFINE p == ParseInt(FieldOr(fields, IndexOf(header, dim.priority), <<>>))
           n == IF p = Null THEN 0 ELSE p[2]
<1>1. n \in Int
  BY PriorityIsInt
<1>2. \/ RowOf(dim, header, fields) = <<>>
      \/ \E x, y : RowOf(dim, header, fields) =
                      <<[patterns |-> x, values |-> y, priority |-> n]>>
  BY DEF RowOf
<1> HIDE DEF n, p
<1>3. ASSUME NEW x, NEW y
      PROVE  RowsShaped(<<[patterns |-> x, values |-> y, priority |-> n]>>)
  <2>1. PICK row : row = [patterns |-> x, values |-> y, priority |-> n]
    OBVIOUS
  <2>2. row.patterns = x /\ row.values = y /\ row.priority = n
    BY <2>1
  <2>3. RowShape(row)
    BY <1>1, <2>1, <2>2 DEF RowShape
  <2>4. <<row>> \in Seq({row})
    OBVIOUS
  <2>5. IsList(<<row>>)
    BY <2>4, SeqIsList
  <2>6. \A i \in DOMAIN <<row>> : <<row>>[i] = row
    OBVIOUS
  <2> QED
    BY <2>1, <2>3, <2>5, <2>6 DEF RowsShaped
<1>4. RowsShaped(<<>>)
  BY DEF RowsShaped, IsList
<1> QED
  BY <1>2, <1>3, <1>4

\* A reference file gives rows.
LEMMA CsvGivesRows ==
    ASSUME NEW dim, NEW text, IsList(text), Fine(RowsFromCsv(dim, text))
    PROVE  RowsShaped(RowsFromCsv(dim, text).value)
<1> DEFINE lines == Kept(text, {n \in DOMAIN text :
                                   \E i \in DOMAIN text[n] : text[n][i] # " "})
           header == SplitCsvLine(Head(lines))
           ss == [i \in DOMAIN Tail(lines) |-> RowOf(dim, header, SplitCsvLine(Tail(lines)[i]))]
           r == RowsFromCsv(dim, text)
<1>1. PICK e1, e2, e3 :
         e1 = Error("FileRead") /\ e2 = Error("MissingColumn") /\ e3 = Error("TooManyRows")
  OBVIOUS
<1>2. ~Fine(e1) /\ ~Fine(e2) /\ ~Fine(e3)
  BY <1>1, ErrorsAreNotFine DEF Causes
<1>3. \/ r = e1 \/ r = e2 \/ r = e3
      \/ r = Ok(FlattenSeq(ss)) /\ lines # <<>>
  BY <1>1, Zenon DEF RowsFromCsv
<1>4. IsRows(lines)
  <2>1. IsRows(text)
    BY ListIsRows
  <2> QED
    BY <2>1, KeptIsRows
<1> HIDE DEF r, lines
<1>5. r = Ok(FlattenSeq(ss)) /\ lines # <<>>
  <2> HIDE DEF ss
  <2> QED
    BY <1>2, <1>3 DEF r
<1>6. PICK n \in Nat : DOMAIN Tail(lines) = 1..n
  <2>1. PICK S : S = Range(lines)
    OBVIOUS
  <2>2. lines \in Seq(S) /\ lines # <<>>
    BY <1>4, <1>5, <2>1 DEF IsRows
  <2>3. Tail(lines) \in Seq(S)
    BY <2>2
  <2>4. Len(Tail(lines)) \in Nat /\ DOMAIN Tail(lines) = 1..Len(Tail(lines))
    BY <2>3
  <2> QED
    BY <2>4
<1>7. ss = [i \in 1..n |-> ss[i]] /\ \A i \in 1..n : RowsShaped(ss[i])
  BY <1>6, RowOfShape
<1> HIDE DEF ss
<1>8. RowsShaped(FlattenSeq(ss))
  BY <1>7, RowsUnite
<1> QED
  BY <1>5, <1>8, OkIsFine DEF r

\* The files of a dimension of the config give rows.
LEMMA FilesGiveRows ==
    ASSUME Shaped, NEW d \in DOMAIN cfg.dims, cfg.dims[d].file, Fine(FileRows(cfg.dims[d]))
    PROVE  RowsShaped(FileRows(cfg.dims[d]).value)
<1>1. PICK dim : dim = cfg.dims[d]
  OBVIOUS
<1> DEFINE listed == ListKeys(dim.prefix)
           I == {i \in DOMAIN listed : HasExtension(listed[i], {<<".csv">>})}
           csv == Kept(listed, I)
           read == [i \in DOMAIN csv |-> RowsFromCsv(dim, lake[csv[i]].content.lines)]
           bad == {i \in DOMAIN read : ~Fine(read[i])}
           first == CHOOSE i \in bad : \A j \in bad : i <= j
           ss == [i \in DOMAIN read |-> read[i].value]
           r == FileRows(dim)
<1>2. r = IF bad # {} THEN read[first] ELSE Ok(FlattenSeq(ss))
  BY Zenon DEF FileRows, JoinRows, Fine
<1>3. /\ listed \in Seq(DOMAIN lake)
      /\ \A k \in DOMAIN listed : StartsWith(lake[listed[k]].key, dim.prefix)
  BY ListKeysFacts
<1>4. \A i \in I : EndsWith(lake[listed[i]].key, <<".csv">>)
  BY DEF HasExtension
<1>5. /\ csv \in Seq(DOMAIN lake)
      /\ \A k \in DOMAIN csv : \E i \in DOMAIN listed : i \in I /\ csv[k] = listed[i]
  <2> HIDE DEF listed, I
  <2> QED
    BY <1>3, KeptFacts
<1>6. ASSUME NEW k \in DOMAIN csv
      PROVE  IsList(lake[csv[k]].content.lines)
  <2>1. PICK i \in DOMAIN listed : i \in I /\ csv[k] = listed[i]
    BY <1>5
  <2>2. csv[k] \in DOMAIN lake
    BY <1>5
  <2>3. ReferenceShape(dim, lake[csv[k]])
    BY <1>1, <2>2 DEF Shaped, ScenarioShape, cfg, lake
  <2>4. StartsWith(lake[csv[k]].key, dim.prefix) /\ EndsWith(lake[csv[k]].key, <<".csv">>)
    BY <1>3, <1>4, <2>1
  <2> HIDE DEF csv
  <2> QED
    BY <1>1, <2>3, <2>4 DEF ReferenceShape
<1>7. PICK n : n = Len(csv)
  OBVIOUS
<1>8. n \in Nat /\ DOMAIN csv = 1..n
  BY <1>5, <1>7
<1>9. Fine(r)
  BY <1>1
<1>10. bad = {}
  <2> SUFFICES ASSUME bad # {} PROVE FALSE
    OBVIOUS
  <2>1. bad \subseteq Nat
    <3> HIDE DEF csv
    <3> QED
      BY <1>8
  <2>2. \E i \in bad : \A j \in bad : i <= j
    <3> HIDE DEF bad
    <3> QED
      BY <2>1, Least
  <2>3. first \in bad
    <3> HIDE DEF bad
    <3> QED
      BY <2>2
  <2>4. ~Fine(read[first])
    <3> HIDE DEF first, read
    <3> QED
      BY <2>3
  <2> HIDE DEF r, bad, read, first, ss
  <2> QED
    BY <1>2, <1>9, <2>4
<1>11. ASSUME NEW i \in 1..n PROVE RowsShaped(ss[i])
  <2>1. i \in DOMAIN csv
    BY <1>8
  <2>2. IsList(lake[csv[i]].content.lines)
    BY <1>6, <2>1
  <2>3. ss[i] = RowsFromCsv(dim, lake[csv[i]].content.lines).value
    BY <2>1
  <2>4. Fine(RowsFromCsv(dim, lake[csv[i]].content.lines))
    BY <1>10, <2>1
  <2> QED
    BY <2>2, <2>3, <2>4, CsvGivesRows
<1>12. ss = [i \in 1..n |-> ss[i]]
  <2> HIDE DEF csv
  <2> QED
    BY <1>8
<1> HIDE DEF ss, r, bad, read, first
<1>13. RowsShaped(FlattenSeq(ss))
  BY <1>8, <1>11, <1>12, RowsUnite
<1>14. r = Ok(FlattenSeq(ss))
  BY <1>2, <1>10
<1> QED
  BY <1>1, <1>13, <1>14, OkIsFine DEF r

\* In a job that maps, every matcher answers as the rows of its dimension do,
\* in the config or read from the lake, for all inputs and value columns.
Answering ==
    Mapping =>
        \A id \in DOMAIN matchers :
            LET dim == ById(cfg.dims, id)
            IN  \A w, v : Lookup(matchers[id], w, v) = LookupSpec(dim, RowsOf(dim), w, v)

\* For every lake and config, and every order in which reference files are
\* read: what the registry answers in a mapping job is what the rows of the
\* dimension say.
THEOREM MatchersAnswer == Spec => []Answering
<1>1. Shaped /\ Registry => Answering
  <2> SUFFICES ASSUME Shaped, Registry, Mapping, NEW id \in DOMAIN matchers, NEW w, NEW v
               PROVE  LET dim == ById(cfg.dims, id)
                      IN  Lookup(matchers[id], w, v) = LookupSpec(dim, RowsOf(dim), w, v)
    BY DEF Answering
  <2>1. id \in Ids(cfg.dims)
    BY DEF Registry
  <2>2. PICK d \in DOMAIN cfg.dims : cfg.dims[d].id = id
    BY <2>1 DEF Ids
  <2>3. PICK dim : dim = ById(cfg.dims, id)
    OBVIOUS
  <2>4. dim = cfg.dims[d]
    <3>1. Validate(cfg)
      BY DEF Registry, Mapping
    <3> QED
      BY <2>2, <2>3, <3>1, ValidParts, ByIdFinds
  <2>5. Built(matchers[id], dim) /\ DimShape(dim)
    BY <2>1, <2>3, Resolved
  <2>6. RowsShaped(RowsOf(dim))
    <3>1. CASE dim.file
      BY <2>4, <2>5, <3>1, FilesGiveRows DEF Built, RowsOf
    <3>2. CASE ~dim.file
      BY <2>5, <3>2 DEF RowsOf, DimShape, RowsShaped
    <3> QED
      BY <3>1, <3>2
  <2>7. /\ Accepted(dim, RowsOf(dim)) /\ matchers[id] = NewMatcher(dim, RowsOf(dim)).value
        /\ dim.match \in {"exact", "keyword"}
    BY <2>5 DEF Built, DimShape
  <2>8. Lookup(matchers[id], w, v) = LookupSpec(dim, RowsOf(dim), w, v)
    BY <2>6, <2>7, LookupAnswers
  <2> QED
    BY <2>3, <2>8
<1> QED
  BY <1>1, ShapedInv, RegistryInv, PTL

\* Where the files of the dimensions read back as the rows they were written
\* from, lookups answer as these rows do.
THEOREM LookupsMeetSpec == Spec => [](FilesReadBack => LookupMeetsSpec)
<1>1. Shaped /\ Registry /\ Answering => (FilesReadBack => LookupMeetsSpec)
  <2> SUFFICES ASSUME Shaped, Registry, Answering, FilesReadBack, Mapping,
                      NEW id \in DOMAIN matchers
               PROVE  LET dim == ById(cfg.dims, id)
                      IN  \A w, v : Lookup(matchers[id], w, v) = LookupSpec(dim, dim.rows, w, v)
    BY DEF LookupMeetsSpec
  <2>1. id \in Ids(cfg.dims)
    BY DEF Registry
  <2>2. PICK d \in DOMAIN cfg.dims : cfg.dims[d].id = id
    BY <2>1 DEF Ids
  <2>3. PICK dim : dim = ById(cfg.dims, id)
    OBVIOUS
  <2>4. dim = cfg.dims[d]
    <3>1. Validate(cfg)
      BY DEF Registry, Mapping
    <3> QED
      BY <2>2, <2>3, <3>1, ValidParts, ByIdFinds
  <2>5. Built(matchers[id], dim)
    BY <2>1, <2>3, Resolved
  <2>6. RowsOf(dim) = dim.rows
    <3>1. ASSUME dim.file PROVE FileRows(dim).value = dim.rows
      <4>1. Fine(FileRows(dim))
        BY <2>5, <3>1 DEF Built
      <4>2. Fine(FileRows(dim)) => FileRows(dim).value = dim.rows
        BY <2>4, <3>1, Zenon DEF FilesReadBack, Fine
      <4> QED
        BY <4>1, <4>2
    <3> QED
      BY <3>1 DEF RowsOf
  <2>7. \A w, v : Lookup(matchers[id], w, v) = LookupSpec(dim, RowsOf(dim), w, v)
    BY <2>3 DEF Answering
  <2> QED
    BY <2>3, <2>6, <2>7
<1> QED
  BY <1>1, ShapedInv, RegistryInv, MatchersAnswer, PTL

-----------------------------------------------------------------------------
\* Paths

\* A step leads to the member that it names, or to null if there is none.
LEMMA StepOrNull ==
    ASSUME NEW v, NEW s
    PROVE  \/ Member(v, s) = {StepTo(v, s)}
           \/ Member(v, s) = {} /\ StepTo(v, s) = Null
<1>1. CASE s[1] = "key"
  <2>1. /\ Member(v, s) = IF v[1] = "obj" /\ s[2] \in DOMAIN v[2] THEN {v[2][s[2]]} ELSE {}
        /\ StepTo(v, s) = IF v[1] = "obj" /\ s[2] \in DOMAIN v[2] THEN v[2][s[2]] ELSE Null
    BY <1>1 DEF Member, StepTo
  <2> QED
    BY <2>1
<1>2. CASE s[1] # "key"
  <2>1. /\ Member(v, s) =
             IF v[1] = "arr" /\ s[2] + 1 \in DOMAIN v[2] THEN {v[2][s[2] + 1]} ELSE {}
        /\ StepTo(v, s) =
             IF v[1] = "arr" /\ s[2] + 1 \in DOMAIN v[2] THEN v[2][s[2] + 1] ELSE Null
    BY <1>2 DEF Member, StepTo
  <2> QED
    BY <2>1
<1> QED
  BY <1>1, <1>2

\* Null has no members.
LEMMA NullIsEmpty == \A s : Member(Null, s) = {}
  BY DEF Member, Null

\* What the loop of resolve has after each step, and the values that these
\* steps name.
WalkOf(g, record, steps, N) ==
    g = [n \in 0..N |-> IF n = 0 THEN record ELSE StepTo(g[n - 1], steps[n])]

\* The values that the first steps name.
NamedBy(h, record, steps, N) ==
    h = [n \in 0..N |->
            IF n = 0 THEN {record} ELSE UNION {Member(v, steps[n]) : v \in h[n - 1]}]

\* The loop of resolve can be run.
LEMMA WalkExists ==
    ASSUME NEW record, NEW steps, NEW N \in Nat
    PROVE  \E g : WalkOf(g, record, steps, N)
<1> DEFINE T == {n \in 0..N : \E g : WalkOf(g, record, steps, n)}
<1>1. 0 \in T
  <2> DEFINE g == [n \in 0..0 |-> record]
  <2>1. WalkOf(g, record, steps, 0)
    BY DEF WalkOf
  <2> QED
    BY <2>1
<1>2. ASSUME NEW n \in 0..(N - 1), n \in T PROVE n + 1 \in T
  <2>1. PICK g : WalkOf(g, record, steps, n)
    BY <1>2
  <2> DEFINE f == [i \in 0..(n + 1) |-> IF i = n + 1 THEN StepTo(g[n], steps[n + 1]) ELSE g[i]]
  <2>2. ASSUME NEW i \in 0..(n + 1)
        PROVE  f[i] = IF i = 0 THEN record ELSE StepTo(f[i - 1], steps[i])
    <3>1. CASE i = n + 1
      <4>1. i # 0 /\ i - 1 = n /\ f[n] = g[n]
        BY <3>1
      <4> QED
        BY <3>1, <4>1
    <3>2. CASE i # n + 1
      <4>1. i \in 0..n /\ f[i] = g[i] /\ (i # 0 => f[i - 1] = g[i - 1])
        BY <3>2
      <4>2. \A j \in 0..n : g[j] = IF j = 0 THEN record ELSE StepTo(g[j - 1], steps[j])
        BY <2>1 DEF WalkOf
      <4>3. g[i] = IF i = 0 THEN record ELSE StepTo(g[i - 1], steps[i])
        BY <4>1, <4>2
      <4> HIDE DEF f
      <4> QED
        BY <4>1, <4>3
    <3> QED
      BY <3>1, <3>2
  <2>3. f = [i \in 0..(n + 1) |-> f[i]]
    OBVIOUS
  <2> HIDE DEF f
  <2>4. WalkOf(f, record, steps, n + 1)
    BY <2>2, <2>3 DEF WalkOf
  <2>5. n + 1 \in 0..N
    OBVIOUS
  <2> QED
    BY <2>4, <2>5
<1>3. N \in T
  <2> HIDE DEF T
  <2>1. \A n \in 0..N : n \in T
    BY <1>1, <1>2, Inducts
  <2> QED
    BY <2>1
<1> QED
  BY <1>3

\* The steps name values.
LEMMA NamesExist ==
    ASSUME NEW record, NEW steps, NEW N \in Nat
    PROVE  \E h : NamedBy(h, record, steps, N)
<1> DEFINE To(S, s) == UNION {Member(v, s) : v \in S}
           T == {n \in 0..N : \E h : NamedBy(h, record, steps, n)}
<1>1. 0 \in T
  <2> DEFINE h == [n \in 0..0 |-> {record}]
  <2>1. NamedBy(h, record, steps, 0)
    BY DEF NamedBy
  <2> QED
    BY <2>1
<1>2. ASSUME NEW n \in 0..(N - 1), n \in T PROVE n + 1 \in T
  <2>1. PICK h : NamedBy(h, record, steps, n)
    BY <1>2
  <2>2. \A j \in 0..n : h[j] = IF j = 0 THEN {record} ELSE To(h[j - 1], steps[j])
    BY <2>1 DEF NamedBy
  <2> DEFINE f == [i \in 0..(n + 1) |-> IF i = n + 1 THEN To(h[n], steps[n + 1]) ELSE h[i]]
  <2> HIDE DEF To
  <2>3. ASSUME NEW i \in 0..(n + 1)
        PROVE  f[i] = IF i = 0 THEN {record} ELSE To(f[i - 1], steps[i])
    <3>1. CASE i = n + 1
      <4>1. i # 0 /\ i - 1 = n /\ f[n] = h[n]
        BY <3>1
      <4> QED
        BY <3>1, <4>1
    <3>2. CASE i # n + 1
      <4>1. i \in 0..n /\ f[i] = h[i] /\ (i # 0 => f[i - 1] = h[i - 1])
        BY <3>2
      <4>2. h[i] = IF i = 0 THEN {record} ELSE To(h[i - 1], steps[i])
        BY <2>2, <4>1
      <4> HIDE DEF f
      <4> QED
        BY <4>1, <4>2
    <3> QED
      BY <3>1, <3>2
  <2>4. f = [i \in 0..(n + 1) |-> f[i]]
    OBVIOUS
  <2> HIDE DEF f
  <2>5. f = [i \in 0..(n + 1) |-> IF i = 0 THEN {record} ELSE To(f[i - 1], steps[i])]
    BY <2>3, <2>4
  <2>6. NamedBy(f, record, steps, n + 1)
    BY <2>5 DEF NamedBy, To
  <2>7. n + 1 \in 0..N
    OBVIOUS
  <2> QED
    BY <2>6, <2>7
<1>3. N \in T
  <2> HIDE DEF T
  <2>1. \A n \in 0..N : n \in T
    BY <1>1, <1>2, Inducts
  <2> QED
    BY <2>1
<1> QED
  BY <1>3

\* resolve gives the value that the steps name, null if there is none.
LEMMA ResolveIsValueAt ==
    ASSUME NEW record, NEW steps, IsList(steps)
    PROVE  Resolve(record, steps) = ValueAt(record, steps)
<1>1. PICK N : N = Len(steps)
  OBVIOUS
<1>2. N \in Nat
  BY <1>1 DEF IsList
<1> DEFINE g == CHOOSE f : WalkOf(f, record, steps, N)
           h == CHOOSE f : NamedBy(f, record, steps, N)
<1>3. WalkOf(g, record, steps, N)
  BY <1>2, WalkExists
<1>4. NamedBy(h, record, steps, N)
  BY <1>2, NamesExist
<1>5. Resolve(record, steps) = g[N]
  BY <1>1 DEF Resolve, WalkOf
<1>6. ValueAt(record, steps) = IF h[N] = {} THEN Null ELSE CHOOSE v \in h[N] : TRUE
  BY <1>1 DEF ValueAt, NamedBy
<1> HIDE DEF g, h
<1>7. \A n \in 0..N : g[n] = IF n = 0 THEN record ELSE StepTo(g[n - 1], steps[n])
  BY <1>3 DEF WalkOf
<1> DEFINE To(S, s) == UNION {Member(v, s) : v \in S}
<1>8. \A n \in 0..N : h[n] = IF n = 0 THEN {record} ELSE To(h[n - 1], steps[n])
  BY <1>4 DEF NamedBy
<1> DEFINE Both(n) == h[n] = {g[n]} \/ (h[n] = {} /\ g[n] = Null)
           T == {n \in 0..N : Both(n)}
<1>9. 0 \in T
  <2>1. 0 \in 0..N
    BY <1>2
  <2>2. g[0] = record
    BY <1>7, <2>1
  <2>3. h[0] = {record}
    <3> HIDE DEF To
    <3> QED
      BY <1>8, <2>1
  <2> QED
    BY <2>1, <2>2, <2>3
<1>10. ASSUME NEW n \in 0..(N - 1), n \in T PROVE n + 1 \in T
  <2>1. n + 1 \in 0..N /\ n + 1 # 0 /\ (n + 1) - 1 = n
    BY <1>2
  <2>2. PICK s, x, y : s = steps[n + 1] /\ x = g[n] /\ y = h[n]
    OBVIOUS
  <2>3. g[n + 1] = StepTo(x, s)
    BY <1>7, <2>1, <2>2
  <2>4. h[n + 1] = To(y, s)
    <3> HIDE DEF To
    <3> QED
      BY <1>8, <2>1, <2>2
  <2>5. y = {x} \/ (y = {} /\ x = Null)
    BY <1>10, <2>2
  <2>6. To(y, s) = {StepTo(x, s)} \/ (To(y, s) = {} /\ StepTo(x, s) = Null)
    <3>1. CASE y = {x}
      <4>1. To(y, s) = Member(x, s)
        BY <3>1
      <4> HIDE DEF To
      <4> QED
        BY <4>1, StepOrNull
    <3>2. CASE y = {} /\ x = Null
      <4>1. To(y, s) = {}
        BY <3>2
      <4>2. StepTo(x, s) = Null
        BY <3>2, StepOrNull, NullIsEmpty
      <4> QED
        BY <4>1, <4>2
    <3> QED
      BY <2>5, <3>1, <3>2
  <2> HIDE DEF To
  <2>7. Both(n + 1)
    BY <2>3, <2>4, <2>6
  <2> QED
    BY <2>1, <2>7
<1>11. N \in T
  <2> HIDE DEF T
  <2>1. \A n \in 0..N : n \in T
    BY <1>2, <1>9, <1>10, Inducts
  <2> QED
    BY <1>2, <2>1
<1>12. Both(N)
  BY <1>11
<1>13. CASE h[N] = {g[N]}
  <2>1. PICK x : x = g[N]
    OBVIOUS
  <2>2. (CHOOSE v \in {x} : TRUE) = x
    OBVIOUS
  <2> QED
    BY <1>5, <1>6, <1>13, <2>1, <2>2
<1>14. CASE h[N] = {} /\ g[N] = Null
  BY <1>5, <1>6, <1>14
<1> QED
  BY <1>12, <1>13, <1>14

\* Whether a path compiles to the steps it was written from.
PathRead(col) == CompilePath(PathOf(col)).value = col.steps

\* PathCells for one file.
CellsAtPaths(content, schema) ==
    LET lines == content.lines
        records == Kept(lines, {l \in DOMAIN lines :
                                   lines[l] # BadLine /\ lines[l] # BlankLine})
        rows == ReadJsonSource(content, schema)
    IN  /\ Len(rows.value) = Len(records)
        /\ \A r \in DOMAIN records, c \in DOMAIN schema :
              rows.value[r][schema[c].name] =
                  Push(schema[c].type, ValueAt(records[r], schema[c].steps))

\* A JSON source whose paths are read as they were written gives one row per
\* record that parses, with the values that the paths name.
LEMMA JsonCells ==
    ASSUME NEW content, NEW schema, IsList(content.lines),
           Fine(ReadJsonSource(content, schema)),
           \A c \in DOMAIN schema :
              IsList(schema[c].steps)
              /\ (Fine(CompilePath(PathOf(schema[c]))) => PathRead(schema[c]))
    PROVE  CellsAtPaths(content, schema)
<1> DEFINE r == ReadJsonSource(content, schema)
           lines == content.lines
           records == ParseRecords(content.lines)
           paths == [i \in DOMAIN schema |-> CompilePath(PathOf(schema[i]))]
           names == [i \in DOMAIN schema |-> schema[i].name]
           column(n) == CHOOSE i \in DOMAIN schema : schema[i].name = n
           cell(x, n) == Push(schema[column(n)].type, Resolve(x, paths[column(n)].value))
           rows == [i \in DOMAIN records |->
                       [n \in {schema[j].name : j \in DOMAIN schema} |-> cell(records[i], n)]]
<1>1. PICK e1, e2, e3 : e1 = Error("array") /\ e2 = Error("path") /\ e3 = Error("frame")
  OBVIOUS
<1>2. ~Fine(e1) /\ ~Fine(e2) /\ ~Fine(e3)
  BY <1>1, ErrorsAreNotFine DEF Causes
<1>3. \/ r = e1 \/ r = e2 \/ r = e3
      \/ r = Ok(rows) /\ IsInjective(names) /\ \A i \in DOMAIN paths : Fine(paths[i])
  BY <1>1, Zenon DEF ReadJsonSource, Fine
<1> HIDE DEF r, rows, paths, names
<1>4. r = Ok(rows) /\ IsInjective(names) /\ \A i \in DOMAIN paths : Fine(paths[i])
  BY <1>2, <1>3 DEF r
<1>5. r.value = rows
  BY <1>4, OkIsFine
<1>6. records = Kept(lines, {l \in DOMAIN lines :
                                lines[l] # BadLine /\ lines[l] # BlankLine})
  <2>1. {l \in DOMAIN lines : lines[l] \notin {BadLine, BlankLine}} =
        {l \in DOMAIN lines : lines[l] # BadLine /\ lines[l] # BlankLine}
    OBVIOUS
  <2> QED
    BY <2>1 DEF ParseRecords
<1>7. IsRows(records)
  BY ListIsRows, KeptIsRows DEF ParseRecords
<1> HIDE DEF records
<1>8. Len(rows) = Len(records)
  <2>1. PICK S : records \in Seq(S)
    BY <1>7 DEF IsRows
  <2>2. Len(records) \in Nat /\ DOMAIN records = 1..Len(records)
    BY <2>1
  <2>3. PICK f : f = rows
    OBVIOUS
  <2>4. DOMAIN f = 1..Len(records) /\ f = [i \in 1..Len(records) |-> f[i]]
    BY <2>2, <2>3 DEF rows
  <2>5. IsRows(f)
    BY <2>2, <2>4, RowsAre
  <2> QED
    BY <2>2, <2>3, <2>4, <2>5 DEF IsRows
<1>9. ASSUME NEW x \in DOMAIN records, NEW c \in DOMAIN schema
      PROVE  rows[x][schema[c].name] =
                 Push(schema[c].type, ValueAt(records[x], schema[c].steps))
  <2>1. PICK n : n = schema[c].name
    OBVIOUS
  <2>2. column(n) = c
    <3>1. \A i \in DOMAIN schema : schema[i].name = n => i = c
      <4> SUFFICES ASSUME NEW i \in DOMAIN schema, schema[i].name = n PROVE i = c
        OBVIOUS
      <4>1. names[i] = names[c] /\ i \in DOMAIN names /\ c \in DOMAIN names
        BY <2>1 DEF names
      <4> QED
        BY <1>4, <4>1, Zenon DEF IsInjective
    <3> QED
      BY <2>1, <3>1
  <2>3. rows[x][n] = cell(records[x], n)
    <3>1. n \in {schema[j].name : j \in DOMAIN schema}
      BY <2>1
    <3> HIDE DEF cell
    <3> QED
      BY <3>1 DEF rows
  <2>4. cell(records[x], n) = Push(schema[c].type, Resolve(records[x], paths[c].value))
    <3> HIDE DEF column
    <3> QED
      BY <2>2
  <2>5. paths[c].value = schema[c].steps
    <3>1. paths[c] = CompilePath(PathOf(schema[c])) /\ Fine(paths[c])
      BY <1>4 DEF paths
    <3> QED
      BY <3>1 DEF PathRead
  <2>6. Resolve(records[x], schema[c].steps) = ValueAt(records[x], schema[c].steps)
    BY ResolveIsValueAt
  <2> QED
    BY <2>1, <2>3, <2>4, <2>5, <2>6
<1> HIDE DEF column, cell
<1> QED
  BY <1>5, <1>6, <1>8, <1>9 DEF CellsAtPaths, r

\* The source that a file of a mapping job resolves to gives its format.
LEMMA ResolvedFits ==
    ASSUME Shaped, Listing, Downloads, Registry, Mapping, NEW i \in Range(files), NEW s,
           s = ResolveSource(PrefixesOf(cfg), lake[i].key), s # 0,
           cfg.sources[s].format = "ndjson"
    PROVE  s \in DOMAIN cfg.sources /\ IsList(lake[i].content.lines)
<1> DEFINE p == PrefixesOf(cfg)
           M == Matching(p, lake[i].key)
<1>1. PICK n \in DOMAIN files : i = files[n]
  BY DEF Range
<1>2. i \in DOMAIN lake
  BY <1>1 DEF Downloads
<1>3. lake[i].key \in Seq(STRING)
  BY <1>2 DEF Shaped, ScenarioShape, lake
<1>4. /\ p \in Seq(Seq(STRING)) /\ DOMAIN p = DOMAIN cfg.sources
      /\ \A x \in DOMAIN cfg.sources : p[x] = cfg.sources[x].prefix
  <2>1. /\ \A x \in DOMAIN cfg.sources : cfg.sources[x].prefix \in Seq(STRING)
        /\ IsList(cfg.sources)
    BY DEF Shaped, ScenarioShape, cfg
  <2>2. DOMAIN cfg.sources = 1..Len(cfg.sources) /\ Len(cfg.sources) \in Nat
    BY <2>1, ListIsSeq
  <2> QED
    BY <2>1, <2>2 DEF PrefixesOf
<1>5. s \in M
  <2>1. M # {} /\ s = CHOOSE x \in M : \A y \in M : x <= y
    BY DEF ResolveSource
  <2>2. M \subseteq Nat
    BY <1>4 DEF Matching
  <2>3. \E x \in M : \A y \in M : x <= y
    <3> HIDE DEF M
    <3> QED
      BY <2>1, <2>2, Least
  <2> HIDE DEF M
  <2> QED
    BY <2>1, <2>3
<1>6. s \in DOMAIN cfg.sources /\ StartsWith(lake[i].key, cfg.sources[s].prefix)
  BY <1>4, <1>5 DEF Matching
<1>7. PICK j \in DOMAIN cfg.sources :
         /\ StartsWith(lake[i].key, cfg.sources[j].prefix)
         /\ HasExtension(i, Extensions(cfg.sources[j].format))
  <2>1. Sourced(i)
    BY <1>1 DEF Downloads, Listing
  <2> QED
    BY <2>1 DEF Sourced
<1>8. j = s
  <2>1. PrefixesValid(p)
    BY ValidParts DEF Registry, Mapping
  <2>2. j \in M
    BY <1>4, <1>7 DEF Matching
  <2> HIDE DEF p
  <2> QED
    BY <1>3, <1>4, <1>5, <2>1, <2>2, OneSource
<1>9. ContentShape(cfg.sources[s], lake[i])
  BY <1>2, <1>6 DEF Shaped, ScenarioShape, cfg, lake
<1> QED
  BY <1>6, <1>7, <1>8, <1>9 DEF ContentShape, HasExtension

\* Where the paths of the config are read as they were written, a column of a
\* JSON source has the value at its path, and a row for each record.
THEOREM CellsAreAtPaths == Spec => [](PathsRead => PathCells)
<1>1. Shaped /\ Listing /\ Downloads /\ Registry => (PathsRead => PathCells)
  <2> SUFFICES ASSUME Shaped, Listing, Downloads, Registry, PathsRead, Mapping
               PROVE  PathCells
    BY DEF PathCells
  <2>1. ASSUME NEW i \in Range(files), NEW s, s = ResolveSource(PrefixesOf(cfg), lake[i].key),
               s # 0, cfg.sources[s].format = "ndjson",
               Fine(ReadJsonSource(lake[i].content, cfg.sources[s].schema))
        PROVE  CellsAtPaths(lake[i].content, cfg.sources[s].schema)
    <3>1. s \in DOMAIN cfg.sources /\ IsList(lake[i].content.lines)
      BY <2>1, ResolvedFits
    <3>2. \A c \in DOMAIN cfg.sources[s].schema : IsList(cfg.sources[s].schema[c].steps)
      BY <2>1, <3>1 DEF Shaped, ScenarioShape, cfg
    <3>3. \A c \in DOMAIN cfg.sources[s].schema :
             Fine(CompilePath(PathOf(cfg.sources[s].schema[c])))
             => PathRead(cfg.sources[s].schema[c])
      BY <2>1, <3>1, Zenon DEF PathsRead, PathRead, Fine
    <3>4. PICK content, schema : content = lake[i].content /\ schema = cfg.sources[s].schema
      OBVIOUS
    <3>5. /\ IsList(content.lines) /\ Fine(ReadJsonSource(content, schema))
          /\ \A c \in DOMAIN schema :
                IsList(schema[c].steps)
                /\ (Fine(CompilePath(PathOf(schema[c]))) => PathRead(schema[c]))
      BY <2>1, <3>1, <3>2, <3>3, <3>4
    <3>6. CellsAtPaths(content, schema)
      BY <3>5, JsonCells
    <3> QED
      BY <3>4, <3>6
  <2> QED
    BY <2>1, Zenon DEF PathCells, CellsAtPaths, Fine
<1> QED
  BY <1>1, ShapedInv, ListingInv, DownloadsInv, RegistryInv, PTL

-----------------------------------------------------------------------------
\* What a mapping writes

\* What is kept of a list, one element after the other.
KeepsInTurn(g, s, I, S) ==
    /\ g \in [0..Len(s) -> Seq(S)] /\ g[0] = <<>> /\ g[Len(s)] = Kept(s, I)
    /\ \A n \in 1..Len(s) : g[n] = IF n \in I THEN Append(g[n - 1], s[n]) ELSE g[n - 1]

\* A list is kept one element after the other.
LEMMA KeptSums ==
    ASSUME NEW S, NEW s \in Seq(S), NEW I
    PROVE  \E g : KeepsInTurn(g, s, I, S)
<1>0. PICK N : N = Len(s)
  OBVIOUS
<1> DEFINE ss == [i \in DOMAIN s |-> IF i \in I THEN <<s[i]>> ELSE <<>>]
<1>1. N \in Nat /\ DOMAIN s = 1..N
  BY <1>0
<1>2. ss \in Seq(Seq(S)) /\ Len(ss) = N
  <2>1. ASSUME NEW i \in 1..N PROVE ss[i] \in Seq(S)
    <3>1. s[i] \in S
      BY <1>1
    <3> QED
      BY <1>1, <3>1
  <2>2. ss \in [1..N -> Seq(S)]
    BY <1>1, <2>1
  <2> HIDE DEF ss
  <2> QED
    BY <1>1, <2>2
<1>3. \A i \in 1..N : ss[i] = IF i \in I THEN <<s[i]>> ELSE <<>>
  BY <1>1
<1>4. Kept(s, I) = FlattenSeq(ss)
  BY DEF Kept
<1> HIDE DEF ss
<1>5. PICK g : Sums(g, ss, S) /\ FlattenSeq(ss) = g[Len(ss)]
  BY <1>2, FlattenSums
<1>6. /\ g \in [0..N -> Seq(S)] /\ g[0] = <<>>
      /\ \A n \in 1..N : g[n] = g[n - 1] \o ss[n]
  BY <1>2, <1>5 DEF Sums
<1>7. ASSUME NEW n \in 1..N
      PROVE  g[n] = IF n \in I THEN Append(g[n - 1], s[n]) ELSE g[n - 1]
  <2>1. g[n - 1] \in Seq(S)
    BY <1>1, <1>6
  <2>2. CASE n \in I
    <3>1. s[n] \in S
      BY <1>1
    <3>2. g[n] = g[n - 1] \o <<s[n]>>
      <4>1. ss[n] = <<s[n]>>
        BY <1>3, <2>2
      <4> QED
        BY <1>6, <4>1
    <3> QED
      BY <2>1, <2>2, <3>1, <3>2
  <2>3. CASE n \notin I
    <3>1. g[n] = g[n - 1] \o <<>>
      BY <1>3, <1>6, <2>3
    <3> QED
      BY <2>1, <2>3, <3>1
  <2> QED
    BY <2>2, <2>3
<1>8. KeepsInTurn(g, s, I, S)
  BY <1>0, <1>2, <1>4, <1>5, <1>6, <1>7 DEF KeepsInTurn
<1> QED
  BY <1>8

\* Two rows have the same identity.
Alike(ks, a, b) == TupleOfRow(ks, a) = TupleOfRow(ks, b)

\* Rows are alike if they agree in every key column.
LEMMA AlikeByColumn ==
    ASSUME NEW ks, NEW a, NEW b
    PROVE  Alike(ks, a, b) <=> \A k \in Range(ks) : a[k] = b[k]
<1> DEFINE x == [i \in DOMAIN ks |-> a[ks[i]]]
           y == [i \in DOMAIN ks |-> b[ks[i]]]
<1>1. x = y <=> \A i \in DOMAIN ks : x[i] = y[i]
  <2> DEFINE A(i) == a[ks[i]]
             B(i) == b[ks[i]]
  <2>1. (\A i \in DOMAIN ks : A(i) = B(i))
            => [i \in DOMAIN ks |-> A(i)] = [i \in DOMAIN ks |-> B(i)]
    OBVIOUS
  <2> QED
    BY <2>1
<1>2. \A i \in DOMAIN ks : x[i] = a[ks[i]] /\ y[i] = b[ks[i]]
  OBVIOUS
<1>3. Alike(ks, a, b) <=> x = y
  BY DEF Alike, TupleOfRow
<1> HIDE DEF x, y
<1> QED
  BY <1>1, <1>2, <1>3 DEF Range

\* Of rows that are alike unique_stable keeps the first, of whatever rows.
THEOREM DedupKeepsFirsts ==
    ASSUME NEW rows, IsRows(rows), NEW ks
    PROVE  DedupRows(rows, ks) = FirstOfEach(rows, ks)
<1>1. PICK N, S, A, e : N = Len(rows) /\ S = Range(rows) /\ A = Seq(S) /\ e = <<>>
  OBVIOUS
<1>2. rows \in Seq(S) /\ N \in Nat /\ DOMAIN rows = 1..N /\ \A n \in 1..N : rows[n] \in S
  <2>1. rows \in Seq(S)
    BY <1>1 DEF IsRows
  <2> QED
    BY <1>1, <2>1
<1> DEFINE I == {i \in DOMAIN rows : ks = <<>> \/ \A j \in 1..(i - 1) :
                    \E k \in Range(ks) : rows[j][k] # rows[i][k]}
           L(f) == f = [n \in 0..N |-> IF n = 0 THEN <<>>
                                       ELSE KeepFirst(f[n - 1], rows[n], ks)]
           kept == CHOOSE f : L(f)
<1>3. DedupRows(rows, ks) = kept[N]
  BY <1>1 DEF DedupRows
<1>4. \E f : L(f)
  <2>1. \A n \in 1..N : \A x \in A : KeepFirst(x, rows[n], ks) \in A
    BY <1>1, <1>2 DEF KeepFirst
  <2>2. PICK F : F = [n \in 1..N |-> [x \in A |-> KeepFirst(x, rows[n], ks)]]
    OBVIOUS
  <2>3. StepsOn(F, A, N)
    BY <2>1, <2>2 DEF StepsOn
  <2>4. PICK f : Iteration(f, F, A, e, N)
    <3>1. e \in A
      BY <1>1
    <3> QED
      BY <1>2, <2>3, <3>1, Iterates
  <2>5. ASSUME NEW n \in 1..N PROVE f[n] = KeepFirst(f[n - 1], rows[n], ks)
    <3>1. n - 1 \in 0..N
      BY <1>2
    <3>2. f[n - 1] \in A
      BY <2>4, <3>1 DEF Iteration
    <3> QED
      BY <2>2, <2>4, <3>2 DEF Iteration
  <2>6. f = [n \in 0..N |-> f[n]] /\ f[0] = <<>>
    BY <1>1, <2>4 DEF Iteration
  <2>7. \A n \in 0..N : f[n] = IF n = 0 THEN <<>> ELSE KeepFirst(f[n - 1], rows[n], ks)
    <3> SUFFICES ASSUME NEW n \in 0..N
                 PROVE  f[n] = IF n = 0 THEN <<>> ELSE KeepFirst(f[n - 1], rows[n], ks)
      OBVIOUS
    <3>1. n # 0 => n \in 1..N
      BY <1>2
    <3>2. n # 0 => f[n] = KeepFirst(f[n - 1], rows[n], ks)
      BY <2>5, <3>1
    <3> QED
      BY <2>6, <3>2
  <2>8. L(f)
    BY <2>6, <2>7
  <2> QED
    BY <2>8
<1>5. L(kept)
  <2> HIDE DEF L
  <2> QED
    BY <1>4
<1>6. \A n \in 0..N : kept[n] = IF n = 0 THEN <<>> ELSE KeepFirst(kept[n - 1], rows[n], ks)
  <2> HIDE DEF kept
  <2> QED
    BY <1>5
<1> HIDE DEF L, kept
<1>7. PICK g : /\ g \in [0..N -> Seq(S)] /\ g[0] = <<>> /\ g[N] = Kept(rows, I)
               /\ \A n \in 1..N : g[n] = IF n \in I THEN Append(g[n - 1], rows[n])
                                         ELSE g[n - 1]
  <2> HIDE DEF I
  <2>1. PICK g : KeepsInTurn(g, rows, I, S)
    BY <1>2, KeptSums
  <2> QED
    BY <1>1, <2>1 DEF KeepsInTurn
<1>8. \A n \in 1..N : n \notin I <=>
         ks # <<>> /\ \E j \in 1..(n - 1) : Alike(ks, rows[j], rows[n])
  BY <1>2, AlikeByColumn
<1> HIDE DEF I
<1> DEFINE Has(q, n) == /\ \A i \in DOMAIN q : \E j \in 1..n : q[i] = rows[j]
                        /\ \A j \in 1..n : \E i \in DOMAIN q : Alike(ks, q[i], rows[j])
           T == {n \in 0..N : kept[n] = g[n] /\ Has(g[n], n)}
<1>9. 0 \in T
  <2>1. 0 \in 0..N /\ kept[0] = <<>>
    BY <1>2, <1>6
  <2>2. Has(<<>>, 0)
    OBVIOUS
  <2> HIDE DEF Has
  <2> QED
    BY <1>7, <2>1, <2>2
<1>10. ASSUME NEW n \in 0..(N - 1), n \in T PROVE n + 1 \in T
  <2>1. /\ n + 1 \in 1..N /\ n + 1 \in 0..N /\ n + 1 # 0 /\ (n + 1) - 1 = n /\ n \in 0..N
        /\ n \in Nat
    BY <1>2
  <2>2. PICK q, row : q = g[n] /\ row = rows[n + 1]
    OBVIOUS
  <2>3. kept[n + 1] = KeepFirst(q, row, ks)
    <3>1. kept[n] = q
      BY <1>10, <2>2
    <3> QED
      BY <1>6, <2>1, <2>2, <3>1
  <2>4. Has(q, n) /\ q \in Seq(S) /\ row \in S
    <3>1. Has(q, n)
      BY <1>10, <2>2
    <3> HIDE DEF Has
    <3> QED
      BY <1>2, <1>7, <2>1, <2>2, <3>1
  <2>5. g[n + 1] = IF n + 1 \in I THEN Append(q, row) ELSE q
    BY <1>7, <2>1, <2>2
  <2>6. n + 1 \notin I <=> ks # <<>> /\ \E i \in DOMAIN q : Alike(ks, q[i], row)
    <3>1. n + 1 \notin I <=> ks # <<>> /\ \E j \in 1..n : Alike(ks, rows[j], row)
      BY <1>8, <2>1, <2>2
    <3>2. (\E j \in 1..n : Alike(ks, rows[j], row))
              <=> \E i \in DOMAIN q : Alike(ks, q[i], row)
      BY <2>4 DEF Alike
    <3> QED
      BY <3>1, <3>2
  <2>7. KeepFirst(q, row, ks) = IF n + 1 \in I THEN Append(q, row) ELSE q
    BY <2>6 DEF KeepFirst, Alike
  <2>8. CASE n + 1 \in I
    <3>1. PICK a : a = Append(q, row)
      OBVIOUS
    <3>2. /\ Len(q) \in Nat /\ DOMAIN q = 1..Len(q) /\ DOMAIN a = 1..(Len(q) + 1)
          /\ \A i \in DOMAIN q : a[i] = q[i]
          /\ a[Len(q) + 1] = row
      <4>1. Len(q) \in Nat /\ DOMAIN q = 1..Len(q) /\ a \in Seq(S) /\ Len(a) = Len(q) + 1
        BY <2>4, <3>1
      <4>2. DOMAIN a = 1..(Len(q) + 1)
        BY <4>1
      <4>3. \A i \in 1..Len(q) : a[i] = q[i]
        BY <2>4, <3>1
      <4>4. a[Len(q) + 1] = row
        BY <2>4, <3>1
      <4> QED
        BY <4>1, <4>2, <4>3, <4>4
    <3>3. \A i \in DOMAIN a : \E j \in 1..(n + 1) : a[i] = rows[j]
      <4> SUFFICES ASSUME NEW i \in DOMAIN a PROVE \E j \in 1..(n + 1) : a[i] = rows[j]
        OBVIOUS
      <4>1. CASE i \in DOMAIN q
        <5>1. PICK j \in 1..n : q[i] = rows[j]
          BY <2>4, <4>1
        <5>2. j \in 1..(n + 1)
          BY <2>1
        <5> QED
          BY <3>2, <4>1, <5>1, <5>2
      <4>2. CASE i = Len(q) + 1
        BY <2>1, <2>2, <3>2, <4>2
      <4> QED
        BY <3>2, <4>1, <4>2
    <3>4. \A j \in 1..(n + 1) : \E i \in DOMAIN a : Alike(ks, a[i], rows[j])
      <4> SUFFICES ASSUME NEW j \in 1..(n + 1)
                   PROVE  \E i \in DOMAIN a : Alike(ks, a[i], rows[j])
        OBVIOUS
      <4>1. CASE j \in 1..n
        <5>1. PICK i \in DOMAIN q : Alike(ks, q[i], rows[j])
          BY <2>4, <4>1
        <5>2. i \in DOMAIN a /\ a[i] = q[i]
          BY <3>2
        <5> QED
          BY <5>1, <5>2
      <4>2. CASE j = n + 1
        <5>1. Len(q) + 1 \in DOMAIN a /\ a[Len(q) + 1] = rows[j]
          BY <2>2, <3>2, <4>2
        <5> QED
          BY <5>1 DEF Alike
      <4> QED
        BY <2>1, <4>1, <4>2
    <3>5. Has(a, n + 1)
      BY <3>3, <3>4
    <3> HIDE DEF Has
    <3> QED
      BY <2>1, <2>3, <2>5, <2>7, <2>8, <3>1, <3>5
  <2>9. CASE n + 1 \notin I
    <3>1. PICK i0 \in DOMAIN q : Alike(ks, q[i0], row)
      BY <2>6, <2>9
    <3>2. \A i \in DOMAIN q : \E j \in 1..(n + 1) : q[i] = rows[j]
      BY <2>1, <2>4
    <3>3. \A j \in 1..(n + 1) : \E i \in DOMAIN q : Alike(ks, q[i], rows[j])
      <4> SUFFICES ASSUME NEW j \in 1..(n + 1)
                   PROVE  \E i \in DOMAIN q : Alike(ks, q[i], rows[j])
        OBVIOUS
      <4>1. CASE j \in 1..n
        BY <2>4, <4>1
      <4>2. CASE j = n + 1
        BY <2>2, <3>1, <4>2
      <4> QED
        BY <2>1, <4>1, <4>2
    <3>4. Has(q, n + 1)
      BY <3>2, <3>3
    <3> HIDE DEF Has
    <3> QED
      BY <2>1, <2>3, <2>5, <2>7, <2>9, <3>4
  <2> QED
    BY <2>8, <2>9
<1>11. N \in T
  <2> HIDE DEF T
  <2>1. \A n \in 0..N : n \in T
    BY <1>2, <1>9, <1>10, Inducts
  <2> QED
    BY <1>2, <2>1
<1>12. kept[N] = Kept(rows, I)
  <2> HIDE DEF Has
  <2> QED
    BY <1>7, <1>11
<1> QED
  BY <1>3, <1>12 DEF FirstOfEach, I

\* A new element extends a list without repetitions by itself.
LEMMA AddNewAdds ==
    ASSUME NEW V, NEW q \in Seq(V), IsInjective(q), NEW v \in V
    PROVE  /\ AddNew(q, v) \in Seq(V) /\ IsInjective(AddNew(q, v))
           /\ Range(AddNew(q, v)) = Range(q) \cup {v}
<1>1. CASE v \in Range(q)
  BY <1>1 DEF AddNew
<1>2. CASE v \notin Range(q)
  <2>1. PICK a : a = Append(q, v)
    OBVIOUS
  <2>2. AddNew(q, v) = a
    BY <1>2, <2>1 DEF AddNew
  <2>3. a \in Seq(V) /\ a = q \o <<v>> /\ <<v>> \in Seq(V)
    BY <2>1
  <2>4. IsInjective(<<v>>)
    BY DEF IsInjective
  <2>5. \A i \in DOMAIN q : \A j \in DOMAIN <<v>> : q[i] # <<v>>[j]
    BY <1>2 DEF Range
  <2>6. IsInjective(a)
    BY <2>3, <2>4, <2>5, ConcatInjective
  <2>7. PICK w : w = <<v>>
    OBVIOUS
  <2>8. Range(a) = Range(q) \cup {v}
    <3>1. w \in Seq(V) /\ a = q \o w /\ Range(w) = {v}
      BY <2>3, <2>7 DEF Range
    <3> QED
      BY <3>1, RangeOfConcat
  <2> QED
    BY <2>2, <2>3, <2>6, <2>8
<1> QED
  BY <1>1, <1>2

\* The key tuples of a frame, each once.
LEMMA KeyTuplesFacts ==
    ASSUME NEW rows, IsRows(rows), NEW ks
    PROVE  LET q == KeyTuples(rows, ks)
           IN  /\ q \in Seq(Range(q)) /\ IsInjective(q)
               /\ Range(q) = {TupleOfRow(ks, row) : row \in Range(rows)}
<1>1. PICK N, V, t : /\ N = Len(rows) /\ V = {TupleOfRow(ks, row) : row \in Range(rows)}
                     /\ t = [n \in 1..N |-> TupleOfRow(ks, rows[n])]
  OBVIOUS
<1>2. N \in Nat /\ DOMAIN rows = 1..N
  BY <1>1 DEF IsRows
<1>3. /\ \A n \in 1..N : t[n] = TupleOfRow(ks, rows[n]) /\ t[n] \in V
      /\ \A v \in V : \E n \in 1..N : v = t[n]
  BY <1>1, <1>2 DEF Range
<1> DEFINE A == {q \in Seq(V) : IsInjective(q)}
           L(f) == f = [n \in 0..N |-> IF n = 0 THEN <<>> ELSE AddNew(f[n - 1], TupleOfRow(ks, rows[n]))]
           seen == CHOOSE f : L(f)
<1>4. KeyTuples(rows, ks) = seen[N]
  BY <1>1 DEF KeyTuples
<1>5. \A q \in A : \A v \in V : AddNew(q, v) \in A
  BY AddNewAdds
<1>6. \E f : L(f)
  <2>1. PICK F, B, e : F = [n \in 1..N |-> [x \in B |-> AddNew(x, t[n])]] /\ B = A /\ e = <<>>
    OBVIOUS
  <2>2. e \in B
    <3>1. e \in Seq(V) /\ DOMAIN e = {}
      BY <2>1
    <3>2. IsInjective(e)
      BY <3>1 DEF IsInjective
    <3> QED
      BY <2>1, <3>1, <3>2
  <2>3. StepsOn(F, B, N)
    <3> HIDE DEF A
    <3> QED
      BY <1>3, <1>5, <2>1 DEF StepsOn
  <2>4. PICK f : Iteration(f, F, B, e, N)
    BY <1>2, <2>2, <2>3, Iterates
  <2>5. ASSUME NEW n \in 1..N PROVE f[n] = AddNew(f[n - 1], TupleOfRow(ks, rows[n]))
    <3>1. n - 1 \in 0..N
      BY <1>2
    <3>2. f[n - 1] \in B
      BY <2>4, <3>1 DEF Iteration
    <3> HIDE DEF A
    <3> QED
      BY <1>3, <2>1, <2>4, <3>2 DEF Iteration
  <2>6. f = [n \in 0..N |-> f[n]] /\ f[0] = <<>>
    BY <2>1, <2>4 DEF Iteration
  <2>7. \A n \in 0..N :
           f[n] = IF n = 0 THEN <<>> ELSE AddNew(f[n - 1], TupleOfRow(ks, rows[n]))
    <3> SUFFICES ASSUME NEW n \in 0..N
                 PROVE  f[n] = IF n = 0 THEN <<>> ELSE AddNew(f[n - 1], TupleOfRow(ks, rows[n]))
      OBVIOUS
    <3>1. n # 0 => n \in 1..N
      BY <1>2
    <3>2. n # 0 => f[n] = AddNew(f[n - 1], TupleOfRow(ks, rows[n]))
      BY <2>5, <3>1
    <3> QED
      BY <2>6, <3>2
  <2>8. L(f)
    BY <2>6, <2>7
  <2> QED
    BY <2>8
<1>7. L(seen)
  <2> HIDE DEF L
  <2> QED
    BY <1>6
<1>8. seen[0] = <<>> /\ \A n \in 1..N : seen[n] = AddNew(seen[n - 1], t[n])
  <2>1. \A n \in 0..N :
           seen[n] = IF n = 0 THEN <<>> ELSE AddNew(seen[n - 1], TupleOfRow(ks, rows[n]))
    <3> HIDE DEF seen
    <3> QED
      BY <1>7
  <2> HIDE DEF seen
  <2>2. 0 \in 0..N /\ \A n \in 1..N : n \in 0..N /\ n # 0
    BY <1>2
  <2> QED
    BY <1>3, <2>1, <2>2
<1> HIDE DEF L, seen
<1> DEFINE Upto(q, n) == /\ q \in Seq(V) /\ IsInjective(q)
                         /\ \A x : x \in Range(q) <=> \E j \in 1..n : x = t[j]
           T == {n \in 0..N : Upto(seen[n], n)}
<1>9. 0 \in T
  <2>1. 0 \in 0..N /\ seen[0] = <<>>
    BY <1>2, <1>8
  <2>2. PICK e : e = <<>>
    OBVIOUS
  <2>3. e \in Seq(V) /\ DOMAIN e = {}
    BY <2>2
  <2>4. Upto(e, 0)
    BY <2>3 DEF IsInjective, Range
  <2> HIDE DEF Upto
  <2> QED
    BY <2>1, <2>2, <2>4
<1>10. ASSUME NEW n \in 0..(N - 1), n \in T PROVE n + 1 \in T
  <2>1. n + 1 \in 1..N /\ n + 1 \in 0..N /\ (n + 1) - 1 = n /\ n \in Nat
    BY <1>2
  <2>2. PICK q, v : q = seen[n] /\ v = t[n + 1]
    OBVIOUS
  <2>3. seen[n + 1] = AddNew(q, v) /\ v \in V
    BY <1>3, <1>8, <2>1, <2>2
  <2>4. Upto(q, n)
    BY <1>10, <2>2
  <2>5. /\ AddNew(q, v) \in Seq(V) /\ IsInjective(AddNew(q, v))
        /\ Range(AddNew(q, v)) = Range(q) \cup {v}
    BY <2>3, <2>4, AddNewAdds
  <2>6. PICK a : a = AddNew(q, v)
    OBVIOUS
  <2>7. \A x : x \in Range(a) <=> \E j \in 1..(n + 1) : x = t[j]
    <3>1. \A x : x \in Range(a) <=> (\E j \in 1..n : x = t[j]) \/ x = t[n + 1]
      BY <2>2, <2>4, <2>5, <2>6
    <3>2. \A j : j \in 1..(n + 1) <=> j \in 1..n \/ j = n + 1
      BY <2>1
    <3> QED
      BY <3>1, <3>2
  <2>8. Upto(a, n + 1)
    BY <2>5, <2>6, <2>7
  <2> HIDE DEF Upto
  <2> QED
    BY <2>1, <2>3, <2>6, <2>8
<1>11. N \in T
  <2> HIDE DEF T
  <2>1. \A n \in 0..N : n \in T
    BY <1>2, <1>9, <1>10, Inducts
  <2> QED
    BY <1>2, <2>1
<1>12. Upto(seen[N], N)
  <2> HIDE DEF Upto
  <2> QED
    BY <1>11
<1>13. PICK q : q = seen[N]
  OBVIOUS
<1>14. q \in Seq(V) /\ IsInjective(q) /\ \A x : x \in Range(q) <=> \E j \in 1..N : x = t[j]
  BY <1>12, <1>13
<1>15. Range(q) = V
  BY <1>3, <1>14
<1> QED
  BY <1>1, <1>4, <1>13, <1>14, <1>15

\* The key of an output tells its key tuple from every other of the frame.
KeysSeparate(t, m, rows) ==
    \A u, v \in {TupleOfRow(t.partition, row) : row \in Range(rows)} :
        u = v <=> \A i \in DOMAIN t.partition :
            HiveText(PartitionKey(t, m, u), i) = ScalarText(v[i])

\* The rows with a key tuple, by position, and an output's rows.
Mine(rows, ks, v) == {r \in DOMAIN rows : TupleOfRow(ks, rows[r]) = v}

\* The rows without the partition columns.
Dropped(rows, ks) == [r \in DOMAIN rows |-> Drop(rows[r], ks)]

\* The output of a key tuple.
PartOf(t, m, rows, v) ==
    [key |-> PartitionKey(t, m, v),
     rows |-> Kept(Dropped(rows, t.partition), Mine(rows, t.partition, v))]

\* Without partition columns all rows are in one output.
LEMMA OneOutput ==
    ASSUME NEW t, NEW m, NEW rows, IsRows(rows), t.partition = <<>>
    PROVE  OutputExact(t, <<[key |-> PartitionKey(t, m, <<>>), rows |-> rows]>>, rows)
<1>1. PICK part, parts : /\ part = [key |-> PartitionKey(t, m, <<>>), rows |-> rows]
                         /\ parts = <<part>>
  OBVIOUS
<1>2. DOMAIN parts = {1} /\ parts[1] = part /\ part.rows = rows
  BY <1>1
<1>3. DOMAIN t.partition = {} /\ Range(t.partition) = {}
  BY DEF Range
<1>4. ASSUME NEW w PROVE Restores(t, part, w, w)
  BY <1>3 DEF Restores
<1>5. PartExact(t, part, rows)
  <2>1. PICK I : I = {w \in DOMAIN rows : \A i \in DOMAIN t.partition :
                        HiveText(part.key, i) = ScalarText(rows[w][t.partition[i]])}
    OBVIOUS
  <2>2. DOMAIN rows \subseteq I
    BY <1>3, <2>1
  <2>3. Kept(rows, I) = rows
    BY <2>2, KeptAll DEF IsRows
  <2> QED
    BY <1>2, <1>4, <2>1, <2>3 DEF PartExact
<1>6. \A i \in DOMAIN rows : \E p \in DOMAIN parts : \E r \in DOMAIN parts[p].rows :
         Restores(t, parts[p], parts[p].rows[r], rows[i])
  BY <1>2, <1>4
<1> QED
  BY <1>1, <1>2, <1>5, <1>6 DEF OutputExact

\* A row with the key tuple of an output is restored from the output's row.
LEMMA DropRestores ==
    ASSUME NEW t, NEW m, NEW rows, KeysSeparate(t, m, rows), NEW cols,
           NEW w \in Range(rows), DOMAIN w = cols, Range(t.partition) \subseteq cols,
           NEW part, part.key = PartitionKey(t, m, TupleOfRow(t.partition, w))
    PROVE  Restores(t, part, Drop(w, t.partition), w)
<1>1. PICK ks, u : ks = t.partition /\ u = TupleOfRow(t.partition, w)
  OBVIOUS
<1>2. \A i \in DOMAIN ks : u[i] = w[ks[i]]
  BY <1>1 DEF TupleOfRow
<1>3. \A i \in DOMAIN ks : HiveText(part.key, i) = ScalarText(u[i])
  <2>1. u \in {TupleOfRow(t.partition, row) : row \in Range(rows)}
    BY <1>1
  <2> QED
    BY <1>1, <2>1 DEF KeysSeparate
<1>4. PICK d : d = Drop(w, ks)
  OBVIOUS
<1>5. DOMAIN d = DOMAIN w \ Range(ks) /\ \A n \in DOMAIN d : d[n] = w[n]
  BY <1>4 DEF Drop
<1>6. DOMAIN w = DOMAIN d \cup Range(ks)
  BY <1>1, <1>5
<1>7. \A i \in DOMAIN ks : HiveText(part.key, i) = ScalarText(w[ks[i]])
  BY <1>2, <1>3
<1> QED
  BY <1>1, <1>4, <1>5, <1>6, <1>7 DEF Restores

\* One output has the rows with its key tuple, in order.
LEMMA PartIsExact ==
    ASSUME NEW t, NEW m, NEW rows, IsRows(rows), KeysSeparate(t, m, rows), NEW cols,
           \A row \in Range(rows) : DOMAIN row = cols, Range(t.partition) \subseteq cols,
           NEW v \in {TupleOfRow(t.partition, row) : row \in Range(rows)}
    PROVE  /\ PartExact(t, PartOf(t, m, rows, v), rows)
           /\ \A i \in Mine(rows, t.partition, v) :
                 \E r \in DOMAIN PartOf(t, m, rows, v).rows :
                    Restores(t, PartOf(t, m, rows, v), PartOf(t, m, rows, v).rows[r], rows[i])
<1>1. PICK ks, part, I, d : /\ ks = t.partition /\ part = PartOf(t, m, rows, v)
                            /\ I = Mine(rows, ks, v) /\ d = Dropped(rows, ks)
  OBVIOUS
<1>2. part.key = PartitionKey(t, m, v) /\ part.rows = Kept(d, I)
  BY <1>1 DEF PartOf
<1>3. DOMAIN rows = 1..Len(rows) /\ Len(rows) \in Nat /\ rows \in Seq(Range(rows))
      /\ \A i \in DOMAIN rows : rows[i] \in Range(rows)
  BY DEF IsRows, Range
<1>4. DOMAIN d = DOMAIN rows /\ \A i \in DOMAIN rows : d[i] = Drop(rows[i], ks)
  BY <1>1 DEF Dropped
<1>5. d \in Seq(Range(d)) /\ Len(rows) = Len(d)
  <2>1. d = [i \in 1..Len(rows) |-> d[i]]
    BY <1>1, <1>3, <1>4 DEF Dropped
  <2>2. IsRows(d)
    BY <1>3, <1>4, <2>1, RowsAre
  <2>3. Len(d) = Len(rows)
    BY <1>3, <2>1
  <2> QED
    BY <2>2, <2>3 DEF IsRows
<1>6. PICK e : /\ Enumerates(e, I, Len(rows))
               /\ Kept(rows, I) = [k \in DOMAIN e |-> rows[e[k]]]
               /\ Kept(d, I) = [k \in DOMAIN e |-> d[e[k]]]
  <2>1. PICK S, R : S = Range(rows) /\ R = Range(d)
    OBVIOUS
  <2>2. rows \in Seq(S) /\ d \in Seq(R) /\ Len(rows) = Len(d)
    BY <1>3, <1>5, <2>1
  <2> QED
    BY <2>2, KeptMaps
<1>7. {w \in DOMAIN rows : \A i \in DOMAIN ks :
          HiveText(part.key, i) = ScalarText(rows[w][ks[i]])} = I
  <2>1. ASSUME NEW w \in DOMAIN rows
        PROVE  w \in I <=> \A i \in DOMAIN ks :
                              HiveText(part.key, i) = ScalarText(rows[w][ks[i]])
    <3>1. PICK u : u = TupleOfRow(ks, rows[w])
      OBVIOUS
    <3>2. \A i \in DOMAIN ks : u[i] = rows[w][ks[i]]
      BY <3>1 DEF TupleOfRow
    <3>3. u \in {TupleOfRow(t.partition, row) : row \in Range(rows)}
      BY <1>1, <1>3, <3>1
    <3>4. v = u <=> \A i \in DOMAIN ks : HiveText(part.key, i) = ScalarText(u[i])
      BY <1>1, <1>2, <3>3 DEF KeysSeparate
    <3>5. w \in I <=> u = v
      BY <1>1, <3>1 DEF Mine
    <3> QED
      BY <3>2, <3>4, <3>5
  <2>2. I \subseteq DOMAIN rows
    BY <1>1 DEF Mine
  <2> QED
    BY <2>1, <2>2
<1>8. ASSUME NEW k \in DOMAIN e
      PROVE  e[k] \in DOMAIN rows /\ Restores(t, part, d[e[k]], rows[e[k]])
  <2>1. e[k] \in I /\ e[k] \in DOMAIN rows
    BY <1>3, <1>6 DEF Enumerates
  <2>2. TupleOfRow(ks, rows[e[k]]) = v
    BY <1>1, <2>1 DEF Mine
  <2>3. PICK w : w = rows[e[k]]
    OBVIOUS
  <2>4. w \in Range(rows) /\ DOMAIN w = cols
    BY <1>3, <2>1, <2>3
  <2>5. part.key = PartitionKey(t, m, TupleOfRow(t.partition, w))
    BY <1>1, <1>2, <2>2, <2>3
  <2>6. Restores(t, part, Drop(w, t.partition), w)
    BY <2>4, <2>5, DropRestores
  <2> QED
    BY <1>1, <1>4, <2>1, <2>3, <2>6
<1>9. PICK x, y : x = Kept(rows, I) /\ y = Kept(d, I)
  OBVIOUS
<1>10. /\ DOMAIN e = 1..Len(e) /\ Len(e) \in Nat
       /\ x = [k \in DOMAIN e |-> rows[e[k]]] /\ y = [k \in DOMAIN e |-> d[e[k]]]
  <2>1. e \in Seq(Nat)
    BY <1>6 DEF Enumerates
  <2> QED
    BY <1>6, <1>9, <2>1
<1>11. /\ Len(x) = Len(y) /\ DOMAIN y = DOMAIN e
       /\ \A k \in DOMAIN y : Restores(t, part, y[k], x[k])
  <2>1. Len(x) = Len(e) /\ Len(y) = Len(e) /\ DOMAIN y = DOMAIN e
    BY <1>10
  <2>2. \A k \in DOMAIN e : x[k] = rows[e[k]] /\ y[k] = d[e[k]]
    BY <1>10
  <2> QED
    BY <1>8, <2>1, <2>2
<1>12. PartExact(t, part, rows)
  BY <1>1, <1>2, <1>7, <1>9, <1>11 DEF PartExact
<1>13. ASSUME NEW i \in I
       PROVE  \E r \in DOMAIN part.rows : Restores(t, part, part.rows[r], rows[i])
  <2>1. i \in DOMAIN rows
    BY <1>1 DEF Mine
  <2>2. PICK k \in DOMAIN e : e[k] = i
    BY <1>3, <1>6, <2>1 DEF Enumerates
  <2>3. x[k] = rows[i]
    BY <1>10, <2>2
  <2> QED
    BY <1>2, <1>9, <1>11, <2>2, <2>3
<1> QED
  BY <1>1, <1>12, <1>13

\* produce_partitions puts every row in one output, once and in order, if the
\* keys tell the key tuples apart.
THEOREM PartitionsAreExact ==
    ASSUME NEW t, NEW m, NEW rows, IsRows(rows), KeysSeparate(t, m, rows), NEW cols,
           \A row \in Range(rows) : DOMAIN row = cols,
           Fine(ProducePartitions(t, m, rows, cols))
    PROVE  OutputExact(t, ProducePartitions(t, m, rows, cols).value, rows)
<1> DEFINE out == ProducePartitions(t, m, rows, cols)
           tuples == KeyTuples(rows, t.partition)
           parts == [i \in DOMAIN tuples |-> PartOf(t, m, rows, tuples[i])]
<1>1. PICK err, one : /\ err = Error("partition")
                      /\ one = <<[key |-> PartitionKey(t, m, <<>>), rows |-> rows]>>
  OBVIOUS
<1>2. ~Fine(err)
  BY <1>1, ErrorsAreNotFine DEF Causes
<1>3. \/ t.partition = <<>> /\ out = Ok(one)
      \/ out = err
      \/ Range(t.partition) \subseteq cols /\ out = Ok(parts)
  BY <1>1, Zenon DEF ProducePartitions, PartOf, Dropped, Mine
<1> HIDE DEF parts
<1>4. CASE t.partition = <<>> /\ out = Ok(one)
  <2>1. out.value = one
    <3> HIDE DEF out
    <3> QED
      BY <1>4, OkIsFine
  <2>2. OutputExact(t, one, rows)
    BY <1>1, <1>4, OneOutput
  <2> QED
    BY <2>1, <2>2
<1>5. CASE Range(t.partition) \subseteq cols /\ out = Ok(parts)
  <2>1. out.value = parts
    <3> HIDE DEF out
    <3> QED
      BY <1>5, OkIsFine
  <2>2. PICK q, V : q = tuples /\ V = {TupleOfRow(t.partition, row) : row \in Range(rows)}
    OBVIOUS
  <2>3. q \in Seq(Range(q)) /\ IsInjective(q) /\ Range(q) = V
    BY <2>2, KeyTuplesFacts
  <2>4. DOMAIN parts = DOMAIN q /\ \A i \in DOMAIN q : parts[i] = PartOf(t, m, rows, q[i])
    BY <2>2 DEF parts
  <2>5. \A i \in DOMAIN q : q[i] \in V
    BY <2>3 DEF Range
  <2>6. \A v \in V : \E i \in DOMAIN q : v = q[i]
    BY <2>3 DEF Range
  <2>7. \A i, j \in DOMAIN parts : parts[i].key = parts[j].key => i = j
    <3> SUFFICES ASSUME NEW i \in DOMAIN q, NEW j \in DOMAIN q, parts[i].key = parts[j].key
                 PROVE  i = j
      BY <2>4
    <3>1. PICK u, v : u = q[i] /\ v = q[j]
      OBVIOUS
    <3>2. PartitionKey(t, m, u) = PartitionKey(t, m, v)
      BY <2>4, <3>1 DEF PartOf
    <3>3. \A k \in DOMAIN t.partition : HiveText(PartitionKey(t, m, u), k) = ScalarText(u[k])
      BY <2>2, <2>5, <3>1 DEF KeysSeparate
    <3>4. \A k \in DOMAIN t.partition : HiveText(PartitionKey(t, m, v), k) = ScalarText(u[k])
      BY <3>2, <3>3
    <3>5. v = u
      BY <2>2, <2>5, <3>1, <3>4 DEF KeysSeparate
    <3> QED
      BY <2>3, <3>1, <3>5 DEF IsInjective
  <2>8. ASSUME NEW i \in DOMAIN parts
        PROVE  /\ PartExact(t, parts[i], rows)
               /\ \A w \in Mine(rows, t.partition, q[i]) :
                     \E r \in DOMAIN parts[i].rows :
                        Restores(t, parts[i], parts[i].rows[r], rows[w])
    <3>1. PICK v : v = q[i]
      OBVIOUS
    <3>2. v \in {TupleOfRow(t.partition, row) : row \in Range(rows)}
      BY <2>2, <2>4, <2>5, <3>1
    <3> QED
      BY <1>5, <2>4, <3>1, <3>2, PartIsExact
  <2>9. ASSUME NEW w \in DOMAIN rows
        PROVE  \E p \in DOMAIN parts : \E r \in DOMAIN parts[p].rows :
                   Restores(t, parts[p], parts[p].rows[r], rows[w])
    <3>1. TupleOfRow(t.partition, rows[w]) \in V
      BY <2>2 DEF Range
    <3>2. PICK p \in DOMAIN q : q[p] = TupleOfRow(t.partition, rows[w])
      BY <2>6, <3>1
    <3>3. w \in Mine(rows, t.partition, q[p])
      BY <3>2 DEF Mine
    <3> QED
      BY <2>4, <2>8, <3>2, <3>3
  <2>10. OutputExact(t, parts, rows)
    BY <2>7, <2>8, <2>9 DEF OutputExact
  <2> QED
    BY <2>1, <2>10
<1> QED
  BY <1>2, <1>3, <1>4, <1>5

\* Where the keys of the outputs read back as their partition values: what a
\* mapping writes is what it has read, without the duplicates, each row in one
\* output, once and in order, for every config, lake and order of failures.
THEOREM WritesWhatItReads == Spec => [](KeysReadBack => RowsExact)
<1>1. Shaped /\ Listing /\ Downloads /\ Outcomes /\ Registry /\ Computed
          => (KeysReadBack => RowsExact)
  <2> SUFFICES ASSUME Shaped, Listing, Downloads, Outcomes, Registry, Computed, KeysReadBack,
                      NEW k \in DOMAIN results, Fine(results[k])
               PROVE  LET m == cfg.mappings[k]
                      IN  OutputExact(ById(cfg.tables, m.table), results[k].value,
                                      RowsWanted(m))
    BY Zenon DEF RowsExact, Written, Fine
  <2>1. PICK m, t : m = cfg.mappings[k] /\ t = ById(cfg.tables, m.table)
    OBVIOUS
  <2>2. PICK got : got = IngestMany(cfg, m, [i \in DOMAIN MappingFiles(m) |->
                                              lake[MappingFiles(m)[i]]], matchers)
    OBVIOUS
  <2>3. /\ k \in DOMAIN cfg.mappings /\ Fine(got)
        /\ results[k] = ProducePartitions(t, m, DedupRows(got.value, t.dedup),
                                          Names(m.columns))
    BY <2>1, <2>2, WrittenRows
  <2>4. Validate(cfg)
    <3>1. results # <<>>
      OBVIOUS
    <3>2. pc \in {"map", "completed", "Cancelled"}
      BY <3>1 DEF Outcomes
    <3> QED
      BY <3>2 DEF Registry
  <2>5. IsRows(got.value) /\ got.value = RowsRead(m)
    BY <2>1, <2>2, <2>3, <2>4, UnitedRows
  <2>6. DedupRows(got.value, t.dedup) = RowsWanted(m)
    <3>1. DedupRows(got.value, t.dedup) = FirstOfEach(got.value, t.dedup)
      BY <2>5, DedupKeepsFirsts
    <3> QED
      BY <2>1, <2>5, <3>1 DEF RowsWanted
  <2>7. PICK rows, cols : rows = RowsWanted(m) /\ cols = Names(m.columns)
    OBVIOUS
  <2>8. IsRows(rows) /\ Range(rows) \subseteq Range(RowsRead(m))
    BY <2>1, <2>3, <2>4, <2>7, WantedRows
  <2>9. \A row \in Range(rows) : DOMAIN row = cols
    <3> SUFFICES ASSUME NEW row \in Range(rows) PROVE DOMAIN row = cols
      OBVIOUS
    <3>1. row \in Range(RowsRead(m))
      BY <2>8
    <3>2. PICK n \in DOMAIN MappingFiles(m) :
            Fine(ReadOf(m, n)) /\ row \in Range(ReadOf(m, n).value)
      BY <2>1, <2>3, <2>4, <3>1, RowsReadFacts
    <3> QED
      BY <2>1, <2>3, <2>4, <2>7, <3>2, IngestRows DEF IsFrame
  <2>10. KeysSeparate(t, m, rows)
    <3>1. Written(k)
      BY Zenon DEF Written, Fine
    <3>2. KeysSeparate(ById(cfg.tables, cfg.mappings[k].table), cfg.mappings[k],
                       RowsWanted(cfg.mappings[k]))
      BY <3>1, Zenon DEF KeysReadBack, KeysSeparate
    <3> QED
      BY <2>1, <2>7, <3>2
  <2>11. results[k] = ProducePartitions(t, m, rows, cols)
    BY <2>3, <2>6, <2>7
  <2>12. OutputExact(t, ProducePartitions(t, m, rows, cols).value, rows)
    BY <2>8, <2>9, <2>10, <2>11, PartitionsAreExact
  <2> QED
    BY <2>1, <2>7, <2>11, <2>12
<1> QED
  BY <1>1, ShapedInv, ListingInv, DownloadsInv, OutcomesInv, RegistryInv, ComputedInv, PTL

=============================================================================

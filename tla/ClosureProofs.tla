---------------------------- MODULE ClosureProofs ----------------------------
(***************************************************************************)
(* Induction and recursion on the natural numbers, in the form the proofs  *)
(* of this project need them (sets and functions instead of operators),    *)
(* and what Closure computes.                                              *)
(***************************************************************************)
EXTENDS Integers, Closure, FiniteSetTheorems, WellFoundedInduction, TLAPS

\* The image of a finite set is finite.
LEMMA ImageFinite ==
  ASSUME NEW S, IsFiniteSet(S), NEW f, f = [x \in S |-> f[x]]
  PROVE  IsFiniteSet({f[x] : x \in S})
<1>1. f \in Surjection(S, {f[x] : x \in S})
  BY DEF Surjection
<1> QED
  BY <1>1, FS_Surjection

\* Induction on the natural numbers with the property given as the set of the
\* numbers that have it.
LEMMA SetInduction ==
  ASSUME NEW S, 0 \in S, \A n \in Nat : n \in S => n + 1 \in S
  PROVE  Nat \subseteq S
<1> DEFINE T == Nat \ S
<1>1. SUFFICES ASSUME T # {} PROVE FALSE
  OBVIOUS
<1> DEFINE R == {ss \in Nat \X Nat : ss[1] < ss[2]}
<1>2. IsWellFoundedOn(R, Nat)
  BY NatLessThanWellFounded DEF OpToRel
<1> HIDE DEF R
<1>3. PICK x \in T : \A y \in T : <<y, x>> \notin R
  BY <1>1, <1>2, WFMin
<1>4. x \in Nat /\ x # 0 /\ x - 1 \in Nat /\ x - 1 \notin T
  <2>1. x \in Nat /\ x # 0 /\ x - 1 \in Nat /\ x - 1 < x
    OBVIOUS
  <2>2. <<x - 1, x>> \in R
    BY <2>1 DEF R
  <2> QED
    BY <2>1, <2>2, <1>3
<1> QED
  BY <1>4

\* A set of naturals that is not empty has a least element.
LEMMA LeastNumber ==
  ASSUME NEW S \in SUBSET Nat, S # {}
  PROVE  \E m \in S : \A n \in S : m <= n
<1> SUFFICES ASSUME \A m \in S : \E n \in S : n < m PROVE FALSE
  OBVIOUS
<1> DEFINE T == {n \in Nat : \A k \in S : n <= k}
<1>1. 0 \in T
  OBVIOUS
<1>2. ASSUME NEW n \in Nat, n \in T PROVE n + 1 \in T
  BY <1>2
<1> HIDE DEF T
<1>3. Nat \subseteq T
  BY <1>1, <1>2, SetInduction
<1>4. PICK m \in S : TRUE
  OBVIOUS
<1>5. m + 1 \in Nat
  OBVIOUS
<1>6. m + 1 \in T
  BY <1>3, <1>5
<1> QED
  BY <1>6 DEF T

\* h is the recursive function with value b at 0 and step g, as far as n.
Unrolled(h, n, S, b, g) ==
  /\ h \in [0..n -> S] /\ h[0] = b
  /\ \A k \in 1..n : h[k] = g[<<k, h[k - 1]>>]

\* Two such functions agree as far as both go.
LEMMA UnrolledUnique ==
  ASSUME NEW S, NEW b, NEW g, NEW k \in Nat,
         NEW m \in Nat, NEW n \in Nat, k <= m, k <= n,
         NEW h, NEW j, Unrolled(h, m, S, b, g), Unrolled(j, n, S, b, g)
  PROVE  h[k] = j[k]
<1> DEFINE A == {i \in Nat : i <= m /\ i <= n => h[i] = j[i]}
<1>1. 0 \in A
  BY DEF Unrolled
<1>2. ASSUME NEW i \in Nat, i \in A PROVE i + 1 \in A
  <2>1. SUFFICES ASSUME i + 1 <= m, i + 1 <= n PROVE h[i + 1] = j[i + 1]
    OBVIOUS
  <2>2. h[i] = j[i]
    BY <1>2, <2>1
  <2>3. i + 1 \in 1..m /\ i + 1 \in 1..n /\ (i + 1) - 1 = i
    BY <2>1
  <2>4. h[i + 1] = g[<<i + 1, h[i]>>]
    BY <2>3 DEF Unrolled
  <2>5. j[i + 1] = g[<<i + 1, j[i]>>]
    BY <2>3 DEF Unrolled
  <2> QED
    BY <2>2, <2>4, <2>5
<1> HIDE DEF A
<1>3. Nat \subseteq A
  BY <1>1, <1>2, SetInduction
<1> QED
  BY <1>3 DEF A

\* There is one for every n.
LEMMA UnrolledExists ==
  ASSUME NEW S, NEW b \in S, NEW g \in [(Nat \ {0}) \X S -> S], NEW n \in Nat
  PROVE  \E h : Unrolled(h, n, S, b, g)
<1> DEFINE A == {i \in Nat : \E h : Unrolled(h, i, S, b, g)}
<1>1. 0 \in A
  <2>1. Unrolled([k \in 0..0 |-> b], 0, S, b, g)
    BY DEF Unrolled
  <2> QED
    BY <2>1
<1>2. ASSUME NEW i \in Nat, i \in A PROVE i + 1 \in A
  <2>1. PICK h : Unrolled(h, i, S, b, g)
    BY <1>2
  <2> DEFINE j == [k \in 0..(i + 1) |-> IF k <= i THEN h[k] ELSE g[<<i + 1, h[i]>>]]
  <2>2. h[i] \in S /\ g[<<i + 1, h[i]>>] \in S
    BY <2>1 DEF Unrolled
  <2>3. j \in [0..(i + 1) -> S] /\ j[0] = b
    BY <2>1, <2>2 DEF Unrolled
  <2>4. ASSUME NEW k \in 1..(i + 1) PROVE j[k] = g[<<k, j[k - 1]>>]
    <3>1. CASE k = i + 1
      <4>1. k - 1 = i /\ k \in 0..(i + 1) /\ i \in 0..(i + 1) /\ ~(k <= i)
        BY <3>1
      <4>2. j[k] = g[<<i + 1, h[i]>>] /\ j[k - 1] = h[i]
        BY <4>1
      <4> HIDE DEF j
      <4> QED
        BY <4>1, <4>2, <3>1
    <3>2. CASE k <= i
      <4>1. k - 1 \in 0..(i + 1) /\ k \in 0..(i + 1) /\ k - 1 <= i /\ k \in 1..i
        BY <3>2
      <4>2. j[k] = h[k] /\ j[k - 1] = h[k - 1]
        BY <4>1, <3>2
      <4>3. h[k] = g[<<k, h[k - 1]>>]
        BY <4>1, <2>1 DEF Unrolled
      <4> HIDE DEF j
      <4> QED
        BY <4>2, <4>3
    <3> QED
      BY <3>1, <3>2
  <2> HIDE DEF j
  <2>5. Unrolled(j, i + 1, S, b, g)
    BY <2>3, <2>4 DEF Unrolled
  <2> QED
    BY <2>5
<1> HIDE DEF A
<1>3. Nat \subseteq A
  BY <1>1, <1>2, SetInduction
<1> QED
  BY <1>3 DEF A

\* f has the value b at 0, and g gives each value from the one before.
Recursive(f, S, b, g) ==
  /\ f \in [Nat -> S] /\ f[0] = b
  /\ \A n \in Nat \ {0} : f[n] = g[<<n, f[n - 1]>>]

\* A function on the natural numbers may be defined by its value at 0 and by a
\* step from each number to the next.
THEOREM RecursionOnNat ==
  ASSUME NEW S, NEW b \in S, NEW g \in [(Nat \ {0}) \X S -> S]
  PROVE  \E f : Recursive(f, S, b, g)
<1> DEFINE H(n) == CHOOSE h : Unrolled(h, n, S, b, g)
           f == [n \in Nat |-> H(n)[n]]
<1>1. ASSUME NEW n \in Nat PROVE Unrolled(H(n), n, S, b, g)
  BY UnrolledExists
<1> HIDE DEF H
<1>2. ASSUME NEW n \in Nat PROVE H(n)[n] \in S
  BY <1>1 DEF Unrolled
<1>3. f \in [Nat -> S]
  BY <1>2
<1>4. f[0] = b
  BY <1>1 DEF Unrolled
<1>5. ASSUME NEW n \in Nat \ {0} PROVE f[n] = g[<<n, f[n - 1]>>]
  <2>1. n - 1 \in Nat /\ n \in 1..n /\ n - 1 <= n - 1 /\ n - 1 <= n
    OBVIOUS
  <2>2. H(n)[n] = g[<<n, H(n)[n - 1]>>]
    BY <1>1, <2>1 DEF Unrolled
  <2>3. H(n)[n - 1] = H(n - 1)[n - 1]
    BY <1>1, <2>1, UnrolledUnique
  <2> QED
    BY <2>1, <2>2, <2>3
<1> HIDE DEF f
<1> QED
  BY <1>3, <1>4, <1>5 DEF Recursive

-----------------------------------------------------------------------------
(* Closure                                                                 *)

\* The steps of Closure are well defined.
LEMMA ClosureSteps ==
  ASSUME NEW S, NEW start \in SUBSET S, NEW succ \in [S -> SUBSET S]
  PROVE  \E f \in [Nat -> SUBSET S] :
           /\ f[0] = start
           /\ \A n \in Nat : f[n + 1] = f[n] \cup UNION {succ[x] : x \in f[n]}
           /\ Closure(S, start, succ) = f[Cardinality(S)]
<1> DEFINE Grow(T) == T \cup UNION {succ[x] : x \in T}
           g == [p \in (Nat \ {0}) \X SUBSET S |-> Grow(p[2])]
           Body(f) == [n \in Nat |-> IF n = 0 THEN start ELSE Grow(f[n - 1])]
           up == CHOOSE f : f = Body(f)
<1>1. ASSUME NEW T \in SUBSET S PROVE Grow(T) \in SUBSET S
  OBVIOUS
<1>2. g \in [(Nat \ {0}) \X SUBSET S -> SUBSET S]
  <2>1. ASSUME NEW p \in (Nat \ {0}) \X SUBSET S PROVE Grow(p[2]) \in SUBSET S
    BY <1>1
  <2> HIDE DEF Grow
  <2> QED
    BY <2>1
<1>3. ASSUME NEW n \in Nat \ {0}, NEW T \in SUBSET S PROVE g[<<n, T>>] = Grow(T)
  <2> HIDE DEF Grow
  <2> QED
    OBVIOUS
<1> HIDE DEF g, Grow
<1>4. PICK f : Recursive(f, SUBSET S, start, g)
  BY <1>2, RecursionOnNat
<1>5. ASSUME NEW n \in Nat \ {0} PROVE f[n] = Grow(f[n - 1])
  <2>1. n - 1 \in Nat
    OBVIOUS
  <2> QED
    BY <1>3, <1>4, <2>1 DEF Recursive
<1>6. f = Body(f)
  BY <1>4, <1>5 DEF Recursive
<1>7. up = Body(up)
  BY <1>6
<1>8. Closure(S, start, succ) = up[Cardinality(S)]
  BY DEF Closure, Grow
<1> HIDE DEF up
<1>9. up = f
  <2> DEFINE A == {n \in Nat : up[n] = f[n]}
  <2>1. 0 \in A
    BY <1>4, <1>7 DEF Recursive
  <2>2. ASSUME NEW n \in Nat, n \in A PROVE n + 1 \in A
    <3>1. n + 1 \in Nat \ {0} /\ (n + 1) - 1 = n
      OBVIOUS
    <3>2. up[n + 1] = Grow(up[n])
      BY <1>7, <3>1
    <3>3. f[n + 1] = Grow(f[n])
      BY <1>5, <3>1
    <3> QED
      BY <2>2, <3>2, <3>3
  <2> HIDE DEF A
  <2>3. Nat \subseteq A
    BY <2>1, <2>2, SetInduction
  <2>4. \A n \in Nat : up[n] = f[n]
    BY <2>3 DEF A
  <2> QED
    BY <1>4, <1>7, <2>4 DEF Recursive
<1>10. ASSUME NEW n \in Nat PROVE f[n + 1] = f[n] \cup UNION {succ[x] : x \in f[n]}
  <2>1. n + 1 \in Nat \ {0} /\ (n + 1) - 1 = n
    OBVIOUS
  <2> QED
    BY <1>5, <2>1 DEF Grow
<1> QED
  BY <1>4, <1>8, <1>9, <1>10 DEF Recursive

\* Closure is the smallest set with the elements of start that has the
\* successors of its elements.
THEOREM ClosureLeast ==
  ASSUME NEW S, IsFiniteSet(S), NEW start \in SUBSET S, NEW succ \in [S -> SUBSET S]
  PROVE  LET C == Closure(S, start, succ) IN
         /\ start \subseteq C /\ C \subseteq S
         /\ \A x \in C : succ[x] \subseteq C
         /\ \A T : start \subseteq T /\ (\A x \in T \cap S : succ[x] \subseteq T) => C \subseteq T
<1>1. PICK f \in [Nat -> SUBSET S] :
        /\ f[0] = start
        /\ \A n \in Nat : f[n + 1] = f[n] \cup UNION {succ[x] : x \in f[n]}
        /\ Closure(S, start, succ) = f[Cardinality(S)]
  BY ClosureSteps
<1> DEFINE c == Cardinality(S)
           Closed(T) == \A x \in T : succ[x] \subseteq T
<1>2. c \in Nat
  BY FS_CardinalityType
<1>3. ASSUME NEW n \in Nat PROVE IsFiniteSet(f[n]) /\ Cardinality(f[n]) \in Nat /\ Cardinality(f[n]) <= c
  BY FS_Subset, FS_CardinalityType
<1>4. \A n \in Nat : start \subseteq f[n]
  <2> DEFINE A == {n \in Nat : start \subseteq f[n]}
  <2>1. 0 \in A
    BY <1>1
  <2>2. ASSUME NEW n \in Nat, n \in A PROVE n + 1 \in A
    BY <1>1, <2>2
  <2> HIDE DEF A
  <2>3. Nat \subseteq A
    BY <2>1, <2>2, SetInduction
  <2> QED
    BY <2>3 DEF A
<1>5. \A n \in Nat : Closed(f[n]) \/ start = {} \/ Cardinality(f[n]) >= n + 1
  <2> DEFINE A == {n \in Nat : Closed(f[n]) \/ start = {} \/ Cardinality(f[n]) >= n + 1}
  <2>1. 0 \in A
    <3>1. start # {} => Cardinality(f[0]) # 0
      BY <1>1, <1>3, FS_EmptySet
    <3> QED
      BY <1>3, <3>1
  <2>2. ASSUME NEW n \in Nat, n \in A PROVE n + 1 \in A
    <3>1. CASE Closed(f[n])
      <4>1. UNION {succ[x] : x \in f[n]} \subseteq f[n]
        BY <3>1
      <4>2. f[n + 1] = f[n]
        BY <1>1, <4>1
      <4> QED
        BY <3>1, <4>2
    <3>2. CASE start = {}
      BY <3>2
    <3>3. CASE ~Closed(f[n]) /\ Cardinality(f[n]) >= n + 1
      <4>1. PICK y \in f[n + 1] : y \notin f[n]
        BY <1>1, <3>3
      <4>2. f[n] \cup {y} \in SUBSET f[n + 1]
        BY <1>1, <4>1
      <4>3. Cardinality(f[n] \cup {y}) = Cardinality(f[n]) + 1
        BY <1>3, <4>1, FS_AddElement
      <4>4. Cardinality(f[n] \cup {y}) <= Cardinality(f[n + 1])
        BY <1>3, <4>2, FS_Subset
      <4>5. Cardinality(f[n + 1]) \in Nat /\ Cardinality(f[n]) \in Nat
        BY <1>3
      <4> QED
        BY <3>3, <4>3, <4>4, <4>5
    <3> QED
      BY <2>2, <3>1, <3>2, <3>3
  <2> HIDE DEF A
  <2>3. Nat \subseteq A
    BY <2>1, <2>2, SetInduction
  <2> QED
    BY <2>3 DEF A
<1>6. Closed(f[c])
  <2>1. CASE start = {}
    <3> DEFINE A == {n \in Nat : f[n] = {}}
    <3>1. 0 \in A
      BY <1>1, <2>1
    <3>2. ASSUME NEW n \in Nat, n \in A PROVE n + 1 \in A
      BY <1>1, <3>2
    <3> HIDE DEF A
    <3>3. Nat \subseteq A
      BY <3>1, <3>2, SetInduction
    <3> QED
      BY <1>2, <3>3 DEF A
  <2>2. CASE start # {}
    <3>1. ~(Cardinality(f[c]) >= c + 1)
      BY <1>2, <1>3
    <3> HIDE DEF c, Closed
    <3> QED
      BY <1>2, <1>5, <2>2, <3>1
  <2> QED
    BY <2>1, <2>2
<1>7. ASSUME NEW T, start \subseteq T, \A x \in T \cap S : succ[x] \subseteq T
      PROVE  f[c] \subseteq T
  <2> DEFINE A == {n \in Nat : f[n] \subseteq T}
  <2>1. 0 \in A
    BY <1>1, <1>7
  <2>2. ASSUME NEW n \in Nat, n \in A PROVE n + 1 \in A
    BY <1>1, <1>7, <2>2
  <2> HIDE DEF A
  <2>3. Nat \subseteq A
    BY <2>1, <2>2, SetInduction
  <2> QED
    BY <1>2, <2>3 DEF A
<1> HIDE DEF c
<1>8. f[c] \in SUBSET S /\ start \subseteq f[c]
  BY <1>2, <1>4
<1>9. Closure(S, start, succ) = f[c]
  BY <1>1 DEF c
<1> QED
  BY <1>6, <1>7, <1>8, <1>9
=============================================================================

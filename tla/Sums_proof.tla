------------------------------ MODULE Sums_proof ------------------------------
(***************************************************************************)
(* Sums over finite sets: what MapThenSumSet of the community modules      *)
(* computes, which the proofs about shares and counters rest on.  It folds *)
(* with a function over the subsets, whose equation is shown to have       *)
(* exactly one solution; induction is by a smallest counterexample.        *)
(***************************************************************************)
EXTENDS FiniteSetsExt, FiniteSetTheorems, TLAPS

(* The sum of the values of a function.                                    *)
SumOf(f, S) == MapThenSumSet(LAMBDA x : f[x], S)

(* The function over subsets that the fold iterates.                       *)
Iterates(h, f, S) ==
  h = [s \in SUBSET S |->
         IF s = {} THEN 0
         ELSE f[CHOOSE x \in s : TRUE] + h[s \ {CHOOSE x \in s : TRUE}]]

(* A set of subsets that is not empty has a smallest one.                  *)
LEMMA SmallestSubset ==
  ASSUME NEW S, IsFiniteSet(S), NEW C \in SUBSET SUBSET S, C # {}
  PROVE  \E T \in C : \A U \in SUBSET T : U # T => U \notin C
<1>1. IsWellFoundedOn(StrictSubsetOrdering(S), SUBSET S)
  BY FS_StrictSubsetOrderingWellFounded, FS_FiniteSubsetsOfFinite
<1>2. PICK T \in C : \A U \in C : ~(<<U, T>> \in StrictSubsetOrdering(S))
  <2>1. C \subseteq SUBSET S
    OBVIOUS
  <2> QED BY <1>1, <2>1, WFMin
<1>3. \A U \in SUBSET T : U # T => U \notin C
  BY <1>2 DEF StrictSubsetOrdering
<1> QED BY <1>2, <1>3

(* The equation of the iteration has at most one solution.                 *)
LEMMA IterationUnique ==
  ASSUME NEW S, IsFiniteSet(S), NEW f, NEW g, NEW h, Iterates(g, f, S), Iterates(h, f, S)
  PROVE  g = h
<1> DEFINE C == {T \in SUBSET S : g[T] # h[T]}
<1>0. C \in SUBSET SUBSET S
  OBVIOUS
<1>1. ASSUME C # {} PROVE FALSE
  <2>1. PICK T \in C : \A U \in SUBSET T : U # T => U \notin C
    <3> HIDE DEF C
    <3> QED BY <1>0, <1>1, SmallestSubset
  <2>2. CASE T = {}
    BY <2>1, <2>2 DEF Iterates
  <2>3. CASE T # {}
    <3> DEFINE c == CHOOSE x \in T : TRUE
    <3>1. c \in T
      BY <2>3
    <3>2. g[T \ {c}] = h[T \ {c}]
      BY <2>1, <3>1
    <3>3. g[T] = f[c] + g[T \ {c}]
      BY <2>3 DEF Iterates
    <3>4. h[T] = f[c] + h[T \ {c}]
      BY <2>3 DEF Iterates
    <3> QED BY <2>1, <3>2, <3>3, <3>4
  <2> QED BY <2>2, <2>3
<1>2. g = [s \in SUBSET S |-> g[s]] /\ h = [s \in SUBSET S |-> h[s]]
  BY DEF Iterates
<1>3. \A s \in SUBSET S : g[s] = h[s]
  BY <1>1
<1> QED BY <1>2, <1>3

(* A solution for a set contains those for its subsets.                    *)
LEMMA IterationRestricts ==
  ASSUME NEW S, NEW T \in SUBSET S, NEW f, NEW h, Iterates(h, f, S)
  PROVE  Iterates([s \in SUBSET T |-> h[s]], f, T)
<1> DEFINE c(s) == CHOOSE x \in s : TRUE
           g == [s \in SUBSET T |-> h[s]]
<1>1. \A s \in SUBSET T : h[s] = IF s = {} THEN 0 ELSE f[c(s)] + h[s \ {c(s)}]
  BY DEF Iterates
<1>2. \A s \in SUBSET T : g[s \ {c(s)}] = h[s \ {c(s)}]
  OBVIOUS
<1>3. g = [s \in SUBSET T |-> IF s = {} THEN 0 ELSE f[c(s)] + g[s \ {c(s)}]]
  <2> HIDE DEF c
  <2> QED BY <1>1, <1>2
<1> QED BY <1>3 DEF Iterates

(* The equation has a solution.                                            *)
LEMMA IterationExists ==
  ASSUME NEW S, IsFiniteSet(S), NEW f
  PROVE  \E h : Iterates(h, f, S)
<1> DEFINE C == {T \in SUBSET S : ~ \E h : Iterates(h, f, T)}
           c(s) == CHOOSE x \in s : TRUE
           K(s) == CHOOSE k : Iterates(k, f, s)
<1>0. C \in SUBSET SUBSET S
  OBVIOUS
<1>1. ASSUME C # {} PROVE FALSE
  <2>1. PICK T \in C : \A U \in SUBSET T : U # T => U \notin C
    <3> HIDE DEF C
    <3> QED BY <1>0, <1>1, SmallestSubset
  <2> DEFINE h == [s \in SUBSET T |-> IF s = {} THEN 0 ELSE f[c(s)] + K(s \ {c(s)})[s \ {c(s)}]]
  <2>2. \A s \in SUBSET T : s # {} => c(s) \in s
    OBVIOUS
  <2>3. \A u \in SUBSET T : u # T => Iterates(K(u), f, u)
    BY <2>1
  <2>4. ASSUME NEW u \in SUBSET T, u # T PROVE h[u] = K(u)[u]
    <3>1. Iterates(K(u), f, u) /\ IsFiniteSet(u)
      <4>1. u \in SUBSET S
        BY <2>1
      <4> QED BY <2>3, <2>4, <4>1, FS_Subset
    <3>2. CASE u = {}
      <4>1. K(u)[u] = 0
        BY <3>1, <3>2 DEF Iterates
      <4> QED BY <3>2, <4>1
    <3>3. CASE u # {}
      <4> DEFINE v == u \ {c(u)}
      <4>1. v \in SUBSET u /\ v \in SUBSET T /\ v # T /\ IsFiniteSet(v)
        BY <2>2, <2>4, <3>1, <3>3, FS_Subset
      <4>2. Iterates(K(v), f, v)
        BY <2>3, <4>1
      <4>3. Iterates([s \in SUBSET v |-> K(u)[s]], f, v)
        <5> HIDE DEF v, K
        <5> QED BY <3>1, <4>1, IterationRestricts
      <4>4. K(v) = [s \in SUBSET v |-> K(u)[s]]
        <5> HIDE DEF v, K
        <5> QED BY <4>1, <4>2, <4>3, IterationUnique
      <4>5. K(v)[v] = K(u)[v]
        <5> HIDE DEF v, K
        <5>1. v \in SUBSET v
          OBVIOUS
        <5> QED BY <4>4, <5>1
      <4>6. K(u)[u] = f[c(u)] + K(u)[v]
        <5> HIDE DEF K
        <5>1. u \in SUBSET u
          OBVIOUS
        <5> QED BY <3>1, <3>3, <5>1 DEF Iterates
      <4>7. h[u] = f[c(u)] + K(v)[v]
        <5> HIDE DEF K, c
        <5> QED BY <3>3
      <4> QED BY <4>5, <4>6, <4>7
    <3> QED BY <3>2, <3>3
  <2>5. \A s \in SUBSET T : s # {} => h[s \ {c(s)}] = K(s \ {c(s)})[s \ {c(s)}]
    <3> SUFFICES ASSUME NEW s \in SUBSET T, s # {}
                 PROVE  h[s \ {c(s)}] = K(s \ {c(s)})[s \ {c(s)}]
      OBVIOUS
    <3>1. s \ {c(s)} \in SUBSET T /\ s \ {c(s)} # T
      BY <2>2
    <3> HIDE DEF h, K, c
    <3> QED BY <2>4, <3>1
  <2>6. h = [s \in SUBSET T |-> IF s = {} THEN 0 ELSE f[c(s)] + h[s \ {c(s)}]]
    <3>1. \A s \in SUBSET T : h[s] = IF s = {} THEN 0 ELSE f[c(s)] + h[s \ {c(s)}]
      <4> HIDE DEF K, c
      <4> QED BY <2>5
    <3>2. h = [s \in SUBSET T |-> h[s]]
      OBVIOUS
    <3> HIDE DEF h, c
    <3> QED BY <3>1, <3>2
  <2>7. Iterates(h, f, T)
    <3> HIDE DEF h
    <3> QED BY <2>6 DEF Iterates
  <2> HIDE DEF h
  <2> QED BY <2>1, <2>7
<1> QED
  <2>1. S \notin C
    BY <1>1
  <2> QED BY <2>1

(* The fold computes the value of the solution.                            *)
LEMMA SumIsIterated ==
  ASSUME NEW S, IsFiniteSet(S), NEW f, NEW h, Iterates(h, f, S)
  PROVE  SumOf(f, S) = h[S]
<1> DEFINE k == CHOOSE g : Iterates(g, f, S)
<1>1. SumOf(f, S) = k[S]
  BY DEF SumOf, MapThenSumSet, MapThenFoldSet, Iterates
<1>2. k = h
  BY IterationUnique
<1> QED BY <1>1, <1>2

(* A sum of integers is an integer.                                        *)
LEMMA IterationType ==
  ASSUME NEW S, IsFiniteSet(S), NEW f, \A x \in S : f[x] \in Int, NEW h, Iterates(h, f, S)
  PROVE  \A T \in SUBSET S : h[T] \in Int
<1> DEFINE C == {T \in SUBSET S : h[T] \notin Int}
<1>0. C \in SUBSET SUBSET S
  OBVIOUS
<1>1. ASSUME C # {} PROVE FALSE
  <2>1. PICK T \in C : \A U \in SUBSET T : U # T => U \notin C
    <3> HIDE DEF C
    <3> QED BY <1>0, <1>1, SmallestSubset
  <2>2. CASE T = {}
    BY <2>1, <2>2 DEF Iterates
  <2>3. CASE T # {}
    <3> DEFINE c == CHOOSE x \in T : TRUE
    <3>1. c \in T /\ f[c] \in Int
      BY <2>1, <2>3
    <3>2. h[T \ {c}] \in Int
      BY <2>1, <3>1
    <3>3. h[T] = f[c] + h[T \ {c}]
      BY <2>1, <2>3 DEF Iterates
    <3> HIDE DEF c
    <3> QED BY <2>1, <3>1, <3>2, <3>3
  <2> QED BY <2>2, <2>3
<1> QED BY <1>1

(* Any element may be taken first.                                         *)
LEMMA IterationStep ==
  ASSUME NEW S, IsFiniteSet(S), NEW f, \A x \in S : f[x] \in Int, NEW h, Iterates(h, f, S)
  PROVE  \A T \in SUBSET S : \A x \in T : h[T] = f[x] + h[T \ {x}]
<1> DEFINE C == {T \in SUBSET S : \E x \in T : h[T] # f[x] + h[T \ {x}]}
<1>0. C \in SUBSET SUBSET S
  OBVIOUS
<1>a. \A T \in SUBSET S : h[T] \in Int
  BY IterationType
<1>1. ASSUME C # {} PROVE FALSE
  <2>1. PICK T \in C : \A U \in SUBSET T : U # T => U \notin C
    <3> HIDE DEF C
    <3> QED BY <1>0, <1>1, SmallestSubset
  <2>2. PICK x \in T : h[T] # f[x] + h[T \ {x}]
    BY <2>1
  <2> DEFINE c == CHOOSE y \in T : TRUE
             both == (T \ {x}) \ {c}
  <2>3. c \in T /\ T \in SUBSET S /\ f[c] \in Int /\ f[x] \in Int
    BY <2>1, <2>2
  <2>4. h[T] = f[c] + h[T \ {c}]
    BY <2>2, <2>3 DEF Iterates
  <2>5. x # c
    <3> HIDE DEF c
    <3> QED BY <2>2, <2>4
  <2> HIDE DEF c
  <2>6. h[T \ {c}] = f[x] + h[(T \ {c}) \ {x}]
    <3>1. T \ {c} \notin C /\ x \in T \ {c} /\ T \ {c} \in SUBSET S
      BY <2>1, <2>3, <2>5
    <3> QED BY <3>1
  <2>7. h[T \ {x}] = f[c] + h[both]
    <3>1. T \ {x} \notin C /\ c \in T \ {x} /\ T \ {x} \in SUBSET S
      BY <2>1, <2>3, <2>5
    <3> QED BY <3>1
  <2>8. (T \ {c}) \ {x} = both
    OBVIOUS
  <2>9. h[both] \in Int
    BY <1>a, <2>3
  <2>10. h[T \ {c}] = f[x] + h[both]
    BY <2>6, <2>8
  <2> HIDE DEF both
  <2> DEFINE n == h[both]
             fc == f[c]
             fx == f[x]
  <2>11. h[T] = fc + (fx + n) /\ h[T \ {x}] = fc + n /\ n \in Int /\ fc \in Int /\ fx \in Int
    BY <2>3, <2>4, <2>7, <2>9, <2>10
  <2>12. h[T] # fx + h[T \ {x}]
    BY <2>2
  <2> HIDE DEF n, fc, fx
  <2> QED BY <2>11, <2>12
<1> QED BY <1>1

-----------------------------------------------------------------------------
(* Sums *)

(* The sum over nothing.                                                   *)
LEMMA SumEmpty ==
  ASSUME NEW f
  PROVE  SumOf(f, {}) = 0
<1>1. PICK h : Iterates(h, f, {})
  BY IterationExists, FS_EmptySet
<1>2. h[{}] = 0
  BY <1>1 DEF Iterates
<1> QED BY <1>1, <1>2, SumIsIterated, FS_EmptySet

(* Sums of integers are integers.                                          *)
LEMMA SumType ==
  ASSUME NEW S, IsFiniteSet(S), NEW f, \A x \in S : f[x] \in Int
  PROVE  SumOf(f, S) \in Int
<1>1. PICK h : Iterates(h, f, S)
  BY IterationExists
<1>2. h[S] \in Int
  <2>1. S \in SUBSET S
    OBVIOUS
  <2> QED BY <1>1, <2>1, IterationType
<1> QED BY <1>1, <1>2, SumIsIterated

(* A sum is one of its terms and the sum of the others.                    *)
LEMMA SumStep ==
  ASSUME NEW S, IsFiniteSet(S), NEW f, \A x \in S : f[x] \in Int, NEW x \in S
  PROVE  SumOf(f, S) = f[x] + SumOf(f, S \ {x})
<1>1. PICK h : Iterates(h, f, S)
  BY IterationExists
<1> DEFINE R == S \ {x}
<1>2. R \in SUBSET S /\ IsFiniteSet(R) /\ R \in SUBSET R /\ S \in SUBSET S
  BY FS_Subset
<1>3. Iterates([s \in SUBSET R |-> h[s]], f, R)
  <2>1. R \in SUBSET S
    OBVIOUS
  <2> HIDE DEF R
  <2> QED BY ONLY <1>1, <2>1, IterationRestricts
<1>4. SumOf(f, R) = [s \in SUBSET R |-> h[s]][R]
  <2> HIDE DEF R
  <2> QED BY <1>2, <1>3, SumIsIterated
<1>5. SumOf(f, R) = h[R]
  BY <1>2, <1>4
<1>6. h[S] = f[x] + h[R]
  BY <1>1, <1>2, IterationStep
<1>7. SumOf(f, S) = h[S]
  BY <1>1, SumIsIterated
<1> QED BY <1>5, <1>6, <1>7

(* A sum depends on the terms only.                                        *)
LEMMA SumCongruent ==
  ASSUME NEW S, IsFiniteSet(S), NEW f, NEW g, \A x \in S : f[x] = g[x]
  PROVE  SumOf(f, S) = SumOf(g, S)
<1>1. PICK h : Iterates(h, f, S)
  BY IterationExists
<1>2. Iterates(h, g, S)
  <2> DEFINE c(s) == CHOOSE x \in s : TRUE
  <2>1. h = [s \in SUBSET S |-> IF s = {} THEN 0 ELSE f[c(s)] + h[s \ {c(s)}]]
    BY <1>1 DEF Iterates
  <2>2. \A s \in SUBSET S : s # {} => f[c(s)] = g[c(s)]
    OBVIOUS
  <2>3. h = [s \in SUBSET S |-> IF s = {} THEN 0 ELSE g[c(s)] + h[s \ {c(s)}]]
    <3> HIDE DEF c
    <3> QED BY <2>1, <2>2
  <2> QED BY <2>3 DEF Iterates
<1> QED BY <1>1, <1>2, SumIsIterated

(* Changing one term moves the sum by the difference.                      *)
LEMMA SumUpdate ==
  ASSUME NEW S, IsFiniteSet(S), NEW f, NEW g, NEW x \in S,
         \A y \in S : f[y] \in Int, g[x] \in Int,
         \A y \in S \ {x} : g[y] = f[y]
  PROVE  SumOf(g, S) = SumOf(f, S) + (g[x] - f[x])
<1>1. SumOf(f, S) = f[x] + SumOf(f, S \ {x})
  BY SumStep
<1>2. \A y \in S : g[y] \in Int
  OBVIOUS
<1>3. SumOf(g, S) = g[x] + SumOf(g, S \ {x})
  BY <1>2, SumStep
<1>4. IsFiniteSet(S \ {x})
  BY FS_Subset
<1>5. SumOf(g, S \ {x}) = SumOf(f, S \ {x})
  BY <1>4, SumCongruent
<1>6. SumOf(f, S \ {x}) \in Int
  BY <1>4, SumType
<1> QED BY <1>1, <1>3, <1>5, <1>6

(* Changing the terms of a subset moves the sum by the differences.        *)
LEMMA SumShift ==
  ASSUME NEW S, IsFiniteSet(S), NEW f, NEW g, NEW D \in SUBSET S,
         \A y \in S : f[y] \in Int /\ g[y] \in Int,
         \A y \in S \ D : g[y] = f[y]
  PROVE  SumOf(g, S) = SumOf(f, S) + SumOf([y \in D |-> g[y] - f[y]], D)
<1> DEFINE d(E) == [y \in E |-> g[y] - f[y]]
           m(E) == [y \in S |-> IF y \in E THEN g[y] ELSE f[y]]
           C == {E \in SUBSET D : SumOf(m(E), S) # SumOf(f, S) + SumOf(d(D), E)}
<1>0. C \in SUBSET SUBSET D /\ IsFiniteSet(D)
  BY FS_Subset
<1>1. ASSUME C # {} PROVE FALSE
  <2>1. PICK E \in C : \A U \in SUBSET E : U # E => U \notin C
    <3> HIDE DEF C
    <3> QED BY <1>0, <1>1, SmallestSubset
  <2>2. CASE E = {}
    <3>1. SumOf(d(D), E) = 0
      BY <2>2, SumEmpty
    <3>2. SumOf(m(E), S) = SumOf(f, S)
      <4>1. \A y \in S : m(E)[y] = f[y]
        BY <2>2
      <4> HIDE DEF m
      <4> QED BY <4>1, SumCongruent
    <3>3. SumOf(f, S) \in Int
      BY SumType
    <3> QED BY <2>1, <3>1, <3>2, <3>3
  <2>3. CASE E # {}
    <3>1. PICK x \in E : TRUE
      BY <2>3
    <3> DEFINE F == E \ {x}
    <3>2. E \in SUBSET D /\ F \in SUBSET D /\ F \notin C /\ x \in S /\ x \in D
      BY <2>1, <3>1
    <3>3. SumOf(m(F), S) = SumOf(f, S) + SumOf(d(D), F)
      BY <3>2
    <3>4. SumOf(d(D), E) = d(D)[x] + SumOf(d(D), F)
      <4>1. IsFiniteSet(E)
        BY <1>0, <3>2, FS_Subset
      <4>2. \A y \in E : d(D)[y] \in Int
        BY <3>2
      <4> HIDE DEF d
      <4> QED BY <3>1, <4>1, <4>2, SumStep
    <3>5. SumOf(m(E), S) = SumOf(m(F), S) + (m(E)[x] - m(F)[x])
      <4>1. \A y \in S : m(F)[y] \in Int /\ m(E)[y] \in Int
        OBVIOUS
      <4>2. \A y \in S \ {x} : m(E)[y] = m(F)[y]
        OBVIOUS
      <4> DEFINE a == m(F)
                 b == m(E)
      <4>3. /\ \A y \in S : a[y] \in Int
            /\ b[x] \in Int
            /\ \A y \in S \ {x} : b[y] = a[y]
        BY <3>2, <4>1, <4>2
      <4> HIDE DEF a, b
      <4>4. SumOf(b, S) = SumOf(a, S) + (b[x] - a[x])
        BY <3>2, <4>3, SumUpdate
      <4> QED BY <4>4 DEF a, b
    <3>6. m(E)[x] = g[x] /\ m(F)[x] = f[x] /\ d(D)[x] = g[x] - f[x]
      BY <3>1, <3>2
    <3>7. SumOf(f, S) \in Int /\ SumOf(d(D), F) \in Int /\ g[x] \in Int /\ f[x] \in Int
      <4>1. SumOf(f, S) \in Int /\ g[x] \in Int /\ f[x] \in Int
        BY <3>2, SumType
      <4>2. IsFiniteSet(F)
        BY <1>0, <3>2, FS_Subset
      <4>3. \A y \in F : d(D)[y] \in Int
        BY <3>2
      <4>4. SumOf(d(D), F) \in Int
        <5> HIDE DEF d, F
        <5> QED BY <4>2, <4>3, SumType
      <4> QED BY <4>1, <4>4
    <3>8. SumOf(m(E), S) # SumOf(f, S) + SumOf(d(D), E)
      BY <2>1
    <3> HIDE DEF d, m, F
    <3> QED BY <3>3, <3>4, <3>5, <3>6, <3>7, <3>8
  <2> QED BY <2>2, <2>3
<1>2. SumOf(m(D), S) = SumOf(f, S) + SumOf(d(D), D)
  BY <1>1
<1>3. SumOf(m(D), S) = SumOf(g, S)
  <2>1. \A y \in S : m(D)[y] = g[y]
    OBVIOUS
  <2> HIDE DEF m
  <2> QED BY <2>1, SumCongruent
<1> QED BY <1>2, <1>3

(* A sum of naturals is a natural number, at least every sum over a subset.*)
LEMMA SumOfNaturals ==
  ASSUME NEW S, IsFiniteSet(S), NEW f, \A y \in S : f[y] \in Nat
  PROVE  /\ SumOf(f, S) \in Nat
         /\ \A x \in S : f[x] <= SumOf(f, S)
<1> DEFINE C == {T \in SUBSET S : SumOf(f, T) \notin Nat}
<1>0. C \in SUBSET SUBSET S
  OBVIOUS
<1>1. ASSUME C # {} PROVE FALSE
  <2>1. PICK T \in C : \A U \in SUBSET T : U # T => U \notin C
    <3> HIDE DEF C
    <3> QED BY <1>0, <1>1, SmallestSubset
  <2>a. T # {}
    BY <2>1, SumEmpty
  <2>2. PICK x \in T : TRUE
    BY <2>a
  <2>3. SumOf(f, T) = f[x] + SumOf(f, T \ {x})
    <3>1. IsFiniteSet(T) /\ \A y \in T : f[y] \in Int
      BY <2>1, FS_Subset
    <3> QED BY <2>2, <3>1, SumStep
  <2>4. SumOf(f, T \ {x}) \in Nat /\ f[x] \in Nat
    BY <2>1, <2>2
  <2> QED BY <2>1, <2>3, <2>4
<1>2. \A T \in SUBSET S : SumOf(f, T) \in Nat
  BY <1>1
<1>3. ASSUME NEW x \in S PROVE f[x] <= SumOf(f, S)
  <2>1. SumOf(f, S) = f[x] + SumOf(f, S \ {x})
    BY SumStep
  <2>2. SumOf(f, S \ {x}) \in Nat /\ f[x] \in Nat
    BY <1>2
  <2> QED BY <2>1, <2>2
<1>4. S \in SUBSET S
  OBVIOUS
<1> QED BY <1>2, <1>3, <1>4

-----------------------------------------------------------------------------
(* Folds with any step: x is the element that `c` chooses from a set, and  *)
(* g[<<x, y>>] what the step makes of it and of the value y for the rest.  *)

Solves(h, g, c, base, S) ==
  h = [s \in SUBSET S |-> IF s = {} THEN base ELSE g[<<c[s], h[s \ {c[s]}]>>]]

(* `c` chooses an element of every subset that is not empty.               *)
Chooses(c, S) == \A s \in SUBSET S : s # {} => c[s] \in s

(* The equation of a fold has at most one solution.                        *)
LEMMA FoldUnique ==
  ASSUME NEW S, IsFiniteSet(S), NEW g, NEW c, NEW base, Chooses(c, S),
         NEW h, NEW k, Solves(h, g, c, base, S), Solves(k, g, c, base, S)
  PROVE  h = k
<1> DEFINE C == {T \in SUBSET S : h[T] # k[T]}
<1>0. C \in SUBSET SUBSET S
  OBVIOUS
<1>1. ASSUME C # {} PROVE FALSE
  <2>1. PICK T \in C : \A U \in SUBSET T : U # T => U \notin C
    <3> HIDE DEF C
    <3> QED BY <1>0, <1>1, SmallestSubset
  <2>2. CASE T = {}
    BY <2>1, <2>2 DEF Solves
  <2>3. CASE T # {}
    <3>1. c[T] \in T
      BY <2>3 DEF Chooses
    <3>2. h[T \ {c[T]}] = k[T \ {c[T]}]
      BY <2>1, <3>1
    <3>3. h[T] = g[<<c[T], h[T \ {c[T]}]>>]
      BY <2>3 DEF Solves
    <3>4. k[T] = g[<<c[T], k[T \ {c[T]}]>>]
      BY <2>3 DEF Solves
    <3> QED BY <2>1, <3>2, <3>3, <3>4
  <2> QED BY <2>2, <2>3
<1>2. h = [s \in SUBSET S |-> h[s]] /\ k = [s \in SUBSET S |-> k[s]]
  BY DEF Solves
<1>3. \A s \in SUBSET S : h[s] = k[s]
  BY <1>1
<1> QED BY <1>2, <1>3

(* A solution for a set contains those for its subsets.                    *)
LEMMA FoldRestricts ==
  ASSUME NEW S, NEW T \in SUBSET S, NEW g, NEW c, NEW base, NEW h, Solves(h, g, c, base, S)
  PROVE  Solves([s \in SUBSET T |-> h[s]], g, c, base, T)
<1> DEFINE k == [s \in SUBSET T |-> h[s]]
<1>1. \A s \in SUBSET T : h[s] = IF s = {} THEN base ELSE g[<<c[s], h[s \ {c[s]}]>>]
  BY DEF Solves
<1>2. \A s \in SUBSET T : k[s \ {c[s]}] = h[s \ {c[s]}]
  OBVIOUS
<1>3. k = [s \in SUBSET T |-> IF s = {} THEN base ELSE g[<<c[s], k[s \ {c[s]}]>>]]
  BY <1>1, <1>2
<1> QED BY <1>3 DEF Solves

(* The equation of a fold has a solution.                                  *)
LEMMA FoldExists ==
  ASSUME NEW S, IsFiniteSet(S), NEW g, NEW c, NEW base, Chooses(c, S)
  PROVE  \E h : Solves(h, g, c, base, S)
<1> DEFINE C == {T \in SUBSET S : ~ \E h : Solves(h, g, c, base, T)}
           K(s) == CHOOSE k : Solves(k, g, c, base, s)
           R(s) == s \ {c[s]}
<1>0. C \in SUBSET SUBSET S
  OBVIOUS
<1>1. ASSUME C # {} PROVE FALSE
  <2>1. PICK T \in C : \A U \in SUBSET T : U # T => U \notin C
    <3> HIDE DEF C
    <3> QED BY <1>0, <1>1, SmallestSubset
  <2> DEFINE h == [s \in SUBSET T |-> IF s = {} THEN base ELSE g[<<c[s], K(R(s))[R(s)]>>]]
  <2>2. \A s \in SUBSET T : s # {} => c[s] \in s
    BY DEF Chooses
  <2>3. \A u \in SUBSET T : u # T => Solves(K(u), g, c, base, u)
    BY <2>1
  <2>4. ASSUME NEW u \in SUBSET T, u # T PROVE h[u] = K(u)[u]
    <3>1. Solves(K(u), g, c, base, u) /\ IsFiniteSet(u) /\ Chooses(c, u)
      <4>1. u \in SUBSET S
        BY <2>1
      <4>2. Chooses(c, u)
        BY <4>1 DEF Chooses
      <4> HIDE DEF K
      <4> QED BY <2>3, <2>4, <4>1, <4>2, FS_Subset
    <3>2. CASE u = {}
      <4>1. K(u)[u] = base
        BY <3>1, <3>2 DEF Solves
      <4> QED BY <3>2, <4>1
    <3>3. CASE u # {}
      <4> DEFINE v == R(u)
      <4>1. v \in SUBSET u /\ v \in SUBSET T /\ v # T /\ IsFiniteSet(v)
        BY <2>2, <2>4, <3>1, <3>3, FS_Subset
      <4>2. Solves(K(v), g, c, base, v) /\ Chooses(c, v)
        <5>1. Chooses(c, v)
          BY <3>1, <4>1 DEF Chooses
        <5> HIDE DEF v, K
        <5> QED BY <2>3, <4>1, <5>1
      <4>3. Solves([s \in SUBSET v |-> K(u)[s]], g, c, base, v)
        <5> HIDE DEF v, K
        <5> QED BY <3>1, <4>1, FoldRestricts
      <4>4. K(v) = [s \in SUBSET v |-> K(u)[s]]
        <5> HIDE DEF v, K
        <5> QED BY <4>1, <4>2, <4>3, FoldUnique
      <4>5. K(v)[v] = K(u)[v]
        <5> HIDE DEF v, K
        <5>1. v \in SUBSET v
          OBVIOUS
        <5> QED BY <4>4, <5>1
      <4>6. K(u)[u] = g[<<c[u], K(u)[v]>>]
        <5> HIDE DEF K
        <5>1. u \in SUBSET u
          OBVIOUS
        <5> QED BY <3>1, <3>3, <5>1 DEF Solves
      <4>7. h[u] = g[<<c[u], K(v)[v]>>]
        <5> HIDE DEF K
        <5> QED BY <3>3
      <4> QED BY <4>5, <4>6, <4>7
    <3> QED BY <3>2, <3>3
  <2>5. \A s \in SUBSET T : s # {} => h[R(s)] = K(R(s))[R(s)]
    <3> SUFFICES ASSUME NEW s \in SUBSET T, s # {}
                 PROVE  h[R(s)] = K(R(s))[R(s)]
      OBVIOUS
    <3>1. R(s) \in SUBSET T /\ R(s) # T
      BY <2>2
    <3> HIDE DEF h, K, R
    <3> QED BY <2>4, <3>1
  <2>6. h = [s \in SUBSET T |-> IF s = {} THEN base ELSE g[<<c[s], h[s \ {c[s]}]>>]]
    <3>1. \A s \in SUBSET T : h[s] = IF s = {} THEN base ELSE g[<<c[s], h[R(s)]>>]
      <4> HIDE DEF K, R
      <4> QED BY <2>5
    <3>2. h = [s \in SUBSET T |-> h[s]]
      OBVIOUS
    <3> HIDE DEF h
    <3> QED BY <3>1, <3>2
  <2>7. Solves(h, g, c, base, T)
    <3> HIDE DEF h
    <3> QED BY <2>6 DEF Solves
  <2> HIDE DEF h
  <2> QED BY <2>1, <2>7
<1> QED
  <2>1. S \notin C
    BY <1>1
  <2> QED BY <2>1

(* The values of a fold are in every set that has the base and that the    *)
(* step does not leave.                                                    *)
LEMMA FoldType ==
  ASSUME NEW S, IsFiniteSet(S), NEW T, NEW base \in T, NEW c, Chooses(c, S),
         NEW g, \A x \in S, y \in T : g[<<x, y>>] \in T,
         NEW h, Solves(h, g, c, base, S)
  PROVE  \A s \in SUBSET S : h[s] \in T
<1> DEFINE C == {s \in SUBSET S : h[s] \notin T}
<1>0. C \in SUBSET SUBSET S
  OBVIOUS
<1>1. ASSUME C # {} PROVE FALSE
  <2>1. PICK s \in C : \A u \in SUBSET s : u # s => u \notin C
    <3> HIDE DEF C
    <3> QED BY <1>0, <1>1, SmallestSubset
  <2>2. CASE s = {}
    BY <2>1, <2>2 DEF Solves
  <2>3. CASE s # {}
    <3>1. c[s] \in s
      BY <2>3 DEF Chooses
    <3>2. h[s \ {c[s]}] \in T
      BY <2>1, <3>1
    <3>3. h[s] = g[<<c[s], h[s \ {c[s]}]>>]
      BY <2>3 DEF Solves
    <3>4. c[s] \in S
      BY <3>1
    <3> QED BY <2>1, <3>2, <3>3, <3>4
  <2> QED BY <2>2, <2>3
<1> QED BY <1>1

-----------------------------------------------------------------------------
(* Factors *)

(* If every value of f is at most a multiple of that of g, so are the sums. *)
LEMMA SumScaled ==
  ASSUME NEW S, IsFiniteSet(S), NEW f, NEW g, NEW a \in Int, NEW b \in Int,
         \A x \in S : f[x] \in Int /\ g[x] \in Int /\ a * f[x] <= b * g[x]
  PROVE  a * SumOf(f, S) <= b * SumOf(g, S)
<1> DEFINE C == {T \in SUBSET S : ~(a * SumOf(f, T) <= b * SumOf(g, T))}
<1>0. C \in SUBSET SUBSET S
  OBVIOUS
<1>1. ASSUME C # {} PROVE FALSE
  <2>1. PICK T \in C : \A U \in SUBSET T : U # T => U \notin C
    <3> HIDE DEF C
    <3> QED BY <1>0, <1>1, SmallestSubset
  <2>2. CASE T = {}
    <3>1. SumOf(f, T) = 0 /\ SumOf(g, T) = 0
      BY <2>2, SumEmpty
    <3> QED BY <2>1, <3>1
  <2>3. CASE T # {}
    <3>1. PICK x \in T : TRUE
      BY <2>3
    <3> DEFINE R == T \ {x}
    <3>2. R \in SUBSET S /\ T \in SUBSET S /\ IsFiniteSet(T) /\ IsFiniteSet(R) /\ R # T
      BY <2>1, <3>1, FS_Subset
    <3>3. \A y \in T : f[y] \in Int /\ g[y] \in Int
      BY <3>2
    <3>4. SumOf(f, T) = f[x] + SumOf(f, R) /\ SumOf(g, T) = g[x] + SumOf(g, R)
      BY <3>1, <3>2, <3>3, SumStep
    <3>5. a * SumOf(f, R) <= b * SumOf(g, R)
      BY <2>1, <3>1, <3>2
    <3>6. SumOf(f, R) \in Int /\ SumOf(g, R) \in Int
      <4>1. \A y \in R : f[y] \in Int /\ g[y] \in Int
        BY <3>3
      <4> HIDE DEF R
      <4> QED BY <3>2, <4>1, SumType
    <3>7. f[x] \in Int /\ g[x] \in Int /\ a * f[x] <= b * g[x]
      BY <3>1, <3>2
    <3>8. \A u, v \in Int : a * (u + v) = a * u + a * v /\ b * (u + v) = b * u + b * v
      OBVIOUS
    <3> DEFINE u == f[x]  v == SumOf(f, R)  w == g[x]  z == SumOf(g, R)
    <3>9. a * (u + v) <= b * (w + z)
      <4>1. u \in Int /\ v \in Int /\ w \in Int /\ z \in Int /\ a * u <= b * w /\ a * v <= b * z
        BY <3>5, <3>6, <3>7
      <4>2. a * (u + v) = a * u + a * v /\ b * (w + z) = b * w + b * z
        <5> HIDE DEF u, v, w, z
        <5> QED BY <3>8, <4>1
      <4>3. a * u \in Int /\ a * v \in Int /\ b * w \in Int /\ b * z \in Int
        <5> HIDE DEF u, v, w, z
        <5> QED BY <4>1
      <4> HIDE DEF u, v, w, z
      <4> QED BY <4>1, <4>2, <4>3
    <3> QED BY <2>1, <3>2, <3>4, <3>9
  <2> QED BY <2>2, <2>3
<1> QED BY <1>1

-----------------------------------------------------------------------------
(* Numbers *)

(* A set of natural numbers that is not empty has a smallest one.          *)
LEMMA SmallestNumber ==
  ASSUME NEW C \in SUBSET Nat, C # {}
  PROVE  \E n \in C : \A m \in C : n <= m
<1>1. PICK top \in C : TRUE
  OBVIOUS
<1> DEFINE D == {s \in SUBSET (0 .. top) : \E m \in C : s = 0 .. m}
<1>2. D \in SUBSET SUBSET (0 .. top) /\ 0 .. top \in D /\ IsFiniteSet(0 .. top)
  BY <1>1, FS_Interval
<1>3. PICK s \in D : \A u \in SUBSET s : u # s => u \notin D
  <2> DEFINE all == 0 .. top
  <2>1. D # {} /\ D \in SUBSET SUBSET all /\ IsFiniteSet(all)
    BY <1>2
  <2> HIDE DEF D, all
  <2> QED BY <2>1, SmallestSubset
<1>4. PICK n \in C : s = 0 .. n
  BY <1>3
<1>5. ASSUME NEW m \in C PROVE n <= m
  <2>1. n \in Nat /\ m \in Nat /\ top \in Nat
    BY <1>1, <1>4, <1>5
  <2>2. CASE m < n
    <3>1. 0 .. m \in SUBSET s /\ n \in s /\ n \notin 0 .. m /\ 0 .. m \in SUBSET (0 .. top)
      BY <1>3, <1>4, <2>1, <2>2
    <3>2. 0 .. m \in D
      BY <1>5, <3>1
    <3> QED BY <1>3, <3>1, <3>2
  <2> QED BY <2>1, <2>2
<1> QED BY <1>4, <1>5

(* A set that has 0 and with each number the next one has all of them.     *)
LEMMA UpTo ==
  ASSUME NEW n \in Nat, NEW P, 0 \in P, \A k \in 1 .. n : k - 1 \in P => k \in P
  PROVE  \A k \in 0 .. n : k \in P
<1> DEFINE C == {k \in 0 .. n : k \notin P}
<1>1. ASSUME C # {} PROVE FALSE
  <2>1. C \in SUBSET Nat
    OBVIOUS
  <2>2. PICK m \in C : \A k \in C : m <= k
    <3> HIDE DEF C
    <3> QED BY <1>1, <2>1, SmallestNumber
  <2>3. m \in 1 .. n /\ m - 1 \in 0 .. n
    BY <2>2
  <2>4. m - 1 \notin C
    BY <2>1, <2>2, <2>3
  <2> QED BY <2>2, <2>3, <2>4
<1> QED BY <1>1

LEMMA SumOfOnes ==
  ASSUME NEW S, IsFiniteSet(S), NEW f, \A x \in S : f[x] = 1
  PROVE  SumOf(f, S) = Cardinality(S)
<1> DEFINE C == {T \in SUBSET S : SumOf(f, T) # Cardinality(T)}
<1>0. C \in SUBSET SUBSET S
  OBVIOUS
<1>1. ASSUME C # {} PROVE FALSE
  <2>1. PICK T \in C : \A U \in SUBSET T : U # T => U \notin C
    <3> HIDE DEF C
    <3> QED BY <1>0, <1>1, SmallestSubset
  <2>2. CASE T = {}
    BY <2>1, <2>2, SumEmpty, FS_EmptySet
  <2>3. CASE T # {}
    <3>1. PICK x \in T : TRUE
      BY <2>3
    <3> DEFINE R == T \ {x}
    <3>2. R \in SUBSET S /\ T \in SUBSET S /\ IsFiniteSet(T) /\ IsFiniteSet(R) /\ R # T
      BY <2>1, <3>1, FS_Subset
    <3>3. SumOf(f, T) = f[x] + SumOf(f, R)
      <4>1. \A y \in T : f[y] \in Int
        BY <3>2
      <4> QED BY <3>1, <3>2, <4>1, SumStep
    <3>4. SumOf(f, R) = Cardinality(R)
      BY <2>1, <3>2
    <3>5. Cardinality(R) = Cardinality(T) - 1 /\ Cardinality(T) \in Nat
      BY <3>1, <3>2, FS_RemoveElement, FS_CardinalityType
    <3>6. f[x] = 1
      BY <3>1, <3>2
    <3> HIDE DEF R
    <3> QED BY <2>1, <3>3, <3>4, <3>5, <3>6
  <2> QED BY <2>2, <2>3
<1> QED BY <1>1

(* A sum of numbers none of which is above a bound.                        *)
LEMMA SumBound ==
  ASSUME NEW S, IsFiniteSet(S), NEW f, NEW k \in Int, \A x \in S : f[x] \in Int /\ f[x] <= k
  PROVE  SumOf(f, S) <= k * Cardinality(S)
<1> DEFINE g == [x \in S |-> 1]
<1>1. \A x \in S : g[x] = 1
  OBVIOUS
<1> HIDE DEF g
<1>2. SumOf(g, S) = Cardinality(S)
  BY <1>1, SumOfOnes
<1>3. \A x \in S : f[x] \in Int /\ g[x] \in Int /\ 1 * f[x] <= k * g[x]
  BY <1>1
<1>4. 1 * SumOf(f, S) <= k * SumOf(g, S)
  BY <1>3, SumScaled
<1>5. SumOf(f, S) \in Int /\ Cardinality(S) \in Int
  BY SumType, FS_CardinalityType
<1> QED BY <1>2, <1>4, <1>5

(* Terms that are zero may be left out.                                    *)
LEMMA SumSupport ==
  ASSUME NEW S, IsFiniteSet(S), NEW T \in SUBSET S, NEW f, \A x \in S : f[x] \in Int,
         \A x \in S \ T : f[x] = 0
  PROVE  SumOf(f, S) = SumOf(f, T)
<1> DEFINE z == [x \in S |-> 0]
           d == [x \in T |-> f[x] - z[x]]
<1>1. /\ \A x \in S : z[x] = 0 /\ z[x] \in Int /\ z[x] \in Nat /\ 1 * z[x] <= 0 * z[x]
      /\ \A x \in S : z[x] \in Int /\ f[x] \in Int
      /\ \A x \in S \ T : f[x] = z[x]
      /\ IsFiniteSet(T)
  BY FS_Subset
<1>2. SumOf(z, S) = 0
  <2> HIDE DEF z
  <2>1. SumOf(z, S) \in Nat
    BY <1>1, SumOfNaturals
  <2>2. 1 * SumOf(z, S) <= 0 * SumOf(z, S)
    <3>1. \A x \in S : z[x] \in Int /\ z[x] \in Int /\ 1 * z[x] <= 0 * z[x]
      BY <1>1
    <3> QED BY <3>1, SumScaled
  <2> QED BY <2>1, <2>2
<1>3. SumOf(f, S) = SumOf(z, S) + SumOf(d, T)
  <2>1. /\ IsFiniteSet(S) /\ T \in SUBSET S
        /\ \A x \in S : z[x] \in Int /\ f[x] \in Int
        /\ \A x \in S \ T : f[x] = z[x]
    BY <1>1
  <2> HIDE DEF z
  <2> QED BY ONLY <2>1, SumShift DEF d
<1>4. \A x \in T : d[x] = f[x]
  BY <1>1
<1>5. SumOf(d, T) = SumOf(f, T)
  <2> HIDE DEF d
  <2> QED BY <1>1, <1>4, SumCongruent
<1>6. SumOf(f, T) \in Int
  BY <1>1, SumType
<1> HIDE DEF z, d
<1> QED BY <1>2, <1>3, <1>5, <1>6

(* Over sets that have nothing in common sums add up.                      *)
LEMMA SumUnion ==
  ASSUME NEW S, IsFiniteSet(S), NEW A \in SUBSET S, NEW f, \A x \in S : f[x] \in Int
  PROVE  SumOf(f, S) = SumOf(f, A) + SumOf(f, S \ A)
<1> DEFINE B == S \ A
           g == [x \in S |-> IF x \in A THEN f[x] ELSE 0]
           d == [x \in B |-> f[x] - g[x]]
<1>1. /\ \A x \in S : f[x] \in Int /\ g[x] \in Int
      /\ \A x \in S \ B : f[x] = g[x]
      /\ \A x \in S \ A : g[x] = 0
      /\ \A x \in A : g[x] = f[x]
      /\ \A x \in B : f[x] - g[x] = f[x]
  OBVIOUS
<1>2. B \in SUBSET S /\ IsFiniteSet(A) /\ IsFiniteSet(B)
  BY FS_Subset
<1> HIDE DEF g, B
<1>3. SumOf(f, S) = SumOf(g, S) + SumOf(d, B)
  BY <1>1, <1>2, SumShift
<1>4. SumOf(g, S) = SumOf(g, A)
  BY <1>1, SumSupport
<1>5. SumOf(g, A) = SumOf(f, A)
  BY <1>1, <1>2, SumCongruent
<1>6. SumOf(d, B) = SumOf(f, B)
  <2>1. \A x \in B : d[x] = f[x]
    BY <1>1
  <2> HIDE DEF d
  <2> QED BY <1>2, <2>1, SumCongruent
<1> QED BY <1>3, <1>4, <1>5, <1>6 DEF B

(* Of numbers that are not negative a part is not more than all.           *)
LEMMA SumSubset ==
  ASSUME NEW S, IsFiniteSet(S), NEW A \in SUBSET S, NEW f, \A x \in S : f[x] \in Nat
  PROVE  SumOf(f, A) <= SumOf(f, S)
<1>1. SumOf(f, S) = SumOf(f, A) + SumOf(f, S \ A)
  <2>1. \A x \in S : f[x] \in Int
    OBVIOUS
  <2> QED BY <2>1, SumUnion
<1>2. IsFiniteSet(A) /\ IsFiniteSet(S \ A)
  BY FS_Subset
<1>3. SumOf(f, A) \in Nat /\ SumOf(f, S \ A) \in Nat
  BY <1>2, SumOfNaturals
<1> QED BY <1>1, <1>3

(* A set of numbers up to a bound has a greatest one.                      *)
LEMMA MaxOfSome ==
  ASSUME NEW n \in Int, NEW s, s \subseteq 1 .. n, s # {}
  PROVE  Max(s) \in s /\ \A y \in s : y <= Max(s)
<1> DEFINE D == {m \in Nat : \A i \in s : i <= m}
<1>1. PICK x \in s : x \in Nat /\ 1 <= x /\ x <= n
  <2>1. PICK x \in s : TRUE
    OBVIOUS
  <2>2. x \in 1 .. n
    OBVIOUS
  <2> QED BY <2>1, <2>2
<1>2. PICK m \in D : \A o \in D : m <= o
  <2>1. n \in Nat /\ \A i \in s : i <= n
    BY <1>1
  <2>2. D \in SUBSET Nat /\ D # {}
    BY <2>1
  <2> HIDE DEF D
  <2> QED BY <2>2, SmallestNumber
<1>3. m \in s
  <2> SUFFICES ASSUME m \notin s PROVE FALSE
    OBVIOUS
  <2>1. m \in Nat /\ \A i \in s : i \in Nat /\ i <= m /\ i # m
    BY <1>2
  <2>2. \A i \in s : i <= m - 1
    BY <2>1
  <2>3. m - 1 \in Nat
    BY <1>1, <2>1
  <2>4. m - 1 \in D
    BY <2>2, <2>3
  <2>5. m <= m - 1
    BY <1>2, <2>4
  <2> QED BY <2>1, <2>5
<1>4. \E z \in s : \A y \in s : z >= y
  <2>1. m \in Nat /\ \A y \in s : y \in Nat /\ y <= m
    BY <1>2
  <2>2. \A y \in s : m >= y
    BY <2>1
  <2> QED BY <1>3, <2>2
<1>5. Max(s) \in s /\ \A y \in s : Max(s) >= y
  BY <1>4 DEF Max
<1>6. \A y \in s : y \in Nat
  OBVIOUS
<1> QED BY <1>5, <1>6

(* A sum of numbers below the steps of a sequence of values stays below    *)
(* what the values rise by.                                                *)
LEMMA SumTelescopes ==
  ASSUME NEW p \in Nat, NEW r \in Nat, p <= r, NEW f, NEW a,
         \A i \in p .. r : a[i] \in Int,
         \A i \in p + 1 .. r : f[i] \in Int /\ f[i] <= a[i] - a[i - 1]
  PROVE  SumOf(f, p + 1 .. r) <= a[r] - a[p]
<1> DEFINE n == r - p
           P == {k \in 0 .. n : SumOf(f, p + 1 .. p + k) <= a[p + k] - a[p]}
<1>1. n \in Nat /\ p + n = r
  OBVIOUS
<1>2. 0 \in P
  <2>1. p + 1 .. p + 0 = {} /\ p + 0 = p /\ a[p] \in Int /\ 0 \in 0 .. n
    OBVIOUS
  <2>2. SumOf(f, p + 1 .. p + 0) = 0
    BY <2>1, SumEmpty
  <2> QED BY <2>1, <2>2
<1>3. ASSUME NEW k \in 1 .. n, k - 1 \in P PROVE k \in P
  <2> DEFINE S == p + 1 .. p + k
  <2>1. /\ p + k \in S /\ S \ {p + k} = p + 1 .. p + (k - 1) /\ S \subseteq p + 1 .. r
        /\ p + k \in p + 1 .. r /\ p + k \in p .. r /\ p + (k - 1) \in p .. r
        /\ p + k - 1 = p + (k - 1) /\ k \in 0 .. n /\ p \in p .. r
    BY <1>1
  <2>2. IsFiniteSet(S)
    <3>1. p + 1 \in Int /\ p + k \in Int
      OBVIOUS
    <3> QED BY <3>1, FS_Interval
  <2>3. \A i \in S : f[i] \in Int
    BY <2>1
  <2>4. SumOf(f, S \ {p + k}) \in Int
    <3>1. IsFiniteSet(S \ {p + k})
      BY <2>2, FS_Subset
    <3> HIDE DEF S
    <3> QED BY <2>3, <3>1, SumType
  <2> HIDE DEF S, n
  <2>5. SumOf(f, S) = f[p + k] + SumOf(f, S \ {p + k})
    BY <2>1, <2>2, <2>3, SumStep
  <2>6. SumOf(f, S \ {p + k}) <= a[p + (k - 1)] - a[p]
    BY <1>3, <2>1
  <2>7. f[p + k] <= a[p + k] - a[p + (k - 1)] /\ f[p + k] \in Int
    BY <2>1
  <2>8. a[p + k] \in Int /\ a[p + (k - 1)] \in Int /\ a[p] \in Int
    BY <2>1
  <2>9. SumOf(f, S) <= a[p + k] - a[p]
    BY <2>4, <2>5, <2>6, <2>7, <2>8
  <2> QED BY <2>1, <2>9 DEF S
<1>4. n \in P
  <2> HIDE DEF n, P
  <2>1. \A k \in 0 .. n : k \in P
    BY <1>1, <1>2, <1>3, UpTo
  <2> QED BY <1>1, <2>1
<1> QED BY <1>1, <1>4
=============================================================================

---------------------------- MODULE Foundations ----------------------------
(***************************************************************************)
(* What the proofs of several components rest on.                          *)
(*                                                                         *)
(* The least-number principle for a set of naturals, from the              *)
(* well-foundedness of strict inclusion among the subsets of an interval:  *)
(* cited wherever the code takes the first or longest something.           *)
(*                                                                         *)
(* Induction over numbers and finite sets, which follows from it, for a    *)
(* set of numbers or of sets in the place of a predicate.                  *)
(*                                                                         *)
(* Sums of a function over finite sets, as SumFunctionOnSet of the         *)
(* community modules computes them: taking one element after the other in  *)
(* an order CHOOSE decides.  The order does not matter.                    *)
(*                                                                         *)
(* Lists, and what a list comprehension keeps of one.                      *)
(*                                                                         *)
(* Places in a finite total order: how many elements come before one.      *)
(***************************************************************************)
EXTENDS Lists, FiniteSetsExt, FiniteSetTheorems, WellFoundedInduction, TLAPS

\* A non-empty set of numbers has a least one.
LEMMA LeastNatural ==
    ASSUME NEW T \in SUBSET Nat, T # {}
    PROVE  \E m \in T : \A k \in T : m <= k
<1>1. PICK n \in T : TRUE
  OBVIOUS
<1> DEFINE C == {X \in SUBSET (1 .. n) : \E k \in T : X = 1 .. k}
<1>2. IsWellFoundedOn(StrictSubsetOrdering(1 .. n), FiniteSubsetsOf(1 .. n))
  BY FS_StrictSubsetOrderingWellFounded
<1>3. C \subseteq FiniteSubsetsOf(1 .. n)
  <2>1. IsFiniteSet(1 .. n)
    BY FS_Interval
  <2> QED
    BY <2>1, FS_FiniteSubsetsOfFinite
<1>4. C # {}
  <2>1. 1 .. n \in C
    BY <1>1
  <2> QED
    BY <2>1
<1>5. PICK X \in C : \A Y \in C : ~(<<Y, X>> \in StrictSubsetOrdering(1 .. n))
  <2> HIDE DEF C
  <2> QED
    BY <1>2, <1>3, <1>4, WFMin
<1>6. PICK m \in T : X = 1 .. m
  BY <1>5
<1>7. ASSUME NEW k \in T, k < m PROVE FALSE
  <2>1. k \in Nat /\ m \in Nat
    OBVIOUS
  <2>2. 1 .. k \subseteq X /\ m \in X /\ m \notin 1 .. k
    BY <2>1, <1>6, <1>7
  <2>3. 1 .. k \in C
    BY <2>2, <1>5
  <2>4. <<1 .. k, X>> \in StrictSubsetOrdering(1 .. n)
    BY <2>2, <2>3, <1>5 DEF StrictSubsetOrdering
  <2> QED
    BY <1>5, <2>3, <2>4
<1> QED
  BY <1>7

-----------------------------------------------------------------------------
(* Induction *)

LEMMA StrongInduction ==
    ASSUME NEW P \in SUBSET Nat,
           \A n \in Nat : (\A m \in Nat : m < n => m \in P) => n \in P
    PROVE  P = Nat
<1> SUFFICES ASSUME Nat \ P # {} PROVE FALSE
  OBVIOUS
<1>1. PICK n \in Nat \ P : \A k \in Nat \ P : n <= k
  BY LeastNatural
<1>2. \A m \in Nat : m < n => m \in P
  BY <1>1
<1> QED
  BY <1>1, <1>2

LEMMA SetInduction ==
    ASSUME NEW S, IsFiniteSet(S), NEW P \in SUBSET SUBSET S, {} \in P,
           \A T \in P : \A x \in S \ T : T \cup {x} \in P
    PROVE  S \in P
<1> DEFINE N == {n \in Nat : \A T \in SUBSET S : Cardinality(T) = n => T \in P}
<1>1. ASSUME NEW n \in Nat, \A m \in Nat : m < n => m \in N
      PROVE  n \in N
  <2> SUFFICES ASSUME NEW T \in SUBSET S, Cardinality(T) = n PROVE T \in P
    OBVIOUS
  <2>1. IsFiniteSet(T)
    BY FS_Subset
  <2>2. CASE T = {}
    BY <2>2
  <2>3. CASE T # {}
    <3>1. PICK x \in T : TRUE
      BY <2>3
    <3>2. IsFiniteSet(T \ {x}) /\ Cardinality(T \ {x}) = n - 1
      BY <2>1, FS_RemoveElement
    <3>3. n - 1 \in Nat /\ n - 1 < n
      BY <3>2, FS_CardinalityType
    <3>4. T \ {x} \in P
      BY <1>1, <3>2, <3>3
    <3>5. x \in S \ (T \ {x}) /\ (T \ {x}) \cup {x} = T
      OBVIOUS
    <3> QED
      BY <3>4, <3>5
  <2> QED
    BY <2>2, <2>3
<1>2. N \in SUBSET Nat
  OBVIOUS
<1> HIDE DEF N
<1>3. N = Nat
  BY ONLY <1>1, <1>2, StrongInduction
<1>4. Cardinality(S) \in N
  BY <1>3, FS_CardinalityType
<1> QED
  BY <1>4 DEF N

-----------------------------------------------------------------------------
(* Sums *)

\* The element a sum takes first.
Pick(S) == CHOOSE x \in S : TRUE

\* g adds up f over every subset of S.
AddsUp(g, f, S) ==
    g = [s \in SUBSET S |-> IF s = {} THEN 0 ELSE f[Pick(s)] + g[s \ {Pick(s)}]]

LEMMA SumIsChosen ==
    ASSUME NEW f, NEW S
    PROVE  SumFunctionOnSet(f, S) = (CHOOSE g : AddsUp(g, f, S))[S]
BY DEF SumFunctionOnSet, FoldFunctionOnSet, MapThenFoldSet, AddsUp, Pick

-----------------------------------------------------------------------------
(* What SumFunctionOnSet computes *)

\* g adds up f over the subsets of S with at most n elements.
AddsUpTo(g, f, S, n) ==
    g = [s \in {t \in SUBSET S : Cardinality(t) <= n} |->
            IF s = {} THEN 0 ELSE f[Pick(s)] + g[s \ {Pick(s)}]]

\* Picking an element leaves one less.
LEMMA PickOne ==
    ASSUME NEW S, IsFiniteSet(S), S # {}
    PROVE  /\ Pick(S) \in S
           /\ IsFiniteSet(S \ {Pick(S)})
           /\ Cardinality(S \ {Pick(S)}) = Cardinality(S) - 1
           /\ Cardinality(S) \in Nat /\ Cardinality(S) - 1 \in Nat
<1>1. Pick(S) \in S
  BY DEF Pick
<1>2. /\ IsFiniteSet(S \ {Pick(S)})
      /\ Cardinality(S \ {Pick(S)}) = Cardinality(S) - 1
  BY <1>1, FS_RemoveElement
<1> QED
  BY <1>1, <1>2, FS_CardinalityType

LEMMA SumExists ==
    ASSUME NEW S, IsFiniteSet(S), NEW f
    PROVE  \E g : AddsUp(g, f, S)
<1> DEFINE D(n) == {t \in SUBSET S : Cardinality(t) <= n}
           N == {n \in Nat : \E g : AddsUpTo(g, f, S, n)}
<1>1. \A t \in SUBSET S : IsFiniteSet(t) /\ Cardinality(t) \in Nat
  BY FS_Subset, FS_CardinalityType
<1>2. ASSUME NEW n \in Nat, \A m \in Nat : m < n => m \in N
      PROVE  n \in N
  <2>1. CASE n = 0
    <3> DEFINE g == [s \in D(n) |-> 0]
    <3>1. \A s \in D(n) : s = {}
      BY <1>1, <2>1, FS_EmptySet
    <3>2. g = [s \in D(n) |-> IF s = {} THEN 0 ELSE f[Pick(s)] + g[s \ {Pick(s)}]]
      BY <3>1
    <3>3. AddsUpTo(g, f, S, n)
      BY <3>2 DEF AddsUpTo
    <3> QED
      BY <3>3
  <2>2. CASE n > 0
    <3>1. n - 1 \in Nat /\ n - 1 < n
      BY <2>2
    <3>2. PICK g : AddsUpTo(g, f, S, n - 1)
      BY <1>2, <3>1
    <3> DEFINE h == [s \in D(n) |-> IF s = {} THEN 0 ELSE f[Pick(s)] + g[s \ {Pick(s)}]]
    <3>3. \A s \in D(n - 1) : s \in D(n) /\ h[s] = g[s]
      <4>1. \A s \in D(n - 1) : s \in D(n)
        BY <1>1, <3>1
      <4>2. \A s \in D(n - 1) : g[s] = IF s = {} THEN 0 ELSE f[Pick(s)] + g[s \ {Pick(s)}]
        BY <3>2 DEF AddsUpTo
      <4> QED
        BY <4>1, <4>2
    <3>4. \A s \in D(n) : s # {} => s \ {Pick(s)} \in D(n - 1)
      BY <1>1, <3>1, PickOne
    <3>5. h = [s \in D(n) |-> IF s = {} THEN 0 ELSE f[Pick(s)] + h[s \ {Pick(s)}]]
      BY <3>3, <3>4
    <3>6. AddsUpTo(h, f, S, n)
      BY <3>5 DEF AddsUpTo
    <3> QED
      BY <3>6
  <2> QED
    BY <2>1, <2>2
<1>3. N \in SUBSET Nat
  OBVIOUS
<1> HIDE DEF N
<1>4. N = Nat
  BY ONLY <1>2, <1>3, StrongInduction
<1>5. Cardinality(S) \in Nat
  BY FS_CardinalityType
<1>6. D(Cardinality(S)) = SUBSET S
  BY FS_Subset, FS_CardinalityType
<1>7. PICK g : AddsUpTo(g, f, S, Cardinality(S))
  BY <1>4, <1>5 DEF N
<1>8. AddsUp(g, f, S)
  BY <1>6, <1>7 DEF AddsUp, AddsUpTo
<1> QED
  BY <1>8

\* What is added up for a set does not depend on the larger set it is part of.
LEMMA SumsAgree ==
    ASSUME NEW S, IsFiniteSet(S), NEW R \in SUBSET S, NEW f, NEW g, NEW h,
           AddsUp(g, f, S), AddsUp(h, f, R)
    PROVE  g[R] = h[R]
<1> DEFINE N == {n \in Nat : \A t \in SUBSET R : Cardinality(t) = n => g[t] = h[t]}
<1>1. ASSUME NEW n \in Nat, \A m \in Nat : m < n => m \in N
      PROVE  n \in N
  <2> SUFFICES ASSUME NEW t \in SUBSET R, Cardinality(t) = n PROVE g[t] = h[t]
    OBVIOUS
  <2>1. IsFiniteSet(t)
    BY FS_Subset
  <2>2. /\ g[t] = IF t = {} THEN 0 ELSE f[Pick(t)] + g[t \ {Pick(t)}]
        /\ h[t] = IF t = {} THEN 0 ELSE f[Pick(t)] + h[t \ {Pick(t)}]
    BY DEF AddsUp
  <2>3. CASE t # {}
    <3>1. n - 1 \in Nat /\ n - 1 < n /\ Cardinality(t \ {Pick(t)}) = n - 1
      BY <2>1, <2>3, PickOne
    <3>2. g[t \ {Pick(t)}] = h[t \ {Pick(t)}]
      BY <1>1, <3>1
    <3> QED
      BY <2>2, <3>2
  <2> QED
    BY <2>2, <2>3
<1>2. N \in SUBSET Nat
  OBVIOUS
<1> HIDE DEF N
<1>3. N = Nat
  BY ONLY <1>1, <1>2, StrongInduction
<1>4. Cardinality(R) \in N
  BY <1>3, FS_Subset, FS_CardinalityType
<1> QED
  BY <1>4 DEF N

LEMMA SumEmpty ==
    ASSUME NEW f
    PROVE  SumFunctionOnSet(f, {}) = 0
<1>1. PICK g : AddsUp(g, f, {})
  BY SumExists, FS_EmptySet
<1>2. AddsUp(CHOOSE h : AddsUp(h, f, {}), f, {})
  BY <1>1
<1> QED
  BY <1>2, SumIsChosen DEF AddsUp

LEMMA SumUnfolds ==
    ASSUME NEW S, IsFiniteSet(S), S # {}, NEW f
    PROVE  SumFunctionOnSet(f, S) = f[Pick(S)] + SumFunctionOnSet(f, S \ {Pick(S)})
<1> DEFINE R == S \ {Pick(S)}
           g == CHOOSE h : AddsUp(h, f, S)
           k == CHOOSE h : AddsUp(h, f, R)
<1>1. IsFiniteSet(R) /\ R \in SUBSET S
  BY PickOne
<1>2. AddsUp(g, f, S)
  BY SumExists
<1>3. AddsUp(k, f, R)
  <2> HIDE DEF R
  <2> QED
    BY <1>1, SumExists
<1>4. SumFunctionOnSet(f, S) = g[S] /\ SumFunctionOnSet(f, R) = k[R]
  BY SumIsChosen
<1> HIDE DEF g, k
<1>5. g[S] = f[Pick(S)] + g[R]
  BY <1>2 DEF AddsUp
<1> HIDE DEF R
<1>6. g[R] = k[R]
  BY ONLY <1>1, <1>2, <1>3, SumsAgree, IsFiniteSet(S)
<1> QED
  BY <1>4, <1>5, <1>6 DEF R

-----------------------------------------------------------------------------
(* Laws of sums *)

LEMMA SumInNat ==
    ASSUME NEW S, IsFiniteSet(S), NEW f, \A x \in S : f[x] \in Nat
    PROVE  SumFunctionOnSet(f, S) \in Nat
<1> DEFINE N == {n \in Nat : \A t \in SUBSET S :
                                Cardinality(t) = n => SumFunctionOnSet(f, t) \in Nat}
<1>1. ASSUME NEW n \in Nat, \A m \in Nat : m < n => m \in N
      PROVE  n \in N
  <2> SUFFICES ASSUME NEW t \in SUBSET S, Cardinality(t) = n PROVE SumFunctionOnSet(f, t) \in Nat
    OBVIOUS
  <2>1. IsFiniteSet(t)
    BY FS_Subset
  <2>2. CASE t = {}
    BY <2>2, SumEmpty
  <2>3. CASE t # {}
    <3>1. n - 1 \in Nat /\ n - 1 < n /\ Cardinality(t \ {Pick(t)}) = n - 1 /\ Pick(t) \in S
      BY <2>1, <2>3, PickOne
    <3>2. SumFunctionOnSet(f, t \ {Pick(t)}) \in Nat
      BY <1>1, <3>1
    <3>3. SumFunctionOnSet(f, t) = f[Pick(t)] + SumFunctionOnSet(f, t \ {Pick(t)})
      BY <2>1, <2>3, SumUnfolds
    <3> QED
      BY <3>1, <3>2, <3>3
  <2> QED
    BY <2>2, <2>3
<1>2. N \in SUBSET Nat
  OBVIOUS
<1> HIDE DEF N
<1>3. N = Nat
  BY ONLY <1>1, <1>2, StrongInduction
<1>4. Cardinality(S) \in N
  BY <1>3, FS_CardinalityType
<1> QED
  BY <1>4 DEF N

\* Any element may be taken first.
LEMMA SumWithout ==
    ASSUME NEW S, IsFiniteSet(S), NEW f, \A x \in S : f[x] \in Nat, NEW x \in S
    PROVE  /\ SumFunctionOnSet(f, S) = f[x] + SumFunctionOnSet(f, S \ {x})
           /\ SumFunctionOnSet(f, S) \in Nat /\ SumFunctionOnSet(f, S \ {x}) \in Nat
<1> DEFINE Sum(t) == SumFunctionOnSet(f, t)
           N == {n \in Nat : \A t \in SUBSET S : Cardinality(t) = n =>
                                \A y \in t : Sum(t) = f[y] + Sum(t \ {y})}
<1>1. \A t \in SUBSET S : Sum(t) \in Nat /\ IsFiniteSet(t)
  BY SumInNat, FS_Subset
<1>2. \A t \in SUBSET S : t # {} => Sum(t) = f[Pick(t)] + Sum(t \ {Pick(t)})
  BY <1>1, SumUnfolds
<1> HIDE DEF Sum
<1>3. ASSUME NEW n \in Nat, \A m \in Nat : m < n => m \in N
      PROVE  n \in N
  <2> SUFFICES ASSUME NEW t \in SUBSET S, Cardinality(t) = n, NEW y \in t
               PROVE  Sum(t) = f[y] + Sum(t \ {y})
    OBVIOUS
  <2> DEFINE p == Pick(t)
  <2>1. p \in t
    BY DEF Pick
  <2>2. Sum(t) = f[p] + Sum(t \ {p})
    BY <1>2
  <2> HIDE DEF p
  <2>3. CASE y = p
    BY <2>2, <2>3
  <2>4. CASE y # p
    <3> DEFINE u == t \ {p}
               v == t \ {y}
               w == u \ {y}
    <3>1. /\ Cardinality(u) = n - 1 /\ Cardinality(v) = n - 1
      BY <1>1, <2>1, FS_RemoveElement
    <3>2. n - 1 \in Nat /\ n - 1 < n
      BY <1>1, <3>1, FS_CardinalityType
    <3>3. n - 1 \in N
      BY <1>3, <3>2
    <3>4. Sum(u) = f[y] + Sum(w)
      BY <2>4, <3>1, <3>3
    <3>5. w = v \ {p} /\ p \in v
      BY <2>1, <2>4
    <3>6. Sum(v) = f[p] + Sum(w)
      BY <3>1, <3>3, <3>5
    <3>7. f[p] \in Nat /\ f[y] \in Nat /\ Sum(w) \in Nat
      BY <1>1, <2>1
    <3> HIDE DEF u, v, w
    <3>8. Sum(t) = f[p] + Sum(u)
      BY <2>2 DEF u
    <3>9. Sum(t) = f[y] + Sum(v)
      BY <3>4, <3>6, <3>7, <3>8
    <3> QED
      BY <3>9 DEF v
  <2> QED
    BY <2>3, <2>4
<1>4. N \in SUBSET Nat
  OBVIOUS
<1> HIDE DEF N
<1>5. N = Nat
  BY ONLY <1>3, <1>4, StrongInduction
<1>6. Cardinality(S) \in N
  BY <1>5, FS_CardinalityType
<1>7. Sum(S) = f[x] + Sum(S \ {x})
  BY <1>6 DEF N
<1> QED
  BY <1>1, <1>7 DEF Sum

\* A sum taken one element at a time, as SetInduction wants it.
LEMMA SumAdds ==
    ASSUME NEW S, IsFiniteSet(S), NEW f, \A x \in S : f[x] \in Nat
    PROVE  \A T \in SUBSET S :
              /\ SumFunctionOnSet(f, T) \in Nat
              /\ \A x \in S \ T : SumFunctionOnSet(f, T \cup {x}) = f[x] + SumFunctionOnSet(f, T)
<1> SUFFICES ASSUME NEW T \in SUBSET S
             PROVE  /\ SumFunctionOnSet(f, T) \in Nat
                    /\ \A x \in S \ T :
                          SumFunctionOnSet(f, T \cup {x}) = f[x] + SumFunctionOnSet(f, T)
  OBVIOUS
<1>1. SumFunctionOnSet(f, T) \in Nat
  BY FS_Subset, SumInNat
<1>2. ASSUME NEW x \in S \ T
      PROVE  SumFunctionOnSet(f, T \cup {x}) = f[x] + SumFunctionOnSet(f, T)
  <2> DEFINE U == T \cup {x}
  <2>1. U \in SUBSET S /\ x \in U /\ U \ {x} = T
    OBVIOUS
  <2>2. IsFiniteSet(U)
    BY <2>1, FS_Subset
  <2> HIDE DEF U
  <2>3. \A y \in U : f[y] \in Nat
    BY <2>1
  <2>4. SumFunctionOnSet(f, U) = f[x] + SumFunctionOnSet(f, U \ {x})
    BY ONLY <2>1, <2>2, <2>3, SumWithout
  <2> QED
    BY <2>1, <2>4 DEF U
<1> QED
  BY <1>1, <1>2

\* Two functions that differ by d at some places of a set: their sums differ
\* by d for each of them.
LEMMA SumShifts ==
    ASSUME NEW S, IsFiniteSet(S), NEW f, NEW g, NEW K \in SUBSET S, NEW d \in Int,
           \A x \in S : f[x] \in Nat /\ g[x] \in Nat,
           \A x \in K : g[x] = f[x] + d,
           \A x \in S \ K : g[x] = f[x]
    PROVE  SumFunctionOnSet(g, S) = SumFunctionOnSet(f, S) + d * Cardinality(K)
<1> DEFINE F(T) == SumFunctionOnSet(f, T)
           G(T) == SumFunctionOnSet(g, T)
           C(T) == Cardinality(K \cap T)
           P == {T \in SUBSET S : G(T) = F(T) + d * C(T)}
<1>1. /\ F({}) = 0 /\ G({}) = 0
      /\ \A T \in SUBSET S :
            /\ F(T) \in Nat /\ G(T) \in Nat
            /\ \A x \in S \ T : F(T \cup {x}) = f[x] + F(T) /\ G(T \cup {x}) = g[x] + G(T)
  BY SumEmpty, SumAdds
<1> HIDE DEF F, G
<1>2. \A T \in SUBSET S : IsFiniteSet(K \cap T) /\ C(T) \in Nat
  BY FS_Subset, FS_CardinalityType
<1>3. {} \in P
  <2>1. C({}) = 0
    BY FS_EmptySet
  <2>2. d * C({}) = 0
    BY <2>1
  <2> QED
    BY <1>1, <2>2
<1>4. ASSUME NEW T \in P, NEW x \in S \ T PROVE T \cup {x} \in P
  <2>1. /\ F(T \cup {x}) = f[x] + F(T) /\ G(T \cup {x}) = g[x] + G(T)
        /\ G(T) = F(T) + d * C(T) /\ F(T) \in Nat /\ C(T) \in Nat
        /\ f[x] \in Nat /\ g[x] \in Nat /\ T \cup {x} \in SUBSET S
    BY <1>1, <1>2
  <2>2. CASE x \in K
    <3>1. K \cap (T \cup {x}) = (K \cap T) \cup {x}
      BY <2>2
    <3>2. C(T \cup {x}) = C(T) + 1
      BY <1>2, <3>1, FS_AddElement
    <3>3. d * C(T \cup {x}) = d * C(T) + d
      <4> HIDE DEF C
      <4> QED
        BY ONLY <2>1, <3>2, SMT, d \in Int
    <3>4. g[x] = f[x] + d
      BY <2>2
    <3>5. d * C(T) \in Int
      <4> HIDE DEF C
      <4> QED
        BY <2>1
    <3> HIDE DEF C
    <3>6. G(T \cup {x}) = F(T \cup {x}) + d * C(T \cup {x})
      BY ONLY <2>1, <3>3, <3>4, <3>5, d \in Int
    <3> QED
      BY <2>1, <3>6
  <2>3. CASE x \notin K
    <3>1. C(T \cup {x}) = C(T)
      <4>1. K \cap (T \cup {x}) = K \cap T
        BY <2>3
      <4> QED
        BY <4>1
    <3>2. d * C(T) \in Int
      <4> HIDE DEF C
      <4> QED
        BY <2>1
    <3>3. g[x] = f[x]
      BY <2>3
    <3> HIDE DEF C
    <3>4. G(T \cup {x}) = F(T \cup {x}) + d * C(T \cup {x})
      BY ONLY <2>1, <3>1, <3>2, <3>3
    <3> QED
      BY <2>1, <3>4
  <2> QED
    BY <2>2, <2>3
<1>5. P \in SUBSET SUBSET S
  OBVIOUS
<1> HIDE DEF P
<1>6. S \in P
  BY ONLY <1>3, <1>4, <1>5, SetInduction, IsFiniteSet(S)
<1>7. K \cap S = K
  OBVIOUS
<1> QED
  BY <1>6, <1>7 DEF P, F, G

\* One that is zero on a part and the same elsewhere: what is gone is the sum
\* over that part.
LEMMA SumClears ==
    ASSUME NEW S, IsFiniteSet(S), NEW f, NEW g, NEW K \in SUBSET S,
           \A x \in S : f[x] \in Nat,
           \A x \in K : g[x] = 0,
           \A x \in S \ K : g[x] = f[x]
    PROVE  SumFunctionOnSet(g, S) + SumFunctionOnSet(f, K) = SumFunctionOnSet(f, S)
<1> DEFINE F(T) == SumFunctionOnSet(f, T)
           G(T) == SumFunctionOnSet(g, T)
           P == {T \in SUBSET S : G(T) + F(K \cap T) = F(T)}
<1>1. /\ F({}) = 0 /\ G({}) = 0
      /\ \A T \in SUBSET S :
            /\ F(T) \in Nat /\ G(T) \in Nat
            /\ \A x \in S \ T : F(T \cup {x}) = f[x] + F(T) /\ G(T \cup {x}) = g[x] + G(T)
  BY SumEmpty, SumAdds
<1> HIDE DEF F, G
<1>2. {} \in P
  BY <1>1
<1>3. ASSUME NEW T \in P, NEW x \in S \ T PROVE T \cup {x} \in P
  <2>1. /\ F(T \cup {x}) = f[x] + F(T) /\ G(T \cup {x}) = g[x] + G(T)
        /\ G(T) + F(K \cap T) = F(T) /\ F(T) \in Nat /\ G(T) \in Nat
        /\ f[x] \in Nat /\ T \cup {x} \in SUBSET S
        /\ K \cap T \in SUBSET S /\ F(K \cap T) \in Nat /\ x \in S \ (K \cap T)
    BY <1>1
  <2>2. CASE x \in K
    <3>1. K \cap (T \cup {x}) = (K \cap T) \cup {x} /\ g[x] = 0
      BY <2>2
    <3>2. F((K \cap T) \cup {x}) = f[x] + F(K \cap T)
      BY <1>1, <2>1
    <3>3. F(K \cap (T \cup {x})) = f[x] + F(K \cap T)
      BY ONLY <3>1, <3>2, Zenon
    <3>4. G(T \cup {x}) + F(K \cap (T \cup {x})) = F(T \cup {x})
      BY ONLY <2>1, <3>1, <3>3
    <3> QED
      BY <2>1, <3>4
  <2>3. CASE x \notin K
    <3>1. K \cap (T \cup {x}) = K \cap T /\ g[x] = f[x]
      BY <2>3
    <3>2. F(K \cap (T \cup {x})) = F(K \cap T)
      BY ONLY <3>1, Zenon
    <3>3. G(T \cup {x}) + F(K \cap (T \cup {x})) = F(T \cup {x})
      BY ONLY <2>1, <3>1, <3>2
    <3> QED
      BY <2>1, <3>3
  <2> QED
    BY <2>2, <2>3
<1>4. P \in SUBSET SUBSET S
  OBVIOUS
<1> HIDE DEF P
<1>5. S \in P
  BY ONLY <1>2, <1>3, <1>4, SetInduction, IsFiniteSet(S)
<1>6. K \cap S = K
  OBVIOUS
<1> QED
  BY <1>5, <1>6 DEF P, F, G

\* One place that is changed.
LEMMA SumAtOne ==
    ASSUME NEW S, IsFiniteSet(S), NEW f, NEW g, NEW x \in S,
           \A y \in S : f[y] \in Nat, g[x] \in Nat,
           \A y \in S \ {x} : g[y] = f[y]
    PROVE  /\ SumFunctionOnSet(g, S) - g[x] = SumFunctionOnSet(f, S) - f[x]
           /\ f[x] <= SumFunctionOnSet(f, S)
           /\ SumFunctionOnSet(f, S) \in Nat /\ SumFunctionOnSet(g, S) \in Nat
<1>1. \A y \in S : g[y] \in Nat
  OBVIOUS
<1>2. /\ SumFunctionOnSet(f, S) = f[x] + SumFunctionOnSet(f, S \ {x})
      /\ SumFunctionOnSet(f, S) \in Nat /\ SumFunctionOnSet(f, S \ {x}) \in Nat
  BY SumWithout
<1>3. /\ SumFunctionOnSet(g, S) = g[x] + SumFunctionOnSet(g, S \ {x})
      /\ SumFunctionOnSet(g, S) \in Nat
  BY <1>1, SumWithout
<1>4. SumFunctionOnSet(g, S \ {x}) = SumFunctionOnSet(f, S \ {x})
  <2> DEFINE R == S \ {x}
  <2>1. IsFiniteSet(R) /\ {} \in SUBSET R /\ 0 \in Int
    BY FS_Subset
  <2>2. /\ \A y \in R : f[y] \in Nat /\ g[y] \in Nat
        /\ \A y \in {} : g[y] = f[y] + 0
        /\ \A y \in R \ {} : g[y] = f[y]
    BY <1>1
  <2>3. SumFunctionOnSet(f, R) \in Nat
    BY <1>2
  <2> HIDE DEF R
  <2>4. SumFunctionOnSet(g, R) = SumFunctionOnSet(f, R) + 0 * Cardinality({})
    BY ONLY <2>1, <2>2, SumShifts
  <2> QED
    BY <2>3, <2>4, FS_EmptySet DEF R
<1> QED
  BY <1>2, <1>3, <1>4

\* The largest of a finite set of numbers.
LEMMA MaxOfSet ==
    ASSUME NEW T \in SUBSET Nat, IsFiniteSet(T), T # {}
    PROVE  Max(T) \in T /\ \A x \in T : x <= Max(T)
<1> DEFINE P == {U \in SUBSET T : U # {} => \E m \in U : \A x \in U : x <= m}
<1>1. {} \in P
  OBVIOUS
<1>2. ASSUME NEW U \in P, NEW y \in T \ U PROVE U \cup {y} \in P
  <2>1. CASE U = {}
    BY <2>1
  <2>2. CASE U # {}
    <3>1. PICK m \in U : \A x \in U : x <= m
      BY <2>2
    <3>2. \E k \in U \cup {y} : \A x \in U \cup {y} : x <= k
      <4>1. CASE y <= m
        BY <3>1, <4>1
      <4>2. CASE ~(y <= m)
        BY <3>1, <4>2
      <4> QED
        BY <4>1, <4>2
    <3> QED
      BY <3>2
  <2> QED
    BY <2>1, <2>2
<1>3. P \in SUBSET SUBSET T
  OBVIOUS
<1> HIDE DEF P
<1>4. T \in P
  BY ONLY <1>1, <1>2, <1>3, SetInduction, IsFiniteSet(T)
<1>5. \E m \in T : \A x \in T : m >= x
  BY <1>4 DEF P
<1> QED
  BY <1>5 DEF Max

-----------------------------------------------------------------------------
(* Lists *)

LEMMA ElemsOf ==
    ASSUME NEW R, NEW q \in Seq(R)
    PROVE  /\ Elems(q) \subseteq R
           /\ \A r : r \in Elems(q) <=> \E i \in 1 .. Len(q) : q[i] = r
           /\ q = <<>> <=> Elems(q) = {}
<1>1. DOMAIN q = 1 .. Len(q) /\ \A i \in 1 .. Len(q) : q[i] \in R
  OBVIOUS
<1>2. \A r : r \in Elems(q) <=> \E i \in 1 .. Len(q) : q[i] = r
  BY <1>1 DEF Elems
<1>3. q = <<>> => Elems(q) = {}
  BY DEF Elems
<1>4. q # <<>> => 1 \in 1 .. Len(q)
  OBVIOUS
<1> QED
  BY <1>1, <1>2, <1>3, <1>4

LEMMA AppendList ==
    ASSUME NEW R, NEW q \in Seq(R), NEW x \in R
    PROVE  /\ Append(q, x) \in Seq(R) /\ Elems(Append(q, x)) = Elems(q) \cup {x}
           /\ IsInjective(q) /\ x \notin Elems(q) => IsInjective(Append(q, x))
<1> DEFINE p == Append(q, x)
<1>1. /\ p \in Seq(R) /\ Len(p) = Len(q) + 1 /\ p[Len(q) + 1] = x
      /\ \A i \in 1 .. Len(q) : p[i] = q[i]
      /\ Len(q) \in Nat
  OBVIOUS
<1> HIDE DEF p
<1>2. DOMAIN p = 1 .. Len(q) + 1 /\ DOMAIN q = 1 .. Len(q)
  BY <1>1
<1>3. Elems(p) = Elems(q) \cup {x}
  BY <1>1, <1>2 DEF Elems
<1>4. IsInjective(q) /\ x \notin Elems(q) => IsInjective(p)
  BY <1>1, <1>2 DEF Elems, IsInjective
<1> QED
  BY <1>1, <1>3, <1>4 DEF p

LEMMA ConcatList ==
    ASSUME NEW R, NEW q \in Seq(R), NEW p \in Seq(R)
    PROVE  /\ q \o p \in Seq(R) /\ Elems(q \o p) = Elems(q) \cup Elems(p)
           /\ IsInjective(q) /\ IsInjective(p) /\ Elems(q) \cap Elems(p) = {} =>
                 IsInjective(q \o p)
<1> DEFINE u == q \o p
<1>1. /\ u \in Seq(R) /\ Len(u) = Len(q) + Len(p)
      /\ \A i \in 1 .. Len(q) : u[i] = q[i]
      /\ \A i \in 1 .. Len(p) : u[Len(q) + i] = p[i]
      /\ Len(q) \in Nat /\ Len(p) \in Nat
  OBVIOUS
<1> HIDE DEF u
<1>2. /\ DOMAIN u = 1 .. Len(q) + Len(p) /\ DOMAIN q = 1 .. Len(q) /\ DOMAIN p = 1 .. Len(p)
  BY <1>1
<1>3. \A i \in 1 .. Len(q) + Len(p) :
         i \in 1 .. Len(q) \/ (i - Len(q) \in 1 .. Len(p) /\ u[i] = p[i - Len(q)])
  BY <1>1
<1>4. Elems(u) = Elems(q) \cup Elems(p)
  <2>1. \A r \in Elems(u) : r \in Elems(q) \/ r \in Elems(p)
    BY <1>1, <1>2, <1>3 DEF Elems
  <2>2. \A i \in 1 .. Len(p) : Len(q) + i \in DOMAIN u
    BY <1>1, <1>2
  <2>3. \A i \in 1 .. Len(q) : i \in DOMAIN u
    BY <1>1, <1>2
  <2>4. \A r \in Elems(q) : r \in Elems(u)
    BY <1>1, <1>2, <2>3 DEF Elems
  <2>5. \A r \in Elems(p) : r \in Elems(u)
    BY <1>1, <1>2, <2>2 DEF Elems
  <2> QED
    BY <2>1, <2>4, <2>5
<1>5. ASSUME IsInjective(q), IsInjective(p), Elems(q) \cap Elems(p) = {}
      PROVE  IsInjective(u)
  <2> SUFFICES ASSUME NEW i \in DOMAIN u, NEW j \in DOMAIN u, u[i] = u[j] PROVE i = j
    BY DEF IsInjective
  <2>1. \A k \in 1 .. Len(q), l \in 1 .. Len(p) : q[k] # p[l]
    BY <1>2, <1>5 DEF Elems
  <2>2. CASE i \in 1 .. Len(q) /\ j \in 1 .. Len(q)
    BY <1>1, <1>2, <1>5, <2>2 DEF IsInjective
  <2>3. CASE i \notin 1 .. Len(q) /\ j \notin 1 .. Len(q)
    <3>1. /\ i - Len(q) \in 1 .. Len(p) /\ j - Len(q) \in 1 .. Len(p)
          /\ p[i - Len(q)] = p[j - Len(q)]
      BY <1>2, <1>3, <2>3
    <3>2. i - Len(q) = j - Len(q)
      BY <1>2, <1>5, <3>1 DEF IsInjective
    <3> QED
      BY <1>1, <1>2, <3>2
  <2>4. CASE i \in 1 .. Len(q) /\ j \notin 1 .. Len(q)
    BY <1>1, <1>2, <1>3, <2>1, <2>4
  <2>5. CASE i \notin 1 .. Len(q) /\ j \in 1 .. Len(q)
    BY <1>1, <1>2, <1>3, <2>1, <2>5
  <2> QED
    BY <2>2, <2>3, <2>4, <2>5
<1> QED
  BY <1>1, <1>4, <1>5 DEF u

-----------------------------------------------------------------------------
(* Filtering a list *)

\* f filters the first n elements of q.
Filters(f, q, S, n) ==
    f = [i \in 0 .. n |-> IF i = 0 THEN <<>>
                          ELSE IF q[i] \in S THEN Append(f[i - 1], q[i]) ELSE f[i - 1]]

LEMMA FilterExists ==
    ASSUME NEW q, NEW S, NEW n \in Nat
    PROVE  \E f : Filters(f, q, S, n)
<1> DEFINE N == {k \in Nat : \E f : Filters(f, q, S, k)}
<1>1. ASSUME NEW k \in Nat, \A m \in Nat : m < k => m \in N
      PROVE  k \in N
  <2>1. CASE k = 0
    <3> DEFINE f == [i \in 0 .. 0 |-> <<>>]
    <3>1. f = [i \in 0 .. 0 |-> IF i = 0 THEN <<>>
                                ELSE IF q[i] \in S THEN Append(f[i - 1], q[i]) ELSE f[i - 1]]
      OBVIOUS
    <3>2. Filters(f, q, S, 0)
      BY <3>1 DEF Filters
    <3> QED
      BY <2>1, <3>2
  <2>2. CASE k > 0
    <3>1. k - 1 \in Nat /\ k - 1 < k
      BY <2>2
    <3>2. PICK f : Filters(f, q, S, k - 1)
      BY <1>1, <3>1
    <3> DEFINE g == [i \in 0 .. k |-> IF i = 0 THEN <<>>
                                      ELSE IF q[i] \in S THEN Append(f[i - 1], q[i]) ELSE f[i - 1]]
    <3>3. \A i \in 0 .. k - 1 : i \in 0 .. k /\ g[i] = f[i]
      <4>1. \A i \in 0 .. k - 1 : i \in 0 .. k
        BY <3>1
      <4>2. \A i \in 0 .. k - 1 :
               f[i] = IF i = 0 THEN <<>>
                      ELSE IF q[i] \in S THEN Append(f[i - 1], q[i]) ELSE f[i - 1]
        BY <3>2 DEF Filters
      <4> QED
        BY <4>1, <4>2
    <3>4. \A i \in 0 .. k : i = 0 \/ i - 1 \in 0 .. k - 1
      BY <3>1
    <3>5. g = [i \in 0 .. k |-> IF i = 0 THEN <<>>
                                ELSE IF q[i] \in S THEN Append(g[i - 1], q[i]) ELSE g[i - 1]]
      BY <3>3, <3>4
    <3> HIDE DEF g
    <3>6. Filters(g, q, S, k)
      BY <3>5 DEF Filters
    <3> QED
      BY <3>6
  <2> QED
    BY <2>1, <2>2
<1>2. N \in SUBSET Nat
  OBVIOUS
<1> HIDE DEF N
<1>3. N = Nat
  BY ONLY <1>1, <1>2, StrongInduction
<1> QED
  BY <1>3 DEF N

\* What Only returns: the elements of q in S, once each if q repeats none.
LEMMA OnlyOf ==
    ASSUME NEW R, NEW q \in Seq(R), NEW S
    PROVE  /\ Only(q, S) \in Seq(R) /\ Elems(Only(q, S)) = Elems(q) \cap S
           /\ IsInjective(q) => IsInjective(Only(q, S))
<1> DEFINE f == CHOOSE g : Filters(g, q, S, Len(q))
           First(i) == {q[j] : j \in 1 .. i}
           Right(i) == /\ f[i] \in Seq(R) /\ Elems(f[i]) = First(i) \cap S
                       /\ IsInjective(q) => IsInjective(f[i])
           N == {i \in Nat : i <= Len(q) => Right(i)}
<1>1. Len(q) \in Nat /\ DOMAIN q = 1 .. Len(q) /\ \A i \in 1 .. Len(q) : q[i] \in R
  OBVIOUS
<1>2. Only(q, S) = f[Len(q)]
  BY DEF Only, Filters
<1>3. Filters(f, q, S, Len(q))
  BY <1>1, FilterExists
<1>4. \A i \in 0 .. Len(q) :
         f[i] = IF i = 0 THEN <<>>
                ELSE IF q[i] \in S THEN Append(f[i - 1], q[i]) ELSE f[i - 1]
  <2> HIDE DEF f
  <2> QED
    BY <1>3 DEF Filters
<1> HIDE DEF f
<1>5. ASSUME NEW i \in Nat, \A m \in Nat : m < i => m \in N
      PROVE  i \in N
  <2> SUFFICES ASSUME i <= Len(q) PROVE Right(i)
    OBVIOUS
  <2>1. CASE i = 0
    <3>1. f[i] = <<>>
      BY <1>1, <1>4, <2>1
    <3>2. First(i) = {}
      BY <2>1
    <3>3. <<>> \in Seq(R) /\ Elems(<<>>) = {} /\ IsInjective(<<>>)
      BY DEF Elems, IsInjective
    <3> HIDE DEF First
    <3> QED
      BY <3>1, <3>2, <3>3
  <2>2. CASE i > 0
    <3>1. i - 1 \in Nat /\ i - 1 < i /\ i - 1 <= Len(q) /\ i \in 0 .. Len(q) /\ i \in 1 .. Len(q)
      BY <1>1, <2>2
    <3>2. Right(i - 1)
      BY <1>5, <3>1
    <3>3. f[i] = IF q[i] \in S THEN Append(f[i - 1], q[i]) ELSE f[i - 1]
      BY <1>4, <2>2, <3>1
    <3>4. \A j \in 1 .. i : j = i \/ j \in 1 .. i - 1
      BY <3>1
    <3>5. \A j \in 1 .. i - 1 : j \in 1 .. i /\ j # i /\ j \in 1 .. Len(q)
      BY <1>1, <3>1
    <3>6. First(i) = First(i - 1) \cup {q[i]}
      <4>1. i \in 1 .. i
        BY <3>1
      <4> QED
        BY <3>4, <3>5, <4>1
    <3>7. IsInjective(q) => q[i] \notin First(i - 1)
      BY <1>1, <3>1, <3>5 DEF IsInjective
    <3> HIDE DEF First
    <3>8. CASE q[i] \notin S
      BY <3>2, <3>3, <3>6, <3>8
    <3>9. CASE q[i] \in S
      <4> DEFINE p == f[i - 1]
                 x == q[i]
      <4>1. p \in Seq(R) /\ x \in R
        BY <1>1, <3>1, <3>2
      <4> HIDE DEF p, x
      <4>2. /\ Append(p, x) \in Seq(R) /\ Elems(Append(p, x)) = Elems(p) \cup {x}
            /\ IsInjective(p) /\ x \notin Elems(p) => IsInjective(Append(p, x))
        BY ONLY <4>1, AppendList
      <4>3. f[i] = Append(p, x)
        BY <3>3, <3>9 DEF p, x
      <4>4. Elems(p) = First(i - 1) \cap S /\ (IsInjective(q) => IsInjective(p))
        BY <3>2 DEF p
      <4> QED
        BY <3>6, <3>7, <3>9, <4>2, <4>3, <4>4 DEF x
    <3> QED
      BY <3>8, <3>9
  <2> QED
    BY <2>1, <2>2
<1>6. N \in SUBSET Nat
  OBVIOUS
<1> HIDE DEF N
<1>7. N = Nat
  BY ONLY <1>5, <1>6, StrongInduction
<1>8. Right(Len(q))
  <2>1. Len(q) \in N
    BY <1>1, <1>7
  <2> HIDE DEF Right
  <2> QED
    BY <1>1, <2>1 DEF N
<1>9. First(Len(q)) = Elems(q)
  BY <1>1 DEF Elems
<1> QED
  BY <1>2, <1>8, <1>9

\* A list that is all in S is kept as it is.
LEMMA OnlyAll ==
    ASSUME NEW R, NEW q \in Seq(R), NEW S, Elems(q) \subseteq S
    PROVE  Only(q, S) = q
<1> DEFINE f == CHOOSE g : Filters(g, q, S, Len(q))
           Same(p, i) == p \in Seq(R) /\ Len(p) = i /\ \A j \in 1 .. i : p[j] = q[j]
           N == {i \in Nat : i <= Len(q) => Same(f[i], i)}
<1>1. Len(q) \in Nat /\ DOMAIN q = 1 .. Len(q) /\ \A i \in 1 .. Len(q) : q[i] \in R /\ q[i] \in S
  BY DEF Elems
<1>2. Only(q, S) = f[Len(q)]
  BY DEF Only, Filters
<1>3. Filters(f, q, S, Len(q))
  BY <1>1, FilterExists
<1>4. f[0] = <<>> /\ \A i \in 1 .. Len(q) : f[i] = Append(f[i - 1], q[i])
  <2> HIDE DEF f
  <2>1. \A i \in 0 .. Len(q) :
           f[i] = IF i = 0 THEN <<>>
                  ELSE IF q[i] \in S THEN Append(f[i - 1], q[i]) ELSE f[i - 1]
    BY <1>3 DEF Filters
  <2>2. 0 \in 0 .. Len(q) /\ \A i \in 1 .. Len(q) : i \in 0 .. Len(q) /\ i # 0
    BY <1>1
  <2> QED
    BY <1>1, <2>1, <2>2
<1> HIDE DEF f
<1>5. ASSUME NEW i \in Nat, \A m \in Nat : m < i => m \in N
      PROVE  i \in N
  <2> SUFFICES ASSUME i <= Len(q) PROVE Same(f[i], i)
    OBVIOUS
  <2>1. CASE i = 0
    <3>1. f[i] = <<>>
      BY <1>4, <2>1
    <3>2. \A j \in 1 .. i : FALSE
      BY <2>1
    <3>3. <<>> \in Seq(R) /\ Len(<<>>) = 0
      OBVIOUS
    <3> QED
      BY <2>1, <3>1, <3>2, <3>3
  <2>2. CASE i > 0
    <3>1. i - 1 \in Nat /\ i - 1 < i /\ i - 1 <= Len(q) /\ i \in 1 .. Len(q)
      BY <1>1, <2>2
    <3>2. Same(f[i - 1], i - 1) /\ f[i] = Append(f[i - 1], q[i]) /\ q[i] \in R
      BY <1>1, <1>4, <1>5, <3>1
    <3> DEFINE p == f[i - 1]
               x == q[i]
    <3>3. p \in Seq(R) /\ Len(p) = i - 1 /\ x \in R /\ f[i] = Append(p, x)
      BY <3>2
    <3>4. \A j \in 1 .. i - 1 : p[j] = q[j]
      BY <3>2
    <3> HIDE DEF p
    <3>5. f[i] \in Seq(R) /\ Len(f[i]) = i /\ f[i][i] = x /\ \A j \in 1 .. i - 1 : f[i][j] = p[j]
      BY <3>1, <3>3
    <3>6. \A j \in 1 .. i : j = i \/ j \in 1 .. i - 1
      BY <3>1
    <3>7. \A j \in 1 .. i : f[i][j] = q[j]
      BY ONLY <3>4, <3>5, <3>6 DEF x
    <3> QED
      BY <3>5, <3>7
  <2> QED
    BY <2>1, <2>2
<1>6. N \in SUBSET Nat
  OBVIOUS
<1> HIDE DEF N
<1>7. N = Nat
  BY ONLY <1>5, <1>6, StrongInduction
<1>8. Same(f[Len(q)], Len(q))
  <2>1. Len(q) \in N
    BY <1>1, <1>7
  <2> HIDE DEF Same
  <2> QED
    BY <1>1, <2>1 DEF N
<1> QED
  BY <1>1, <1>2, <1>8

-----------------------------------------------------------------------------
(* Ranks in a finite total order *)

\* R orders T, all of it and strictly.
Orders(R, T) ==
    /\ \A x \in T : <<x, x>> \notin R
    /\ \A x, y \in T : x # y => <<x, y>> \in R \/ <<y, x>> \in R
    /\ \A x, y, z \in T : <<x, y>> \in R /\ <<y, z>> \in R => <<x, z>> \in R

\* How many elements of T come before x.
Before(R, T, x) == Cardinality({y \in T : <<y, x>> \in R})

\* An earlier element has fewer before it.
LEMMA BeforeGrows ==
    ASSUME NEW T, IsFiniteSet(T), NEW R, Orders(R, T)
    PROVE  /\ \A x \in T : Before(R, T, x) \in 0 .. Cardinality(T) - 1
           /\ \A x, y \in T : <<x, y>> \in R <=> Before(R, T, x) < Before(R, T, y)
           /\ \A x, y \in T : Before(R, T, x) = Before(R, T, y) => x = y
<1> DEFINE B(x) == {y \in T : <<y, x>> \in R}
<1>1. ASSUME NEW x \in T
      PROVE  /\ IsFiniteSet(B(x)) /\ Cardinality(B(x)) \in Nat
             /\ Cardinality(B(x)) <= Cardinality(T) - 1
  <2>1. B(x) \in SUBSET (T \ {x})
    BY DEF Orders
  <2>2. IsFiniteSet(T \ {x}) /\ Cardinality(T \ {x}) = Cardinality(T) - 1
    BY FS_RemoveElement
  <2> HIDE DEF B
  <2>3. IsFiniteSet(B(x)) /\ Cardinality(B(x)) <= Cardinality(T \ {x})
    BY <2>1, <2>2, FS_Subset
  <2> QED
    BY <2>2, <2>3, FS_CardinalityType
<1>2. ASSUME NEW x \in T, NEW y \in T, <<x, y>> \in R
      PROVE  Cardinality(B(x)) < Cardinality(B(y))
  <2>1. B(x) \in SUBSET (B(y) \ {x}) /\ x \in B(y)
    BY <1>2 DEF Orders
  <2>2. IsFiniteSet(B(y)) /\ Cardinality(B(y)) \in Nat /\ Cardinality(B(x)) \in Nat
    BY <1>1
  <2> HIDE DEF B
  <2>3. /\ IsFiniteSet(B(y) \ {x})
        /\ Cardinality(B(y) \ {x}) = Cardinality(B(y)) - 1
    BY <2>1, <2>2, FS_RemoveElement
  <2>4. Cardinality(B(x)) <= Cardinality(B(y) \ {x})
    BY <2>1, <2>3, FS_Subset
  <2> QED
    BY <2>2, <2>3, <2>4
<1>3. \A x \in T : Before(R, T, x) = Cardinality(B(x))
  BY DEF Before
<1> HIDE DEF B
<1>4. \A x \in T : Before(R, T, x) \in Nat /\ Before(R, T, x) <= Cardinality(T) - 1
  BY <1>1, <1>3
<1>5. \A x, y \in T : <<x, y>> \in R => Before(R, T, x) < Before(R, T, y)
  BY <1>2, <1>3
<1>6. Cardinality(T) \in Nat
  BY FS_CardinalityType
<1>7. \A x, y \in T : x = y \/ <<x, y>> \in R \/ <<y, x>> \in R
  BY DEF Orders
<1>8. ASSUME NEW x \in T, NEW y \in T
      PROVE  /\ Before(R, T, x) < Before(R, T, y) => <<x, y>> \in R
             /\ Before(R, T, x) = Before(R, T, y) => x = y
  <2>1. Before(R, T, x) \in Nat /\ Before(R, T, y) \in Nat
    BY <1>4
  <2>2. CASE <<y, x>> \in R
    <3>1. Before(R, T, y) < Before(R, T, x)
      BY <1>5, <2>2
    <3> QED
      BY <2>1, <3>1
  <2>3. CASE <<x, y>> \in R
    <3>1. Before(R, T, x) < Before(R, T, y)
      BY <1>5, <2>3
    <3> QED
      BY <2>1, <2>3, <3>1
  <2>4. CASE x = y
    BY <2>1, <2>4
  <2> QED
    BY <1>7, <2>2, <2>3, <2>4
<1>9. \A x \in T : Before(R, T, x) \in 0 .. Cardinality(T) - 1
  BY <1>4, <1>6
<1> QED
  BY ONLY <1>5, <1>8, <1>9

\* The first n of T are n, and T has an element for every place.
LEMMA FirstsOf ==
    ASSUME NEW T, IsFiniteSet(T), NEW R, Orders(R, T)
    PROVE  /\ \A k \in 0 .. Cardinality(T) - 1 : \E x \in T : Before(R, T, x) = k
           /\ \A n \in Nat : LET F == {x \in T : Before(R, T, x) < n} IN
                 /\ IsFiniteSet(F) /\ Cardinality(F) <= n
                 /\ n <= Cardinality(T) => Cardinality(F) = n
<1> DEFINE N == 0 .. Cardinality(T) - 1
           f == [x \in T |-> Before(R, T, x)]
<1>1. Cardinality(T) \in Nat
  BY FS_CardinalityType
<1>2. IsFiniteSet(N) /\ Cardinality(N) = Cardinality(T)
  BY <1>1, FS_Interval
<1>3. /\ \A x \in T : Before(R, T, x) \in N
      /\ \A x, y \in T : Before(R, T, x) = Before(R, T, y) => x = y
  BY BeforeGrows
<1>4. f \in Injection(T, N)
  BY <1>3 DEF Injection, IsInjective
<1> HIDE DEF f, N
<1>5. f \in Surjection(T, N)
  BY <1>2, <1>4, FS_Injection
<1>6. \A k \in N : \E x \in T : f[x] = k
  BY <1>5 DEF Surjection
<1>7. \A k \in N : \E x \in T : Before(R, T, x) = k
  BY <1>6 DEF f
<1>8. ASSUME NEW n \in Nat
      PROVE  LET F == {x \in T : Before(R, T, x) < n} IN
                 /\ IsFiniteSet(F) /\ Cardinality(F) <= n
                 /\ n <= Cardinality(T) => Cardinality(F) = n
  <2> DEFINE F == {x \in T : Before(R, T, x) < n}
             g == [x \in F |-> Before(R, T, x)]
  <2>1. IsFiniteSet(0 .. n - 1) /\ Cardinality(0 .. n - 1) = n
    BY FS_Interval
  <2>2. g \in Injection(F, 0 .. n - 1)
    <3>1. \A x \in F : Before(R, T, x) \in 0 .. n - 1
      BY <1>1, <1>3 DEF N
    <3>2. \A x, y \in F : Before(R, T, x) = Before(R, T, y) => x = y
      BY <1>3
    <3> HIDE DEF F
    <3> QED
      BY <3>1, <3>2 DEF Injection, IsInjective
  <2>3. ASSUME n <= Cardinality(T)
        PROVE  g \in Surjection(F, 0 .. n - 1)
    <3>1. \A k \in 0 .. n - 1 : k \in N
      BY <1>1, <2>3 DEF N
    <3>2. \A k \in 0 .. n - 1 : \E x \in F : Before(R, T, x) = k
      BY <1>7, <3>1
    <3>3. \A k \in 0 .. n - 1 : \E x \in F : g[x] = k
      <4> HIDE DEF F
      <4> QED
        BY <3>2
    <3>4. g \in [F -> 0 .. n - 1]
      BY <2>2 DEF Injection
    <3> HIDE DEF g, F
    <3> QED
      BY <3>3, <3>4 DEF Surjection
  <2> HIDE DEF g, F
  <2>4. IsFiniteSet(F) /\ Cardinality(F) <= Cardinality(0 .. n - 1)
    BY <2>1, <2>2, FS_Injection
  <2>5. n <= Cardinality(T) => Cardinality(F) = Cardinality(0 .. n - 1)
    BY <2>1, <2>2, <2>3, FS_Injection
  <2>6. IsFiniteSet(F) /\ Cardinality(F) <= n /\ (n <= Cardinality(T) => Cardinality(F) = n)
    BY <2>1, <2>4, <2>5
  <2> QED
    BY <2>6 DEF F
<1> QED
  BY <1>7, <1>8 DEF N

=============================================================================

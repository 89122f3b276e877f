--------------------------- MODULE FiniteSumProofs ---------------------------
(***************************************************************************)
(* What sums over finite sets, and the least and the greatest of a finite  *)
(* set, are: for any set and any function on it.                           *)
(***************************************************************************)
EXTENDS FiniteSums, FiniteSetTheorems, WellFoundedInduction, TLAPS

-----------------------------------------------------------------------------
(* Sums over finite sets.  The recursion of MapThenSumSet is unfolded once, *)
(* and what holds of its only solution is shown by taking a smallest set of *)
(* which it does not hold.                                                  *)

\* The element a sum takes first, and the equation of its recursion.
First(s) == CHOOSE x \in s : TRUE
Rest(s) == s \ {First(s)}
Partial(f, S, h) == [s \in SUBSET S |-> IF s = {} THEN 0 ELSE f[First(s)] + h[Rest(s)]]
OnPart(h, T) == [s \in SUBSET T |-> h[s]]
Sums(f, S) == CHOOSE h : h = Partial(f, S, h)

LEMMA SumIsPartial == ASSUME NEW f, NEW S PROVE SumOver(f, S) = Sums(f, S)[S]
BY DEF SumOver, MapThenSumSet, MapThenFoldSet, Sums, Partial, First, Rest

\* A set of subsets has one of which no other is a part.
LEMMA SmallestSubset ==
    ASSUME NEW S, IsFiniteSet(S), NEW C, C \subseteq SUBSET S, C # {}
    PROVE  \E T \in C : \A U \in C : U \subseteq T => U = T
<1>1. C \subseteq FiniteSubsetsOf(S)
  BY FS_Subset DEF FiniteSubsetsOf
<1>2. PICK T \in C : \A U \in C : ~(<<U, T>> \in StrictSubsetOrdering(S))
  BY <1>1, FS_StrictSubsetOrderingWellFounded, WFMin
<1> QED BY <1>2 DEF StrictSubsetOrdering

LEMMA FirstIsIn == ASSUME NEW s, s # {} PROVE First(s) \in s /\ Rest(s) \subseteq s /\ First(s) \notin Rest(s)
BY DEF First, Rest

LEMMA PartialOfPart ==
    ASSUME NEW f, NEW S, NEW T, T \subseteq S, NEW h, h = Partial(f, S, h)
    PROVE  OnPart(h, T) = Partial(f, T, OnPart(h, T))
<1> DEFINE g == OnPart(h, T)
<1>1. ASSUME NEW s \in SUBSET T PROVE g[s] = Partial(f, T, g)[s]
  <2>1. g[s] = h[s] /\ h[s] = IF s = {} THEN 0 ELSE f[First(s)] + h[Rest(s)]
    BY DEF Partial, OnPart
  <2>2. s # {} => Rest(s) \in SUBSET T
    BY FirstIsIn
  <2> QED BY <2>1, <2>2 DEF Partial, OnPart
<1> QED BY <1>1 DEF Partial, OnPart

LEMMA PartialIsOne ==
    ASSUME NEW f, NEW S, IsFiniteSet(S), NEW g, g = Partial(f, S, g), NEW h, h = Partial(f, S, h)
    PROVE  g = h
<1> DEFINE C == {s \in SUBSET S : g[s] # h[s]}
<1>1. SUFFICES ASSUME C # {} PROVE FALSE
  <2>1. g = [s \in SUBSET S |-> g[s]] /\ h = [s \in SUBSET S |-> h[s]]
    BY DEF Partial
  <2> QED BY <1>1, <2>1
<1>2. PICK T \in C : \A U \in C : U \subseteq T => U = T
  <2> HIDE DEF C
  <2>1. C \subseteq SUBSET S
    BY DEF C
  <2> QED BY <1>1, <2>1, SmallestSubset
<1>3. T # {}
  BY DEF Partial
<1>4. Rest(T) \in SUBSET S /\ Rest(T) # T /\ Rest(T) \subseteq T
  BY <1>3, FirstIsIn
<1>5. g[Rest(T)] = h[Rest(T)]
  BY <1>2, <1>4
<1>6. g[T] = f[First(T)] + g[Rest(T)] /\ h[T] = f[First(T)] + h[Rest(T)]
  BY <1>3 DEF Partial
<1> QED BY <1>5, <1>6

LEMMA PartialExists ==
    ASSUME NEW f, NEW S, IsFiniteSet(S)
    PROVE  \E h : h = Partial(f, S, h)
<1> DEFINE C == {s \in SUBSET S : ~ \E h : h = Partial(f, s, h)}
<1>1. SUFFICES ASSUME C # {} PROVE FALSE
  BY <1>1
<1>2. PICK T \in C : \A U \in C : U \subseteq T => U = T
  <2> HIDE DEF C
  <2>1. C \subseteq SUBSET S
    BY DEF C
  <2> QED BY <1>1, <2>1, SmallestSubset
<1> DEFINE Of(u) == Sums(f, u)
           g == [s \in SUBSET T |-> IF s = {} THEN 0 ELSE f[First(s)] + Of(Rest(s))[Rest(s)]]
<1>3. ASSUME NEW u \in SUBSET T, u # T PROVE Of(u) = Partial(f, u, Of(u))
  BY <1>2, <1>3 DEF Sums
<1>4. ASSUME NEW u \in SUBSET T, u # T PROVE g[u] = Of(u)[u]
  <2>1. CASE u = {}
    BY <1>3, <1>4, <2>1 DEF Partial
  <2>2. CASE u # {}
    <3> DEFINE v == Rest(u)
               k == OnPart(Of(u), v)
    <3>1. v \in SUBSET T /\ v # T /\ v \subseteq u /\ IsFiniteSet(v)
      BY <1>4, <2>2, FirstIsIn, FS_Subset
    <3>2. Of(u) = Partial(f, u, Of(u)) /\ Of(v) = Partial(f, v, Of(v))
      BY <1>3, <1>4, <3>1
    <3>3. k = Partial(f, v, k)
      <4> HIDE DEF Of
      <4> QED BY <3>1, <3>2, PartialOfPart
    <3>4. k = Of(v)
      <4> HIDE DEF Of, k
      <4> QED BY <3>1, <3>2, <3>3, PartialIsOne
    <3>5. k[v] = Of(u)[v]
      BY DEF OnPart
    <3>6. Of(u)[u] = f[First(u)] + Of(u)[v]
      <4> HIDE DEF Of
      <4> QED BY <2>2, <3>2 DEF Partial
    <3>7. g[u] = f[First(u)] + Of(v)[v]
      BY <2>2
    <3> HIDE DEF Of, g, k, v
    <3> QED BY <3>4, <3>5, <3>6, <3>7
  <2> QED BY <2>1, <2>2
<1>5. g = Partial(f, T, g)
  <2>1. ASSUME NEW s \in SUBSET T PROVE g[s] = Partial(f, T, g)[s]
    <3>1. CASE s = {}
      BY <3>1 DEF Partial
    <3>2. CASE s # {}
      <4>1. Rest(s) \in SUBSET T /\ Rest(s) # T
        BY <3>2, FirstIsIn
      <4>2. g[Rest(s)] = Of(Rest(s))[Rest(s)]
        BY <1>4, <4>1
      <4>3. g[s] = f[First(s)] + Of(Rest(s))[Rest(s)]
        BY <3>2
      <4> HIDE DEF g, Of
      <4> QED BY <3>2, <4>2, <4>3 DEF Partial
    <3> QED BY <3>1, <3>2
  <2>2. g = [s \in SUBSET T |-> g[s]]
    OBVIOUS
  <2> HIDE DEF g
  <2> QED BY <2>1, <2>2 DEF Partial
<1> HIDE DEF g
<1> QED BY <1>2, <1>5

LEMMA SumsEquation == ASSUME NEW f, NEW S, IsFiniteSet(S) PROVE Sums(f, S) = Partial(f, S, Sums(f, S))
BY PartialExists DEF Sums

LEMMA SumEmpty == ASSUME NEW f PROVE SumOver(f, {}) = 0
<1>1. Sums(f, {}) = Partial(f, {}, Sums(f, {}))
  BY SumsEquation, FS_EmptySet
<1> QED BY <1>1, SumIsPartial DEF Partial

LEMMA SumFirst ==
    ASSUME NEW f, NEW S, IsFiniteSet(S), S # {}
    PROVE  SumOver(f, S) = f[First(S)] + SumOver(f, Rest(S))
<1> DEFINE T == Rest(S)
           h == Sums(f, S)
           k == OnPart(h, T)
<1>1. T \subseteq S /\ IsFiniteSet(T)
  BY FirstIsIn, FS_Subset
<1>2. h = Partial(f, S, h) /\ Sums(f, T) = Partial(f, T, Sums(f, T))
  BY <1>1, SumsEquation
<1>3. k = Partial(f, T, k)
  <2> HIDE DEF h, T
  <2> QED BY <1>1, <1>2, PartialOfPart
<1>4. k = Sums(f, T)
  <2> HIDE DEF h, T, k
  <2> QED BY <1>1, <1>2, <1>3, PartialIsOne
<1>5. h[S] = f[First(S)] + h[T]
  <2> HIDE DEF h
  <2> QED BY <1>2 DEF Partial
<1>6. k[T] = h[T]
  BY DEF OnPart
<1> HIDE DEF k
<1> QED BY <1>4, <1>5, <1>6, SumIsPartial

LEMMA SumType ==
    ASSUME NEW S, IsFiniteSet(S), NEW f, \A x \in S : f[x] \in Nat
    PROVE  SumOver(f, S) \in Nat
<1> DEFINE C == {s \in SUBSET S : SumOver(f, s) \notin Nat}
<1>1. SUFFICES ASSUME C # {} PROVE FALSE
  BY <1>1
<1> HIDE DEF C
<1>2. PICK T \in C : \A U \in C : U \subseteq T => U = T
  <2>1. C \subseteq SUBSET S
    BY DEF C
  <2> QED BY <1>1, <2>1, SmallestSubset
<1>3. T \in SUBSET S /\ IsFiniteSet(T) /\ SumOver(f, T) \notin Nat
  BY FS_Subset DEF C
<1>4. T # {}
  BY <1>3, SumEmpty
<1>5. SumOver(f, Rest(T)) \in Nat
  BY <1>2, <1>3, <1>4, FirstIsIn DEF C
<1>6. SumOver(f, T) = f[First(T)] + SumOver(f, Rest(T)) /\ f[First(T)] \in Nat
  BY <1>3, <1>4, SumFirst, FirstIsIn
<1> QED BY <1>3, <1>5, <1>6

\* The order does not matter.
LEMMA SumElement ==
    ASSUME NEW S, IsFiniteSet(S), NEW f, \A x \in S : f[x] \in Nat, NEW x \in S
    PROVE  SumOver(f, S) = f[x] + SumOver(f, S \ {x})
<1> DEFINE C == {s \in SUBSET S : \E y \in s : SumOver(f, s) # f[y] + SumOver(f, s \ {y})}
<1>1. SUFFICES ASSUME C # {} PROVE FALSE
  BY <1>1
<1> HIDE DEF C
<1>2. PICK T \in C : \A U \in C : U \subseteq T => U = T
  <2>1. C \subseteq SUBSET S
    BY DEF C
  <2> QED BY <1>1, <2>1, SmallestSubset
<1>3. T \in SUBSET S /\ IsFiniteSet(T)
  BY FS_Subset DEF C
<1>4. PICK y \in T : SumOver(f, T) # f[y] + SumOver(f, T \ {y})
  BY DEF C
<1> DEFINE p == First(T)
           both == (T \ {y}) \ {p}
<1>5. p \in T /\ SumOver(f, T) = f[p] + SumOver(f, T \ {p}) /\ p # y
  BY <1>3, <1>4, SumFirst, FirstIsIn DEF Rest
<1>6. SumOver(f, T \ {p}) = f[y] + SumOver(f, (T \ {p}) \ {y})
  BY <1>2, <1>3, <1>5 DEF C
<1>7. SumOver(f, T \ {y}) = f[p] + SumOver(f, both)
  BY <1>2, <1>3, <1>5 DEF C
<1>8. both = (T \ {p}) \ {y} /\ IsFiniteSet(both) /\ both \subseteq S
  BY <1>3, FS_Subset
<1>9. f[p] \in Nat /\ f[y] \in Nat /\ SumOver(f, both) \in Nat
  BY <1>3, <1>5, <1>8, SumType
<1> HIDE DEF p, both
<1> QED BY <1>4, <1>5, <1>6, <1>7, <1>8, <1>9

\* Functions that are equal on the set have the same sum.
LEMMA SumEqual ==
    ASSUME NEW S, IsFiniteSet(S), NEW f, NEW g, \A x \in S : f[x] = g[x]
    PROVE  SumOver(f, S) = SumOver(g, S)
<1> DEFINE C == {s \in SUBSET S : SumOver(f, s) # SumOver(g, s)}
<1>1. SUFFICES ASSUME C # {} PROVE FALSE
  BY <1>1
<1> HIDE DEF C
<1>2. PICK T \in C : \A U \in C : U \subseteq T => U = T
  <2>1. C \subseteq SUBSET S
    BY DEF C
  <2> QED BY <1>1, <2>1, SmallestSubset
<1>3. T \in SUBSET S /\ IsFiniteSet(T)
  BY FS_Subset DEF C
<1>4. T # {}
  <2>1. SumOver(f, {}) = SumOver(g, {})
    BY SumEmpty
  <2> QED BY <2>1 DEF C
<1>5. SumOver(f, Rest(T)) = SumOver(g, Rest(T))
  BY <1>2, <1>3, <1>4, FirstIsIn DEF C
<1>6. f[First(T)] = g[First(T)]
  BY <1>3, <1>4, FirstIsIn
<1>7. SumOver(f, T) = SumOver(g, T)
  BY <1>3, <1>4, <1>5, <1>6, SumFirst
<1> QED BY <1>7 DEF C

LEMMA SumUnion ==
    ASSUME NEW S, IsFiniteSet(S), NEW R, IsFiniteSet(R), S \cap R = {},
           NEW f, \A x \in S \cup R : f[x] \in Nat
    PROVE  SumOver(f, S \cup R) = SumOver(f, S) + SumOver(f, R)
<1> DEFINE C == {s \in SUBSET S : SumOver(f, s \cup R) # SumOver(f, s) + SumOver(f, R)}
<1>1. SUFFICES ASSUME C # {} PROVE FALSE
  BY <1>1
<1> HIDE DEF C
<1>2. PICK T \in C : \A U \in C : U \subseteq T => U = T
  <2>1. C \subseteq SUBSET S
    BY DEF C
  <2> QED BY <1>1, <2>1, SmallestSubset
<1>3. T \in SUBSET S /\ IsFiniteSet(T)
  BY FS_Subset DEF C
<1>4. T # {}
  <2>1. SumOver(f, {}) = 0 /\ SumOver(f, R) \in Nat /\ {} \cup R = R
    BY SumEmpty, SumType
  <2> QED BY <2>1 DEF C
<1>5. PICK x \in T : TRUE
  BY <1>4
<1> DEFINE U == T \ {x}
<1>6. U \subseteq T /\ U # T /\ IsFiniteSet(U) /\ IsFiniteSet(T \cup R) /\ (T \cup R) \ {x} = U \cup R
  BY <1>3, <1>5, FS_Subset, FS_Union
<1>7. SumOver(f, U \cup R) = SumOver(f, U) + SumOver(f, R)
  BY <1>2, <1>3, <1>6 DEF C
<1>8. SumOver(f, T) = f[x] + SumOver(f, U)
  BY <1>3, <1>5, SumElement
<1>9. SumOver(f, T \cup R) = f[x] + SumOver(f, U \cup R)
  <2>1. x \in T \cup R /\ \A y \in T \cup R : f[y] \in Nat
    BY <1>3, <1>5
  <2>2. SumOver(f, T \cup R) = f[x] + SumOver(f, (T \cup R) \ {x})
    BY <2>1, <1>6, SumElement
  <2> QED BY <2>2, <1>6
<1>10. f[x] \in Nat /\ SumOver(f, U) \in Nat /\ SumOver(f, R) \in Nat
  BY <1>3, <1>5, <1>6, SumType
<1> HIDE DEF U
<1>11. SumOver(f, T \cup R) = SumOver(f, T) + SumOver(f, R)
  BY <1>7, <1>8, <1>9, <1>10
<1> QED BY <1>11 DEF C

LEMMA SumMore ==
    ASSUME NEW S, IsFiniteSet(S), NEW R, R \subseteq S, NEW f, \A x \in S : f[x] \in Nat
    PROVE  SumOver(f, R) <= SumOver(f, S)
<1> DEFINE Q == S \ R
<1>1. S = R \cup Q /\ IsFiniteSet(R) /\ IsFiniteSet(Q) /\ R \cap Q = {} /\ Q \subseteq S
  BY FS_Subset
<1> HIDE DEF Q
<1>2. SumOver(f, S) = SumOver(f, R) + SumOver(f, Q)
  BY <1>1, SumUnion
<1>3. SumOver(f, R) \in Nat /\ SumOver(f, Q) \in Nat
  BY <1>1, SumType
<1> QED BY <1>2, <1>3

LEMMA SumLess ==
    ASSUME NEW S, IsFiniteSet(S), NEW f, NEW g, \A x \in S : f[x] \in Nat /\ g[x] \in Nat /\ f[x] <= g[x]
    PROVE  SumOver(f, S) <= SumOver(g, S)
<1> DEFINE C == {s \in SUBSET S : ~(SumOver(f, s) <= SumOver(g, s))}
<1>1. SUFFICES ASSUME C # {} PROVE FALSE
  BY <1>1
<1> HIDE DEF C
<1>2. PICK T \in C : \A U \in C : U \subseteq T => U = T
  <2>1. C \subseteq SUBSET S
    BY DEF C
  <2> QED BY <1>1, <2>1, SmallestSubset
<1>3. T \in SUBSET S /\ IsFiniteSet(T)
  BY FS_Subset DEF C
<1>4. T # {}
  <2>1. SumOver(f, {}) = 0 /\ SumOver(g, {}) = 0
    BY SumEmpty
  <2> QED BY <2>1 DEF C
<1>5. SumOver(f, Rest(T)) <= SumOver(g, Rest(T))
  BY <1>2, <1>3, <1>4, FirstIsIn DEF C
<1>6. f[First(T)] <= g[First(T)] /\ f[First(T)] \in Nat /\ g[First(T)] \in Nat
  BY <1>3, <1>4, FirstIsIn
<1>7. IsFiniteSet(Rest(T)) /\ Rest(T) \subseteq S
  BY <1>3, <1>4, FirstIsIn, FS_Subset
<1>8. SumOver(f, Rest(T)) \in Nat /\ SumOver(g, Rest(T)) \in Nat
  BY <1>7, SumType
<1>9. SumOver(f, T) = f[First(T)] + SumOver(f, Rest(T)) /\ SumOver(g, T) = g[First(T)] + SumOver(g, Rest(T))
  BY <1>3, <1>4, SumFirst
<1>10. SumOver(f, T) <= SumOver(g, T)
  BY <1>5, <1>6, <1>8, <1>9
<1> QED BY <1>10 DEF C

LEMMA SumZero ==
    ASSUME NEW S, IsFiniteSet(S), NEW f, \A x \in S : f[x] = 0
    PROVE  SumOver(f, S) = 0
<1> DEFINE C == {s \in SUBSET S : SumOver(f, s) # 0}
<1>1. SUFFICES ASSUME C # {} PROVE FALSE
  BY <1>1
<1> HIDE DEF C
<1>2. PICK T \in C : \A U \in C : U \subseteq T => U = T
  <2>1. C \subseteq SUBSET S
    BY DEF C
  <2> QED BY <1>1, <2>1, SmallestSubset
<1>3. T \in SUBSET S /\ IsFiniteSet(T)
  BY FS_Subset DEF C
<1>4. T # {}
  <2>1. SumOver(f, {}) = 0
    BY SumEmpty
  <2> QED BY <2>1 DEF C
<1>5. SumOver(f, Rest(T)) = 0
  BY <1>2, <1>3, <1>4, FirstIsIn DEF C
<1>6. f[First(T)] = 0
  BY <1>3, <1>4, FirstIsIn
<1>7. SumOver(f, T) = 0
  BY <1>3, <1>4, <1>5, <1>6, SumFirst
<1> QED BY <1>7 DEF C

LEMMA SumPlus ==
    ASSUME NEW S, IsFiniteSet(S), NEW f, NEW g, NEW h,
           \A x \in S : f[x] \in Nat /\ g[x] \in Nat /\ h[x] = f[x] + g[x]
    PROVE  SumOver(h, S) = SumOver(f, S) + SumOver(g, S)
<1> DEFINE C == {s \in SUBSET S : SumOver(h, s) # SumOver(f, s) + SumOver(g, s)}
<1>1. SUFFICES ASSUME C # {} PROVE FALSE
  BY <1>1
<1> HIDE DEF C
<1>2. PICK T \in C : \A U \in C : U \subseteq T => U = T
  <2>1. C \subseteq SUBSET S
    BY DEF C
  <2> QED BY <1>1, <2>1, SmallestSubset
<1>3. T \in SUBSET S /\ IsFiniteSet(T)
  BY FS_Subset DEF C
<1>4. T # {}
  <2>1. SumOver(f, {}) = 0 /\ SumOver(g, {}) = 0 /\ SumOver(h, {}) = 0
    BY SumEmpty
  <2>2. SumOver(h, {}) = SumOver(f, {}) + SumOver(g, {})
    BY <2>1
  <2>3. SumOver(h, T) # SumOver(f, T) + SumOver(g, T)
    BY DEF C
  <2> QED BY <2>2, <2>3
<1>5. SumOver(h, Rest(T)) = SumOver(f, Rest(T)) + SumOver(g, Rest(T))
  BY <1>2, <1>3, <1>4, FirstIsIn DEF C
<1>6. h[First(T)] = f[First(T)] + g[First(T)] /\ f[First(T)] \in Nat /\ g[First(T)] \in Nat
  BY <1>3, <1>4, FirstIsIn
<1>7. IsFiniteSet(Rest(T)) /\ Rest(T) \subseteq S
  BY <1>3, <1>4, FirstIsIn, FS_Subset
<1>8. SumOver(f, Rest(T)) \in Nat /\ SumOver(g, Rest(T)) \in Nat
  BY <1>7, SumType
<1>9. /\ SumOver(f, T) = f[First(T)] + SumOver(f, Rest(T))
     /\ SumOver(g, T) = g[First(T)] + SumOver(g, Rest(T))
     /\ SumOver(h, T) = h[First(T)] + SumOver(h, Rest(T))
  BY <1>3, <1>4, SumFirst
<1>10. SumOver(h, T) = SumOver(f, T) + SumOver(g, T)
  BY <1>5, <1>6, <1>8, <1>9
<1> QED BY <1>10 DEF C

\* A sum is more than zero when something in it is.
LEMMA SumPositive ==
    ASSUME NEW S, IsFiniteSet(S), NEW f, \A x \in S : f[x] \in Nat
    PROVE  SumOver(f, S) > 0 <=> \E x \in S : f[x] > 0
<1>1. ASSUME NEW x \in S, f[x] > 0 PROVE SumOver(f, S) > 0
  <2>1. IsFiniteSet(S \ {x}) /\ \A y \in S \ {x} : f[y] \in Nat
    BY FS_Subset
  <2>2. SumOver(f, S \ {x}) \in Nat /\ f[x] \in Nat
    BY <2>1, SumType
  <2>3. SumOver(f, S) = f[x] + SumOver(f, S \ {x})
    BY SumElement
  <2> QED BY <1>1, <2>2, <2>3
<1>2. ASSUME ~ \E x \in S : f[x] > 0 PROVE SumOver(f, S) = 0
  <2>1. \A x \in S : f[x] = 0
    BY <1>2
  <2> QED BY <2>1, SumZero
<1> QED BY <1>1, <1>2

\* The sum of the parts of a set, told apart by g, is the sum over the set.
LEMMA SumParts ==
    ASSUME NEW S, IsFiniteSet(S), NEW f, \A x \in S : f[x] \in Nat,
           NEW K, IsFiniteSet(K), NEW g, \A x \in S : g[x] \in K,
           NEW h, \A k \in K : h[k] = SumOver(f, {x \in S : g[x] = k})
    PROVE  SumOver(h, K) = SumOver(f, S)
<1> DEFINE In(T) == {x \in S : g[x] \in T}
           C == {T \in SUBSET K : SumOver(h, T) # SumOver(f, In(T))}
<1>1. SUFFICES ASSUME C # {} PROVE FALSE
  <2>1. In(K) = S
    OBVIOUS
  <2> HIDE DEF In
  <2> QED BY <1>1, <2>1
<1>2. PICK T \in C : \A U \in C : U \subseteq T => U = T
  <2> HIDE DEF C
  <2>1. C \subseteq SUBSET K
    BY DEF C
  <2> QED BY <1>1, <2>1, SmallestSubset
<1>3. T \in SUBSET K /\ IsFiniteSet(T) /\ SumOver(h, T) # SumOver(f, In(T))
  BY FS_Subset
<1>4. T # {}
  <2>1. In({}) = {}
    OBVIOUS
  <2> HIDE DEF In
  <2> QED BY <1>3, <2>1, SumEmpty
<1>5. PICK k \in T : TRUE
  BY <1>4
<1> DEFINE U == T \ {k}
           part == {x \in S : g[x] = k}
<1>6. U \subseteq T /\ U # T /\ U \in SUBSET K /\ k \in K
  BY <1>3, <1>5
<1>7. SumOver(h, U) = SumOver(f, In(U))
  BY <1>2, <1>6
<1>8. /\ In(T) = part \cup In(U) /\ part \cap In(U) = {}
      /\ part \subseteq S /\ In(U) \subseteq S
  BY <1>5
<1>9. IsFiniteSet(part) /\ IsFiniteSet(In(U))
  BY <1>8, FS_Subset
<1>10. h[k] = SumOver(f, part)
  BY <1>6
<1> HIDE DEF In, part, C
<1>11. SumOver(f, In(T)) = SumOver(f, part) + SumOver(f, In(U))
  <2>1. PICK rest : rest = In(U)
    OBVIOUS
  <2>2. \A x \in part \cup rest : f[x] \in Nat
    BY <1>8, <2>1
  <2>3. IsFiniteSet(rest) /\ part \cap rest = {} /\ In(T) = part \cup rest
    BY <1>8, <1>9, <2>1
  <2>4. SumOver(f, part \cup rest) = SumOver(f, part) + SumOver(f, rest)
    BY <1>9, <2>2, <2>3, SumUnion
  <2> QED BY <2>1, <2>3, <2>4
<1>12. \A j \in T : h[j] \in Nat
  <2> TAKE j \in T
  <2>1. h[j] = SumOver(f, {x \in S : g[x] = j})
    BY <1>3
  <2>2. IsFiniteSet({x \in S : g[x] = j})
    BY FS_Subset
  <2> QED BY <2>1, <2>2, SumType
<1>13. SumOver(h, T) = h[k] + SumOver(h, U)
  BY <1>3, <1>5, <1>12, SumElement
<1> QED BY <1>3, <1>7, <1>10, <1>11, <1>13

\* The same, with the parts named.
LEMMA SumByParts ==
    ASSUME NEW S, IsFiniteSet(S), NEW f, \A x \in S : f[x] \in Nat,
           NEW K, IsFiniteSet(K), NEW g, \A x \in S : g[x] \in K,
           NEW part, \A k \in K : part[k] \subseteq S /\ \A x \in S : x \in part[k] <=> g[x] = k,
           NEW h, \A k \in K : h[k] = SumOver(f, part[k])
    PROVE  SumOver(h, K) = SumOver(f, S)
<1>1. ASSUME NEW k \in K PROVE h[k] = SumOver(f, {x \in S : g[x] = k})
  <2>1. part[k] = {x \in S : g[x] = k}
    BY <1>1
  <2> QED BY <1>1, <2>1
<1> QED BY <1>1, SumParts

\* Counting is summing ones.
LEMMA SumOnes ==
    ASSUME NEW S, IsFiniteSet(S), NEW R, R \subseteq S,
           NEW f, \A x \in S : f[x] = IF x \in R THEN 1 ELSE 0
    PROVE  SumOver(f, S) = Cardinality(R)
<1> DEFINE C == {T \in SUBSET R : SumOver(f, T) # Cardinality(T)}
           Q == S \ R
<1>1. IsFiniteSet(R) /\ IsFiniteSet(Q) /\ S = R \cup Q /\ R \cap Q = {}
  BY FS_Subset
<1>2. SumOver(f, R) = Cardinality(R)
  <2>1. SUFFICES ASSUME C # {} PROVE FALSE
    BY <2>1
  <2>2. PICK T \in C : \A U \in C : U \subseteq T => U = T
    <3> HIDE DEF C
    <3>1. C \subseteq SUBSET R
      BY DEF C
    <3> QED BY <1>1, <2>1, <3>1, SmallestSubset
  <2>3. T \in SUBSET R /\ IsFiniteSet(T) /\ SumOver(f, T) # Cardinality(T)
    BY <1>1, FS_Subset
  <2>4. T # {}
    BY <2>3, SumEmpty, FS_EmptySet
  <2>5. PICK x \in T : TRUE
    BY <2>4
  <2> DEFINE U == T \ {x}
  <2>6. U \subseteq T /\ U # T /\ U \in SUBSET R /\ IsFiniteSet(U)
    BY <2>3, <2>5, FS_Subset
  <2>7. SumOver(f, U) = Cardinality(U)
    BY <2>2, <2>6
  <2> HIDE DEF C
  <2>8. \A y \in T : f[y] = 1
    BY <2>3
  <2>9. SumOver(f, T) = f[x] + SumOver(f, U)
    BY <2>3, <2>5, <2>8, SumElement
  <2>10. Cardinality(U) = Cardinality(T) - 1 /\ Cardinality(T) \in Nat
    BY <2>3, <2>5, FS_RemoveElement, FS_CardinalityType
  <2> QED BY <2>3, <2>5, <2>7, <2>8, <2>9, <2>10
<1> HIDE DEF C, Q
<1>3. \A x \in Q : f[x] = 0
  BY DEF Q
<1>4. SumOver(f, Q) = 0
  BY <1>1, <1>3, SumZero
<1>5. \A x \in R \cup Q : f[x] \in Nat
  BY <1>1
<1>6. SumOver(f, S) = SumOver(f, R) + SumOver(f, Q)
  BY <1>1, <1>5, SumUnion
<1>7. Cardinality(R) \in Nat
  BY <1>1, FS_CardinalityType
<1> QED BY <1>2, <1>4, <1>6, <1>7

LEMMA SumOfTwo ==
    ASSUME NEW x, NEW y, x # y, NEW f, f[x] \in Nat, f[y] \in Nat
    PROVE  SumOver(f, {x, y}) = f[x] + f[y]
<1>1. IsFiniteSet({x, y}) /\ {x, y} \ {x} = {y} /\ {y} \ {y} = {} /\ IsFiniteSet({y})
  <2>1. IsFiniteSet({y}) /\ {x, y} = {y} \cup {x}
    BY FS_Singleton
  <2>2. IsFiniteSet({y} \cup {x})
    BY <2>1, FS_AddElement
  <2> QED BY <2>1, <2>2
<1>2. SumOver(f, {x, y}) = f[x] + SumOver(f, {y})
  <2>1. \A z \in {x, y} : f[z] \in Nat
    OBVIOUS
  <2>2. SumOver(f, {x, y}) = f[x] + SumOver(f, {x, y} \ {x})
    BY <1>1, <2>1, SumElement
  <2> QED BY <1>1, <2>2
<1>3. SumOver(f, {y}) = f[y]
  <2>1. SumOver(f, {y}) = f[y] + SumOver(f, {y} \ {y})
    BY <1>1, SumElement
  <2> QED BY <1>1, <2>1, SumEmpty
<1> QED BY <1>2, <1>3

SumIds(S) == MapThenSumSet(LAMBDA o : o, S)
Itself(S) == [x \in S |-> x]
IdsPartial(S, h) == [s \in SUBSET S |-> IF s = {} THEN 0 ELSE First(s) + h[Rest(s)]]
IdsSums(S) == CHOOSE h : h = IdsPartial(S, h)

LEMMA SumIdsIsSum ==
    ASSUME NEW S, IsFiniteSet(S)
    PROVE  SumIds(S) = SumOver(Itself(S), S)
<1>1. SumIds(S) = IdsSums(S)[S]
  BY DEF SumIds, MapThenSumSet, MapThenFoldSet, IdsSums, IdsPartial, First, Rest
<1>2. ASSUME NEW h PROVE IdsPartial(S, h) = Partial(Itself(S), S, h)
  <2>1. \A s \in SUBSET S : s # {} => Itself(S)[First(s)] = First(s)
    BY FirstIsIn DEF Itself
  <2> QED BY <2>1 DEF IdsPartial, Partial
<1>3. \E h : h = IdsPartial(S, h)
  BY <1>2, PartialExists
<1>4. IdsSums(S) = IdsPartial(S, IdsSums(S))
  BY <1>3 DEF IdsSums
<1>5. IdsSums(S) = Partial(Itself(S), S, IdsSums(S))
  BY <1>2, <1>4
<1>6. IdsSums(S) = Sums(Itself(S), S)
  BY <1>5, SumsEquation, PartialIsOne
<1> QED BY <1>1, <1>6, SumIsPartial

LEMMA SumIdsUnion ==
    ASSUME NEW S, IsFiniteSet(S), NEW R, IsFiniteSet(R), S \cap R = {}, S \cup R \subseteq Nat
    PROVE  SumIds(S \cup R) = SumIds(S) + SumIds(R)
<1> DEFINE f == Itself(S \cup R)
<1>1. \A x \in S \cup R : f[x] = x
  BY DEF Itself
<1>2. IsFiniteSet(S \cup R)
  BY FS_Union
<1>3. SumIds(S) = SumOver(f, S) /\ SumIds(R) = SumOver(f, R) /\ SumIds(S \cup R) = SumOver(f, S \cup R)
  <2>1. (\A x \in S : Itself(S)[x] = f[x]) /\ (\A x \in R : Itself(R)[x] = f[x])
    BY DEF Itself
  <2> QED BY <1>2, <2>1, SumIdsIsSum, SumEqual
<1> HIDE DEF f
<1> QED BY <1>1, <1>3, SumUnion

LEMMA SumIdsType ==
    ASSUME NEW S, IsFiniteSet(S), S \subseteq Nat
    PROVE  SumIds(S) \in Nat
BY SumIdsIsSum, SumType DEF Itself

-----------------------------------------------------------------------------
(* Numbers and finite sets.                                                *)

LEMMA LesserOfTwo ==
    ASSUME NEW a \in Int, NEW b \in Int
    PROVE  Min({a, b}) = IF a <= b THEN a ELSE b
BY DEF Min

LEMMA GreaterOfTwo ==
    ASSUME NEW a \in Int, NEW b \in Int
    PROVE  Max({a, b}) = IF a <= b THEN b ELSE a
BY DEF Max

LEMMA LeastIsThere ==
    ASSUME NEW S, IsFiniteSet(S), S # {}, S \subseteq Int
    PROVE  Min(S) \in S /\ \A x \in S : Min(S) <= x
<1> DEFINE Below(x) == {y \in S : y <= x}
           C == {s \in SUBSET S : \E x \in S : s = Below(x)}
<1>1. C \subseteq SUBSET S /\ C # {}
  OBVIOUS
<1>2. PICK T \in C : \A U \in C : U \subseteq T => U = T
  <2> HIDE DEF C
  <2>1. C \subseteq SUBSET S /\ C # {}
    BY DEF C
  <2>2. IsFiniteSet(S)
    OBVIOUS
  <2> QED BY ONLY <2>1, <2>2, SmallestSubset
<1>3. PICK x \in S : T = Below(x)
  OBVIOUS
<1>4. \A y \in S : x <= y
  <2> SUFFICES ASSUME NEW y \in S, y < x PROVE FALSE
    OBVIOUS
  <2> x \in Int /\ y \in Int /\ \A z \in S : z \in Int
    OBVIOUS
  <2>1. x \in Below(x) /\ x \notin Below(y)
    OBVIOUS
  <2>3. Below(y) \subseteq Below(x)
    <3> SUFFICES ASSUME NEW z \in S, z <= y PROVE z <= x
      OBVIOUS
    <3> z \in Int
      OBVIOUS
    <3> QED OBVIOUS
  <2>2. Below(y) \in C
    OBVIOUS
  <2> QED BY <1>2, <1>3, <2>1, <2>2, <2>3
<1> QED BY <1>4 DEF Min

LEMMA FiniteImage ==
    ASSUME NEW S, IsFiniteSet(S), NEW g
    PROVE  IsFiniteSet({g[x] : x \in S})
<1> DEFINE T == {g[x] : x \in S}
           f == [x \in S |-> g[x]]
<1>1. f \in Surjection(S, T)
  BY DEF Surjection
<1> HIDE DEF T, f
<1> QED BY <1>1, FS_Surjection DEF T

LEMMA CardDisjoint ==
    ASSUME NEW S, IsFiniteSet(S), NEW R, IsFiniteSet(R), S \cap R = {}
    PROVE  /\ IsFiniteSet(S \cup R) /\ Cardinality(S) \in Nat /\ Cardinality(R) \in Nat
           /\ Cardinality(S \cup R) = Cardinality(S) + Cardinality(R)
<1>1. Cardinality(S \cap R) = 0
  BY FS_EmptySet
<1>2. Cardinality(S) \in Nat /\ Cardinality(R) \in Nat
  BY FS_CardinalityType
<1>3. /\ IsFiniteSet(S \cup R)
      /\ Cardinality(S \cup R) = Cardinality(S) + Cardinality(R) - Cardinality(S \cap R)
  BY FS_Union
<1> QED BY <1>1, <1>2, <1>3

LEMMA CardLess ==
    ASSUME NEW S, IsFiniteSet(S), NEW R, R \subseteq S
    PROVE  /\ IsFiniteSet(R) /\ Cardinality(R) \in Nat /\ Cardinality(S) \in Nat
           /\ Cardinality(R) <= Cardinality(S)
BY FS_Subset, FS_CardinalityType

\* The elements of the second set that are not in the first, counted.
LEMMA CardMinus ==
    ASSUME NEW S, IsFiniteSet(S), NEW R, R \subseteq S
    PROVE  /\ IsFiniteSet(R) /\ IsFiniteSet(S \ R) /\ Cardinality(R) \in Nat /\ Cardinality(S \ R) \in Nat
           /\ Cardinality(S) = Cardinality(R) + Cardinality(S \ R)
<1>1. IsFiniteSet(R) /\ IsFiniteSet(S \ R)
  BY FS_Subset
<1>2. R \cap (S \ R) = {} /\ R \cup (S \ R) = S
  OBVIOUS
<1> QED BY <1>1, <1>2, CardDisjoint

LEMMA GreatestIsThere ==
    ASSUME NEW S, IsFiniteSet(S), S # {}, S \subseteq Int
    PROVE  Max(S) \in S /\ \A x \in S : x <= Max(S)
<1> DEFINE Above(x) == {y \in S : x <= y}
           C == {s \in SUBSET S : \E x \in S : s = Above(x)}
<1>1. C \subseteq SUBSET S /\ C # {}
  OBVIOUS
<1>2. PICK T \in C : \A U \in C : U \subseteq T => U = T
  <2> HIDE DEF C
  <2>1. C \subseteq SUBSET S /\ C # {}
    BY DEF C
  <2>2. IsFiniteSet(S)
    OBVIOUS
  <2> QED BY ONLY <2>1, <2>2, SmallestSubset
<1>3. PICK x \in S : T = Above(x)
  OBVIOUS
<1>4. \A y \in S : y <= x
  <2> SUFFICES ASSUME NEW y \in S, x < y PROVE FALSE
    OBVIOUS
  <2> x \in Int /\ y \in Int /\ \A z \in S : z \in Int
    OBVIOUS
  <2>1. x \in Above(x) /\ x \notin Above(y)
    OBVIOUS
  <2>2. Above(y) \subseteq Above(x)
    <3> SUFFICES ASSUME NEW z \in S, y <= z PROVE x <= z
      OBVIOUS
    <3> z \in Int
      OBVIOUS
    <3> QED OBVIOUS
  <2>3. Above(y) \in C
    OBVIOUS
  <2> QED BY <1>2, <1>3, <2>1, <2>2, <2>3
<1> QED BY <1>4 DEF Max
=============================================================================

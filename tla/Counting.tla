------------------------------ MODULE Counting ------------------------------
(***************************************************************************)
(* Facts about finite sets that the proofs of several components count     *)
(* with: ranks, induction over a finite set, and sums of functions.  The   *)
(* induction is about a set of subsets instead of a predicate, and a sum   *)
(* is tied to the recursive function it is computed with, so that what     *)
(* follows from them follows for sets of any size.                         *)
(***************************************************************************)
EXTENDS Integers, FiniteSets, Functions, FiniteSetTheorems, TLAPS

(* Ranks *)

\* In a finite set whose elements have different keys, an element's rank is the
\* number of elements with a smaller key: ranks are ordered as the keys are, differ
\* from each other, and are all the numbers below the cardinality.
LEMMA RanksAreIndexes ==
    ASSUME NEW S, IsFiniteSet(S), NEW f \in [S -> Int],
           \A s, t \in S : f[s] = f[t] => s = t
    PROVE  /\ \A s \in S : Cardinality({t \in S : f[t] < f[s]}) \in 0 .. Cardinality(S) - 1
           /\ \A s, t \in S : f[s] < f[t] <=>
                 Cardinality({u \in S : f[u] < f[s]}) < Cardinality({u \in S : f[u] < f[t]})
           /\ \A s, t \in S : s = t <=>
                 Cardinality({u \in S : f[u] < f[s]}) = Cardinality({u \in S : f[u] < f[t]})
           /\ \A i \in 0 .. Cardinality(S) - 1 :
                 \E s \in S : Cardinality({t \in S : f[t] < f[s]}) = i
<1> DEFINE Below(s) == {t \in S : f[t] < f[s]}
           rank == [s \in S |-> Cardinality(Below(s))]
           n == Cardinality(S)
<1>1. n \in Nat
  BY FS_CardinalityType
<1>2. ASSUME NEW s \in S
      PROVE  IsFiniteSet(Below(s)) /\ rank[s] \in 0 .. n - 1
  <2>1. Below(s) \in SUBSET S
    OBVIOUS
  <2>2. s \notin Below(s)
    OBVIOUS
  <2>3. Below(s) # S
    BY <2>2
  <2>4. /\ IsFiniteSet(Below(s)) /\ Cardinality(Below(s)) <= n
        /\ n = Cardinality(Below(s)) => S = Below(s)
    BY <2>1, FS_Subset
  <2>5. Cardinality(Below(s)) \in Nat
    BY <2>4, FS_CardinalityType
  <2>6. rank[s] = Cardinality(Below(s))
    OBVIOUS
  <2> HIDE DEF rank, Below, n
  <2> QED
    BY <1>1, <2>3, <2>4, <2>5, <2>6
<1>3. \A s \in S : rank[s] \in Nat
  <2> HIDE DEF rank, Below, n
  <2> QED
    BY <1>1, <1>2
<1>4. ASSUME NEW s \in S, NEW t \in S, f[s] < f[t]
      PROVE  rank[s] < rank[t]
  <2>1. Below(s) \in SUBSET Below(t)
    BY <1>4
  <2>2. s \in Below(t) /\ s \notin Below(s)
    BY <1>4
  <2>3. IsFiniteSet(Below(t))
    BY <1>2
  <2>4. /\ Cardinality(Below(s)) <= Cardinality(Below(t))
        /\ Cardinality(Below(t)) # Cardinality(Below(s))
    <3> HIDE DEF Below
    <3> QED
      BY <2>1, <2>2, <2>3, FS_Subset
  <2>5. rank[s] = Cardinality(Below(s)) /\ rank[t] = Cardinality(Below(t))
    OBVIOUS
  <2>6. rank[s] \in Int /\ rank[t] \in Int
    BY <1>3
  <2> HIDE DEF rank, Below
  <2> QED
    BY <2>4, <2>5, <2>6
<1>5. \A s, t \in S : f[s] < f[t] <=> rank[s] < rank[t]
  <2> SUFFICES ASSUME NEW s \in S, NEW t \in S, rank[s] < rank[t] PROVE f[s] < f[t]
    BY <1>4
  <2>1. CASE f[s] = f[t]
    <3>1. s = t
      BY <2>1
    <3>2. rank[s] \in Int
      BY <1>3
    <3> HIDE DEF rank
    <3> QED
      BY <3>1, <3>2
  <2>2. CASE f[t] < f[s]
    <3>1. rank[t] < rank[s]
      BY <2>2, <1>4
    <3>2. rank[s] \in Int /\ rank[t] \in Int
      BY <1>3
    <3> HIDE DEF rank
    <3> QED
      BY <3>1, <3>2
  <2> HIDE DEF rank
  <2> QED
    BY <2>1, <2>2
<1>6. \A s, t \in S : rank[s] = rank[t] => s = t
  <2> SUFFICES ASSUME NEW s \in S, NEW t \in S, rank[s] = rank[t] PROVE s = t
    OBVIOUS
  <2>1. ~(rank[s] < rank[t]) /\ ~(rank[t] < rank[s])
    <3>1. rank[s] \in Int
      BY <1>3
    <3> HIDE DEF rank
    <3> QED
      BY <3>1
  <2>2. ~(f[s] < f[t]) /\ ~(f[t] < f[s])
    BY <2>1, <1>5
  <2> HIDE DEF rank
  <2> QED
    BY <2>2
<1>7. rank \in [S -> 0 .. n - 1]
  <2> HIDE DEF n
  <2> QED
    BY <1>2
<1>8. rank \in Surjection(S, 0 .. n - 1)
  <2>1. rank \in Injection(S, 0 .. n - 1)
    <3> HIDE DEF rank
    <3> QED
      BY <1>6, <1>7 DEF Injection, IsInjective
  <2>2. IsFiniteSet(0 .. n - 1) /\ Cardinality(0 .. n - 1) = n
    <3> HIDE DEF n
    <3>1. /\ IsFiniteSet(0 .. n - 1)
          /\ Cardinality(0 .. n - 1) = IF 0 > n - 1 THEN 0 ELSE n - 1 - 0 + 1
      BY <1>1, FS_Interval
    <3> QED
      BY <1>1, <3>1
  <2> HIDE DEF rank
  <2> QED
    BY <2>1, <2>2, FS_Injection
<1>9. \A s \in S : rank[s] = Cardinality(Below(s))
  OBVIOUS
<1>10. \A s \in S : Cardinality({t \in S : f[t] < f[s]}) \in 0 .. Cardinality(S) - 1
  BY <1>2, <1>9
<1>11. \A s, t \in S : f[s] < f[t] <=>
          Cardinality({u \in S : f[u] < f[s]}) < Cardinality({u \in S : f[u] < f[t]})
  BY <1>5, <1>9
<1>12. \A s, t \in S : s = t <=>
          Cardinality({u \in S : f[u] < f[s]}) = Cardinality({u \in S : f[u] < f[t]})
  BY <1>6, <1>9
<1>13. \A i \in 0 .. Cardinality(S) - 1 :
          \E s \in S : Cardinality({t \in S : f[t] < f[s]}) = i
  <2> SUFFICES ASSUME NEW i \in 0 .. n - 1 PROVE \E s \in S : Cardinality(Below(s)) = i
    OBVIOUS
  <2>1. PICK s \in S : rank[s] = i
    <3> HIDE DEF rank, n
    <3> QED
      BY <1>8 DEF Surjection
  <2> QED
    BY <2>1, <1>9
<1> QED
  BY <1>10, <1>11, <1>12, <1>13

\* Exactly k elements have a rank below k.
LEMMA RanksFill ==
    ASSUME NEW S, IsFiniteSet(S), NEW f \in [S -> Int],
           \A s, t \in S : f[s] = f[t] => s = t,
           NEW k \in Nat, k <= Cardinality(S)
    PROVE  Cardinality({s \in S : Cardinality({t \in S : f[t] < f[s]}) < k}) = k
<1> DEFINE Rank(s) == Cardinality({t \in S : f[t] < f[s]})
           n == Cardinality(S)
           low == {s \in S : Rank(s) < k}
           g == [s \in low |-> Rank(s)]
<1>1. n \in Nat
  BY FS_CardinalityType
<1>2. /\ \A s \in S : Rank(s) \in 0 .. n - 1
      /\ \A s, t \in S : s = t <=> Rank(s) = Rank(t)
      /\ \A i \in 0 .. n - 1 : \E s \in S : Rank(s) = i
  <2>1. \A s \in S : Rank(s) \in 0 .. n - 1
    BY RanksAreIndexes
  <2>2. \A s, t \in S : s = t <=> Rank(s) = Rank(t)
    BY RanksAreIndexes
  <2>3. \A i \in 0 .. n - 1 : \E s \in S : Rank(s) = i
    BY RanksAreIndexes
  <2> QED
    BY <2>1, <2>2, <2>3
<1> HIDE DEF Rank
<1>3. g \in [low -> 0 .. k - 1]
  <2> SUFFICES ASSUME NEW s \in low PROVE Rank(s) \in 0 .. k - 1
    OBVIOUS
  <2> HIDE DEF n
  <2> QED
    BY <1>1, <1>2
<1>4. \A i \in 0 .. k - 1 : \E s \in low : g[s] = i
  <2> SUFFICES ASSUME NEW i \in 0 .. k - 1 PROVE \E s \in low : g[s] = i
    OBVIOUS
  <2>1. i \in 0 .. n - 1
    BY <1>1
  <2>2. PICK s \in S : Rank(s) = i
    BY <1>2, <2>1
  <2> QED
    BY <2>2
<1>5. \A s, t \in low : g[s] = g[t] => s = t
  BY <1>2
<1>6. g \in Injection(low, 0 .. k - 1) /\ g \in Surjection(low, 0 .. k - 1)
  <2> HIDE DEF g
  <2> QED
    BY <1>3, <1>4, <1>5 DEF Injection, IsInjective, Surjection
<1>7. /\ IsFiniteSet(0 .. k - 1)
      /\ Cardinality(0 .. k - 1) = IF 0 > k - 1 THEN 0 ELSE k - 1 - 0 + 1
  BY FS_Interval
<1>8. Cardinality(low) = Cardinality(0 .. k - 1)
  <2> HIDE DEF g, low
  <2> QED
    BY <1>6, <1>7, FS_Injection
<1>9. Cardinality(low) = k
  <2> HIDE DEF g, low
  <2> QED
    BY <1>7, <1>8
<1> QED
  BY <1>9 DEF Rank

----------------------------------------------------------------------------
(* Induction *)

\* A set of natural numbers that is not empty has a least element.
LEMMA LeastNumber ==
    ASSUME NEW N \in SUBSET Nat, N # {}
    PROVE  \E n \in N : \A m \in N : n <= m
<1>1. PICK k \in N : TRUE
  OBVIOUS
<1> DEFINE M == N \cap (0 .. k)
           f == [m \in M |-> m]
<1>2. IsFiniteSet(M)
  <2>1. IsFiniteSet(0 .. k)
    BY FS_Interval
  <2> QED
    BY <2>1, FS_Subset
<1>3. f \in [M -> Int] /\ \A s, t \in M : f[s] = f[t] => s = t
  OBVIOUS
<1>4. Cardinality(M) \in Nat /\ Cardinality(M) # 0
  <2>1. k \in M
    OBVIOUS
  <2> HIDE DEF M
  <2> QED
    BY <1>2, <2>1, FS_CardinalityType, FS_EmptySet
<1>5. \E s \in M : Cardinality({t \in M : f[t] < f[s]}) = 0
  <2>1. \A i \in 0 .. Cardinality(M) - 1 : \E s \in M : Cardinality({t \in M : f[t] < f[s]}) = i
    <3> HIDE DEF M, f
    <3> QED
      BY <1>2, <1>3, RanksAreIndexes
  <2> HIDE DEF M, f
  <2> QED
    BY <1>4, <2>1
<1>6. PICK s \in M : Cardinality({t \in M : f[t] < f[s]}) = 0
  BY <1>5
<1>7. {t \in M : f[t] < f[s]} = {}
  <2>1. IsFiniteSet({t \in M : f[t] < f[s]})
    <3> HIDE DEF M, f
    <3> QED
      BY <1>2, FS_Subset
  <2> HIDE DEF M, f
  <2> QED
    BY <1>6, <2>1, FS_EmptySet
<1>8. \A m \in N : s <= m
  <2> SUFFICES ASSUME NEW m \in N, m < s PROVE FALSE
    OBVIOUS
  <2>1. m \in M /\ f[m] < f[s]
    OBVIOUS
  <2> QED
    BY <1>7, <2>1
<1> QED
  BY <1>8

\* What holds of the empty set, and of a set with one element more than one it holds of,
\* holds of the whole finite set.
LEMMA FiniteInduct ==
    ASSUME NEW S, IsFiniteSet(S), NEW P, {} \in P,
           \A T \in SUBSET S : \A x \in S \ T : T \in P => T \cup {x} \in P
    PROVE  S \in P
<1> SUFFICES ASSUME S \notin P PROVE FALSE
  OBVIOUS
<1> DEFINE Bad == {T \in SUBSET S : T \notin P}
           N == {Cardinality(T) : T \in Bad}
<1>1. \A T \in SUBSET S : IsFiniteSet(T) /\ Cardinality(T) \in Nat
  BY FS_Subset, FS_CardinalityType
<1>2. N \in SUBSET Nat /\ N # {}
  BY <1>1
<1>3. PICK n \in N : \A m \in N : n <= m
  <2> HIDE DEF N
  <2> QED
    BY <1>2, LeastNumber
<1>4. PICK T \in Bad : n = Cardinality(T)
  OBVIOUS
<1>5. T # {} /\ IsFiniteSet(T)
  BY <1>1
<1>6. PICK x \in T : TRUE
  BY <1>5
<1>7. T \ {x} \in SUBSET S /\ x \in S \ (T \ {x}) /\ (T \ {x}) \cup {x} = T
  BY <1>6
<1>8. Cardinality(T \ {x}) = Cardinality(T) - 1
  BY <1>5, <1>6, FS_RemoveElement
<1>9. T \ {x} \in P
  <2> SUFFICES ASSUME T \ {x} \notin P PROVE FALSE
    OBVIOUS
  <2>1. Cardinality(T \ {x}) \in N
    BY <1>7
  <2>2. n <= n - 1 /\ n \in Nat
    BY <1>2, <1>3, <1>4, <1>8, <2>1
  <2> QED
    BY <2>2
<1> QED
  BY <1>4, <1>7, <1>9

----------------------------------------------------------------------------
(* Sizes *)

\* An image has at most as many elements, and as many where no two elements share one.
LEMMA ImageSize ==
    ASSUME NEW S, IsFiniteSet(S), NEW f, DOMAIN f = S
    PROVE  LET T == {f[x] : x \in S}
           IN  /\ IsFiniteSet(T) /\ Cardinality(T) \in Nat /\ Cardinality(T) <= Cardinality(S)
               /\ (\A x, y \in S : f[x] = f[y] => x = y) => Cardinality(T) = Cardinality(S)
<1> DEFINE T == {f[x] : x \in S}
           g == [x \in S |-> f[x]]
<1>1. g \in Surjection(S, T)
  BY DEF Surjection
<1>2. (\A x, y \in S : f[x] = f[y] => x = y) => g \in Injection(S, T)
  BY DEF Injection, IsInjective
<1> HIDE DEF T, g
<1>3. IsFiniteSet(T) /\ Cardinality(T) <= Cardinality(S)
  BY <1>1, FS_Surjection
<1>4. g \in Injection(S, T) => Cardinality(T) = Cardinality(S)
  BY <1>1, FS_Surjection, FS_Injection
<1> QED
  BY <1>2, <1>3, <1>4, FS_CardinalityType DEF T

\* A part of a finite set and the rest of it
LEMMA PartSize ==
    ASSUME NEW S, IsFiniteSet(S), NEW T \in SUBSET S
    PROVE  /\ IsFiniteSet(T) /\ Cardinality(T) \in Nat /\ Cardinality(T) <= Cardinality(S)
           /\ Cardinality(S \ T) \in Nat
           /\ Cardinality(T) + Cardinality(S \ T) = Cardinality(S)
<1>1. /\ IsFiniteSet(T) /\ IsFiniteSet(S \ T) /\ Cardinality(T) <= Cardinality(S)
      /\ Cardinality(T) \in Nat /\ Cardinality(S \ T) \in Nat
  BY FS_Subset, FS_CardinalityType
<1>2. T \cup (S \ T) = S /\ T \cap (S \ T) = {}
  OBVIOUS
<1>3. Cardinality(T \cup (S \ T))
         = Cardinality(T) + Cardinality(S \ T) - Cardinality(T \cap (S \ T))
  BY <1>1, FS_Union
<1>4. Cardinality(T \cap (S \ T)) = 0
  BY <1>2, FS_EmptySet
<1>5. Cardinality(T \cup (S \ T)) = Cardinality(S)
  BY <1>2
<1> QED
  BY <1>1, <1>3, <1>4, <1>5

----------------------------------------------------------------------------
(* Sums *)

\* One unit for each 1 of f over S
Units(f, S) == UNION {{<<x, n>> : n \in 1 .. f[x]} : x \in S}

LEMMA UnitsOfOne ==
    ASSUME NEW x, NEW k \in Nat
    PROVE  /\ IsFiniteSet({<<x, n>> : n \in 1 .. k})
           /\ Cardinality({<<x, n>> : n \in 1 .. k}) = k
<1> DEFINE g == [n \in 1 .. k |-> <<x, n>>]
           U == {<<x, n>> : n \in 1 .. k}
<1>1. IsFiniteSet(1 .. k) /\ Cardinality(1 .. k) = k
  BY FS_Interval
<1>2. g \in Injection(1 .. k, U) /\ g \in Surjection(1 .. k, U)
  BY DEF Injection, IsInjective, Surjection
<1> HIDE DEF g, U
<1>3. IsFiniteSet(U) /\ Cardinality(U) = k
  BY <1>1, <1>2, FS_Surjection, FS_Injection
<1> QED
  BY <1>3 DEF U

LEMMA UnitsAdd ==
    ASSUME NEW S, IsFiniteSet(S), NEW f, \A y \in S : f[y] \in Nat, NEW x \in S,
           IsFiniteSet(Units(f, S \ {x}))
    PROVE  /\ IsFiniteSet(Units(f, S))
           /\ Cardinality(Units(f, S)) = f[x] + Cardinality(Units(f, S \ {x}))
<1> DEFINE U == {<<x, n>> : n \in 1 .. f[x]}
           R == Units(f, S \ {x})
<1>1. Units(f, S) = U \cup R
  BY DEF Units
<1>2. U \cap R = {}
  BY DEF Units
<1>3. IsFiniteSet(U) /\ Cardinality(U) = f[x]
  BY UnitsOfOne
<1> HIDE DEF U, R
<1>4. /\ IsFiniteSet(U \cup R)
      /\ Cardinality(U \cup R) = Cardinality(U) + Cardinality(R) - Cardinality(U \cap R)
  BY <1>3, FS_Union DEF R
<1>5. Cardinality(U \cap R) = 0
  BY <1>2, FS_EmptySet
<1>6. Cardinality(R) \in Nat
  BY FS_CardinalityType DEF R
<1> QED
  BY <1>1, <1>3, <1>4, <1>5, <1>6 DEF R

LEMMA UnitsFinite ==
    ASSUME NEW S, IsFiniteSet(S), NEW f, \A y \in S : f[y] \in Nat
    PROVE  IsFiniteSet(Units(f, S))
<1> DEFINE P == {T \in SUBSET S : IsFiniteSet(Units(f, T))}
<1>1. {} \in P
  <2>1. Units(f, {}) = {}
    BY DEF Units
  <2> QED
    BY <2>1, FS_EmptySet
<1>2. ASSUME NEW T \in SUBSET S, NEW x \in S \ T, T \in P
      PROVE  T \cup {x} \in P
  <2>1. IsFiniteSet(T \cup {x}) /\ (T \cup {x}) \ {x} = T
    BY FS_Subset
  <2>2. IsFiniteSet(Units(f, T \cup {x}))
    BY <1>2, <2>1, UnitsAdd
  <2> QED
    BY <2>2
<1> HIDE DEF P
<1>3. S \in P
  BY <1>1, <1>2, FiniteInduct
<1> QED
  BY <1>3 DEF P

Adds(f, iter) ==
    iter = [s \in SUBSET DOMAIN f |->
              IF s = {} THEN 0
              ELSE f[CHOOSE x \in s : TRUE] + iter[s \ {CHOOSE x \in s : TRUE}]]

\* A sum is the number of its units.
LEMMA SumIsCount ==
    ASSUME NEW S, IsFiniteSet(S), NEW f \in [S -> Nat]
    PROVE  SumFunction(f) = Cardinality(Units(f, S))
<1> DEFINE some == [s \in SUBSET S |-> Cardinality(Units(f, s))]
           iter == CHOOSE g : Adds(f, g)
<1>1. SumFunction(f) = iter[S]
  BY DEF Adds, SumFunction, SumFunctionOnSet, FoldFunctionOnSet, MapThenFoldSet
<1>2. ASSUME NEW s \in SUBSET S, s # {}, NEW x \in s
      PROVE  some[s] = f[x] + some[s \ {x}]
  <2>1. IsFiniteSet(s) /\ IsFiniteSet(s \ {x})
    BY FS_Subset
  <2>2. IsFiniteSet(Units(f, s \ {x}))
    BY <2>1, UnitsFinite
  <2> QED
    BY <2>1, <2>2, UnitsAdd
<1>3. some[{}] = 0
  <2>1. Units(f, {}) = {}
    BY DEF Units
  <2> QED
    BY <2>1, FS_EmptySet
<1> HIDE DEF some
<1>4. Adds(f, some)
  <2>1. \A s \in SUBSET S : some[s] = IF s = {} THEN 0
              ELSE f[CHOOSE x \in s : TRUE] + some[s \ {CHOOSE x \in s : TRUE}]
    <3> SUFFICES ASSUME NEW s \in SUBSET S, s # {}
                 PROVE  some[s] = f[CHOOSE x \in s : TRUE] + some[s \ {CHOOSE x \in s : TRUE}]
      BY <1>3
    <3>1. (CHOOSE x \in s : TRUE) \in s
      OBVIOUS
    <3> QED
      BY <1>2, <3>1
  <2>2. some = [s \in SUBSET S |-> some[s]]
    BY DEF some
  <2> QED
    BY <2>1, <2>2 DEF Adds
<1>5. Adds(f, iter)
  BY <1>4
<1> HIDE DEF iter
<1>6. \A s \in SUBSET S : iter[s] = IF s = {} THEN 0
              ELSE f[CHOOSE x \in s : TRUE] + iter[s \ {CHOOSE x \in s : TRUE}]
  BY <1>5 DEF Adds
<1> DEFINE Bad == {s \in SUBSET S : iter[s] # some[s]}
           N == {Cardinality(s) : s \in Bad}
<1>7. Bad = {}
  <2> SUFFICES ASSUME Bad # {} PROVE FALSE
    OBVIOUS
  <2>1. \A s \in SUBSET S : IsFiniteSet(s) /\ Cardinality(s) \in Nat
    BY FS_Subset, FS_CardinalityType
  <2>2. N \in SUBSET Nat /\ N # {}
    BY <2>1
  <2>3. PICK n \in N : \A m \in N : n <= m
    <3> HIDE DEF N
    <3> QED
      BY <2>2, LeastNumber
  <2>4. PICK s \in Bad : n = Cardinality(s)
    OBVIOUS
  <2>5. s # {}
    BY <1>3, <1>6
  <2> DEFINE x == CHOOSE y \in s : TRUE
  <2>6. x \in s
    BY <2>5
  <2>7. iter[s] = f[x] + iter[s \ {x}]
    BY <1>6, <2>5
  <2> HIDE DEF x
  <2>8. some[s] = f[x] + some[s \ {x}]
    BY <1>2, <2>5, <2>6
  <2>9. s \ {x} \in Bad
    BY <2>7, <2>8
  <2>10. Cardinality(s \ {x}) = Cardinality(s) - 1
    BY <2>1, <2>6, FS_RemoveElement
  <2>11. n <= n - 1
    BY <2>3, <2>4, <2>9, <2>10
  <2> QED
    BY <2>2, <2>11
<1>8. iter[S] = some[S]
  BY <1>7
<1> QED
  BY <1>1, <1>8 DEF some

LEMMA SumType ==
    ASSUME NEW S, IsFiniteSet(S), NEW f \in [S -> Nat]
    PROVE  SumFunction(f) \in Nat
BY UnitsFinite, SumIsCount, FS_CardinalityType

\* A sum is what one element adds to the sum of the others.
LEMMA SumRemove ==
    ASSUME NEW S, IsFiniteSet(S), NEW f \in [S -> Nat], NEW x \in S
    PROVE  SumFunction(f) = f[x] + SumFunction([y \in S \ {x} |-> f[y]])
<1> DEFINE g == [y \in S \ {x} |-> f[y]]
<1>1. IsFiniteSet(S \ {x})
  BY FS_Subset
<1>2. g \in [S \ {x} -> Nat]
  OBVIOUS
<1>3. Units(g, S \ {x}) = Units(f, S \ {x})
  BY DEF Units
<1> HIDE DEF g
<1>4. SumFunction(g) = Cardinality(Units(f, S \ {x}))
  BY <1>1, <1>2, <1>3, SumIsCount
<1>5. IsFiniteSet(Units(f, S \ {x}))
  BY <1>1, UnitsFinite
<1> QED
  BY <1>4, <1>5, UnitsAdd, SumIsCount DEF g

\* What is counted for more elements, and more of each, is no less.
LEMMA SumMonotonic ==
    ASSUME NEW S, IsFiniteSet(S), NEW f, NEW T \in SUBSET S, f \in [T -> Nat],
           NEW g \in [S -> Nat], \A x \in T : f[x] <= g[x]
    PROVE  SumFunction(f) <= SumFunction(g)
<1>1. IsFiniteSet(T)
  BY FS_Subset
<1>2. Units(f, T) \subseteq Units(g, S)
  BY DEF Units
<1>3. IsFiniteSet(Units(g, S))
  BY UnitsFinite
<1>4. Cardinality(Units(f, T)) <= Cardinality(Units(g, S))
  BY <1>2, <1>3, FS_Subset
<1> QED
  BY <1>1, <1>4, SumIsCount

\* The sizes of sets that have no element in common add up to the size of their union.
LEMMA SumOfParts ==
    ASSUME NEW K, IsFiniteSet(K), NEW S, IsFiniteSet(S), NEW part \in [K -> SUBSET S],
           \A j, k \in K : j # k => part[j] \cap part[k] = {}
    PROVE  SumFunction([k \in K |-> Cardinality(part[k])])
              = Cardinality(UNION {part[k] : k \in K})
<1> DEFINE All(L) == UNION {part[k] : k \in L}
           size(L) == [k \in L |-> Cardinality(part[k])]
           P == {L \in SUBSET K : SumFunction(size(L)) = Cardinality(All(L))}
<1>1. \A k \in K : IsFiniteSet(part[k]) /\ Cardinality(part[k]) \in Nat
  BY FS_Subset, FS_CardinalityType
<1>2. \A L \in SUBSET K : IsFiniteSet(All(L)) /\ size(L) \in [L -> Nat] /\ IsFiniteSet(L)
  <2> SUFFICES ASSUME NEW L \in SUBSET K
               PROVE  IsFiniteSet(All(L)) /\ size(L) \in [L -> Nat] /\ IsFiniteSet(L)
    OBVIOUS
  <2>1. All(L) \in SUBSET S
    OBVIOUS
  <2>2. IsFiniteSet(All(L)) /\ IsFiniteSet(L)
    <3> HIDE DEF All
    <3> QED
      BY <2>1, FS_Subset
  <2> QED
    BY <1>1, <2>2
<1>3. {} \in P
  <2>1. size({}) \in [{} -> Nat] /\ IsFiniteSet({})
    BY FS_EmptySet
  <2>2. Units(size({}), {}) = {}
    BY DEF Units
  <2>3. SumFunction(size({})) = 0
    <3> HIDE DEF size
    <3> QED
      BY <2>1, <2>2, SumIsCount, FS_EmptySet
  <2>4. All({}) = {}
    OBVIOUS
  <2> HIDE DEF size, All
  <2> QED
    BY <2>3, <2>4, FS_EmptySet
<1>4. ASSUME NEW L \in SUBSET K, NEW k \in K \ L, L \in P
      PROVE  L \cup {k} \in P
  <2>1. /\ L \cup {k} \in SUBSET K /\ (L \cup {k}) \ {k} = L /\ k \in L \cup {k}
    OBVIOUS
  <2>2. size(L) = [j \in (L \cup {k}) \ {k} |-> size(L \cup {k})[j]]
    BY <2>1
  <2>3. size(L \cup {k})[k] = Cardinality(part[k])
    OBVIOUS
  <2>4. All(L \cup {k}) = part[k] \cup All(L) /\ part[k] \cap All(L) = {}
    OBVIOUS
  <2>5. SumFunction(size(L)) = Cardinality(All(L))
    BY <1>4
  <2> HIDE DEF size, All
  <2>6. SumFunction(size(L \cup {k})) = Cardinality(part[k]) + SumFunction(size(L))
    BY <1>2, <2>1, <2>2, <2>3, SumRemove
  <2>7. Cardinality(part[k] \cup All(L))
          = Cardinality(part[k]) + Cardinality(All(L)) - Cardinality(part[k] \cap All(L))
    BY <1>1, <1>2, FS_Union
  <2>8. Cardinality(part[k] \cap All(L)) = 0 /\ Cardinality(All(L)) \in Nat
    BY <1>2, <2>4, FS_EmptySet, FS_CardinalityType
  <2>9. SumFunction(size(L \cup {k})) = Cardinality(All(L \cup {k}))
    <3>1. Cardinality(All(L \cup {k})) = Cardinality(part[k] \cup All(L))
      BY <2>4
    <3>2. Cardinality(part[k]) \in Nat
      BY <1>1
    <3> QED
      BY <2>5, <2>6, <2>7, <2>8, <3>1, <3>2
  <2> QED
    BY <2>1, <2>9
<1>5. K \in P
  <2> HIDE DEF P
  <2> QED
    BY <1>3, <1>4, FiniteInduct
<1> QED
  BY <1>5

\* A finite set of numbers has a greatest one.
LEMMA GreatestNumber ==
    ASSUME NEW N, IsFiniteSet(N), N # {}, N \subseteq Int
    PROVE  \E n \in N : \A m \in N : m <= n
<1> DEFINE P == {T \in SUBSET N : T # {} => \E n \in T : \A m \in T : m <= n}
<1>1. {} \in P
  OBVIOUS
<1>2. ASSUME NEW T \in SUBSET N, NEW x \in N \ T, T \in P
      PROVE  T \cup {x} \in P
  <2>1. CASE T = {}
    BY <2>1
  <2>2. CASE T # {}
    <3>1. PICK n \in T : \A m \in T : m <= n
      BY <1>2, <2>2
    <3>2. CASE x <= n
      BY <3>1, <3>2
    <3>3. CASE ~(x <= n)
      <4>1. \A m \in T \cup {x} : m <= x
        BY <3>1, <3>3
      <4> QED
        BY <4>1
    <3> QED
      BY <3>2, <3>3
  <2> QED
    BY <2>1, <2>2
<1> HIDE DEF P
<1>3. N \in P
  BY <1>1, <1>2, FiniteInduct
<1> QED
  BY <1>3 DEF P

\* The numbers of elements with each of some keys add up.
LEMMA CountByKey ==
    ASSUME NEW S, IsFiniteSet(S), NEW K, IsFiniteSet(K), NEW key
    PROVE  SumFunction([k \in K |-> Cardinality({x \in S : key[x] = k})])
              = Cardinality({x \in S : key[x] \in K})
<1> DEFINE part == [k \in K |-> {x \in S : key[x] = k}]
           sizes == [k \in K |-> Cardinality({x \in S : key[x] = k})]
<1>1. part \in [K -> SUBSET S] /\ \A j, k \in K : j # k => part[j] \cap part[k] = {}
  OBVIOUS
<1>2. sizes = [k \in K |-> Cardinality(part[k])]
  OBVIOUS
<1>3. \A x : x \in UNION {part[k] : k \in K} <=> x \in {y \in S : key[y] \in K}
  OBVIOUS
<1>4. UNION {part[k] : k \in K} = {x \in S : key[x] \in K}
  <2> DEFINE all == UNION {part[k] : k \in K}
  <2> HIDE DEF part
  <2> QED
    BY <1>3
<1> HIDE DEF part
<1>5. SumFunction([k \in K |-> Cardinality(part[k])]) = Cardinality(UNION {part[k] : k \in K})
  BY <1>1, SumOfParts
<1> QED
  BY <1>2, <1>4, <1>5
=============================================================================

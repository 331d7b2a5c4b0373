-------------------------------- MODULE Ranks --------------------------------
(***************************************************************************)
(* Facts about finite sets.  First, counting the elements before an        *)
(* element of a strict total order: a list that is sorted by rank, as the  *)
(* answers of the server and the blocks of a session are, has every        *)
(* element of the set in one position.  An order is a set R of pairs.      *)
(* Then the image of a function, the sum of the sizes of the parts of a    *)
(* set, and the least of a set of naturals.                                *)
(***************************************************************************)
EXTENDS Integers, FiniteSetTheorems, FunctionTheorems, TLAPS

\* The elements of S before x.
Before(S, R, x) == {y \in S : <<y, x>> \in R}

\* The rank of x in S.
Rank(S, R, x) == Cardinality(Before(S, R, x))

\* R orders S strictly and totally.
Orders(R, S) ==
  /\ \A x \in S : <<x, x>> \notin R
  /\ \A x, y \in S : x # y => <<x, y>> \in R \/ <<y, x>> \in R
  /\ \A x, y, z \in S : <<x, y>> \in R /\ <<y, z>> \in R => <<x, z>> \in R

\* A rank is a number below the size of the set.
LEMMA RankBound ==
  ASSUME NEW S, IsFiniteSet(S), NEW R, Orders(R, S), NEW x \in S
  PROVE  /\ IsFiniteSet(Before(S, R, x))
         /\ Rank(S, R, x) \in 0..(Cardinality(S) - 1)
<1>1. Before(S, R, x) \in SUBSET S /\ x \notin Before(S, R, x)
  BY DEF Before, Orders
<1>2. /\ IsFiniteSet(Before(S, R, x))
      /\ Rank(S, R, x) <= Cardinality(S)
      /\ Rank(S, R, x) # Cardinality(S)
  BY <1>1, FS_Subset DEF Rank
<1>3. Rank(S, R, x) \in Nat /\ Cardinality(S) \in Nat
  BY <1>2, FS_CardinalityType DEF Rank
<1>. QED  BY <1>2, <1>3

\* The rank grows along the order.
LEMMA RankGrows ==
  ASSUME NEW S, IsFiniteSet(S), NEW R, Orders(R, S),
         NEW x \in S, NEW y \in S, <<x, y>> \in R
  PROVE  Rank(S, R, x) < Rank(S, R, y)
<1>1. /\ Before(S, R, x) \in SUBSET Before(S, R, y)
      /\ x \in Before(S, R, y) /\ x \notin Before(S, R, x)
  BY DEF Before, Orders
<1>2. IsFiniteSet(Before(S, R, y))
  BY RankBound
<1>3. Rank(S, R, x) <= Rank(S, R, y) /\ Rank(S, R, x) # Rank(S, R, y)
  BY <1>1, <1>2, FS_Subset DEF Rank
<1>4. Rank(S, R, x) \in Int /\ Rank(S, R, y) \in Int
  BY RankBound
<1>. QED  BY <1>3, <1>4

\* Two elements of one rank are the same.
LEMMA RankUnique ==
  ASSUME NEW S, IsFiniteSet(S), NEW R, Orders(R, S),
         NEW x \in S, NEW y \in S, Rank(S, R, x) = Rank(S, R, y)
  PROVE  x = y
<1>1. Rank(S, R, x) \in Int
  BY RankBound
<1>2. ~(<<x, y>> \in R) /\ ~(<<y, x>> \in R)
  BY <1>1, RankGrows
<1>. QED  BY <1>2 DEF Orders

\* Every number below the size of the set is the rank of an element.
LEMMA RankReached ==
  ASSUME NEW S, IsFiniteSet(S), NEW R, Orders(R, S),
         NEW k \in 0..(Cardinality(S) - 1)
  PROVE  \E x \in S : Rank(S, R, x) = k
<1> DEFINE n == Cardinality(S)
           f == [x \in S |-> Rank(S, R, x)]
<1>1. n \in Nat
  BY FS_CardinalityType
<1>2. IsFiniteSet(0..(n - 1)) /\ Cardinality(0..(n - 1)) = n
  BY <1>1, FS_Interval
<1>3. f \in [S -> 0..(n - 1)]
  BY RankBound
<1>4. \A x, y \in S : f[x] = f[y] => x = y
  BY RankUnique
<1>5. f \in Injection(S, 0..(n - 1))
  BY <1>3, <1>4, Fun_IsInj
<1>6. f \in Surjection(S, 0..(n - 1))
  BY <1>2, <1>5, FS_Injection
<1>7. \A t \in 0..(n - 1) : \E x \in S : f[x] = t
  <2> HIDE DEF f, n
  <2>. QED  BY <1>6, Fun_SurjectionProperties
<1>. QED  BY <1>7

\* As many elements as are wanted: at most n elements have a rank below n.
LEMMA RankedFirst ==
  ASSUME NEW S, IsFiniteSet(S), NEW R, Orders(R, S), NEW n \in Nat
  PROVE  Cardinality({x \in S : Rank(S, R, x) < n}) <= n
<1> DEFINE T == {x \in S : Rank(S, R, x) < n}
           f == [x \in T |-> Rank(S, R, x)]
<1>1. IsFiniteSet(0..(n - 1)) /\ Cardinality(0..(n - 1)) = n
  BY FS_Interval
<1>2. f \in [T -> 0..(n - 1)]
  BY RankBound
<1>3. \A x, y \in T : f[x] = f[y] => x = y
  BY RankUnique
<1>4. f \in Injection(T, 0..(n - 1))
  BY <1>2, <1>3, Fun_IsInj
<1>. QED  BY <1>1, <1>4, FS_Injection
\* A set that is not empty has a first element.
LEMMA FirstExists ==
  ASSUME NEW S, IsFiniteSet(S), S # {}, NEW R, Orders(R, S)
  PROVE  \E x \in S : \A y \in S : y = x \/ <<x, y>> \in R
<1>1. Cardinality(S) \in Nat /\ Cardinality(S) # 0
  BY FS_CardinalityType, FS_EmptySet
<1>2. PICK x \in S : Rank(S, R, x) = 0
  <2>1. 0 \in 0..(Cardinality(S) - 1)
    BY <1>1
  <2>. QED  BY <2>1, RankReached
<1>3. Before(S, R, x) = {}
  BY <1>2, RankBound, FS_EmptySet DEF Rank
<1>. QED  BY <1>3 DEF Before, Orders

\* A finite set of numbers that is not empty has a least one.
LEMMA LeastNumber ==
  ASSUME NEW S \in SUBSET Int, IsFiniteSet(S), S # {}
  PROVE  \E x \in S : \A y \in S : x <= y
<1> DEFINE R == {p \in S \X S : p[1] < p[2]}
<1>1. \A x, y \in S : <<x, y>> \in R <=> x < y
  OBVIOUS
<1> HIDE DEF R
<1>2. Orders(R, S)
  BY <1>1 DEF Orders
<1>3. PICK x \in S : \A y \in S : y = x \/ <<x, y>> \in R
  BY <1>2, FirstExists
<1>4. ASSUME NEW y \in S PROVE x <= y
  <2>1. x \in Int /\ y \in Int
    OBVIOUS
  <2>2. y = x \/ x < y
    BY <1>1, <1>3
  <2>. QED  BY <2>1, <2>2
<1>. QED  BY <1>4

\* The image of a finite set is finite, and no smaller if no two elements have
\* one image.
LEMMA FiniteImage ==
  ASSUME NEW S, IsFiniteSet(S), NEW U, NEW f \in [S -> U]
  PROVE  /\ IsFiniteSet({f[x] : x \in S})
         /\ (\A x, y \in S : f[x] = f[y] => x = y)
              => Cardinality({f[x] : x \in S}) = Cardinality(S)
<1> DEFINE T == {f[x] : x \in S}
<1>1. f \in Surjection(S, T)
  <2>1. f \in [S -> T]
    OBVIOUS
  <2>. QED  BY <2>1 DEF Surjection
<1>2. IsFiniteSet(T) /\ (Cardinality(T) = Cardinality(S) <=> f \in Injection(S, T))
  BY <1>1, FS_Surjection
<1>3. (\A x, y \in S : f[x] = f[y] => x = y) => f \in Injection(S, T)
  BY <1>1 DEF Surjection, Injection, IsInjective
<1>. QED  BY <1>2, <1>3

\* The sum of the sizes of disjoint sets is the size of their union.
LEMMA SumOfParts ==
  ASSUME NEW f, IsFiniteSet(DOMAIN f), NEW A,
         \A d \in DOMAIN f : IsFiniteSet(A[d]) /\ f[d] = Cardinality(A[d]),
         \A d, e \in DOMAIN f : d # e => A[d] \cap A[e] = {}
  PROVE  /\ IsFiniteSet(UNION {A[d] : d \in DOMAIN f})
         /\ SumFunction(f) = Cardinality(UNION {A[d] : d \in DOMAIN f})
<1> DEFINE D == DOMAIN f
           Of(s) == UNION {A[d] : d \in s}
           pick(s) == CHOOSE x \in s : TRUE
           g == [s \in SUBSET D |-> Cardinality(Of(s))]
<1>1. ASSUME NEW s \in SUBSET D PROVE IsFiniteSet(s) /\ IsFiniteSet(Of(s))
  <2>1. IsFiniteSet(s)
    BY FS_Subset
  <2> DEFINE h == [d \in s |-> A[d]]
  <2>2. IsFiniteSet({h[d] : d \in s})
    <3>1. PICK U : U = {A[d] : d \in s}
      OBVIOUS
    <3>2. h \in [s -> U]
      BY <3>1
    <3> HIDE DEF h
    <3>. QED  BY <2>1, <3>2, FiniteImage
  <2>3. {h[d] : d \in s} = {A[d] : d \in s}
    OBVIOUS
  <2>4. \A d \in s : IsFiniteSet(A[d])
    OBVIOUS
  <2> HIDE DEF h
  <2>5. IsFiniteSet({A[d] : d \in s}) /\ \A T \in {A[d] : d \in s} : IsFiniteSet(T)
    BY <2>2, <2>3, <2>4
  <2>. QED  BY <2>1, <2>5, FS_UNION
<1>2. ASSUME NEW s \in SUBSET D, s # {}
      PROVE  /\ pick(s) \in s /\ s \ {pick(s)} \in SUBSET D
             /\ g[s] = f[pick(s)] + g[s \ {pick(s)}]
  <2>1. PICK x : x = pick(s)
    OBVIOUS
  <2>2. x \in s /\ s \ {x} \in SUBSET D
    BY <1>2, <2>1
  <2>3. Of(s) = A[x] \cup Of(s \ {x}) /\ A[x] \cap Of(s \ {x}) = {}
    BY <2>2
  <2>4. IsFiniteSet(A[x]) /\ IsFiniteSet(Of(s \ {x})) /\ f[x] = Cardinality(A[x])
    BY <1>1, <2>2
  <2> HIDE DEF Of
  <2>5. Cardinality(Of(s)) = f[x] + Cardinality(Of(s \ {x}))
    <3>1. Cardinality(Of(s)) = Cardinality(A[x]) + Cardinality(Of(s \ {x})) - Cardinality({})
      <4> DEFINE X == A[x]
                 Y == Of(s \ {x})
      <4>1. Of(s) = X \cup Y /\ X \cap Y = {} /\ IsFiniteSet(X) /\ IsFiniteSet(Y)
        BY <2>3, <2>4
      <4> HIDE DEF X, Y
      <4>2. Cardinality(X \cup Y) = Cardinality(X) + Cardinality(Y) - Cardinality(X \cap Y)
        BY <4>1, FS_Union
      <4>. QED  BY <4>1, <4>2 DEF X, Y
    <3>2. Cardinality({}) = 0 /\ Cardinality(A[x]) \in Nat /\ Cardinality(Of(s \ {x})) \in Nat
      BY <2>4, FS_EmptySet, FS_CardinalityType
    <3>. QED  BY <2>4, <3>1, <3>2
  <2>. QED  BY <2>1, <2>2, <2>5
<1>3. g[{}] = 0
  <2>1. Of({}) = {}
    OBVIOUS
  <2>. QED  BY <2>1, FS_EmptySet
<1> HIDE DEF Of
<1>4. g = [s \in SUBSET D |-> IF s = {} THEN 0 ELSE f[pick(s)] + g[s \ {pick(s)}]]
  BY <1>2, <1>3
<1>5. PICK it : /\ it = [s \in SUBSET D |->
                          IF s = {} THEN 0 ELSE f[pick(s)] + it[s \ {pick(s)}]]
                /\ SumFunction(f) = it[D]
  <2>1. PICK sum : /\ sum = CHOOSE it : it = [s \in SUBSET DOMAIN f |->
                            IF s = {} THEN 0
                            ELSE f[CHOOSE x \in s : TRUE] + it[s \ {CHOOSE x \in s : TRUE}]]
                   /\ SumFunction(f) = sum[DOMAIN f]
    BY DEF SumFunction, SumFunctionOnSet, FoldFunctionOnSet, MapThenFoldSet
  <2> HIDE DEF g
  <2>. QED  BY <1>4, <2>1
<1>6. ASSUME NEW s \in SUBSET D PROVE it[s] = g[s]
  <2> DEFINE Bad == {n \in 0..Cardinality(D) :
                       \E t \in SUBSET D : Cardinality(t) = n /\ it[t] # g[t]}
  <2>1. SUFFICES ASSUME it[s] # g[s] PROVE FALSE
    OBVIOUS
  <2>2. \A t \in SUBSET D : Cardinality(t) \in 0..Cardinality(D)
    <3>1. \A t \in SUBSET D : Cardinality(t) <= Cardinality(D) /\ Cardinality(t) \in Nat
      BY <1>1, FS_Subset, FS_CardinalityType
    <3>. QED  BY <3>1, FS_CardinalityType
  <2>3. Bad # {} /\ IsFiniteSet(Bad) /\ Bad \in SUBSET Int
    <3>1. Bad # {}
      BY <2>1, <2>2
    <3>2. IsFiniteSet(0..Cardinality(D))
      <4>1. 0 \in Int /\ Cardinality(D) \in Int
        BY FS_CardinalityType
      <4>. QED  BY <4>1, FS_Interval
    <3>3. IsFiniteSet(Bad)
      BY <3>2, FS_Subset
    <3>4. \A n \in 0..Cardinality(D) : n \in Int
      OBVIOUS
    <3>. QED  BY <3>1, <3>3, <3>4
  <2>4. PICK n \in Bad : \A k \in Bad : n <= k
    BY <2>3, LeastNumber
  <2>5. PICK t \in SUBSET D : Cardinality(t) = n /\ it[t] # g[t]
    OBVIOUS
  <2>6. t # {}
    BY <1>4, <1>5, <2>5
  <2>7. Cardinality(t \ {pick(t)}) = n - 1
    BY <1>1, <1>2, <2>5, <2>6, FS_RemoveElement
  <2>8. it[t \ {pick(t)}] = g[t \ {pick(t)}]
    <3>1. t \ {pick(t)} \in SUBSET D
      OBVIOUS
    <3>2. n - 1 \in Bad \/ it[t \ {pick(t)}] = g[t \ {pick(t)}]
      BY <2>2, <2>7, <3>1
    <3>3. n \in Int /\ ~(n <= n - 1)
      BY <2>3
    <3>. QED  BY <2>4, <3>2, <3>3
  <2>9. it[t] = f[pick(t)] + it[t \ {pick(t)}]
    BY <1>5, <2>6
  <2>10. g[t] = f[pick(t)] + g[t \ {pick(t)}]
    BY <1>2, <2>6
  <2>. QED  BY <2>5, <2>8, <2>9, <2>10
<1>7. D \in SUBSET D
  OBVIOUS
<1>8. SumFunction(f) = Cardinality(Of(D))
  BY <1>5, <1>6, <1>7
<1>. QED  BY <1>1, <1>7, <1>8 DEF Of
\* So has a set of natural numbers, which is how a theorem is proved by
\* induction here: the least number it fails for leads to a contradiction.
LEMMA LeastNatural ==
  ASSUME NEW S \in SUBSET Nat, S # {}
  PROVE  \E x \in S : \A y \in S : x <= y
<1>1. PICK n \in S : TRUE
  OBVIOUS
<1> DEFINE T == {k \in S : k <= n}
<1>2. n \in T /\ T \in SUBSET Nat /\ \A k \in T : k <= n
  <2>1. n \in Nat /\ n <= n
    BY <1>1
  <2>. QED  BY <2>1
<1> HIDE DEF T
<1>3. IsFiniteSet(T)
  BY <1>2, FS_BoundedSetOfNaturals
<1>4. PICK x \in T : \A y \in T : x <= y
  <2>1. T \in SUBSET Int /\ T # {}
    BY <1>2
  <2>. QED  BY <1>3, <2>1, LeastNumber
<1>5. ASSUME NEW y \in S PROVE x <= y
  <2>1. x \in S /\ x <= n /\ (y <= n => y \in T)
    BY <1>4 DEF T
  <2>. QED  BY <1>4, <2>1
<1>6. x \in S
  BY <1>4 DEF T
<1>. QED  BY <1>5, <1>6
=============================================================================

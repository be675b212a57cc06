----------------------------- MODULE FiniteSums -----------------------------
(***************************************************************************)
(* Facts the proofs of the other modules share: the least number of a set,  *)
(* from which inductions on natural numbers are made, and sums.             *)
(***************************************************************************)
EXTENDS SetSums, Integers, FiniteSets, FiniteSetTheorems, WellFoundedInduction, TLAPS

\* A set of natural numbers that is not empty has a least element: the first
\* step, tile or size at which something goes wrong.
LEMMA Least ==
  ASSUME NEW T, T \subseteq Nat, T # {}
  PROVE  \E m \in T : \A n \in T : m =< n
<1> DEFINE R == OpToRel(<, Nat)
<1>1. IsWellFoundedOn(R, Nat)
  BY NatLessThanWellFounded
<1>2. \A x, y \in Nat : <<y, x>> \in R <=> y < x
  BY DEF OpToRel
<1> HIDE DEF R
<1>3. \E x \in T : \A y \in T : ~(<<y, x>> \in R)
  BY <1>1, WFMin
<1>4. PICK x \in T : \A y \in T : ~(<<y, x>> \in R)
  BY <1>3
<1>5. ASSUME NEW y \in T PROVE x =< y
  <2>1. x \in Nat /\ y \in Nat
    OBVIOUS
  <2>2. ~(y < x)
    BY <1>2, <1>4, <2>1
  <2> QED BY <2>1, <2>2
<1> QED BY <1>5

\* The sums of the first elements of a sequence exist.
LEMMA PrefixSums ==
  ASSUME NEW N \in Nat, NEW f \in [1..N -> Nat]
  PROVE  \E P \in [1..N + 1 -> Nat] : 
            /\ P[1] = 0
            /\ \A n \in 1..N : P[n + 1] = P[n] + f[n]
<1> DEFINE Good(m, P) == /\ P \in [1..m + 1 -> Nat] /\ P[1] = 0
                         /\ \A n \in 1..m : P[n + 1] = P[n] + f[n]
           Bad == {m \in 0..N : ~ \E P : Good(m, P)}
<1>1. SUFFICES ASSUME Bad # {} PROVE FALSE
  <2>1. Bad = {} => \E P : Good(N, P)
    <3> HIDE DEF Good
    <3>1. N \in 0..N
      OBVIOUS
    <3>2. N \notin Bad => \E P : Good(N, P)
      BY <3>1
    <3> QED BY <3>2
  <2> QED BY <2>1
<1>2. PICK m \in Bad : \A n \in Bad : m =< n
  <2> HIDE DEF Good
  <2>1. Bad \subseteq Nat
    OBVIOUS
  <2> HIDE DEF Bad
  <2> QED BY <1>1, <2>1, Least
<1>3. CASE m = 0
  <2>1. Good(0, [n \in 1..1 |-> 0])
    OBVIOUS
  <2> QED BY <2>1, <1>2, <1>3
<1>4. CASE m # 0
  <2>1. m - 1 \in 0..N /\ m - 1 \notin Bad
    <3> HIDE DEF Good
    <3> QED BY <1>2, <1>4
  <2>2. PICK P : Good(m - 1, P)
    <3> HIDE DEF Good
    <3> QED BY <2>1
  <2> DEFINE R == [n \in 1..m + 1 |-> IF n = m + 1 THEN P[m] + f[m] ELSE P[n]]
  <2>3. Good(m, R)
    BY <2>1, <2>2
  <2> QED BY <2>3, <1>2
<1> QED BY <1>3, <1>4

-----------------------------------------------------------------------------
\* Sums over finite sets, as MapThenFoldSet computes them: p[T] is the sum of f
\* over T, taken apart at an element that CHOOSE picks.
OneOf(T) == CHOOSE x \in T : TRUE
Added(p, f, T) == IF T = {} THEN 0 ELSE f[OneOf(T)] + p[T \ {OneOf(T)}]
IsSum(p, f, S) == p = [T \in SUBSET S |-> Added(p, f, T)]

\* Of a family of finite sets one has none of the others as a part.
LEMMA Smallest ==
  ASSUME NEW S, IsFiniteSet(S), NEW F, F \subseteq SUBSET S, F # {}
  PROVE  \E T \in F : \A U \in SUBSET T : U # T => U \notin F
<1> DEFINE Sizes == {Cardinality(T) : T \in F}
<1>1. \A T \in F : Cardinality(T) \in Nat /\ IsFiniteSet(T)
  BY FS_Subset, FS_CardinalityType
<1>2. PICK m \in Sizes : \A n \in Sizes : m =< n
  <2>1. Sizes \subseteq Nat /\ Sizes # {}
    BY <1>1
  <2> HIDE DEF Sizes
  <2> QED BY <2>1, Least
<1>3. PICK T \in F : \A U \in F : Cardinality(T) =< Cardinality(U)
  BY <1>2
<1>4. ASSUME NEW U \in SUBSET T, U # T PROVE U \notin F
  <2>1. Cardinality(U) =< Cardinality(T) /\ Cardinality(U) # Cardinality(T)
        /\ Cardinality(U) \in Nat /\ Cardinality(T) \in Nat
    <3>1. IsFiniteSet(T) /\ Cardinality(T) \in Nat
      BY <1>1
    <3> QED BY <3>1, <1>4, FS_Subset, FS_CardinalityType
  <2> QED BY <1>3, <2>1
<1> QED BY <1>4

LEMMA OneOfIs ==
  ASSUME NEW T, T # {}
  PROVE  OneOf(T) \in T
BY DEF OneOf

\* There is a sum.
LEMMA SumExists ==
  ASSUME NEW S, IsFiniteSet(S), NEW f
  PROVE  \E p : IsSum(p, f, S)
<1> DEFINE Upto(n) == {T \in SUBSET S : Cardinality(T) =< n}
           Good(n, p) == p = [T \in Upto(n) |-> Added(p, f, T)]
           Bad == {n \in Nat : ~ \E p : Good(n, p)}
<1>1. Cardinality(S) \in Nat /\ Upto(Cardinality(S)) = SUBSET S
  BY FS_CardinalityType, FS_Subset
<1>2. SUFFICES ASSUME Bad # {} PROVE FALSE
  <2>1. Bad = {} => \E p : Good(Cardinality(S), p)
    <3> HIDE DEF Good
    <3> QED BY <1>1
  <2>2. \A p : Good(Cardinality(S), p) => IsSum(p, f, S)
    BY <1>1 DEF IsSum
  <2> QED BY <2>1, <2>2
<1>3. PICK n \in Bad : \A m \in Bad : n =< m
  <2>1. Bad \subseteq Nat
    OBVIOUS
  <2> HIDE DEF Bad
  <2> QED BY <1>2, <2>1, Least
<1>4. n \in Nat /\ ~ \E p : Good(n, p)
  <2> HIDE DEF Good
  <2> QED BY <1>3
<1>5. \A T \in SUBSET S : T # {} => OneOf(T) \in T
  BY OneOfIs
<1>6. CASE n = 0
  <2> DEFINE p == [T \in Upto(0) |-> 0]
  <2>1. \A T \in Upto(0) : T = {}
    BY FS_Subset, FS_CardinalityType, FS_EmptySet
  <2>2. Good(0, p)
    BY <2>1 DEF Added
  <2> HIDE DEF Good
  <2> QED BY <1>4, <1>6, <2>2
<1>7. CASE n # 0
  <2>1. PICK p : Good(n - 1, p)
    <3>1. n - 1 \in Nat /\ n - 1 \notin Bad
      <4> HIDE DEF Good
      <4> QED BY <1>3, <1>4, <1>7
    <3> HIDE DEF Good
    <3> QED BY <3>1
  <2> DEFINE q == [T \in Upto(n) |-> Added(p, f, T)]
  <2>2. ASSUME NEW T \in Upto(n) PROVE q[T] = Added(q, f, T)
    <3>1. CASE T = {}
      BY <3>1 DEF Added
    <3>2. CASE T # {}
      <4> DEFINE U == T \ {OneOf(T)}
      <4>1. U \in SUBSET S /\ Cardinality(U) =< n - 1 /\ U \in Upto(n)
        <5>1. OneOf(T) \in T /\ T \in SUBSET S /\ Cardinality(T) =< n
          BY <1>5, <3>2
        <5>2. IsFiniteSet(T) /\ Cardinality(T) \in Nat
          BY <5>1, FS_Subset, FS_CardinalityType
        <5>3. U \in SUBSET S /\ Cardinality(U) = Cardinality(T) - 1
          BY <5>1, <5>2, FS_RemoveElement
        <5>4. Cardinality(U) =< n - 1 /\ Cardinality(U) =< n
          BY <1>4, <5>1, <5>2, <5>3
        <5> HIDE DEF U
        <5> QED BY <5>3, <5>4
      <4>2. p[U] = Added(p, f, U) /\ q[U] = Added(p, f, U)
        <5>1. U \in Upto(n - 1)
          BY <4>1
        <5> QED BY <2>1, <4>1, <5>1
      <4> QED BY <3>2, <4>2 DEF Added
    <3> QED BY <3>1, <3>2
  <2>3. Good(n, q)
    BY <2>2
  <2> QED BY <1>4, <2>3
<1> QED BY <1>6, <1>7

\* There is one sum, and it depends on the values in the set only.
LEMMA SumUnique ==
  ASSUME NEW S, IsFiniteSet(S), NEW U \in SUBSET S, NEW f, NEW g, NEW p, NEW q,
         IsSum(p, f, S), IsSum(q, g, U), \A x \in U : f[x] = g[x]
  PROVE  \A T \in SUBSET U : p[T] = q[T]
<1> DEFINE Bad == {T \in SUBSET U : p[T] # q[T]}
<1> SUFFICES ASSUME Bad # {} PROVE FALSE
  OBVIOUS
<1>1. PICK T \in Bad : \A V \in SUBSET T : V # T => V \notin Bad
  <2>1. Bad \subseteq SUBSET S
    OBVIOUS
  <2> HIDE DEF Bad
  <2> QED BY <2>1, Smallest
<1>2. p[T] = Added(p, f, T) /\ q[T] = Added(q, g, T)
  BY DEF IsSum
<1>3. T # {}
  BY <1>1, <1>2 DEF Added
<1>4. OneOf(T) \in T
  BY <1>3, OneOfIs
<1>5. T \ {OneOf(T)} \notin Bad
  <2>1. T \ {OneOf(T)} \in SUBSET T /\ T \ {OneOf(T)} # T
    BY <1>4
  <2> HIDE DEF Bad
  <2> QED BY <1>1, <2>1
<1>6. p[T \ {OneOf(T)}] = q[T \ {OneOf(T)}]
  BY <1>5
<1> QED BY <1>1, <1>2, <1>3, <1>4, <1>6 DEF Added

\* Any element may be added last.
LEMMA SumStep ==
  ASSUME NEW S, IsFiniteSet(S), NEW f, \A x \in S : f[x] \in Nat,
         NEW p, IsSum(p, f, S)
  PROVE  /\ p[{}] = 0
         /\ \A T \in SUBSET S : /\ p[T] \in Nat
                                /\ \A x \in T : p[T] = f[x] + p[T \ {x}]
<1> DEFINE Good(T) == p[T] \in Nat /\ \A x \in T : p[T] = f[x] + p[T \ {x}]
           Bad == {T \in SUBSET S : ~Good(T)}
<1>1. \A T \in SUBSET S : p[T] = Added(p, f, T)
  BY DEF IsSum
<1>2. p[{}] = 0
  BY <1>1 DEF Added
<1>3. SUFFICES ASSUME Bad # {} PROVE FALSE
  <2>1. Bad = {} => \A T \in SUBSET S : Good(T)
    <3> HIDE DEF Good
    <3> QED OBVIOUS
  <2> QED BY <1>2, <2>1
<1>4. PICK T \in Bad : \A V \in SUBSET T : V # T => V \notin Bad
  <2>1. Bad \subseteq SUBSET S
    OBVIOUS
  <2> HIDE DEF Bad
  <2> QED BY <1>3, <2>1, Smallest
<1>0. T \in SUBSET S /\ ~Good(T) /\ \A V \in SUBSET T : V # T => Good(V)
  <2> HIDE DEF Good
  <2> QED BY <1>4
<1>5. \A x \in T : Good(T \ {x})
  <2> HIDE DEF Good
  <2> QED BY <1>0
<1>6. T # {}
  <2>1. Good({})
    BY <1>2
  <2> HIDE DEF Good
  <2> QED BY <1>0, <2>1
<1> DEFINE y == OneOf(T)
<1>7. y \in T
  BY <1>6, OneOfIs
<1>8. p[T] = f[y] + p[T \ {y}] /\ p[T \ {y}] \in Nat /\ f[y] \in Nat
  BY <1>0, <1>1, <1>5, <1>6, <1>7 DEF Added
<1> HIDE DEF y
<1>9. ASSUME NEW x \in T PROVE p[T] = f[x] + p[T \ {x}]
  <2>1. CASE x = y
    BY <1>8, <2>1
  <2>2. CASE x # y
    <3>1. p[T \ {y}] = f[x] + p[(T \ {y}) \ {x}]
      BY <1>5, <1>7, <2>2
    <3>2. p[T \ {x}] = f[y] + p[(T \ {x}) \ {y}] /\ p[T \ {x}] \in Nat
      BY <1>5, <1>7, <2>2
    <3>3. (T \ {x}) \ {y} = (T \ {y}) \ {x} /\ (T \ {x}) \ {y} \in SUBSET S
      OBVIOUS
    <3>4. p[(T \ {x}) \ {y}] \in Nat
      <4>1. (T \ {x}) \ {y} \in SUBSET T /\ (T \ {x}) \ {y} # T
        BY <1>7
      <4> DEFINE V == (T \ {x}) \ {y}
      <4> HIDE DEF V
      <4> QED BY <1>0, <4>1 DEF V
    <3>5. f[x] \in Nat /\ f[y] \in Nat
      BY <1>0, <1>7
    <3>6. p[(T \ {y}) \ {x}] = p[(T \ {x}) \ {y}]
      BY <3>3
    <3> HIDE DEF Good
    <3> DEFINE a == p[(T \ {x}) \ {y}]
    <3> HIDE DEF a
    <3>7. p[T \ {y}] = f[x] + a /\ p[T \ {x}] = f[y] + a /\ a \in Nat
      BY <3>1, <3>2, <3>4, <3>6 DEF a
    <3> QED BY <1>8, <3>5, <3>7
  <2> QED BY <2>1, <2>2
<1>10. p[T] \in Nat
  BY <1>8
<1> QED BY <1>0, <1>9, <1>10

\* The sum over a set is that over a part of it and over the rest.
LEMMA SumSplit ==
  ASSUME NEW S, IsFiniteSet(S), NEW f, \A x \in S : f[x] \in Nat,
         NEW p, IsSum(p, f, S), NEW T \in SUBSET S
  PROVE  p[S] = p[T] + p[S \ T]
<1> DEFINE Bad == {U \in SUBSET S : p[S] # p[U] + p[S \ U]}
<1>1. SUFFICES ASSUME Bad # {} PROVE FALSE
  OBVIOUS
<1>2. PICK U \in Bad : \A V \in SUBSET U : V # U => V \notin Bad
  <2>1. Bad \subseteq SUBSET S
    OBVIOUS
  <2> HIDE DEF Bad
  <2> QED BY <1>1, <2>1, Smallest
<1>0. U \in SUBSET S /\ p[S] # p[U] + p[S \ U]
  OBVIOUS
<1>3. p[{}] = 0 /\ \A V \in SUBSET S : p[V] \in Nat /\ \A x \in V : p[V] = f[x] + p[V \ {x}]
  BY SumStep
<1>4. U # {}
  <2>1. S \ {} = S /\ p[S] \in Nat
    BY <1>3
  <2>2. p[S] = p[{}] + p[S \ {}]
    BY <1>3, <2>1
  <2> QED BY <1>0, <2>2
<1>5. PICK x : x \in U
  BY <1>4
<1> DEFINE V == U \ {x}
<1>6. V \in SUBSET S /\ p[S] = p[V] + p[S \ V]
  <2>1. V \in SUBSET U /\ V # U /\ V \in SUBSET S
    BY <1>5
  <2>2. V \notin Bad
    <3> HIDE DEF Bad, V
    <3> QED BY <1>2, <2>1
  <2> QED BY <2>1, <2>2
<1>7. x \in S \ V /\ (S \ V) \ {x} = S \ U
  BY <1>5
<1>8. p[S \ V] = f[x] + p[S \ U] /\ p[U] = f[x] + p[V]
  BY <1>3, <1>5, <1>7
<1>9. p[S \ U] \in Nat /\ p[V] \in Nat /\ f[x] \in Nat
  BY <1>3, <1>5, <1>6
<1> HIDE DEF V
<1> QED BY <1>0, <1>6, <1>8, <1>9

\* The sums of SetSums are such sums.
LEMMA SumOfIs ==
  ASSUME NEW S, IsFiniteSet(S), NEW f
  PROVE  \E p : IsSum(p, f, S) /\ SumOf(f, S) = p[S]
<1> DEFINE q == CHOOSE p : IsSum(p, f, S)
<1>1. IsSum(q, f, S)
  BY SumExists
<1>2. SumOf(f, S) = q[S]
  BY DEF SumOf, MapThenSumSet, MapThenFoldSet, IsSum, Added, OneOf
<1> QED BY <1>1, <1>2

LEMMA SumOfValues ==
  ASSUME NEW S, IsFiniteSet(S), NEW p, NEW f, IsSum(p, f, S), NEW T \in SUBSET S,
         NEW g, \A x \in T : f[x] = g[x]
  PROVE  SumOf(g, T) = p[T]
<1>1. IsFiniteSet(T)
  BY FS_Subset
<1>2. PICK q : IsSum(q, g, T) /\ SumOf(g, T) = q[T]
  BY <1>1, SumOfIs
<1>3. T \in SUBSET T
  OBVIOUS
<1>4. \A U \in SUBSET T : p[U] = q[U]
  BY <1>2, SumUnique
<1> QED BY <1>2, <1>3, <1>4

\* What is used of sums: the parts of a set add up, an element may be taken
\* out, and only the values in the set matter.
LEMMA Sums ==
  ASSUME NEW S, IsFiniteSet(S), NEW f, \A x \in S : f[x] \in Nat
  PROVE  /\ SumOf(f, S) \in Nat /\ SumOf(f, {}) = 0
         /\ \A x \in S : SumOf(f, S) = f[x] + SumOf(f, S \ {x})
         /\ \A T \in SUBSET S : SumOf(f, S) = SumOf(f, T) + SumOf(f, S \ T)
         /\ \A T \in SUBSET S : SumOf(f, T) \in Nat /\ SumOf(f, T) =< SumOf(f, S)
<1>1. PICK p : IsSum(p, f, S) /\ SumOf(f, S) = p[S]
  BY SumOfIs
<1>2. \A T \in SUBSET S : SumOf(f, T) = p[T]
  BY <1>1, SumOfValues
<1>3. /\ p[{}] = 0
      /\ \A T \in SUBSET S : p[T] \in Nat /\ \A x \in T : p[T] = f[x] + p[T \ {x}]
  BY <1>1, SumStep
<1>4. \A T \in SUBSET S : p[S] = p[T] + p[S \ T]
  BY <1>1, SumSplit
<1>5. S \in SUBSET S /\ {} \in SUBSET S /\ \A T : S \ T \in SUBSET S
  OBVIOUS
<1>6. ASSUME NEW T \in SUBSET S PROVE SumOf(f, T) \in Nat /\ SumOf(f, T) =< SumOf(f, S)
  <2>1. p[T] \in Nat /\ p[S \ T] \in Nat /\ p[S] = p[T] + p[S \ T]
    BY <1>3, <1>4, <1>5
  <2> QED BY <1>1, <1>2, <2>1
<1> QED BY <1>1, <1>2, <1>3, <1>4, <1>5, <1>6

LEMMA SameSums ==
  ASSUME NEW S, IsFiniteSet(S), NEW f, NEW g, \A x \in S : f[x] = g[x]
  PROVE  SumOf(f, S) = SumOf(g, S)
<1>1. PICK p : IsSum(p, f, S) /\ SumOf(f, S) = p[S]
  BY SumOfIs
<1> QED BY <1>1, SumOfValues
=============================================================================

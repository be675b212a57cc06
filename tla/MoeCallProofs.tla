---------------------------- MODULE MoeCallProofs ----------------------------
(***************************************************************************)
(* Proofs about MoeCall, for every routing and every size of the layer that *)
(* _refuse_bad_plan_args lets through: each safety property of the call is   *)
(* an invariant.  In order:                                                 *)
(*   - the tables of runs lay the runs of a slab, and of an arrival buffer,  *)
(*     side by side, padded, within the buffer (SlabsLaid, ArrivalsLaid);    *)
(*   - both builders give a pair the same rows, those of its run and rank    *)
(*     (PlanFor), so that every variable is, at every stage, what the calls  *)
(*     made so far compute from the routing (CallInv, the invariant);       *)
(*   - the tiles of the slab, cut at the runs, ship run by run the rows and  *)
(*     the sublanes that a push of the committed contributions copies       *)
(*     (ShippedAre, PushedAre, and the same of the sublanes);               *)
(*   - what lands, lands where the plan of its owner looks for it           *)
(*     (RowsLand, SublanesLand), apart from everything else;                *)
(*   - the copies of every run, counted, are the kernel's final waits.      *)
(***************************************************************************)
EXTENDS MoeCall, MoeExchangeProofs

-----------------------------------------------------------------------------
\* Arithmetic.

\* Multiples grow by their factor at least.
LEMMA Multiples ==
  ASSUME NEW m \in Nat \ {0}, NEW a \in Int, NEW b \in Int
  PROVE  /\ m * a \in Int /\ m * b \in Int
         /\ a < b => m * a + m =< m * b
         /\ m * a < m * b + m => a =< b
<1>1. m * a \in Int /\ m * b \in Int
  OBVIOUS
<1>2. ASSUME NEW x \in Int, NEW y \in Int, x < y PROVE m * x + m =< m * y
  <2>1. y - x - 1 \in Nat
    BY <1>2
  <2>2. m * (y - x - 1) >= 0
    BY <2>1
  <2>3. m * (y - x - 1) = m * y - m * x - m
    OBVIOUS
  <2>4. m * x \in Int /\ m * y \in Int
    OBVIOUS
  <2> QED BY <2>2, <2>3, <2>4
<1>3. b < a => m * b + m =< m * a
  BY <1>2
<1>4. a < b => m * a + m =< m * b
  BY <1>2
<1> QED BY <1>1, <1>3, <1>4

\* A quotient and a remainder in range are those of the division.
LEMMA QuotientIs ==
  ASSUME NEW m \in Nat \ {0}, NEW q \in Int, NEW r \in 0..m - 1
  PROVE  (m * q + r) \div m = q /\ (m * q + r) % m = r
<1> DEFINE n == m * q + r
           p == n \div m
           s == n % m
<1>1. n \in Int
  OBVIOUS
<1>2. p \in Int /\ s \in 0..m - 1 /\ n = m * p + s
  <2> HIDE DEF n
  <2> QED BY <1>1, Division
<1> HIDE DEF p, s
<1>3. m * p \in Int /\ m * q \in Int /\ m * p + s = m * q + r
  BY <1>2
<1>4. p =< q /\ q =< p
  <2>1. m * p < m * q + m /\ m * q < m * p + m
    BY <1>2, <1>3
  <2> QED BY <1>2, <2>1, Multiples
<1>5. p = q
  BY <1>2, <1>4
<1>6. s = r
  BY <1>2, <1>3, <1>5
<1> QED BY <1>5, <1>6 DEF p, s, n

\* Dividing does not change the order.
LEMMA QuotientsGrow ==
  ASSUME NEW m \in Nat \ {0}, NEW a \in Int, NEW b \in Int, a =< b
  PROVE  a \div m =< b \div m
<1> DEFINE p == a \div m
           q == b \div m
           r == a % m
           s == b % m
<1>1. p \in Int /\ r \in 0..m - 1 /\ a = m * p + r
  BY Division
<1>2. q \in Int /\ s \in 0..m - 1 /\ b = m * q + s
  BY Division
<1> HIDE DEF p, q, r, s
<1>3. m * p \in Int /\ m * q \in Int
  BY <1>1, <1>2
<1>4. m * p < m * q + m
  BY <1>1, <1>2, <1>3
<1>5. p =< q
  BY <1>1, <1>2, <1>4, Multiples
<1> QED BY <1>5 DEF p, q

\* A multiple is not passed by aligning down.
LEMMA AlignDownIs ==
  ASSUME NEW m \in Nat \ {0}, NEW n \in Nat
  PROVE  /\ AlignDown(n, m) \in Nat /\ AlignDown(n, m) =< n
         /\ n \div m \in Nat /\ AlignDown(n, m) = m * (n \div m)
         /\ \A k \in Int : m * k =< n => m * k =< AlignDown(n, m)
<1> DEFINE q == n \div m
           r == n % m
<1>1. q \in Int /\ r \in 0..m - 1 /\ n = m * q + r
  BY Division
<1>2. q \in Nat
  <2>1. n =< n
    OBVIOUS
  <2> QED BY <2>1, DivisionGrows
<1>3. AlignDown(n, m) = q * m
  BY DEF AlignDown
<1> HIDE DEF q, r
<1>4. q * m = m * q /\ m * q \in Nat
  BY <1>2
<1>5. ASSUME NEW k \in Int, m * k =< n PROVE m * k =< m * q
  <2>1. m * k < m * q + m
    <3>1. m * k \in Int
      OBVIOUS
    <3> QED BY <1>1, <1>4, <1>5, <3>1
  <2>2. k =< q
    BY <1>1, <2>1, Multiples
  <2>3. k = q \/ m * k + m =< m * q
    BY <1>1, <2>2, Multiples
  <2>4. m * k \in Int
    OBVIOUS
  <2> QED BY <1>4, <2>3, <2>4
<1> QED BY <1>1, <1>2, <1>3, <1>4, <1>5 DEF q

\* Aligning up adds less than the alignment, and gives a multiple.
LEMMA AlignUpBelow ==
  ASSUME NEW m \in Nat \ {0}, NEW v \in Nat
  PROVE  /\ AlignUp(v, m) =< v + m - 1
         /\ \E k \in Nat : AlignUp(v, m) = m * k
<1> DEFINE q == (-v) \div m
           r == (-v) % m
<1>1. q \in Int /\ r \in 0..m - 1 /\ -v = m * q + r
  BY Division
<1>2. AlignUp(v, m) = -(q * m)
  BY DEF AlignUp
<1> HIDE DEF q, r
<1>3. q * m = m * q /\ m * q \in Int /\ m * (-q) = -(m * q)
  BY <1>1
<1>4. AlignUp(v, m) = m * (-q) /\ AlignUp(v, m) =< v + m - 1 /\ AlignUp(v, m) >= 0
  BY <1>1, <1>2, <1>3
<1>5. -q >= 0
  <2> SUFFICES ASSUME -q < 0 PROVE FALSE
    BY <1>1
  <2>1. m * (-q) + m =< m * 0
    BY <1>1, Multiples
  <2>2. m * 0 = 0 /\ m * (-q) \in Int
    BY <1>1
  <2> QED BY <1>4, <2>1, <2>2
<1>6. -q \in Nat
  BY <1>1, <1>5
<1> QED BY <1>4, <1>6

-----------------------------------------------------------------------------
\* Counting pairs.

\* The pairs of a shard's tokens are consecutive.
Share == TLocal * TopK
FirstPair(d) == d * TLocal * TopK

LEMMA SizesAre ==
  /\ EP \in Nat \ {0} /\ GLocal \in Nat \ {0} /\ TLocal \in Nat \ {0} /\ TopK \in Nat \ {0}
  /\ RowBlk \in Nat \ {0} /\ TileM \in Nat \ {0} /\ Block \in Nat \ {0} /\ Window \in Nat \ {0}
  /\ SlotField \in Nat \ {0} /\ Share \in Nat \ {0} /\ NumPairs \in Nat /\ NumPairs = Share * EP
<1>1. /\ EP \in Nat \ {0} /\ GLocal \in Nat \ {0} /\ TLocal \in Nat \ {0} /\ TopK \in Nat \ {0}
      /\ RowBlk \in Nat \ {0} /\ TileM \in Nat \ {0} /\ Block \in Nat \ {0} /\ Window \in Nat \ {0}
      /\ SlotField \in Nat \ {0}
  BY PlanArguments
<1>2. ASSUME NEW a \in Nat \ {0}, NEW b \in Nat \ {0} PROVE a * b \in Nat \ {0}
  <2>1. a * (b - 1) >= 0 /\ a * (b - 1) = a * b - a
    OBVIOUS
  <2>2. a * b \in Nat
    OBVIOUS
  <2> QED BY <2>1, <2>2
<1>3. TLocal * TopK \in Nat \ {0}
  BY <1>1, <1>2
<1>4. EP * TLocal * TopK = (TLocal * TopK) * EP
  BY <1>1
<1>5. (TLocal * TopK) * EP \in Nat
  BY <1>1, <1>3, <1>2
<1> QED BY <1>1, <1>3, <1>4, <1>5 DEF Share, NumPairs

LEMMA FirstPairIs ==
  ASSUME NEW d \in Int
  PROVE  FirstPair(d) = Share * d /\ FirstPair(d) \in Int /\ FirstPair(d + 1) = FirstPair(d) + Share
BY SizesAre DEF FirstPair, Share

LEMMA PairsOfIs ==
  ASSUME NEW d \in Shards
  PROVE  /\ FirstPair(d) \in Nat /\ PairsOf(d) = FirstPair(d)..FirstPair(d + 1) - 1
         /\ FirstPair(d + 1) = FirstPair(d) + Share /\ FirstPair(d + 1) =< NumPairs
<1>1. d \in Nat /\ d < EP
  BY SizesAre DEF Shards
<1>2. /\ FirstPair(d) = Share * d /\ FirstPair(d) \in Int
      /\ FirstPair(d + 1) = FirstPair(d) + Share
  BY <1>1, FirstPairIs
<1>3. FirstPair(d) \in Nat
  BY <1>1, <1>2, SizesAre
<1>4. FirstPair(d + 1) =< NumPairs
  <2>1. Share * d + Share =< Share * EP
    BY <1>1, SizesAre, Multiples
  <2> QED BY <1>2, <2>1, SizesAre
<1>5. ASSUME NEW p \in Pairs PROVE Owner(p) = d <=> p \in FirstPair(d)..FirstPair(d + 1) - 1
  <2>1. p \in Nat /\ Owner(p) = p \div Share
    BY SizesAre DEF Pairs, Owner, Share
  <2> DEFINE q == p \div Share
             r == p % Share
  <2>2. q \in Int /\ r \in 0..Share - 1 /\ p = Share * q + r
    BY <2>1, SizesAre, Division
  <2>3. Owner(p) = q
    BY <2>1
  <2> HIDE DEF q, r
  <2>4. ASSUME q = d PROVE p \in FirstPair(d)..FirstPair(d + 1) - 1
    BY <1>2, <2>1, <2>2, <2>4, SizesAre
  <2>5. ASSUME p \in FirstPair(d)..FirstPair(d + 1) - 1 PROVE q = d
    <3>1. Share * q < Share * d + Share /\ Share * d < Share * q + Share
      <4>1. Share * q \in Int /\ Share * d \in Int
        BY <1>1, <2>2, SizesAre
      <4> QED BY <1>2, <2>2, <2>5, <4>1, SizesAre
    <3>2. q =< d /\ d =< q
      BY <1>1, <2>2, <3>1, SizesAre, Multiples
    <3> QED BY <1>1, <2>2, <3>2
  <2> QED BY <2>3, <2>4, <2>5
<1>6. FirstPair(d)..FirstPair(d + 1) - 1 \subseteq Pairs
  BY <1>2, <1>3, <1>4, SizesAre DEF Pairs
<1> QED BY <1>2, <1>3, <1>4, <1>5, <1>6 DEF PairsOf

\* A pair has an owner.
LEMMA OwnerIs ==
  ASSUME NEW p \in Pairs
  PROVE  p \in Nat /\ Owner(p) \in Shards /\ p \in PairsOf(Owner(p))
<1>1. p \in Nat /\ p < Share * EP /\ Owner(p) = p \div Share
  BY SizesAre DEF Pairs, Owner, Share
<1> DEFINE q == p \div Share
           r == p % Share
<1>2. q \in Int /\ r \in 0..Share - 1 /\ p = Share * q + r
  BY <1>1, SizesAre, Division
<1>3. q \in Nat
  BY <1>1, SizesAre, DivisionGrows
<1>4. Owner(p) = q
  BY <1>1
<1> HIDE DEF q, r
<1>5. q < EP
  <2> SUFFICES ASSUME EP =< q PROVE FALSE
    BY <1>3, SizesAre
  <2>1. EP = q \/ Share * EP + Share =< Share * q
    BY <1>3, SizesAre, Multiples
  <2>2. Share * q \in Int /\ Share * EP \in Int
    BY <1>2, SizesAre
  <2> QED BY <1>1, <1>2, <2>1, <2>2, SizesAre
<1> QED BY <1>1, <1>3, <1>4, <1>5, SizesAre DEF PairsOf, Shards

\* The pairs that select an expert, counted over consecutive ranges.
Selecting(r, P, e) == {p \in P : r[p] = e}

LEMMA HistFinite ==
  ASSUME NEW r, NEW a \in Int, NEW b \in Int, NEW e
  PROVE  /\ IsFiniteSet(Selecting(r, a..b - 1, e)) /\ Hist(r, a..b - 1, e) \in Nat
         /\ Hist(r, a..b - 1, e) = Cardinality(Selecting(r, a..b - 1, e))
<1> DEFINE c == b - 1
<1>0. c \in Int
  OBVIOUS
<1> HIDE DEF c
<1>1. IsFiniteSet(a..c) /\ {p \in a..c : r[p] = e} \in SUBSET (a..c)
  BY <1>0, FS_Interval
<1> USE DEF c
<1> QED BY <1>1, FS_Subset, FS_CardinalityType DEF Hist, Selecting

LEMMA HistSplits ==
  ASSUME NEW r, NEW a \in Int, NEW b \in Int, NEW c \in Int, a =< b, b =< c, NEW e
  PROVE  Hist(r, a..c - 1, e) = Hist(r, a..b - 1, e) + Hist(r, b..c - 1, e)
<1> DEFINE X == Selecting(r, a..b - 1, e)
           Y == Selecting(r, b..c - 1, e)
           Z == Selecting(r, a..c - 1, e)
<1>1. Z = X \cup Y /\ X \cap Y = {}
  BY DEF Selecting
<1>2. IsFiniteSet(X) /\ IsFiniteSet(Y)
  BY HistFinite
<1>3. /\ Cardinality(X) = Hist(r, a..b - 1, e) /\ Cardinality(Y) = Hist(r, b..c - 1, e)
      /\ Cardinality(Z) = Hist(r, a..c - 1, e)
  BY HistFinite
<1>4. Hist(r, a..b - 1, e) \in Nat /\ Hist(r, b..c - 1, e) \in Nat
  BY HistFinite
<1> HIDE DEF X, Y, Z
<1>5. Cardinality(Z) = Cardinality(X) + Cardinality(Y) - Cardinality(X \cap Y)
  BY <1>1, <1>2, FS_Union
<1>6. Cardinality(X \cap Y) = 0
  BY <1>1, FS_EmptySet
<1> QED BY <1>3, <1>4, <1>5, <1>6

LEMMA HistNext ==
  ASSUME NEW r, NEW a \in Int, NEW p \in Int, NEW c \in Int, a =< p, p < c
  PROVE  /\ Hist(r, a..p - 1, r[p]) \in Nat
         /\ Hist(r, a..p - 1, r[p]) < Hist(r, a..c - 1, r[p])
<1> DEFINE e == r[p]
           q == p + 1
<1>1. q \in Int /\ p =< q /\ q =< c /\ q - 1 = p
  OBVIOUS
<1>2. Hist(r, p..p, e) = 1
  <2>1. {n \in p..p : r[n] = r[p]} = {p}
    OBVIOUS
  <2> QED BY <2>1, FS_Singleton DEF Hist
<1> HIDE DEF e, q
<1>3. Hist(r, a..c - 1, e) = Hist(r, a..p - 1, e) + Hist(r, p..c - 1, e)
  BY HistSplits
<1>4. Hist(r, p..c - 1, e) = Hist(r, p..q - 1, e) + Hist(r, q..c - 1, e)
  <2>1. \A x \in Int, y \in Int, z \in Int : x =< y /\ y =< z =>
          Hist(r, x..z - 1, e) = Hist(r, x..y - 1, e) + Hist(r, y..z - 1, e)
    BY HistSplits
  <2> QED BY <1>1, <2>1
<1>5. Hist(r, a..p - 1, e) \in Nat /\ Hist(r, q..c - 1, e) \in Nat
  BY <1>1, HistFinite
<1>6. Hist(r, p..q - 1, e) = 1
  BY <1>1, <1>2
<1> QED BY <1>3, <1>4, <1>5, <1>6 DEF e

LEMMA HistNone ==
  ASSUME NEW r, NEW e, NEW a \in Int
  PROVE  Hist(r, a..a - 1, e) = 0
<1>1. {q \in a..a - 1 : r[q] = e} = {}
  OBVIOUS
<1> QED BY <1>1, FS_EmptySet DEF Hist


\* The rank of a pair within its run: the earlier pairs of its shard that
\* select its expert.
Rank(r, p) == Hist(r, FirstPair(Owner(p))..p - 1, r[p])

\* However the builders add it up, block by block and window by window.
LEMMA RankIs ==
  ASSUME NEW r, NEW p \in Pairs
  PROVE  /\ OwnRank(r, p) = Rank(r, p) /\ WindowedRank(r, p) = Rank(r, p)
         /\ BlockOff(r, p, r[p], 0) + RankWithin(r, p, Block)
              = Hist(r, 0..FirstPair(Owner(p)) - 1, r[p]) + Rank(r, p)
<1> DEFINE e == r[p]
           d == Owner(p)
           f == FirstPair(d)
           b == AlignDown(p, Block)
           w == AlignDown(p, Window)
<1>1. /\ p \in Nat /\ d \in Shards /\ f \in Nat /\ f =< p
      /\ f = d * TLocal * TopK /\ f = Share * d /\ d \in Int
  <2>1. p \in Nat /\ d \in Shards /\ p \in PairsOf(d)
    BY OwnerIs
  <2>2. d \in Int
    BY <2>1, SizesAre DEF Shards
  <2> HIDE DEF d
  <2>3. f \in Nat /\ PairsOf(d) = f..FirstPair(d + 1) - 1 /\ f = Share * d
    BY <2>1, <2>2, PairsOfIs, FirstPairIs
  <2>4. f =< p
    <3> HIDE DEF f
    <3> QED BY <2>1, <2>3
  <2> QED BY <2>1, <2>2, <2>3, <2>4 DEF FirstPair
<1>2. b \in Nat /\ b =< p /\ w \in Nat /\ w =< p
  <2> HIDE DEF d
  <2> QED BY <1>1, SizesAre, AlignDownIs
<1>3. f =< b
  <2> HIDE DEF d, f
  <2> DEFINE n == Share \div Block
  <2>1. Share % Block = 0
    BY PlanArguments DEF Share
  <2>2. n \in Int /\ Share = Block * n + (Share % Block)
    BY SizesAre, Division
  <2> HIDE DEF n
  <2>3. Share * d = Block * (n * d) /\ n * d \in Int
    BY <1>1, <2>1, <2>2, SizesAre
  <2>4. Block * (n * d) =< p /\ f = Block * (n * d)
    BY <1>1, <2>3
  <2> HIDE DEF b
  <2>5. Block * (n * d) =< b
    BY <1>1, <2>3, <2>4, SizesAre, AlignDownIs DEF b
  <2> QED BY <2>4, <2>5
<1>4. b =< w
  <2> HIDE DEF d
  <2> DEFINE n == Block \div Window
             k == p \div Block
  <2>1. Block % Window = 0
    BY PlanArguments
  <2>2. n \in Int /\ Block = Window * n + (Block % Window)
    BY SizesAre, Division
  <2>3. k \in Nat /\ b = Block * k
    BY <1>1, SizesAre, AlignDownIs
  <2> HIDE DEF n, k, b
  <2>4. Block * k = Window * (n * k) /\ n * k \in Int
    BY <2>1, <2>2, <2>3, SizesAre
  <2>5. Window * (n * k) =< p
    BY <1>2, <2>3, <2>4
  <2> QED BY <1>1, <2>3, <2>4, <2>5, SizesAre, AlignDownIs
<1>5. /\ OwnRank(r, p) = Hist(r, f..b - 1, e) + Hist(r, b..p - 1, e)
      /\ WindowedRank(r, p) = Hist(r, f..b - 1, e) + Hist(r, b..w - 1, e) + Hist(r, w..p - 1, e)
      /\ BlockOff(r, p, r[p], 0) + RankWithin(r, p, Block)
           = Hist(r, 0..b - 1, e) + Hist(r, b..p - 1, e)
      /\ Rank(r, p) = Hist(r, f..p - 1, e)
  BY <1>1 DEF OwnRank, WindowedRank, BlockOff, RankWithin, WindowOff, Rank
<1> HIDE DEF b, w, f, e, d
<1>6. /\ Hist(r, f..p - 1, e) = Hist(r, f..b - 1, e) + Hist(r, b..p - 1, e)
      /\ Hist(r, b..p - 1, e) = Hist(r, b..w - 1, e) + Hist(r, w..p - 1, e)
      /\ Hist(r, 0..p - 1, e) = Hist(r, 0..b - 1, e) + Hist(r, b..p - 1, e)
      /\ Hist(r, 0..p - 1, e) = Hist(r, 0..f - 1, e) + Hist(r, f..p - 1, e)
  BY <1>1, <1>2, <1>3, <1>4, HistSplits
<1>8. \A x, y \in Int : Hist(r, x..y - 1, e) \in Nat
  <2> TAKE x, y \in Int
  <2> QED BY HistFinite
<1>9. /\ Hist(r, f..b - 1, e) \in Nat /\ Hist(r, b..w - 1, e) \in Nat
      /\ Hist(r, w..p - 1, e) \in Nat /\ Hist(r, 0..b - 1, e) \in Nat
      /\ Hist(r, b..p - 1, e) \in Nat /\ Hist(r, 0..f - 1, e) \in Nat
  BY <1>1, <1>2, <1>8
<1>10. /\ OwnRank(r, p) = Rank(r, p) /\ WindowedRank(r, p) = Rank(r, p)
  BY <1>5, <1>6, <1>9
<1>11. BlockOff(r, p, r[p], 0) + RankWithin(r, p, Block)
         = Hist(r, 0..f - 1, e) + Rank(r, p)
  BY <1>5, <1>6, <1>9
<1> QED BY <1>10, <1>11 DEF f, e, d

\* The ranks of a run's pairs are numbers below its rows, each its own.
LEMMA RankBelow ==
  ASSUME NEW r, NEW p \in Pairs
  PROVE  Rank(r, p) \in Nat /\ Rank(r, p) < Hist(r, PairsOf(Owner(p)), r[p])
<1> DEFINE d == Owner(p)
           e == r[p]
<1>1. p \in Nat /\ d \in Shards /\ p \in PairsOf(d)
  BY OwnerIs
<1> HIDE DEF d
<1>2. /\ FirstPair(d) \in Nat /\ PairsOf(d) = FirstPair(d)..FirstPair(d + 1) - 1
      /\ FirstPair(d + 1) = FirstPair(d) + Share
  BY <1>1, PairsOfIs
<1> DEFINE a == FirstPair(d)
           c == FirstPair(d + 1)
<1>3. a \in Int /\ c \in Int /\ a =< p /\ p + 1 =< c /\ a =< c /\ PairsOf(d) = a..c - 1
  BY <1>1, <1>2, SizesAre
<1> HIDE DEF a, c, e
<1>4. Hist(r, a..p - 1, e) \in Nat /\ Hist(r, a..p - 1, e) < Hist(r, a..c - 1, e)
  BY <1>1, <1>3, HistNext DEF e
<1> QED BY <1>3, <1>4 DEF Rank, a, d, e

LEMMA RanksDiffer ==
  ASSUME NEW r, NEW p \in Pairs, NEW q \in Pairs, Owner(p) = Owner(q), r[p] = r[q], p < q
  PROVE  Rank(r, p) < Rank(r, q)
<1> DEFINE d == Owner(p)
           e == r[p]
           a == FirstPair(d)
<1>1. p \in Nat /\ q \in Nat /\ d \in Shards /\ p \in PairsOf(d)
  BY OwnerIs
<1>2. a \in Nat /\ a =< p
  <2> HIDE DEF d
  <2>1. FirstPair(d) \in Nat /\ PairsOf(d) = FirstPair(d)..FirstPair(d + 1) - 1
    BY <1>1, PairsOfIs
  <2> QED BY <1>1, <2>1
<1>3. Rank(r, p) = Hist(r, a..p - 1, e) /\ Rank(r, q) = Hist(r, a..q - 1, e)
  BY DEF Rank
<1> HIDE DEF d, a
<1> QED BY <1>1, <1>2, <1>3, HistNext


-----------------------------------------------------------------------------
\* Sums over consecutive things.

\* What comes before x when the things of S lie one after the other.
Below(f, S, x) == SumOf(f, {y \in S : y < x})

\* They do not overlap, and together are as long as their sum.
LEMMA Stacked ==
  ASSUME NEW S, IsFiniteSet(S), S \subseteq Int, NEW f, \A x \in S : f[x] \in Nat,
         NEW x \in S
  PROVE  /\ Below(f, S, x) \in Nat /\ SumOf(f, S) \in Nat
         /\ Below(f, S, x) + f[x] =< SumOf(f, S)
         /\ \A z \in S : x < z => Below(f, S, x) + f[x] =< Below(f, S, z)
<1> DEFINE B(z) == {y \in S : y < z}
           T == {y \in S : y =< x}
<1>1. \A z : B(z) \in SUBSET S /\ IsFiniteSet(B(z)) /\ \A y \in B(z) : f[y] \in Nat
  BY FS_Subset
<1>2. T \in SUBSET S /\ IsFiniteSet(T) /\ \A y \in T : f[y] \in Nat
  BY FS_Subset
<1>3. x \in T /\ T \ {x} = B(x)
  <2>1. x \in Int /\ \A y \in S : y \in Int
    OBVIOUS
  <2>2. \A y \in S : (y =< x /\ y # x) <=> y < x
    BY <2>1
  <2>3. x =< x
    BY <2>1
  <2> QED BY <2>2, <2>3
<1>4. \A z \in S : x < z => T \in SUBSET B(z)
  <2>1. x \in Int /\ \A y \in S : y \in Int
    OBVIOUS
  <2>2. \A y, z \in S : y =< x /\ x < z => y < z
    BY <2>1
  <2> QED BY <2>2
<1>5. \A z : Below(f, S, z) = SumOf(f, B(z))
  BY DEF Below
<1> HIDE DEF B, T
<1>6. SumOf(f, S) \in Nat /\ \A U \in SUBSET S : SumOf(f, U) \in Nat /\ SumOf(f, U) =< SumOf(f, S)
  BY Sums
<1>7. SumOf(f, T) = f[x] + SumOf(f, B(x))
  <2>1. \A y \in T : SumOf(f, T) = f[y] + SumOf(f, T \ {y})
    BY ONLY <1>2, Sums
  <2>2. SumOf(f, T) = f[x] + SumOf(f, T \ {x})
    BY <1>3, <2>1
  <2> QED BY <1>3, <2>2
<1>8. ASSUME NEW z \in S, x < z PROVE SumOf(f, T) =< SumOf(f, B(z))
  <2>1. IsFiniteSet(B(z)) /\ (\A y \in B(z) : f[y] \in Nat) /\ T \in SUBSET B(z)
    BY <1>1, <1>4, <1>8
  <2>2. \A U \in SUBSET B(z) : SumOf(f, U) =< SumOf(f, B(z))
    BY <2>1, Sums
  <2> QED BY <2>1, <2>2
<1>9. SumOf(f, B(x)) \in Nat /\ SumOf(f, T) \in Nat /\ SumOf(f, T) =< SumOf(f, S) /\ f[x] \in Nat
  BY <1>1, <1>2, <1>6
<1>10. SumOf(f, B(x)) + f[x] =< SumOf(f, S)
  BY <1>6, <1>7, <1>9
<1>11. ASSUME NEW z \in S, x < z PROVE SumOf(f, B(x)) + f[x] =< SumOf(f, B(z))
  <2>1. SumOf(f, T) =< SumOf(f, B(z)) /\ SumOf(f, B(z)) \in Nat
    BY <1>1, <1>6, <1>8, <1>11
  <2> QED BY <1>7, <1>9, <2>1
<1> QED BY <1>5, <1>6, <1>9, <1>10, <1>11

\* A sum of padded values is the sum of the values, and the padding of each.
LEMMA PaddedSum ==
  ASSUME NEW S, IsFiniteSet(S), NEW f, NEW g, NEW c \in Nat,
         \A x \in S : f[x] \in Nat /\ g[x] \in Nat /\ f[x] =< g[x] + c
  PROVE  /\ SumOf(f, S) \in Nat /\ SumOf(g, S) \in Nat /\ Cardinality(S) \in Nat
         /\ SumOf(f, S) =< SumOf(g, S) + c * Cardinality(S)
<1> DEFINE Bad == {T \in SUBSET S : ~(SumOf(f, T) =< SumOf(g, T) + c * Cardinality(T))}
<1>0. SumOf(f, S) \in Nat /\ SumOf(g, S) \in Nat /\ Cardinality(S) \in Nat
  BY Sums, FS_CardinalityType
<1> SUFFICES ASSUME Bad # {} PROVE FALSE
  <2>1. S \in SUBSET S
    OBVIOUS
  <2> QED BY <1>0, <2>1
<1>1. PICK T \in Bad : \A U \in SUBSET T : U # T => U \notin Bad
  <2>1. Bad \subseteq SUBSET S
    OBVIOUS
  <2> HIDE DEF Bad
  <2> QED BY <2>1, Smallest
<1>2. /\ T \in SUBSET S /\ ~(SumOf(f, T) =< SumOf(g, T) + c * Cardinality(T))
      /\ IsFiniteSet(T) /\ Cardinality(T) \in Nat
  BY FS_Subset, FS_CardinalityType
<1>3. T # {}
  <2>1. SumOf(f, {}) = 0 /\ SumOf(g, {}) = 0
    BY Sums
  <2>2. Cardinality({}) = 0
    BY FS_EmptySet
  <2>3. 0 =< 0 + c * 0
    OBVIOUS
  <2> QED BY <1>2, <2>1, <2>2, <2>3
<1>4. PICK x : x \in T
  BY <1>3
<1> DEFINE U == T \ {x}
<1>5. U \in SUBSET T /\ U # T /\ U \in SUBSET S /\ IsFiniteSet(U) /\ x \notin U /\ T = U \cup {x}
  BY <1>2, <1>4, FS_Subset
<1>6. SumOf(f, U) =< SumOf(g, U) + c * Cardinality(U)
  <2>1. U \notin Bad
    <3> HIDE DEF Bad, U
    <3> QED BY <1>1, <1>5
  <2> QED BY <1>5, <2>1
<1> HIDE DEF Bad
<1>7. Cardinality(T) = Cardinality(U) + 1 /\ Cardinality(U) \in Nat
  <2> HIDE DEF U
  <2> QED BY <1>5, FS_AddElement, FS_CardinalityType
<1>8. SumOf(f, T) = f[x] + SumOf(f, U) /\ SumOf(g, T) = g[x] + SumOf(g, U)
  <2>1. (\A y \in T : f[y] \in Nat) /\ (\A y \in T : g[y] \in Nat)
    BY <1>2
  <2>2. \A y \in T : SumOf(f, T) = f[y] + SumOf(f, T \ {y})
    BY ONLY <1>2, <2>1, Sums
  <2>3. \A y \in T : SumOf(g, T) = g[y] + SumOf(g, T \ {y})
    BY ONLY <1>2, <2>1, Sums
  <2> QED BY <1>4, <2>2, <2>3
<1>9. SumOf(f, U) \in Nat /\ SumOf(g, U) \in Nat
  <2>1. \A V \in SUBSET S : SumOf(f, V) \in Nat
    BY ONLY IsFiniteSet(S), \A y \in S : f[y] \in Nat /\ g[y] \in Nat /\ f[y] =< g[y] + c, Sums
  <2>2. \A V \in SUBSET S : SumOf(g, V) \in Nat
    BY ONLY IsFiniteSet(S), \A y \in S : f[y] \in Nat /\ g[y] \in Nat /\ f[y] =< g[y] + c, Sums
  <2> QED BY <1>5, <2>1, <2>2
<1> HIDE DEF U
<1>10. c * (Cardinality(U) + 1) = c * Cardinality(U) + c /\ c * Cardinality(U) \in Nat
  BY <1>7
<1>11. f[x] \in Nat /\ g[x] \in Nat /\ f[x] =< g[x] + c
  BY <1>2, <1>4
<1> QED BY <1>2, <1>6, <1>7, <1>8, <1>9, <1>10, <1>11

\* The elements of disjoint sets are counted one set after the other.
Joined(F, X) == UNION {F[x] : x \in X}

LEMMA DisjointSets ==
  ASSUME NEW X, IsFiniteSet(X), NEW F, \A x \in X : IsFiniteSet(F[x]),
         \A x \in X : \A y \in X : x # y => F[x] \cap F[y] = {},
         NEW n, \A x \in X : n[x] = Cardinality(F[x])
  PROVE  IsFiniteSet(Joined(F, X)) /\ SumOf(n, X) = Cardinality(Joined(F, X))
<1> DEFINE All(T) == UNION {F[x] : x \in T}
           Good(T) == IsFiniteSet(All(T)) /\ SumOf(n, T) = Cardinality(All(T))
           Bad == {T \in SUBSET X : ~Good(T)}
<1>0. \A x \in X : n[x] \in Nat
  BY FS_CardinalityType
<1> SUFFICES ASSUME Bad # {} PROVE FALSE
  <2>1. X \in SUBSET X
    OBVIOUS
  <2> QED BY <2>1 DEF Joined
<1>1. PICK T \in Bad : \A U \in SUBSET T : U # T => U \notin Bad
  <2>1. Bad \subseteq SUBSET X
    OBVIOUS
  <2> HIDE DEF Bad
  <2> QED BY <2>1, Smallest
<1>2. T \in SUBSET X /\ ~Good(T) /\ IsFiniteSet(T)
  BY FS_Subset
<1>3. T # {}
  <2>1. SumOf(n, {}) = 0
    BY <1>0, Sums
  <2>2. All({}) = {} /\ IsFiniteSet({}) /\ Cardinality({}) = 0
    BY FS_EmptySet
  <2>3. Good({})
    BY <2>1, <2>2
  <2> QED BY <1>2, <2>3
<1>4. PICK x : x \in T
  BY <1>3
<1> DEFINE U == T \ {x}
<1>5. U \in SUBSET T /\ U # T /\ U \in SUBSET X
  BY <1>2, <1>4
<1>6. Good(U)
  <2>1. U \notin Bad
    <3> HIDE DEF Bad, U
    <3> QED BY <1>1, <1>5
  <2> QED BY <1>5, <2>1
<1>7. All(T) = All(U) \cup F[x] /\ All(U) \cap F[x] = {}
  BY <1>2, <1>4
<1>8. SumOf(n, T) = n[x] + SumOf(n, U)
  <2>1. \A y \in T : n[y] \in Nat
    BY <1>0, <1>2
  <2> HIDE DEF Bad, Good
  <2>2. \A y \in T : SumOf(n, T) = n[y] + SumOf(n, T \ {y})
    BY ONLY <1>2, <2>1, Sums
  <2> QED BY <1>4, <2>2
<1>9. IsFiniteSet(F[x]) /\ n[x] = Cardinality(F[x]) /\ n[x] \in Nat
  BY <1>0, <1>2, <1>4
<1>10. IsFiniteSet(All(U)) /\ SumOf(n, U) = Cardinality(All(U)) /\ Cardinality(All(U)) \in Nat
  BY <1>6, FS_CardinalityType
<1> HIDE DEF U, All, Bad
<1>11. /\ IsFiniteSet(All(T))
       /\ Cardinality(All(T)) = Cardinality(All(U)) + Cardinality(F[x]) - Cardinality(All(U) \cap F[x])
  <2> DEFINE P == All(U)
             Q == F[x]
  <2>1. IsFiniteSet(P) /\ IsFiniteSet(Q) /\ All(T) = P \cup Q
    BY <1>7, <1>9, <1>10
  <2> HIDE DEF P, Q
  <2>2. /\ IsFiniteSet(P \cup Q)
        /\ Cardinality(P \cup Q) = Cardinality(P) + Cardinality(Q) - Cardinality(P \cap Q)
    BY ONLY <2>1, FS_Union
  <2> QED BY <2>1, <2>2 DEF P, Q
<1>12. Cardinality(All(U) \cap F[x]) = 0
  BY <1>7, FS_EmptySet
<1> QED BY <1>2, <1>8, <1>9, <1>10, <1>11, <1>12

-----------------------------------------------------------------------------
\* Where the tables put things.

TablesFor(r) == RunTables(CountRows(r))
Column(t, d) == [e \in Experts |-> t.aligned[e][d]]

FieldsOf(r, t, e, d) ==
  /\ t.run_rows[e] = [c \in Shards |-> Hist(r, PairsOf(c), e)]
  /\ t.run_rows[e][d] = Hist(r, PairsOf(d), e)
  /\ t.aligned[e][d] = AlignUp(t.run_rows[e][d], RowBlk)
  /\ t.expert_rows[e] = SumOf(t.aligned[e], Shards)
  /\ t.start_aligned[e][d] = Below(t.aligned[e], Shards, d)
  /\ t.expert_base[e] =
       ShardOf(e) * Stride + Below(t.expert_rows, ExpertsOf(ShardOf(e)), e)
  /\ t.recv_base[d][e] = Below(Column(t, d), Experts, e)
  /\ t.run_tiles[e][d] = MirrorRunTiles(t.start_aligned[e][d], t.aligned[e][d])

LEMMA Fields ==
  ASSUME NEW r, NEW t, t = TablesFor(r), NEW e \in Experts, NEW d \in Shards
  PROVE  FieldsOf(r, t, e, d)
<1> DEFINE rows == CountRows(r)
           aligned == AlignedRuns(rows)
           total == [x \in Experts |-> SumOf(aligned[x], Shards)]
           start == [x \in Experts |-> ExclusiveSums(aligned[x])]
<1>1. /\ t.run_rows = rows /\ t.aligned = aligned /\ t.expert_rows = total
      /\ t.start_aligned = start
      /\ t.expert_base = [x \in Experts |-> ShardOf(x) * Stride +
                      SumOf(total, {f \in ExpertsOf(ShardOf(x)) : f < x})]
      /\ t.recv_base = [c \in Shards |-> ExclusiveSums([x \in Experts |-> aligned[x][c]])]
      /\ t.run_tiles = [x \in Experts |-> [c \in Shards |->
                          MirrorRunTiles(start[x][c], aligned[x][c])]]
  BY DEF TablesFor, RunTables, SlabRuns, TablesOf
<1>2. rows[e] = [c \in Shards |-> Hist(r, PairsOf(c), e)] /\ rows[e][d] = Hist(r, PairsOf(d), e)
  BY DEF CountRows
<1>3. aligned[e][d] = AlignUp(rows[e][d], RowBlk) /\ DOMAIN aligned[e] = Shards
  BY DEF AlignedRuns
<1> HIDE DEF rows, aligned
<1>4. start[e][d] = Below(aligned[e], Shards, d)
  BY <1>3 DEF ExclusiveSums, Below
<1>5. t.recv_base[d][e] = Below([x \in Experts |-> aligned[x][d]], Experts, e)
  BY <1>1 DEF ExclusiveSums, Below
<1>6. t.expert_base[e] = ShardOf(e) * Stride + Below(total, ExpertsOf(ShardOf(e)), e)
  BY <1>1 DEF Below
<1> QED BY <1>1, <1>2, <1>3, <1>4, <1>5, <1>6 DEF Column, FieldsOf

\* The runs are padded to whole blocks.
RunsPadded(t) ==
  \A e \in Experts, d \in Shards :
    /\ t.run_rows[e][d] \in Nat /\ t.aligned[e][d] \in Nat
    /\ t.run_rows[e][d] =< t.aligned[e][d] /\ t.aligned[e][d] =< t.run_rows[e][d] + RowBlk - 1
    /\ t.aligned[e][d] > 0 <=> t.run_rows[e][d] > 0

LEMMA PaddedAre ==
  ASSUME NEW r, NEW t, t = TablesFor(r)
  PROVE  RunsPadded(t)
<1>1. ASSUME NEW e \in Experts, NEW d \in Shards
      PROVE  /\ t.run_rows[e][d] \in Nat /\ t.aligned[e][d] = AlignUp(t.run_rows[e][d], RowBlk)
             /\ t.aligned[e][d] > 0 <=> t.run_rows[e][d] > 0
  <2>1. t.aligned[e][d] > 0 <=> t.run_rows[e][d] > 0
    BY TablesAre DEF TablesFor
  <2>2. /\ t.run_rows[e][d] = Hist(r, PairsOf(d), e)
        /\ t.aligned[e][d] = AlignUp(t.run_rows[e][d], RowBlk)
    <3>1. FieldsOf(r, t, e, d)
      BY Fields
    <3> QED BY <3>1 DEF FieldsOf
  <2>3. Hist(r, PairsOf(d), e) \in Nat
    BY HistIs
  <2> QED BY <2>1, <2>2, <2>3
<1>2. ASSUME NEW e \in Experts, NEW d \in Shards
      PROVE  /\ t.run_rows[e][d] \in Nat /\ t.aligned[e][d] \in Nat
             /\ t.run_rows[e][d] =< t.aligned[e][d]
             /\ t.aligned[e][d] =< t.run_rows[e][d] + RowBlk - 1
  <2> DEFINE n == t.run_rows[e][d]
  <2>1. n \in Nat /\ t.aligned[e][d] = AlignUp(n, RowBlk)
    BY <1>1
  <2> HIDE DEF n
  <2>2. AlignUp(n, RowBlk) \in Nat /\ AlignUp(n, RowBlk) >= n /\ AlignUp(n, RowBlk) =< n + RowBlk - 1
    BY <2>1, SizesAre, AlignUpIs, AlignUpBelow
  <2> QED BY <2>1, <2>2 DEF n
<1> QED BY <1>1, <1>2 DEF RunsPadded

\* The experts of a shard are consecutive.
LEMMA ExpertsOfIs ==
  ASSUME NEW s \in Shards
  PROVE  /\ ExpertsOf(s) \subseteq Int /\ Cardinality(ExpertsOf(s)) = GLocal
         /\ GLocal * s \in ExpertsOf(s) /\ \A e \in ExpertsOf(s) : GLocal * s =< e
         /\ \A e \in ExpertsOf(s) : e = GLocal * s + (e % GLocal) /\ e % GLocal \in 0..GLocal - 1
<1> DEFINE a == GLocal * s
           I == a..a + GLocal - 1
<1>1. s \in Nat /\ s < EP /\ a \in Nat /\ a + GLocal =< GLocal * EP
  <2>1. s \in Nat /\ s < EP
    BY SizesAre DEF Shards
  <2>2. GLocal * s + GLocal =< GLocal * EP /\ GLocal * s \in Nat
    BY <2>1, SizesAre, Multiples
  <2> QED BY <2>1, <2>2
<1>2. GLocal * EP = EP * GLocal /\ EP * GLocal \in Nat
  BY SizesAre
<1>3. ASSUME NEW e \in Experts, ShardOf(e) = s
      PROVE  e \in I /\ e = a + (e % GLocal) /\ e % GLocal \in 0..GLocal - 1
  <2>1. e \in Nat
    BY ExpertFacts
  <2> DEFINE m == e % GLocal
             q == e \div GLocal
  <2>2. m \in 0..GLocal - 1 /\ e = GLocal * q + m
    BY <2>1, SizesAre, Division
  <2>4. q = s
    BY <1>3 DEF ShardOf
  <2> HIDE DEF m, q
  <2>3. e \in I
    BY <1>1, <2>1, <2>2, <2>4, SizesAre
  <2> QED BY <2>2, <2>3, <2>4 DEF m
<1>4. ASSUME NEW e \in I PROVE e \in Experts /\ ShardOf(e) = s
  <2> DEFINE m == e - a
  <2>1. m \in 0..GLocal - 1 /\ e = GLocal * s + m /\ e \in Int
    BY <1>1, SizesAre
  <2>2. e \in Experts
    BY <1>1, <1>2, SizesAre DEF Experts
  <2> HIDE DEF m, I
  <2>3. e \div GLocal = s
    BY <1>1, <2>1, SizesAre, QuotientIs
  <2> QED BY <2>2, <2>3 DEF ShardOf
<1>5. ExpertsOf(s) = I
  BY <1>3, <1>4 DEF ExpertsOf
<1>6. Cardinality(I) = GLocal
  <2> DEFINE b == a + GLocal - 1
  <2>1. a \in Int /\ b \in Int
    BY <1>1, SizesAre
  <2> HIDE DEF a
  <2>2. b \in Int /\ b - a + 1 = GLocal /\ a =< b
    BY <2>1, SizesAre
  <2> HIDE DEF b
  <2>3. Cardinality(a..b) = b - a + 1
    BY <2>1, <2>2, FS_Interval
  <2> QED BY <2>2, <2>3 DEF b
<1>7. I \subseteq Int /\ a \in I /\ \A e \in I : a =< e
  BY <1>1, SizesAre
<1> QED BY <1>3, <1>5, <1>6, <1>7 DEF ExpertsOf

\* The rows of an expert lie one run after the other.
RunsLaid(t) ==
  \A e \in Experts, d \in Shards :
    /\ t.expert_rows[e] \in Nat /\ t.start_aligned[e][d] \in Nat
    /\ t.start_aligned[e][d] + t.aligned[e][d] =< t.expert_rows[e]
    /\ \A c \in Shards :
         d < c => t.start_aligned[e][d] + t.aligned[e][d] =< t.start_aligned[e][c]
    /\ t.run_tiles[e][d] = MirrorRunTiles(t.start_aligned[e][d], t.aligned[e][d])

LEMMA RunsLie ==
  ASSUME NEW r, NEW t, t = TablesFor(r)
  PROVE  RunsLaid(t)
<1> SUFFICES ASSUME NEW e \in Experts, NEW d \in Shards
             PROVE  /\ t.expert_rows[e] \in Nat /\ t.start_aligned[e][d] \in Nat
                    /\ t.start_aligned[e][d] + t.aligned[e][d] =< t.expert_rows[e]
                    /\ \A c \in Shards :
                         d < c => t.start_aligned[e][d] + t.aligned[e][d] =< t.start_aligned[e][c]
                    /\ t.run_tiles[e][d] = MirrorRunTiles(t.start_aligned[e][d], t.aligned[e][d])
  BY DEF RunsLaid
<1> DEFINE f == t.aligned[e]
<1>1. IsFiniteSet(Shards) /\ Shards \subseteq Int /\ \A c \in Shards : f[c] \in Nat
  <2>1. Shards \subseteq Int
    BY SizesAre DEF Shards
  <2> QED BY <2>1, ExpertFacts, PaddedAre DEF RunsPadded
<1>2. \A c \in Shards : t.start_aligned[e][c] = Below(f, Shards, c)
  <2> SUFFICES ASSUME NEW c \in Shards PROVE t.start_aligned[e][c] = Below(f, Shards, c)
    OBVIOUS
  <2>1. FieldsOf(r, t, e, c)
    BY Fields
  <2> QED BY <2>1 DEF FieldsOf
<1>3. /\ t.expert_rows[e] = SumOf(f, Shards)
      /\ t.run_tiles[e][d] = MirrorRunTiles(t.start_aligned[e][d], t.aligned[e][d])
  <2>1. FieldsOf(r, t, e, d)
    BY Fields
  <2> QED BY <2>1 DEF FieldsOf
<1> HIDE DEF f
<1>4. /\ Below(f, Shards, d) \in Nat /\ SumOf(f, Shards) \in Nat
      /\ Below(f, Shards, d) + f[d] =< SumOf(f, Shards)
      /\ \A c \in Shards : d < c => Below(f, Shards, d) + f[d] =< Below(f, Shards, c)
  BY <1>1, Stacked
<1> QED BY <1>2, <1>3, <1>4 DEF f

\* Sums over runs: over pairs of an expert and a shard.
Cells(table) == [x \in Experts \X Shards |-> table[x[1]][x[2]]]
Grid(E, D) == E \X D

LEMMA CellsAre ==
  ASSUME NEW table, \A e \in Experts : \A d \in Shards : table[e][d] \in Nat,
         NEW E \in SUBSET Experts, NEW D \in SUBSET Shards
  PROVE  /\ IsFiniteSet(E) /\ IsFiniteSet(D) /\ IsFiniteSet(Grid(E, D))
         /\ \A x \in Grid(E, D) : Cells(table)[x] \in Nat
         /\ SumRuns(table, E, D) = SumOf(Cells(table), Grid(E, D))
         /\ SumRuns(table, E, D) \in Nat
<1>1. IsFiniteSet(E) /\ IsFiniteSet(D) /\ IsFiniteSet(E \X D) /\ IsFiniteSet(Experts \X Shards)
  BY ExpertFacts, FS_Subset, FS_Product
<1>2. \A x \in Experts \X Shards : Cells(table)[x] \in Nat
  BY DEF Cells
<1>3. \A e \in E : \A d \in D : Cells(table)[<<e, d>>] = table[e][d] /\ table[e][d] \in Nat
  BY DEF Cells
<1>4. SumRuns(table, E, D) = SumOf(Cells(table), E \X D)
  BY <1>1, <1>3, SumPairs
<1>5. SumOf(Cells(table), E \X D) \in Nat
  <2>1. \A x \in E \X D : Cells(table)[x] \in Nat
    BY <1>2
  <2> DEFINE X == E \X D
             f == Cells(table)
  <2>2. IsFiniteSet(X) /\ \A x \in X : f[x] \in Nat
    BY <1>1, <2>1
  <2> HIDE DEF X, f
  <2>3. SumOf(f, X) \in Nat
    BY <2>2, Sums
  <2> QED BY <2>3 DEF X, f
<1>6. \A x \in E \X D : Cells(table)[x] \in Nat
  BY <1>2
<1>7. SumRuns(table, E, D) \in Nat
  BY <1>4, <1>5
<1> QED BY <1>1, <1>4, <1>6, <1>7 DEF Grid

\* The pairs that select an expert, by shard.
LEMMA SelectingIs ==
  ASSUME NEW r, NEW d \in Shards, NEW e
  PROVE  /\ IsFiniteSet(Selecting(r, PairsOf(d), e))
         /\ Hist(r, PairsOf(d), e) = Cardinality(Selecting(r, PairsOf(d), e))
<1> DEFINE a == FirstPair(d)
           b == FirstPair(d + 1)
<1>1. a \in Int /\ b \in Int /\ PairsOf(d) = a..b - 1
  BY PairsOfIs, SizesAre
<1> HIDE DEF a, b
<1> QED BY <1>1, HistFinite

\* No more rows than pairs, in all and for the tokens of a shard.
LEMMA RowsBounded ==
  ASSUME NEW r, NEW t, t = TablesFor(r)
  PROVE  /\ \A E \in SUBSET Experts : SumRuns(t.run_rows, E, Shards) =< NumPairs
         /\ \A d \in Shards : SumRuns(t.run_rows, Experts, {d}) =< Share
<1> DEFINE table == t.run_rows
           F == [x \in Experts \X Shards |-> Selecting(r, PairsOf(x[2]), x[1])]
           n == Cells(table)
<1>1. \A e \in Experts : \A d \in Shards : table[e][d] \in Nat
  BY PaddedAre DEF RunsPadded
<1>2. \A x \in Experts \X Shards : IsFiniteSet(F[x]) /\ n[x] = Cardinality(F[x])
  <2> SUFFICES ASSUME NEW e \in Experts, NEW d \in Shards
               PROVE  /\ IsFiniteSet(Selecting(r, PairsOf(d), e))
                      /\ table[e][d] = Cardinality(Selecting(r, PairsOf(d), e))
    BY DEF Cells
  <2>1. table[e][d] = Hist(r, PairsOf(d), e)
    <3>1. FieldsOf(r, t, e, d)
      BY Fields
    <3> QED BY <3>1 DEF FieldsOf
  <2> QED BY <2>1, SelectingIs
<1>3. \A x, y \in Experts \X Shards : x # y => F[x] \cap F[y] = {}
  BY DEF Selecting, PairsOf
<1>4. \A x \in Experts \X Shards : F[x] \subseteq PairsOf(x[2])
  BY DEF Selecting
<1> HIDE DEF table, F, n
<1>5. ASSUME NEW E \in SUBSET Experts, NEW D \in SUBSET Shards, NEW P, IsFiniteSet(P),
             \A d \in D : PairsOf(d) \subseteq P
      PROVE  SumRuns(table, E, D) =< Cardinality(P)
  <2> DEFINE X == Grid(E, D)
             U == Joined(F, X)
  <2>1. IsFiniteSet(X) /\ SumRuns(table, E, D) = SumOf(n, X)
    BY <1>1, <1>5, CellsAre DEF n
  <2>2. /\ \A x \in X : IsFiniteSet(F[x])
        /\ \A x \in X : \A y \in X : x # y => F[x] \cap F[y] = {}
        /\ \A x \in X : n[x] = Cardinality(F[x])
    BY <1>2, <1>3, <1>5 DEF Grid
  <2>3. U \subseteq P
    BY <1>4, <1>5 DEF Grid, Joined
  <2> HIDE DEF X
  <2>4. SumOf(n, X) = Cardinality(U)
    BY ONLY <2>1, <2>2, DisjointSets
  <2> HIDE DEF U
  <2>5. Cardinality(U) =< Cardinality(P)
    BY <1>5, <2>3, FS_Subset
  <2> QED BY <2>1, <2>4, <2>5
<1>6. IsFiniteSet(Pairs) /\ Cardinality(Pairs) = NumPairs
  <2> DEFINE b == NumPairs - 1
  <2>1. b \in Int /\ b - 0 + 1 = NumPairs /\ (0 > b => NumPairs = 0)
    BY SizesAre
  <2> HIDE DEF b
  <2>2. IsFiniteSet(0..b) /\ Cardinality(0..b) = NumPairs
    BY <2>1, FS_Interval
  <2> QED BY <2>2 DEF Pairs, b
<1>7. ASSUME NEW E \in SUBSET Experts PROVE SumRuns(table, E, Shards) =< NumPairs
  <2>1. \A d \in Shards : PairsOf(d) \subseteq Pairs
    BY DEF PairsOf
  <2>2. SumRuns(table, E, Shards) =< Cardinality(Pairs)
    BY <1>5, <1>6, <2>1
  <2> QED BY <1>6, <2>2
<1>8. ASSUME NEW d \in Shards PROVE SumRuns(table, Experts, {d}) =< Share
  <2> DEFINE a == FirstPair(d)
             b == FirstPair(d + 1) - 1
  <2>1. a \in Int /\ b \in Int /\ PairsOf(d) = a..b /\ b - a + 1 = Share /\ a =< b
    BY PairsOfIs, SizesAre
  <2> HIDE DEF a, b
  <2>2. IsFiniteSet(PairsOf(d)) /\ Cardinality(PairsOf(d)) = Share
    BY <2>1, FS_Interval
  <2>3. {d} \in SUBSET Shards /\ \A c \in {d} : PairsOf(c) \subseteq PairsOf(d)
    OBVIOUS
  <2>4. SumRuns(table, Experts, {d}) =< Cardinality(PairsOf(d))
    BY <1>5, <2>2, <2>3
  <2> QED BY <2>2, <2>4
<1> QED BY <1>7, <1>8 DEF table

\* What padding adds to the runs of some experts to some shards.
LEMMA PaddedRuns ==
  ASSUME NEW t, RunsPadded(t), NEW E \in SUBSET Experts, NEW D \in SUBSET Shards
  PROVE  /\ SumRuns(t.aligned, E, D) \in Nat /\ SumRuns(t.run_rows, E, D) \in Nat
         /\ Cardinality(E) \in Nat /\ Cardinality(D) \in Nat
         /\ SumRuns(t.aligned, E, D)
              =< SumRuns(t.run_rows, E, D) + (RowBlk - 1) * (Cardinality(E) * Cardinality(D))
<1> DEFINE X == Grid(E, D)
           f == Cells(t.aligned)
           g == Cells(t.run_rows)
           c == RowBlk - 1
<1>1. /\ \A e \in Experts : \A d \in Shards : t.aligned[e][d] \in Nat
      /\ \A e \in Experts : \A d \in Shards : t.run_rows[e][d] \in Nat
  BY DEF RunsPadded
<1>2. /\ IsFiniteSet(E) /\ IsFiniteSet(D) /\ IsFiniteSet(X)
      /\ SumRuns(t.aligned, E, D) = SumOf(f, X) /\ SumRuns(t.aligned, E, D) \in Nat
      /\ \A x \in X : f[x] \in Nat
  BY <1>1, CellsAre
<1>3. /\ SumRuns(t.run_rows, E, D) = SumOf(g, X) /\ SumRuns(t.run_rows, E, D) \in Nat
      /\ \A x \in X : g[x] \in Nat
  BY <1>1, CellsAre
<1>4. \A x \in X : f[x] =< g[x] + c
  <2> SUFFICES ASSUME NEW e \in E, NEW d \in D
               PROVE  t.aligned[e][d] =< t.run_rows[e][d] + (RowBlk - 1)
    BY DEF Cells, Grid
  <2>1. /\ t.aligned[e][d] =< t.run_rows[e][d] + RowBlk - 1
        /\ t.aligned[e][d] \in Nat /\ t.run_rows[e][d] \in Nat
    BY DEF RunsPadded
  <2> QED BY <2>1, SizesAre
<1>5. Cardinality(X) = Cardinality(E) * Cardinality(D)
      /\ Cardinality(E) \in Nat /\ Cardinality(D) \in Nat
  BY <1>2, FS_Product, FS_CardinalityType DEF Grid
<1>6. c \in Nat
  BY SizesAre
<1> HIDE DEF X, f, g, c
<1>7. SumOf(f, X) =< SumOf(g, X) + c * Cardinality(X)
  BY <1>2, <1>3, <1>4, <1>6, PaddedSum
<1> QED BY <1>2, <1>3, <1>5, <1>7 DEF c

\* The rows and padding of a shard's experts, and of a shard's tokens.
LEMMA TotalsBounded ==
  ASSUME NEW r, NEW t, t = TablesFor(r), NEW s \in Shards
  PROVE  /\ SumRuns(t.aligned, ExpertsOf(s), Shards) \in Nat
         /\ SumRuns(t.aligned, ExpertsOf(s), Shards) + TileM =< Stride /\ Stride \in Nat
         /\ SumRuns(t.aligned, Experts, {s}) \in Nat
         /\ SumRuns(t.aligned, Experts, {s}) =< RecvRows /\ RecvRows \in Nat
<1> DEFINE pad == (RowBlk - 1) * EP * GLocal
<1>1. pad \in Nat /\ pad = (RowBlk - 1) * (GLocal * EP)
  <2>1. RowBlk - 1 \in Nat /\ EP \in Nat /\ GLocal \in Nat
    BY SizesAre
  <2> QED BY <2>1
<1>2. RunsPadded(t)
  BY PaddedAre
<1>3. SumRuns(t.aligned, ExpertsOf(s), Shards) \in Nat
      /\ SumRuns(t.aligned, ExpertsOf(s), Shards) =< NumPairs + pad
  <2>1. ExpertsOf(s) \in SUBSET Experts /\ Shards \in SUBSET Shards
    BY ExpertFacts
  <2>2. Cardinality(ExpertsOf(s)) = GLocal /\ Cardinality(Shards) = EP
    BY ExpertsOfIs, ShardsFinite
  <2>3. /\ SumRuns(t.aligned, ExpertsOf(s), Shards) \in Nat
        /\ SumRuns(t.run_rows, ExpertsOf(s), Shards) \in Nat
        /\ SumRuns(t.aligned, ExpertsOf(s), Shards)
             =< SumRuns(t.run_rows, ExpertsOf(s), Shards) + pad
    <3> HIDE DEF pad
    <3>1. /\ SumRuns(t.aligned, ExpertsOf(s), Shards)
             =< SumRuns(t.run_rows, ExpertsOf(s), Shards)
                  + (RowBlk - 1) * (Cardinality(ExpertsOf(s)) * Cardinality(Shards))
          /\ SumRuns(t.aligned, ExpertsOf(s), Shards) \in Nat
          /\ SumRuns(t.run_rows, ExpertsOf(s), Shards) \in Nat
      BY <1>2, <2>1, PaddedRuns
    <3> QED BY <1>1, <2>2, <3>1
  <2>4. SumRuns(t.run_rows, ExpertsOf(s), Shards) =< NumPairs
    BY <2>1, RowsBounded
  <2> HIDE DEF pad
  <2> QED BY <1>1, <2>3, <2>4, SizesAre
<1>4. SumRuns(t.aligned, Experts, {s}) \in Nat
      /\ SumRuns(t.aligned, Experts, {s}) =< Share + pad
  <2>1. Experts \in SUBSET Experts /\ {s} \in SUBSET Shards
    OBVIOUS
  <2>2. Cardinality(Experts) = EP * GLocal /\ Cardinality({s}) = 1
    <3> DEFINE b == EP * GLocal - 1
    <3>1. b \in Int /\ b - 0 + 1 = EP * GLocal /\ (0 > b => EP * GLocal = 0)
      <4>1. EP * GLocal \in Nat
        BY SizesAre
      <4> DEFINE n == EP * GLocal
      <4> HIDE DEF n
      <4>2. n \in Nat => n - 1 \in Int /\ n - 1 - 0 + 1 = n /\ (0 > n - 1 => n = 0)
        OBVIOUS
      <4> QED BY <4>1, <4>2 DEF n
    <3> HIDE DEF b
    <3>2. Cardinality(0..b) = EP * GLocal
      BY <3>1, FS_Interval
    <3> QED BY <3>2, FS_Singleton DEF Experts, b
  <2>3. /\ SumRuns(t.aligned, Experts, {s}) \in Nat
        /\ SumRuns(t.run_rows, Experts, {s}) \in Nat
        /\ SumRuns(t.aligned, Experts, {s})
             =< SumRuns(t.run_rows, Experts, {s}) + (RowBlk - 1) * (EP * GLocal * 1)
    BY <1>2, <2>1, <2>2, PaddedRuns
  <2>4. SumRuns(t.run_rows, Experts, {s}) =< Share
    BY RowsBounded
  <2>5. (RowBlk - 1) * (EP * GLocal * 1) = pad
    <3>1. RowBlk - 1 \in Nat /\ EP \in Nat /\ GLocal \in Nat
      BY SizesAre
    <3> QED BY <3>1
  <2> HIDE DEF pad
  <2> QED BY <1>1, <2>3, <2>4, <2>5, SizesAre
<1>5. /\ Stride = AlignUp(NumPairs + pad + TileM, TileM)
      /\ RecvRows = AlignUp(Share + pad, RowBlk)
  BY DEF Stride, RecvRows, Share
<1> HIDE DEF pad
<1>6. NumPairs + pad + TileM \in Nat /\ Share + pad \in Nat
  BY <1>1, SizesAre
<1>7. Stride \in Nat /\ Stride >= NumPairs + pad + TileM
  BY <1>5, <1>6, SizesAre, AlignUpIs
<1>8. RecvRows \in Nat /\ RecvRows >= Share + pad
  BY <1>5, <1>6, SizesAre, AlignUpIs
<1> QED BY <1>1, <1>3, <1>4, <1>7, <1>8, SizesAre

\* The slab of a shard holds its experts one after the other, and a tile more.
SlabsLaid(t) ==
  \A e \in Experts :
    /\ t.expert_rows[e] \in Nat /\ SlabBase(t, e) \in Nat
    /\ SlabBase(t, e) + t.expert_rows[e] + TileM =< Stride
    /\ t.expert_base[e] = ShardOf(e) * Stride + SlabBase(t, e)
    /\ \A f \in Experts :
         ShardOf(f) = ShardOf(e) /\ e < f => SlabBase(t, e) + t.expert_rows[e] =< SlabBase(t, f)

LEMMA SlabsLie ==
  ASSUME NEW r, NEW t, t = TablesFor(r)
  PROVE  SlabsLaid(t)
<1> SUFFICES ASSUME NEW e \in Experts
             PROVE  /\ t.expert_rows[e] \in Nat /\ SlabBase(t, e) \in Nat
                    /\ SlabBase(t, e) + t.expert_rows[e] + TileM =< Stride
                    /\ t.expert_base[e] = ShardOf(e) * Stride + SlabBase(t, e)
                    /\ \A f \in Experts : ShardOf(f) = ShardOf(e) /\ e < f =>
                         SlabBase(t, e) + t.expert_rows[e] =< SlabBase(t, f)
  BY DEF SlabsLaid
<1> DEFINE s == ShardOf(e)
           S == ExpertsOf(s)
           g == t.expert_rows
<1>1. /\ s \in Shards /\ e \in S /\ IsFiniteSet(S) /\ S \in SUBSET Experts
      /\ \A f \in S : ShardOf(f) = s
      /\ \A f \in Experts : ShardOf(f) = s => f \in S
  BY ExpertFacts DEF ExpertsOf
<1>2. /\ S \subseteq Int /\ GLocal * s \in S /\ (\A f \in S : GLocal * s =< f)
  BY <1>1, ExpertsOfIs
<1>3. 0 \in Shards
  BY SizesAre DEF Shards
<1>4. \A f \in Experts :
        /\ g[f] = SumOf(t.aligned[f], Shards)
        /\ t.expert_base[f] = ShardOf(f) * Stride + Below(g, ExpertsOf(ShardOf(f)), f)
  <2> SUFFICES ASSUME NEW f \in Experts
               PROVE  /\ g[f] = SumOf(t.aligned[f], Shards)
                      /\ t.expert_base[f] = ShardOf(f) * Stride + Below(g, ExpertsOf(ShardOf(f)), f)
    OBVIOUS
  <2>1. FieldsOf(r, t, f, 0)
    BY <1>3, Fields
  <2> QED BY <2>1 DEF FieldsOf
<1>5. \A f \in S : g[f] \in Nat
  BY <1>1, <1>3, RunsLie DEF RunsLaid
<1> HIDE DEF s, S, g
<1>6. /\ Below(g, S, e) \in Nat /\ SumOf(g, S) \in Nat /\ Below(g, S, e) + g[e] =< SumOf(g, S)
      /\ \A f \in S : e < f => Below(g, S, e) + g[e] =< Below(g, S, f)
  BY <1>1, <1>2, <1>5, Stacked
<1>7. Below(g, S, GLocal * s) = 0
  <2>1. {y \in S : y < GLocal * s} = {}
    <3> DEFINE a == GLocal * s
    <3>1. a \in Int /\ \A y \in S : y \in Int /\ a =< y
      BY <1>2
    <3> HIDE DEF a
    <3>2. \A y \in S : ~(y < a)
      BY <3>1
    <3> QED BY <3>2 DEF a
  <2>2. SumOf(g, {}) = 0
    BY <1>1, <1>5, Sums
  <2> QED BY <2>1, <2>2 DEF Below
<1>8. ASSUME NEW f \in S PROVE SlabBase(t, f) = Below(g, S, f)
                            /\ t.expert_base[f] = s * Stride + Below(g, S, f)
  <2>1. ShardOf(f) = s /\ f \in Experts /\ ShardOf(GLocal * s) = s /\ GLocal * s \in Experts
    BY <1>1, <1>2, <1>8
  <2>2. /\ t.expert_base[f] = s * Stride + Below(g, S, f)
        /\ t.expert_base[GLocal * s] = s * Stride + Below(g, S, GLocal * s)
    BY <1>4, <2>1 DEF S
  <2>3. s * GLocal = GLocal * s /\ s * Stride \in Int
    <3>1. s \in Int /\ Stride \in Int /\ GLocal \in Int
      <4>1. Stride \in Nat
        BY <1>1, TotalsBounded
      <4> QED BY <1>1, <4>1, SizesAre DEF Shards
    <3> QED BY <3>1
  <2>4. Below(g, S, f) \in Nat
    BY <1>1, <1>2, <1>5, <1>8, Stacked
  <2>5. SlabBase(t, f) = t.expert_base[f] - t.expert_base[GLocal * s]
    BY <2>1, <2>3 DEF SlabBase
  <2> QED BY <1>7, <2>2, <2>3, <2>4, <2>5
<1>9. SumOf(g, S) = SumRuns(t.aligned, S, Shards)
  <2>1. SumRuns(t.aligned, S, Shards) = SumOf([f \in S |-> SumOf(t.aligned[f], Shards)], S)
    BY <1>1, SumRunsIs
  <2>2. \A f \in S : g[f] = [x \in S |-> SumOf(t.aligned[x], Shards)][f]
    BY <1>1, <1>4
  <2>3. SumOf(g, S) = SumOf([f \in S |-> SumOf(t.aligned[f], Shards)], S)
    BY <1>1, <2>2, SameSums
  <2> QED BY <2>1, <2>3
<1>10. SumOf(g, S) + TileM =< Stride /\ Stride \in Nat
  BY <1>1, <1>9, TotalsBounded DEF S
<1>11. SlabBase(t, e) = Below(g, S, e) /\ t.expert_base[e] = s * Stride + Below(g, S, e)
  BY <1>1, <1>8
<1>12. g[e] \in Nat
  BY <1>1, <1>5
<1>13. SlabBase(t, e) + g[e] + TileM =< Stride
  BY <1>6, <1>10, <1>11, <1>12, SizesAre
<1>14. ASSUME NEW f \in Experts, ShardOf(f) = s, e < f PROVE SlabBase(t, e) + g[e] =< SlabBase(t, f)
  BY <1>1, <1>6, <1>8, <1>11, <1>14
<1> QED BY <1>6, <1>11, <1>12, <1>13, <1>14 DEF s, g

\* What arrives at a shard lies one expert's run after the other.
ArrivalsLaid(t) ==
  \A e \in Experts, d \in Shards :
    /\ t.recv_base[d][e] \in Nat
    /\ t.recv_base[d][e] + t.aligned[e][d] =< RecvRows
    /\ \A f \in Experts :
         e < f => t.recv_base[d][e] + t.aligned[e][d] =< t.recv_base[d][f]

\* The runs of experts to one shard add up to a column of the tables.
LEMMA SumColumn ==
  ASSUME NEW t, RunsPadded(t), NEW E \in SUBSET Experts, NEW d \in Shards
  PROVE  SumRuns(t.aligned, E, {d}) = SumOf(Column(t, d), E)
<1>1. IsFiniteSet(E) /\ IsFiniteSet({d})
  BY ExpertFacts, FS_Subset, FS_Singleton
<1>2. SumRuns(t.aligned, E, {d}) = SumOf([e \in E |-> SumOf(t.aligned[e], {d})], E)
  BY <1>1, SumRunsIs
<1>3. ASSUME NEW e \in E PROVE SumOf(t.aligned[e], {d}) = t.aligned[e][d]
  <2> DEFINE f == t.aligned[e]
             D == {d}
  <2>1. d \in D /\ IsFiniteSet(D) /\ (\A c \in D : f[c] \in Nat) /\ D \ {d} = {}
    BY <1>1 DEF RunsPadded
  <2> HIDE DEF f, D
  <2>2. SumOf(f, {}) = 0 /\ \A c \in D : SumOf(f, D) = f[c] + SumOf(f, D \ {c})
    BY <2>1, Sums
  <2>3. SumOf(f, D) = f[d] + 0 /\ f[d] \in Nat
    BY <2>1, <2>2
  <2>4. SumOf(f, D) = f[d]
    BY <2>3
  <2> QED BY <2>4 DEF f, D
<1>4. \A e \in E : [x \in E |-> SumOf(t.aligned[x], {d})][e] = Column(t, d)[e]
  BY <1>3 DEF Column
<1>5. SumOf([e \in E |-> SumOf(t.aligned[e], {d})], E) = SumOf(Column(t, d), E)
  BY <1>1, <1>4, SameSums
<1> QED BY <1>2, <1>5

LEMMA ArrivalsLie ==
  ASSUME NEW r, NEW t, t = TablesFor(r)
  PROVE  ArrivalsLaid(t)
<1> SUFFICES ASSUME NEW e \in Experts, NEW d \in Shards
             PROVE  /\ t.recv_base[d][e] \in Nat
                    /\ t.recv_base[d][e] + t.aligned[e][d] =< RecvRows
                    /\ \A f \in Experts :
                         e < f => t.recv_base[d][e] + t.aligned[e][d] =< t.recv_base[d][f]
  BY DEF ArrivalsLaid
<1> DEFINE g == Column(t, d)
<1>1. RunsPadded(t)
  BY PaddedAre
<1>2. IsFiniteSet(Experts) /\ Experts \subseteq Int /\ (\A f \in Experts : g[f] \in Nat)
      /\ g[e] = t.aligned[e][d]
  <2>1. Experts \subseteq Int
    BY ExpertFacts
  <2> QED BY <1>1, <2>1, ExpertFacts DEF Column, RunsPadded
<1>3. \A f \in Experts : t.recv_base[d][f] = Below(g, Experts, f)
  <2> SUFFICES ASSUME NEW f \in Experts PROVE t.recv_base[d][f] = Below(g, Experts, f)
    OBVIOUS
  <2>1. FieldsOf(r, t, f, d)
    BY Fields
  <2> QED BY <2>1 DEF FieldsOf
<1>4. SumOf(g, Experts) =< RecvRows /\ RecvRows \in Nat
  <2>1. Experts \in SUBSET Experts
    OBVIOUS
  <2>2. SumRuns(t.aligned, Experts, {d}) = SumOf(g, Experts)
    BY <1>1, <2>1, SumColumn
  <2>3. SumRuns(t.aligned, Experts, {d}) =< RecvRows /\ RecvRows \in Nat
    BY TotalsBounded
  <2> QED BY <2>2, <2>3
<1> HIDE DEF g
<1>5. /\ Below(g, Experts, e) \in Nat /\ SumOf(g, Experts) \in Nat
      /\ Below(g, Experts, e) + g[e] =< SumOf(g, Experts)
      /\ \A f \in Experts : e < f => Below(g, Experts, e) + g[e] =< Below(g, Experts, f)
  BY <1>2, Stacked
<1>6. g[e] \in Nat
  BY <1>2
<1>7. Below(g, Experts, e) + g[e] =< RecvRows
  BY <1>4, <1>5, <1>6
<1> QED BY <1>2, <1>3, <1>5, <1>7

\* Contributions lie one destination after the other, and for each one expert
\* of the shard after the other.
ContribsLaid(t) ==
  \A e \in Experts, d \in Shards :
    /\ ContribOff(t, e, d) \in Nat
    /\ ContribOff(t, e, d) + t.aligned[e][d] =< Stride
    /\ \A f \in Experts, c \in Shards :
         ShardOf(f) = ShardOf(e) /\ (d < c \/ (d = c /\ e < f)) =>
           ContribOff(t, e, d) + t.aligned[e][d] =< ContribOff(t, f, c)

\* What lies before the destination d, and before the one after it.
LEMMA Earlier ==
  ASSUME NEW t, RunsPadded(t), NEW E \in SUBSET Experts, NEW d \in Shards
  PROVE  /\ SumRuns(t.aligned, E, 0..d - 1) \in Nat /\ SumOf(Column(t, d), E) \in Nat
         /\ SumRuns(t.aligned, E, 0..d - 1) + SumOf(Column(t, d), E)
              =< SumRuns(t.aligned, E, Shards)
         /\ \A c \in Shards : d < c =>
              SumRuns(t.aligned, E, 0..d - 1) + SumOf(Column(t, d), E)
                =< SumRuns(t.aligned, E, 0..c - 1)
<1> DEFINE f == Cells(t.aligned)
           X(D) == Grid(E, D)
           D0 == 0..d - 1
           T == D0 \cup {d}
<1>1. \A e \in Experts : \A c \in Shards : t.aligned[e][c] \in Nat
  BY DEF RunsPadded
<1>2. /\ D0 \in SUBSET Shards /\ {d} \in SUBSET Shards /\ T \in SUBSET Shards
      /\ d \notin D0 /\ \A c \in Shards : 0..c - 1 \in SUBSET Shards
      /\ \A c \in Shards : d < c => T \in SUBSET (0..c - 1)
  BY SizesAre DEF Shards
<1>3. ASSUME NEW D \in SUBSET Shards
      PROVE  /\ IsFiniteSet(X(D)) /\ SumRuns(t.aligned, E, D) = SumOf(f, X(D))
             /\ SumOf(f, X(D)) \in Nat /\ \A x \in X(D) : f[x] \in Nat
  <2>1. /\ IsFiniteSet(X(D)) /\ SumRuns(t.aligned, E, D) = SumOf(f, X(D))
        /\ SumRuns(t.aligned, E, D) \in Nat /\ \A x \in X(D) : f[x] \in Nat
    BY <1>1, <1>3, CellsAre
  <2> QED BY <2>1
<1>4. \A D, C : C \in SUBSET D => X(C) \in SUBSET X(D)
  BY DEF Grid
<1>5. X(T) \ X(D0) = X({d})
  BY <1>2 DEF Grid
<1>6. SumRuns(t.aligned, E, {d}) = SumOf(Column(t, d), E)
  BY SumColumn
<1> HIDE DEF f, X, D0, T
<1>7. ASSUME NEW D \in SUBSET Shards, NEW C \in SUBSET D
      PROVE  /\ SumOf(f, X(D)) = SumOf(f, X(C)) + SumOf(f, X(D) \ X(C))
             /\ SumOf(f, X(C)) =< SumOf(f, X(D))
  <2>1. IsFiniteSet(X(D)) /\ (\A x \in X(D) : f[x] \in Nat) /\ X(C) \in SUBSET X(D)
    BY <1>3, <1>4, <1>7
  <2>2. /\ \A Y \in SUBSET X(D) : SumOf(f, X(D)) = SumOf(f, Y) + SumOf(f, X(D) \ Y)
        /\ \A Y \in SUBSET X(D) : SumOf(f, Y) =< SumOf(f, X(D))
    BY <2>1, Sums
  <2> QED BY <2>1, <2>2
<1>8. SumOf(f, X(T)) = SumOf(f, X(D0)) + SumOf(f, X({d}))
  <2>1. T \in SUBSET Shards /\ D0 \in SUBSET T
    BY <1>2 DEF T
  <2>2. SumOf(f, X(T)) = SumOf(f, X(D0)) + SumOf(f, X(T) \ X(D0))
    BY <1>7, <2>1
  <2> QED BY <1>5, <2>2
<1>9. /\ SumOf(f, X({d})) = SumOf(Column(t, d), E)
      /\ SumOf(f, X(D0)) = SumRuns(t.aligned, E, D0)
      /\ SumOf(f, X({d})) \in Nat /\ SumOf(f, X(D0)) \in Nat
  BY <1>2, <1>3, <1>6
<1>10. SumOf(f, X(T)) =< SumRuns(t.aligned, E, Shards)
  <2>1. Shards \in SUBSET Shards /\ T \in SUBSET Shards
    BY <1>2
  <2>2. SumOf(f, X(T)) =< SumOf(f, X(Shards))
    BY <1>7, <2>1
  <2> QED BY <1>3, <2>1, <2>2
<1>11. ASSUME NEW c \in Shards, d < c
       PROVE  SumOf(f, X(T)) =< SumRuns(t.aligned, E, 0..c - 1)
  <2> DEFINE C == 0..c - 1
  <2>1. C \in SUBSET Shards /\ T \in SUBSET C
    BY <1>2, <1>11
  <2> HIDE DEF C
  <2>2. SumOf(f, X(T)) =< SumOf(f, X(C))
    BY <1>7, <2>1
  <2>3. SumOf(f, X(T)) =< SumRuns(t.aligned, E, C)
    BY <1>3, <2>1, <2>2
  <2> QED BY <2>3 DEF C
<1>12. SumRuns(t.aligned, E, D0) + SumOf(Column(t, d), E) = SumOf(f, X(T))
  BY <1>8, <1>9
<1> QED BY <1>9, <1>10, <1>11, <1>12 DEF D0

LEMMA ContribsLie ==
  ASSUME NEW r, NEW t, t = TablesFor(r)
  PROVE  ContribsLaid(t)
<1> SUFFICES ASSUME NEW e \in Experts, NEW d \in Shards
             PROVE  /\ ContribOff(t, e, d) \in Nat
                    /\ ContribOff(t, e, d) + t.aligned[e][d] =< Stride
                    /\ \A f \in Experts, c \in Shards :
                         ShardOf(f) = ShardOf(e) /\ (d < c \/ (d = c /\ e < f)) =>
                           ContribOff(t, e, d) + t.aligned[e][d] =< ContribOff(t, f, c)
  BY DEF ContribsLaid
<1> DEFINE s == ShardOf(e)
           S == ExpertsOf(s)
           g(c) == Column(t, c)
           before(c) == SumRuns(t.aligned, S, 0..c - 1)
<1>1. RunsPadded(t)
  BY PaddedAre
<1>2. /\ s \in Shards /\ e \in S /\ IsFiniteSet(S) /\ S \in SUBSET Experts
      /\ \A f \in Experts : ShardOf(f) = s => f \in S
  BY ExpertFacts DEF ExpertsOf
<1>3. S \subseteq Int
  BY <1>2, ExpertsOfIs
<1>4. \A c \in Shards : \A f \in S : g(c)[f] \in Nat /\ g(c)[f] = t.aligned[f][c]
  BY <1>1, <1>2 DEF Column, RunsPadded
<1>5. \A f \in Experts, c \in Shards : ShardOf(f) = s =>
        ContribOff(t, f, c) = before(c) + Below(g(c), S, f)
  BY DEF ContribOff, Below, Column
<1>6. ASSUME NEW c \in Shards, NEW f \in S
      PROVE  /\ Below(g(c), S, f) \in Nat /\ SumOf(g(c), S) \in Nat
             /\ Below(g(c), S, f) + t.aligned[f][c] =< SumOf(g(c), S)
             /\ \A h \in S : f < h => Below(g(c), S, f) + t.aligned[f][c] =< Below(g(c), S, h)
  <2> DEFINE k == g(c)
  <2>1. (\A x \in S : k[x] \in Nat) /\ k[f] = t.aligned[f][c]
    BY <1>4, <1>6
  <2> HIDE DEF k, S
  <2>2. /\ Below(k, S, f) \in Nat /\ SumOf(k, S) \in Nat
        /\ Below(k, S, f) + k[f] =< SumOf(k, S)
        /\ \A h \in S : f < h => Below(k, S, f) + k[f] =< Below(k, S, h)
    BY <1>2, <1>3, <1>6, <2>1, Stacked
  <2> QED BY <2>1, <2>2 DEF k
<1>7. \A c \in Shards :
        /\ before(c) \in Nat
        /\ before(c) + SumOf(g(c), S) =< SumRuns(t.aligned, S, Shards)
        /\ \A b \in Shards : c < b => before(c) + SumOf(g(c), S) =< before(b)
  <2> SUFFICES ASSUME NEW c \in Shards
               PROVE  /\ before(c) \in Nat
                      /\ before(c) + SumOf(g(c), S) =< SumRuns(t.aligned, S, Shards)
                      /\ \A b \in Shards : c < b => before(c) + SumOf(g(c), S) =< before(b)
    OBVIOUS
  <2> HIDE DEF S
  <2> QED BY <1>1, <1>2, Earlier
<1>8. SumRuns(t.aligned, S, Shards) + TileM =< Stride /\ SumRuns(t.aligned, S, Shards) \in Nat
      /\ Stride \in Nat
  BY <1>2, TotalsBounded
<1>9. t.aligned[e][d] \in Nat
  BY <1>1 DEF RunsPadded
<1> HIDE DEF s, S, g, before
<1>10. ContribOff(t, e, d) = before(d) + Below(g(d), S, e)
  BY <1>5 DEF s
<1>11. ContribOff(t, e, d) \in Nat /\ ContribOff(t, e, d) + t.aligned[e][d] =< Stride
       /\ ContribOff(t, e, d) + t.aligned[e][d] =< before(d) + SumOf(g(d), S)
  <2>1. /\ Below(g(d), S, e) \in Nat /\ SumOf(g(d), S) \in Nat
        /\ Below(g(d), S, e) + t.aligned[e][d] =< SumOf(g(d), S)
    BY <1>2, <1>6
  <2>2. before(d) \in Nat /\ before(d) + SumOf(g(d), S) =< SumRuns(t.aligned, S, Shards)
    BY <1>7
  <2> QED BY <1>8, <1>9, <1>10, <2>1, <2>2, SizesAre
<1>12. ASSUME NEW f \in Experts, NEW c \in Shards, ShardOf(f) = ShardOf(e),
              d < c \/ (d = c /\ e < f)
       PROVE  ContribOff(t, e, d) + t.aligned[e][d] =< ContribOff(t, f, c)
  <2>1. f \in S /\ ContribOff(t, f, c) = before(c) + Below(g(c), S, f)
    BY <1>2, <1>5, <1>12 DEF s
  <2>2. Below(g(c), S, f) \in Nat /\ before(c) \in Nat /\ before(d) \in Nat
    BY <1>6, <1>7, <2>1
  <2>3. CASE d < c
    <3>1. before(d) + SumOf(g(d), S) =< before(c) /\ SumOf(g(d), S) \in Nat
      BY <1>2, <1>6, <1>7, <2>3
    <3> QED BY <1>9, <1>11, <2>1, <2>2, <3>1
  <2>4. CASE d = c /\ e < f
    <3>1. Below(g(d), S, e) + t.aligned[e][d] =< Below(g(d), S, f) /\ Below(g(d), S, e) \in Nat
      BY <1>2, <1>6, <2>1, <2>4
    <3> QED BY <1>9, <1>10, <2>1, <2>2, <2>4, <3>1
  <2> QED BY <1>12, <2>3, <2>4
<1> QED BY <1>11, <1>12

\* Without padding the runs of an expert start at the pairs before them.
LEMMA RunStartIs ==
  ASSUME NEW r, NEW t, t = TablesFor(r), NEW e \in Experts, NEW d \in Shards
  PROVE  /\ ExclusiveSums(t.run_rows[e])[d] = Hist(r, 0..FirstPair(d) - 1, e)
         /\ ExclusiveSums(t.run_rows[e])[d] = Below(t.run_rows[e], Shards, d)
<1> DEFINE f == t.run_rows[e]
           X == {c \in Shards : c < d}
           F == [c \in Shards |-> Selecting(r, PairsOf(c), e)]
           b == FirstPair(d)
<1>1. f = [c \in Shards |-> Hist(r, PairsOf(c), e)]
  <2>1. FieldsOf(r, t, e, d)
    BY Fields
  <2> QED BY <2>1 DEF FieldsOf
<1>2. ExclusiveSums(f)[d] = SumOf(f, X)
  BY <1>1 DEF ExclusiveSums
<1>3. IsFiniteSet(X) /\ X \in SUBSET Shards
  BY ExpertFacts, FS_Subset
<1>4. ASSUME NEW c \in X PROVE IsFiniteSet(F[c]) /\ f[c] = Cardinality(F[c])
  <2>1. c \in Shards
    BY <1>3, <1>4
  <2>2. IsFiniteSet(Selecting(r, PairsOf(c), e))
        /\ Hist(r, PairsOf(c), e) = Cardinality(Selecting(r, PairsOf(c), e))
    BY <2>1, SelectingIs
  <2> QED BY <1>1, <2>1, <2>2
<1>5. \A x \in X : \A y \in X : x # y => F[x] \cap F[y] = {}
  BY DEF Selecting, PairsOf
<1>6. Joined(F, X) = Selecting(r, 0..b - 1, e)
  <2>0. d \in Int /\ b \in Int /\ b = Share * d /\ b =< NumPairs
    <3>1. d \in Int
      BY SizesAre DEF Shards
    <3>2. FirstPair(d + 1) = FirstPair(d) + Share /\ FirstPair(d + 1) =< NumPairs
      BY PairsOfIs
    <3> QED BY <3>1, <3>2, FirstPairIs, SizesAre
  <2>1. ASSUME NEW p \in Pairs PROVE Owner(p) < d <=> p < b
    <3> DEFINE c == Owner(p)
    <3>1. p \in Nat /\ c \in Shards /\ p \in PairsOf(c)
      BY OwnerIs
    <3> HIDE DEF c
    <3>2. c \in Int /\ Share * c =< p /\ p < Share * c + Share /\ Share * c \in Int
      <4>1. /\ FirstPair(c) \in Nat /\ PairsOf(c) = FirstPair(c)..FirstPair(c + 1) - 1
            /\ FirstPair(c + 1) = FirstPair(c) + Share
        BY <3>1, PairsOfIs
      <4>2. c \in Int
        BY <3>1, SizesAre DEF Shards
      <4>3. FirstPair(c) = Share * c
        BY <4>2, FirstPairIs
      <4> QED BY <3>1, <4>1, <4>2, <4>3, SizesAre
    <3>3. c < d => Share * c + Share =< Share * d
      BY <2>0, <3>2, SizesAre, Multiples
    <3>4. d =< c => d = c \/ Share * d + Share =< Share * c
      BY <2>0, <3>2, SizesAre, Multiples
    <3>5. c < d <=> p < b
      BY <2>0, <3>1, <3>2, <3>3, <3>4, SizesAre
    <3> QED BY <3>5 DEF c
  <2>2. \A p \in 0..b - 1 : p \in Pairs /\ p < b
    BY <2>0, SizesAre DEF Pairs
  <2>3. \A p \in Pairs : p < b => p \in 0..b - 1
    BY <2>0, SizesAre DEF Pairs
  <2>4. \A p \in Pairs : Owner(p) \in Shards
    BY OwnerIs
  <2>5. ASSUME NEW p PROVE p \in 0..b - 1 <=> \E c \in X : p \in PairsOf(c)
    <3>1. p \in 0..b - 1 => p \in Pairs /\ Owner(p) \in X
      BY <2>1, <2>2, <2>4
    <3>2. \A c \in X : p \in PairsOf(c) => p \in Pairs /\ Owner(p) < d
      BY DEF PairsOf
    <3> HIDE DEF X, b
    <3>3. p \in Pairs => p \in PairsOf(Owner(p))
      BY OwnerIs
    <3> QED BY <2>1, <2>3, <3>1, <3>2, <3>3
  <2> HIDE DEF b
  <2> QED BY <1>3, <2>5 DEF Selecting, Joined
<1>7. b \in Int /\ 0 \in Int
  BY PairsOfIs
<1> HIDE DEF f, X, F, b
<1>8. SumOf(f, X) = Cardinality(Selecting(r, 0..b - 1, e))
  <2>1. /\ \A x \in X : IsFiniteSet(F[x])
        /\ \A x \in X : f[x] = Cardinality(F[x])
    BY <1>4
  <2>2. SumOf(f, X) = Cardinality(Joined(F, X))
    BY ONLY <1>3, <1>5, <2>1, DisjointSets
  <2> QED BY <1>6, <2>2
<1>9. Hist(r, 0..b - 1, e) = Cardinality(Selecting(r, 0..b - 1, e))
  <2> DEFINE a == 0
  <2>1. a \in Int
    OBVIOUS
  <2> HIDE DEF a
  <2>2. Hist(r, a..b - 1, e) = Cardinality(Selecting(r, a..b - 1, e))
    BY <1>7, <2>1, HistFinite
  <2> QED BY <2>2 DEF a
<1>10. SumOf(f, X) = Below(f, Shards, d)
  BY DEF X, Below
<1> QED BY <1>2, <1>8, <1>9, <1>10 DEF f, b

\* Padding shifts a run by less than what the packed word has room for.
LEMMA ShiftFits ==
  ASSUME NEW r, NEW t, t = TablesFor(r), NEW e \in Experts, NEW d \in Shards
  PROVE  /\ ExclusiveSums(t.run_rows[e])[d] \in Nat
         /\ t.start_aligned[e][d] - ExclusiveSums(t.run_rows[e])[d] \in 0..SlotField - 1
<1> DEFINE f == t.aligned[e]
           g == t.run_rows[e]
           X == {c \in Shards : c < d}
           k == RowBlk - 1
<1>1. ExclusiveSums(g)[d] = SumOf(g, X) /\ t.start_aligned[e][d] = SumOf(f, X)
  <2>1. FieldsOf(r, t, e, d)
    BY Fields
  <2>2. ExclusiveSums(g)[d] = Below(g, Shards, d)
    BY RunStartIs
  <2> QED BY <2>1, <2>2 DEF FieldsOf, Below
<1>2. IsFiniteSet(X) /\ X \in SUBSET Shards
  BY ExpertFacts, FS_Subset
<1>3. \A c \in X : /\ f[c] \in Nat /\ g[c] \in Nat /\ f[c] =< g[c] + k /\ g[c] =< f[c] + 0
  <2> SUFFICES ASSUME NEW c \in Shards
               PROVE  f[c] \in Nat /\ g[c] \in Nat /\ f[c] =< g[c] + k /\ g[c] =< f[c] + 0
    OBVIOUS
  <2>1. /\ f[c] \in Nat /\ g[c] \in Nat /\ g[c] =< f[c] /\ f[c] =< g[c] + RowBlk - 1
    BY PaddedAre DEF RunsPadded
  <2> HIDE DEF f, g
  <2> QED BY <2>1, SizesAre
<1>4. k \in Nat /\ 0 \in Nat
  BY SizesAre
<1>5. Cardinality(X) =< EP - 1
  <2> DEFINE b == d - 1
  <2>1. d \in Nat /\ d < EP /\ b \in Int /\ 0 \in Int /\ X = 0..b /\ b - 0 + 1 = d
        /\ (0 > b => d = 0)
    BY SizesAre DEF Shards
  <2> HIDE DEF b, X
  <2>2. Cardinality(X) = d
    BY <2>1, FS_Interval
  <2> QED BY <2>1, <2>2, SizesAre
<1> HIDE DEF f, g, X, k
<1>6. /\ SumOf(f, X) \in Nat /\ SumOf(g, X) \in Nat /\ Cardinality(X) \in Nat
      /\ SumOf(f, X) =< SumOf(g, X) + k * Cardinality(X)
  BY <1>2, <1>3, <1>4, PaddedSum
<1>7. SumOf(g, X) =< SumOf(f, X) + 0 * Cardinality(X)
  <2>1. \A c \in X : g[c] \in Nat /\ f[c] \in Nat /\ g[c] =< f[c] + 0
    BY <1>3
  <2> QED BY ONLY <1>2, <1>4, <2>1, PaddedSum
<1>8. k * Cardinality(X) =< k * (EP - 1) /\ k * (EP - 1) < SlotField /\ k * (EP - 1) \in Int
  <2> DEFINE n == Cardinality(X)
             m == EP - 1
  <2>1. n \in Nat /\ m \in Nat /\ n =< m
    BY <1>5, <1>6, SizesAre
  <2> HIDE DEF n, m
  <2>2. k * (m - n) >= 0 /\ k * (m - n) = k * m - k * n /\ k * m \in Int /\ k * n \in Int
    BY <1>4, <2>1
  <2>3. k * n =< k * m
    BY <2>2
  <2>4. (RowBlk - 1) * (EP - 1) < SlotField
    BY PlanArguments
  <2> QED BY <2>2, <2>3, <2>4 DEF n, m, k
<1> DEFINE x == SumOf(f, X)
           y == SumOf(g, X)
           z == k * Cardinality(X)
           w == k * (EP - 1)
<1>9. /\ x \in Nat /\ y \in Nat /\ z \in Int /\ w \in Int /\ x =< y + z /\ z =< w
      /\ w < SlotField /\ y =< x
  BY <1>4, <1>6, <1>7, <1>8
<1> HIDE DEF x, y, z, w
<1>10. y \in Nat /\ x - y \in 0..SlotField - 1
  BY <1>9, SizesAre
<1> QED BY <1>1, <1>10 DEF x, y, g

\* expert_visit_list visits the experts of a shard that have rows.
LEMMA VisitedAre ==
  ASSUME NEW t, \A e \in Experts : t.expert_rows[e] \in Nat, NEW s \in Shards
  PROVE  Visited(t, s) = {e \in ExpertsOf(s) : t.expert_rows[e] > 0}
<1> DEFINE S == ExpertsOf(s)
           P == {e \in S : t.expert_rows[e] > 0}
           N == NumVisits(t, s)
           Key(e) == VisitKey(t, e)
           Rk(e) == VisitRank(t, e)
           B(e) == {f \in S : Key(f) < Key(e)}
<1>1. IsFiniteSet(S) /\ S \in SUBSET Experts /\ \A e \in S : e \in Nat /\ ShardOf(e) = s
  BY ExpertFacts
<1>2. \A e \in S : e = GLocal * s + (e % GLocal) /\ e % GLocal \in 0..GLocal - 1
  BY ExpertsOfIs
<1>3. IsFiniteSet(P) /\ Cardinality(P) = N /\ N \in Nat
  BY <1>1, FS_Subset, FS_CardinalityType DEF NumVisits
<1>4. ASSUME NEW e \in S
      PROVE  /\ Key(e) \in Int
             /\ t.expert_rows[e] \in Nat
             /\ t.expert_rows[e] > 0 <=> Key(e) < 0
  <2> DEFINE m == e % GLocal
             n == t.expert_rows[e]
  <2>1. m \in 0..GLocal - 1 /\ n \in Nat /\ Key(e) = m - n * GLocal
    BY <1>1, <1>2, <1>4 DEF VisitKey
  <2> HIDE DEF m, n, Key
  <2>2. n * GLocal \in Int /\ (n = 0 => n * GLocal = 0)
    BY <2>1, SizesAre
  <2>3. n > 0 => n * GLocal >= GLocal
    <3>1. n > 0 => (n - 1) * GLocal >= 0 /\ (n - 1) * GLocal = n * GLocal - GLocal
      BY <2>1, SizesAre
    <3> QED BY <2>1, <2>2, <3>1, SizesAre
  <2> QED BY <2>1, <2>2, <2>3, SizesAre DEF n
<1>5. ASSUME NEW e \in S, NEW f \in S, Key(e) = Key(f) PROVE e = f
  <2> DEFINE a == e % GLocal
             b == f % GLocal
             m == t.expert_rows[e]
             n == t.expert_rows[f]
  <2>1. /\ a \in 0..GLocal - 1 /\ m \in Nat /\ Key(e) = a - m * GLocal
        /\ b \in 0..GLocal - 1 /\ n \in Nat /\ Key(f) = b - n * GLocal
    BY <1>1, <1>2, <1>5 DEF VisitKey
  <2>3. a - m * GLocal = b - n * GLocal
    BY <1>5, <2>1
  <2> HIDE DEF a, b, m, n, Key
  <2>2. a = b
    <3>1. a \in 0..GLocal - 1 /\ b \in 0..GLocal - 1 /\ m \in Int /\ n \in Int
      BY <2>1
    <3> QED BY <2>3, <3>1, SizesAre, KeysDiffer
  <2> QED BY <1>2, <2>2 DEF a, b
<1>6. \A e \in S : Rk(e) = Cardinality(B(e)) /\ IsFiniteSet(B(e)) /\ Rk(e) \in Nat
  <2> SUFFICES ASSUME NEW e \in S
               PROVE  Rk(e) = Cardinality(B(e)) /\ IsFiniteSet(B(e)) /\ Rk(e) \in Nat
    OBVIOUS
  <2>1. IsFiniteSet(B(e)) /\ Cardinality(B(e)) \in Nat
    BY <1>1, FS_Subset, FS_CardinalityType
  <2> QED BY <1>1, <2>1 DEF VisitRank
<1> HIDE DEF Key, Rk
<1>7. ASSUME NEW e \in S, NEW f \in S, Key(e) < Key(f) PROVE Rk(e) < Rk(f)
  <2>1. B(e) \cup {e} \subseteq B(f) /\ e \notin B(e)
    BY <1>4, <1>7
  <2>2. IsFiniteSet(B(e)) /\ IsFiniteSet(B(f))
    BY <1>6
  <2> HIDE DEF B
  <2>3. Cardinality(B(e) \cup {e}) = Cardinality(B(e)) + 1
    BY <2>1, <2>2, FS_AddElement
  <2>4. Cardinality(B(e) \cup {e}) =< Cardinality(B(f))
    BY <2>1, <2>2, FS_Subset
  <2> QED BY <1>6, <2>3, <2>4
<1>8. ASSUME NEW e \in S, NEW f \in S, Rk(e) = Rk(f) PROVE e = f
  <2>1. ~(Key(e) < Key(f)) /\ ~(Key(f) < Key(e))
    <3>1. /\ Key(e) < Key(f) => Rk(e) < Rk(f)
          /\ Key(f) < Key(e) => Rk(f) < Rk(e)
      BY <1>7
    <3>2. Rk(e) \in Nat
      BY <1>6
    <3> HIDE DEF S, B
    <3> QED BY <1>8, <3>1, <3>2
  <2> QED BY <1>4, <1>5, <2>1
<1>9. ASSUME NEW e \in P PROVE Rk(e) \in 0..N - 1
  <2>1. e \in S /\ B(e) \subseteq P /\ e \notin B(e) /\ B(e) \cup {e} \subseteq P
    BY <1>4, <1>9
  <2>2. IsFiniteSet(B(e)) /\ Rk(e) = Cardinality(B(e)) /\ Rk(e) \in Nat
    BY <1>6, <2>1
  <2> HIDE DEF B, P, N
  <2>3. Cardinality(B(e) \cup {e}) = Cardinality(B(e)) + 1
    BY <2>1, <2>2, FS_AddElement
  <2>4. Cardinality(B(e) \cup {e}) =< N
    BY <1>3, <2>1, FS_Subset
  <2> QED BY <1>3, <2>2, <2>3, <2>4
<1>10. \A i \in 0..N - 1 : \E e \in P : Rk(e) = i
  <2> DEFINE T == 0..N - 1
             rank == [e \in P |-> Rk(e)]
  <2>1. rank \in [P -> T] /\ \A e, f \in P : rank[e] = rank[f] => e = f
    BY <1>8, <1>9
  <2>2. IsFiniteSet(T) /\ Cardinality(T) = Cardinality(P)
    <3> DEFINE b == N - 1
    <3> HIDE DEF N
    <3>1. b \in Int /\ b - 0 + 1 = N /\ (0 > b => N = 0)
      BY <1>3
    <3> HIDE DEF b
    <3>2. IsFiniteSet(0..b) /\ Cardinality(0..b) = N
      BY <3>1, FS_Interval
    <3> QED BY <1>3, <3>2 DEF b
  <2>3. rank \in Surjection(P, T)
    <3> HIDE DEF rank, T, P
    <3>1. rank \in Injection(P, T)
      BY <2>1, Fun_IsInj
    <3> QED BY <1>3, <2>2, <3>1, FS_Injection
  <2> QED BY <2>3 DEF Surjection
<1>11. \A i \in 0..N - 1 : Visit(t, s, i) \in S /\ Rk(Visit(t, s, i)) = i
  BY VisitsOnce DEF Rk
<1>12. \A e \in P : Visit(t, s, Rk(e)) = e
  <2> SUFFICES ASSUME NEW e \in P PROVE Visit(t, s, Rk(e)) = e
    OBVIOUS
  <2>1. e \in S /\ Rk(e) \in 0..N - 1
    BY <1>9
  <2> HIDE DEF P, N, S
  <2> QED BY <1>8, <1>11, <2>1
<1>13. \A i \in 0..N - 1 : Visit(t, s, i) \in P
  <2> SUFFICES ASSUME NEW i \in 0..N - 1 PROVE Visit(t, s, i) \in P
    OBVIOUS
  <2>1. PICK e \in P : Rk(e) = i
    BY <1>10
  <2> QED BY <1>12, <2>1
<1> QED BY <1>9, <1>12, <1>13 DEF Visited

-----------------------------------------------------------------------------
\* The rows of the pairs.

ArrivalRow(r, t, p) == t.recv_base[Owner(p)][r[p]] + Rank(r, p)
MirrorRow(r, t, p) == MirrorStart(t, r[p], Owner(p)) + Rank(r, p)
SlabRow(r, t, p) == SlabBase(t, r[p]) + t.start_aligned[r[p]][Owner(p)] + Rank(r, p)

\* A pair lies within its run.
LEMMA PairIs ==
  ASSUME NEW r \in Routings, NEW t, t = TablesFor(r), NEW p \in Pairs
  PROVE  /\ r[p] \in Experts /\ ShardOf(r[p]) \in Shards /\ Owner(p) \in Shards
         /\ Rank(r, p) \in Nat /\ Rank(r, p) < t.run_rows[r[p]][Owner(p)]
<1>1. r[p] \in Experts /\ ShardOf(r[p]) \in Shards /\ Owner(p) \in Shards
  BY ExpertFacts, OwnerIs DEF Routings
<1>2. t.run_rows[r[p]][Owner(p)] = Hist(r, PairsOf(Owner(p)), r[p])
  <2>1. FieldsOf(r, t, r[p], Owner(p))
    BY <1>1, Fields
  <2> QED BY <2>1 DEF FieldsOf
<1>3. Rank(r, p) \in Nat /\ Rank(r, p) < Hist(r, PairsOf(Owner(p)), r[p])
  BY RankBelow
<1> QED BY <1>1, <1>2, <1>3

\* What the first builder gives every pair: the words unpack.
LEMMA FullRows ==
  ASSUME NEW r \in Routings, NEW t, t = TablesFor(r), NEW p \in Pairs
  PROVE  LET full == BuildRoutingTables(r) IN
         /\ full.runs = t /\ full.arrival_row[p] = ArrivalRow(r, t, p)
         /\ full.mirror_row[p] = MirrorRow(r, t, p)
         /\ full.slab_row[p] = t.expert_base[r[p]] + t.start_aligned[r[p]][Owner(p)] + Rank(r, p)
<1> DEFINE e == r[p]
           d == Owner(p)
           start == [x \in Experts |-> ExclusiveSums(t.run_rows[x])]
           rank == [q \in Pairs |-> BlockOff(r, q, r[q], 0) + RankWithin(r, q, Block)]
           full == BuildRoutingTables(r)
           a == start[e][d]
           h == t.start_aligned[e][d] - a
           b == t.recv_base[d][e]
<1>1. e \in Experts /\ d \in Shards /\ Rank(r, p) \in Nat
  BY PairIs
<1>2. full = PairRows(r, t, start, rank)
  BY DEF BuildRoutingTables, RankedRows, TablesFor
<1>3. /\ full.runs = t
      /\ full.arrival_row[p] = rank[p] + HighPart(Word(r, t, start, p))
      /\ full.mirror_row[p] = rank[p] + MirrorStart(t, e, d) - a
      /\ full.slab_row[p] = t.expert_base[e] + rank[p] + LowPart(Word(r, t, start, p))
  <2> HIDE DEF full, start, rank
  <2> QED BY <1>2 DEF PairRows
<1>4. a = ExclusiveSums(t.run_rows[e])[d]
  <2> HIDE DEF e, d
  <2> QED BY <1>1
<1>5. rank[p] = a + Rank(r, p)
  <2>1. rank[p] = BlockOff(r, p, r[p], 0) + RankWithin(r, p, Block)
    OBVIOUS
  <2>2. BlockOff(r, p, r[p], 0) + RankWithin(r, p, Block)
          = Hist(r, 0..FirstPair(Owner(p)) - 1, r[p]) + Rank(r, p)
    BY RankIs
  <2>3. ExclusiveSums(t.run_rows[e])[d] = Hist(r, 0..FirstPair(d) - 1, e)
    <3> HIDE DEF e, d
    <3> QED BY <1>1, RunStartIs
  <2> HIDE DEF rank, a
  <2> QED BY <1>4, <2>1, <2>2, <2>3
<1>6. a \in Nat /\ h \in 0..SlotField - 1
  <2> HIDE DEF e, d, start
  <2>1. /\ ExclusiveSums(t.run_rows[e])[d] \in Nat
        /\ t.start_aligned[e][d] - ExclusiveSums(t.run_rows[e])[d] \in 0..SlotField - 1
    BY <1>1, ShiftFits
  <2> QED BY <1>4, <2>1
<1>7. b \in Nat /\ t.start_aligned[e][d] \in Nat /\ t.expert_base[e] \in Int
      /\ MirrorStart(t, e, d) \in Int
  <2>1. b \in Nat /\ t.start_aligned[e][d] \in Nat
    <3> HIDE DEF e, d, start
    <3> QED BY <1>1, ArrivalsLie, RunsLie DEF ArrivalsLaid, RunsLaid
  <2>2. t.expert_base[e] \in Int
    <3> HIDE DEF e, d, start
    <3>1. t.expert_base[e] = ShardOf(e) * Stride + SlabBase(t, e) /\ SlabBase(t, e) \in Nat
      BY <1>1, SlabsLie DEF SlabsLaid
    <3>2. ShardOf(e) \in Int /\ Stride \in Int
      <4>1. ShardOf(e) \in Shards
        BY <1>1, ExpertFacts
      <4>2. ShardOf(e) \in Int
        BY <4>1, SizesAre DEF Shards
      <4>3. Stride \in Nat
        BY <4>1, TotalsBounded
      <4> QED BY <4>2, <4>3
    <3> QED BY <3>1, <3>2
  <2>3. MirrorStart(t, e, d) \in Int
    <3> DEFINE x == b \div TileM
               y == t.start_aligned[e][d] % TileM
    <3>1. x \in Int /\ y \in Int
      <4> DEFINE z == t.start_aligned[e][d]
      <4>1. b \in Int /\ z \in Int
        BY <2>1
      <4> HIDE DEF b, z
      <4>2. b \div TileM \in Int /\ z % TileM \in 0..TileM - 1
        BY <4>1, SizesAre, Division
      <4> QED BY <4>2, SizesAre DEF z
    <3>2. e \in Int
      BY <1>1, ExpertFacts
    <3>3. MirrorStart(t, e, d) = (x + Slack * e) * TileM + y
      BY DEF MirrorStart
    <3> HIDE DEF x, y, e
    <3> QED BY <3>1, <3>2, <3>3, SizesAre DEF Slack
  <2> QED BY <2>1, <2>2, <2>3
<1>8. Word(r, t, start, p) = (b - a) * SlotField + h
  BY DEF Word, PackedWord
<1>9. t.start_aligned[e][d] = a + h
  BY <1>6, <1>7
<1> DEFINE k == Rank(r, p)
           w == Word(r, t, start, p)
           base == t.expert_base[e]
           mir == MirrorStart(t, e, d)
<1>10. HighPart(w) = b - a /\ LowPart(w) = h
  <2> DEFINE q == b - a
  <2>1. q \in Int /\ h \in 0..SlotField - 1 /\ w = q * SlotField + h
    BY <1>6, <1>7, <1>8
  <2> HIDE DEF q, h, w
  <2>2. w = SlotField * q + h
    BY <2>1, SizesAre
  <2>3. w \div SlotField = q /\ w % SlotField = h
    BY <2>1, <2>2, SizesAre, QuotientIs
  <2> QED BY <2>3 DEF HighPart, LowPart, q
<1>11. /\ full.arrival_row[p] = (a + k) + (b - a) /\ full.mirror_row[p] = (a + k) + mir - a
       /\ full.slab_row[p] = base + (a + k) + h
  <2> HIDE DEF full, start, rank, e, d, a, b, h
  <2> QED BY <1>3, <1>5, <1>10
<1>12. a \in Int /\ b \in Int /\ k \in Int /\ h \in Int /\ base \in Int /\ mir \in Int
  BY <1>1, <1>6, <1>7
<1>13. /\ ArrivalRow(r, t, p) = b + k /\ MirrorRow(r, t, p) = mir + k
  BY DEF ArrivalRow, MirrorRow
<1> HIDE DEF full, a, b, k, h, base, mir
<1>14. /\ full.arrival_row[p] = b + k /\ full.mirror_row[p] = mir + k
       /\ full.slab_row[p] = base + (a + h) + k
  BY <1>11, <1>12
<1> QED BY <1>3, <1>9, <1>13, <1>14 DEF full, base, k

\* What the second builder gives them.
LEMMA ShardedRows ==
  ASSUME NEW r \in Routings, NEW t, t = TablesFor(r), NEW s \in Shards
  PROVE  LET part == BuildRoutingTablesSharded(r, s) IN
         /\ part.runs = t
         /\ part.pos = [p \in PairsOf(s) |-> ArrivalRow(r, t, p)]
         /\ part.mirror_pos = [p \in PairsOf(s) |-> MirrorRow(r, t, p)]
         /\ \A p \in Pairs : part.slab_row[p] =
              IF ShardOf(r[p]) = s
              THEN t.expert_base[r[p]] + t.start_aligned[r[p]][Owner(p)] + Rank(r, p)
              ELSE OffShardSlabRow
<1> DEFINE part == BuildRoutingTablesSharded(r, s)
<1>1. part = ShardRows(r, s, t)
  BY DEF BuildRoutingTablesSharded, TablesFor
<1>2. \A p \in Pairs : OwnRank(r, p) = Rank(r, p) /\ WindowedRank(r, p) = Rank(r, p)
  BY RankIs
<1>3. \A p \in PairsOf(s) : p \in Pairs /\ Owner(p) = s
  BY DEF PairsOf
<1>4. part.runs = t
  BY <1>1 DEF ShardRows
<1>5. part.pos = [p \in PairsOf(s) |-> ArrivalRow(r, t, p)]
  <2>1. part.pos = [p \in PairsOf(s) |-> t.recv_base[s][r[p]] + OwnRank(r, p)]
    BY <1>1 DEF ShardRows
  <2> QED BY <1>2, <1>3, <2>1 DEF ArrivalRow
<1>6. part.mirror_pos = [p \in PairsOf(s) |-> MirrorRow(r, t, p)]
  <2>1. part.mirror_pos = [p \in PairsOf(s) |-> MirrorStart(t, r[p], s) + OwnRank(r, p)]
    BY <1>1 DEF ShardRows
  <2> QED BY <1>2, <1>3, <2>1 DEF MirrorRow
<1>7. \A p \in Pairs : part.slab_row[p] =
        IF ShardOf(r[p]) = s
        THEN t.expert_base[r[p]] + t.start_aligned[r[p]][Owner(p)] + Rank(r, p)
        ELSE OffShardSlabRow
  BY <1>1, <1>2 DEF ShardRows
<1> QED BY <1>4, <1>5, <1>6, <1>7

\* What a plan gives the shard s.
PlanFor(r, t, s, given) ==
  /\ given.runs = t
  /\ given.pos = [p \in PairsOf(s) |-> ArrivalRow(r, t, p)]
  /\ given.mirror_pos = [p \in PairsOf(s) |-> MirrorRow(r, t, p)]
  /\ \A p \in Pairs :
       IF ShardOf(r[p]) = s THEN given.slab_row[p] = SlabRow(r, t, p)
       ELSE given.slab_row[p] \in Nat /\ given.slab_row[p] >= Stride

\* Rebasing keeps the rows of the shard's slab and drops the others.
LEMMA Rebased ==
  ASSUME NEW r \in Routings, NEW t, t = TablesFor(r), NEW s \in Shards, NEW p \in Pairs,
         NEW row,
         \/ row = t.expert_base[r[p]] + t.start_aligned[r[p]][Owner(p)] + Rank(r, p)
         \/ row = OffShardSlabRow /\ ShardOf(r[p]) # s
  PROVE  IF ShardOf(r[p]) = s THEN LocalSlabRow(row, s) = SlabRow(r, t, p)
         ELSE LocalSlabRow(row, s) \in Nat /\ LocalSlabRow(row, s) >= Stride
<1> DEFINE e == r[p]
           d == Owner(p)
           x == ShardOf(e)
           k == Rank(r, p)
           z == SlabRow(r, t, p)
           b == SlabBase(t, e)
           h == t.start_aligned[e][d]
           m == Stride * s
           n == Stride * x
<1>1. e \in Experts /\ d \in Shards /\ x \in Shards /\ k \in Nat /\ k < t.run_rows[e][d]
  BY PairIs
<1>2. /\ s \in Nat /\ s < EP /\ x \in Nat /\ x < EP /\ Stride \in Nat \ {0}
  <2>1. Stride \in Nat /\ SumRuns(t.aligned, ExpertsOf(s), Shards) \in Nat
        /\ SumRuns(t.aligned, ExpertsOf(s), Shards) + TileM =< Stride
    BY TotalsBounded
  <2> QED BY <1>1, <2>1, SizesAre DEF Shards
<1>3. /\ b \in Nat /\ h \in Nat /\ z = b + h + k /\ z \in Nat /\ z < Stride
      /\ t.expert_base[e] = x * Stride + b
  <2> HIDE DEF e, d, x
  <2>1. /\ t.expert_rows[e] \in Nat /\ b \in Nat /\ b + t.expert_rows[e] + TileM =< Stride
        /\ t.expert_base[e] = ShardOf(e) * Stride + b
    BY <1>1, SlabsLie DEF SlabsLaid
  <2>2. h \in Nat /\ h + t.aligned[e][d] =< t.expert_rows[e]
    BY <1>1, RunsLie DEF RunsLaid
  <2>3. /\ t.run_rows[e][d] \in Nat /\ t.aligned[e][d] \in Nat
        /\ t.run_rows[e][d] =< t.aligned[e][d]
    BY <1>1, PaddedAre DEF RunsPadded
  <2>4. z = b + h + k
    BY DEF SlabRow, e, d
  <2> HIDE DEF b, h, k, z
  <2>5. z \in Nat /\ z < Stride
    BY <1>1, <1>2, <2>1, <2>2, <2>3, <2>4, SizesAre
  <2> QED BY <2>1, <2>2, <2>4, <2>5 DEF x
<1>4. row = x * Stride + b + h + k \/ (row = OffShardSlabRow /\ x # s)
  BY <1>3
<1>5. OffShardSlabRow \in Int /\ OffShardSlabRow >= EP * Stride
  <2> DEFINE y == (-Stride) \div Lanes
             a == AlignUp(Stride, Lanes)
             c == a \div Lanes
  <2>1. Lanes \in Nat \ {0} /\ Stride \in Nat
    BY <1>2 DEF Lanes
  <2>2. a \in Nat
    BY <2>1, AlignUpIs
  <2> HIDE DEF a
  <2>3. c \in Nat
    BY <2>1, <2>2, DivisionGrows
  <2>4. OffShardSlabRow = EP * Stride + (c + 1) * Lanes
    BY DEF OffShardSlabRow, ActScaleSlabRows, a
  <2> HIDE DEF c
  <2>5. EP * Stride \in Int /\ (c + 1) * Lanes \in Nat
    <3>1. EP \in Int /\ Stride \in Int
      BY <1>2, SizesAre
    <3> QED BY <2>1, <2>3, <3>1
  <2> DEFINE u == EP * Stride
             v == (c + 1) * Lanes
  <2> HIDE DEF u, v
  <2>6. u \in Int /\ v \in Nat /\ OffShardSlabRow = u + v
    BY <2>4, <2>5 DEF u, v
  <2>7. OffShardSlabRow \in Int /\ OffShardSlabRow >= u
    BY <2>6
  <2> QED BY <2>7 DEF u
<1> DEFINE w == Stride * EP
<1>6. /\ m \in Int /\ n \in Int /\ w \in Int
      /\ x < s => n + Stride =< m
      /\ s < x => m + Stride =< n
      /\ m + Stride =< w
      /\ s * Stride = m /\ x * Stride = n /\ EP * Stride = w
  <2>1. EP \in Int /\ s \in Int /\ x \in Int /\ Stride \in Int
    BY <1>2, SizesAre
  <2>2. s * Stride = m /\ x * Stride = n /\ EP * Stride = w
    <3> HIDE DEF x
    <3> QED BY <2>1
  <2> HIDE DEF x
  <2> QED BY <1>2, <2>1, <2>2, Multiples
<1>7. LocalSlabRow(row, s) = IF row < m THEN Stride ELSE row - m
  BY <1>6 DEF LocalSlabRow
<1> HIDE DEF e, d, x, k, z, b, h, m, n, w
<1>8. x = s => m = n
  BY DEF m, n
<1>9. row = n + b + h + k \/ (row = OffShardSlabRow /\ x # s)
  BY <1>4, <1>6
<1>10. CASE x = s
  <2>1. row = m + z
    BY <1>1, <1>3, <1>6, <1>8, <1>9, <1>10
  <2>2. ~(row < m) /\ row - m = z
    BY <1>3, <1>6, <2>1
  <2>3. LocalSlabRow(row, s) = z
    BY <1>7, <2>2
  <2> QED BY <1>10, <2>3 DEF x, e, z
<1>11. CASE x # s
  <2>1. CASE row = OffShardSlabRow
    <3>1. row \in Int /\ row >= w
      BY <1>5, <1>6, <2>1
    <3>2. LocalSlabRow(row, s) \in Nat /\ LocalSlabRow(row, s) >= Stride
      BY <1>2, <1>6, <1>7, <3>1
    <3> QED BY <1>11, <3>2 DEF x, e
  <2>2. CASE row = n + b + h + k
    <3>1. row \in Int /\ row = n + z
      BY <1>1, <1>3, <1>6, <2>2
    <3>2. x < s \/ s < x
      BY <1>2, <1>11
    <3>3. LocalSlabRow(row, s) \in Nat /\ LocalSlabRow(row, s) >= Stride
      BY <1>2, <1>3, <1>6, <1>7, <3>1, <3>2
    <3> QED BY <1>11, <3>3 DEF x, e
  <2> QED BY <1>9, <2>1, <2>2
<1> QED BY <1>10, <1>11

\* Both builders give it.
LEMMA ShardPlanIs ==
  ASSUME routing \in Routings, NEW s \in Shards, NEW sharded \in BOOLEAN
  PROVE  PlanFor(routing, TablesFor(routing), s, ShardPlan(s, sharded))
<1> DEFINE r == routing
           t == TablesFor(r)
           g == IF sharded THEN BuildRoutingTablesSharded(r, s)
                ELSE CutFull(BuildRoutingTables(r), s)
           pl == ShardPlan(s, sharded)
<1>1. \A p \in PairsOf(s) : p \in Pairs
  BY DEF PairsOf
<1>2. /\ g.runs = t
      /\ g.pos = [p \in PairsOf(s) |-> ArrivalRow(r, t, p)]
      /\ g.mirror_pos = [p \in PairsOf(s) |-> MirrorRow(r, t, p)]
      /\ \A p \in Pairs :
           \/ g.slab_row[p] = t.expert_base[r[p]] + t.start_aligned[r[p]][Owner(p)] + Rank(r, p)
           \/ g.slab_row[p] = OffShardSlabRow /\ ShardOf(r[p]) # s
      /\ g = [runs |-> g.runs, slab_row |-> g.slab_row, pos |-> g.pos, mirror_pos |-> g.mirror_pos]
  <2>1. CASE sharded
    <3> DEFINE part == BuildRoutingTablesSharded(r, s)
    <3>1. g = part
      BY <2>1
    <3>2. part = [runs |-> part.runs, slab_row |-> part.slab_row, pos |-> part.pos,
                  mirror_pos |-> part.mirror_pos]
      BY DEF BuildRoutingTablesSharded, ShardRows
    <3>3. /\ part.runs = t
          /\ part.pos = [p \in PairsOf(s) |-> ArrivalRow(r, t, p)]
          /\ part.mirror_pos = [p \in PairsOf(s) |-> MirrorRow(r, t, p)]
          /\ \A p \in Pairs : part.slab_row[p] =
               IF ShardOf(r[p]) = s
               THEN t.expert_base[r[p]] + t.start_aligned[r[p]][Owner(p)] + Rank(r, p)
               ELSE OffShardSlabRow
      BY ShardedRows
    <3> HIDE DEF part, t, g
    <3> QED BY <3>1, <3>2, <3>3
  <2>2. CASE ~sharded
    <3> DEFINE full == BuildRoutingTables(r)
    <3>1. g = [runs |-> full.runs, slab_row |-> full.slab_row,
               pos |-> [p \in PairsOf(s) |-> full.arrival_row[p]],
               mirror_pos |-> [p \in PairsOf(s) |-> full.mirror_row[p]]]
      BY <2>2 DEF CutFull
    <3>2. /\ full.runs = t
          /\ \A p \in Pairs :
               /\ full.arrival_row[p] = ArrivalRow(r, t, p)
               /\ full.mirror_row[p] = MirrorRow(r, t, p)
               /\ full.slab_row[p]
                    = t.expert_base[r[p]] + t.start_aligned[r[p]][Owner(p)] + Rank(r, p)
      <4>1. \A p \in Pairs :
               /\ full.arrival_row[p] = ArrivalRow(r, t, p)
               /\ full.mirror_row[p] = MirrorRow(r, t, p)
               /\ full.slab_row[p]
                    = t.expert_base[r[p]] + t.start_aligned[r[p]][Owner(p)] + Rank(r, p)
        BY FullRows
      <4>2. full.runs = t
        BY DEF BuildRoutingTables, RankedRows, PairRows, TablesFor
      <4> QED BY <4>1, <4>2
    <3> HIDE DEF full, t, g
    <3>3. /\ g.runs = full.runs /\ g.slab_row = full.slab_row
          /\ g.pos = [p \in PairsOf(s) |-> full.arrival_row[p]]
          /\ g.mirror_pos = [p \in PairsOf(s) |-> full.mirror_row[p]]
      BY <3>1
    <3>4. /\ [p \in PairsOf(s) |-> full.arrival_row[p]] = [p \in PairsOf(s) |-> ArrivalRow(r, t, p)]
          /\ [p \in PairsOf(s) |-> full.mirror_row[p]] = [p \in PairsOf(s) |-> MirrorRow(r, t, p)]
      BY <1>1, <3>2
    <3> QED BY <3>1, <3>2, <3>3, <3>4
  <2> QED BY <2>1, <2>2
<1>3. pl = [g EXCEPT !.slab_row = [p \in Pairs |-> LocalSlabRow(g.slab_row[p], s)]]
  BY DEF ShardPlan
<1> HIDE DEF g, pl, t
<1>4. /\ pl.runs = g.runs /\ pl.pos = g.pos /\ pl.mirror_pos = g.mirror_pos
      /\ pl.slab_row = [p \in Pairs |-> LocalSlabRow(g.slab_row[p], s)]
  BY <1>2, <1>3
<1>5. ASSUME NEW p \in Pairs
      PROVE  IF ShardOf(r[p]) = s THEN pl.slab_row[p] = SlabRow(r, t, p)
             ELSE pl.slab_row[p] \in Nat /\ pl.slab_row[p] >= Stride
  <2> DEFINE row == g.slab_row[p]
  <2>1. pl.slab_row[p] = LocalSlabRow(row, s)
    BY <1>4
  <2>2. \/ row = t.expert_base[r[p]] + t.start_aligned[r[p]][Owner(p)] + Rank(r, p)
        \/ row = OffShardSlabRow /\ ShardOf(r[p]) # s
    BY <1>2
  <2>3. t = TablesFor(r) /\ r \in Routings
    BY DEF t
  <2> HIDE DEF row, r
  <2>4. IF ShardOf(r[p]) = s THEN LocalSlabRow(row, s) = SlabRow(r, t, p)
         ELSE LocalSlabRow(row, s) \in Nat /\ LocalSlabRow(row, s) >= Stride
    BY <2>2, <2>3, Rebased
  <2> QED BY <2>1, <2>4
<1>6. PlanFor(r, t, s, pl)
  BY <1>2, <1>4, <1>5 DEF PlanFor
<1> QED BY <1>6 DEF pl, t

\* The smaller and the larger of two numbers.
LEMMA MinMaxIs ==
  ASSUME NEW a \in Int, NEW b \in Int
  PROVE  /\ Min({a, b}) = IF a =< b THEN a ELSE b
         /\ Max({a, b}) = IF a =< b THEN b ELSE a
<1> DEFINE c == IF a =< b THEN a ELSE b
           d == IF a =< b THEN b ELSE a
<1>1. c \in {a, b} /\ (\A y \in {a, b} : c =< y) /\ d \in {a, b} /\ (\A y \in {a, b} : d >= y)
  OBVIOUS
<1>2. \A x \in {a, b} : (\A y \in {a, b} : x =< y) => x = c
  OBVIOUS
<1>3. \A x \in {a, b} : (\A y \in {a, b} : x >= y) => x = d
  OBVIOUS
<1> HIDE DEF c, d
<1>4. Min({a, b}) = c
  BY <1>1, <1>2 DEF Min
<1>5. Max({a, b}) = d
  BY <1>1, <1>3 DEF Max
<1> QED BY <1>4, <1>5 DEF c, d

-----------------------------------------------------------------------------
\* The invariant: every variable is what the calls before it made of the
\* routing.

Late == {"computed", "arrived", "combined"}

ArrivedRows ==
  UNION {IF PushFromVmem THEN ShippedRows(s) ELSE PushedRows(s) : s \in Shards}
ArrivedSublanes ==
  UNION {IF PushFromVmem THEN ShippedSublanes(s) ELSE PushedSublanes(s) : s \in Shards}

CallInv ==
  /\ routing \in Routings /\ stage \in {"routed", "planned"} \cup Late
  /\ stage # "routed" =>
       \A s \in Shards : PlanFor(routing, TablesFor(routing), s, plan[s])
  /\ stage \in Late => tiles = [s \in Shards |-> TileRows(s)]
  /\ stage \in Late \ {"computed"} => arrived = ArrivedRows /\ mirrored = ArrivedSublanes
  /\ stage = "combined" => out = [p \in Pairs |-> <<CombinedRow(p), CombinedScale(p)>>]

LEMMA CallInitInv == CallInit => CallInv
BY RoutingsAssumption DEF CallInit, CallInv, Late

LEMMA PlanStep ==
  ASSUME CallInv, Plan
  PROVE  CallInv'
<1>1. routing \in Routings /\ routing' = routing /\ stage' = "planned"
  BY DEF CallInv, Plan
<1>2. PICK sharded \in BOOLEAN : plan' = [s \in Shards |-> ShardPlan(s, sharded)]
  BY DEF Plan
<1>3. \A s \in Shards : PlanFor(routing, TablesFor(routing), s, plan'[s])
  <2> SUFFICES ASSUME NEW s \in Shards
               PROVE  PlanFor(routing, TablesFor(routing), s, plan'[s])
    OBVIOUS
  <2>1. PlanFor(routing, TablesFor(routing), s, ShardPlan(s, sharded))
    BY <1>1, ShardPlanIs
  <2> QED BY <1>2, <2>1
<1> QED BY <1>1, <1>3 DEF CallInv, Late

\* A step that leaves the plan and the routing leaves what they determine.
LEMMA SameTables ==
  ASSUME routing' = routing, plan' = plan
  PROVE  \A s \in Shards : TileRows(s)' = TileRows(s)
BY DEF TileRows, NumTiles, LiveRows, Runs

LEMMA SameCopies ==
  ASSUME routing' = routing, plan' = plan, tiles' = tiles
  PROVE  ArrivedRows' = ArrivedRows /\ ArrivedSublanes' = ArrivedSublanes
<1>1. ASSUME NEW s \in Shards
      PROVE  /\ ShippedRows(s)' = ShippedRows(s) /\ PushedRows(s)' = PushedRows(s)
             /\ ShippedSublanes(s)' = ShippedSublanes(s) /\ PushedSublanes(s)' = PushedSublanes(s)
  BY DEF ShippedRows, PushedRows, ShippedSublanes, PushedSublanes, Overlaps, TileIds, Lo, Hi,
         Start, Runs, LiveRows, ShippedLength, ArrivalSublane, Sublane, Committed, PushedRuns,
         PushedLength, CommittedSublanes, MirrorBase
<1> QED BY <1>1 DEF ArrivedRows, ArrivedSublanes

LEMMA CallNextInv == CallInv /\ [CallNext]_callVars => CallInv'
<1> SUFFICES ASSUME CallInv, [CallNext]_callVars PROVE CallInv'
  OBVIOUS
<1>1. CASE Plan
  BY <1>1, PlanStep
<1>2. CASE Compute
  <2>1. /\ routing' = routing /\ plan' = plan /\ stage = "planned" /\ stage' = "computed"
        /\ tiles' = [s \in Shards |-> TileRows(s)]
    BY <1>2 DEF Compute
  <2>2. \A s \in Shards : TileRows(s)' = TileRows(s)
    BY <2>1, SameTables
  <2> QED BY <2>1, <2>2 DEF CallInv, Late
<1>3. CASE Transport
  <2>1. /\ routing' = routing /\ plan' = plan /\ tiles' = tiles
        /\ stage = "computed" /\ stage' = "arrived"
        /\ arrived' = ArrivedRows /\ mirrored' = ArrivedSublanes
    BY <1>3 DEF Transport, ArrivedRows, ArrivedSublanes
  <2>2. \A s \in Shards : TileRows(s)' = TileRows(s)
    BY <2>1, SameTables
  <2>3. ArrivedRows' = ArrivedRows /\ ArrivedSublanes' = ArrivedSublanes
    BY <2>1, SameCopies
  <2> QED BY <2>1, <2>2, <2>3 DEF CallInv, Late
<1>4. CASE CombineArrivals
  <2>1. /\ routing' = routing /\ plan' = plan /\ tiles' = tiles
        /\ arrived' = arrived /\ mirrored' = mirrored
        /\ stage = "arrived" /\ stage' = "combined"
        /\ out' = [p \in Pairs |-> <<CombinedRow(p), CombinedScale(p)>>]
    BY <1>4 DEF CombineArrivals
  <2>2. \A s \in Shards : TileRows(s)' = TileRows(s)
    BY <2>1, SameTables
  <2>3. ArrivedRows' = ArrivedRows /\ ArrivedSublanes' = ArrivedSublanes
    BY <2>1, SameCopies
  <2>4. \A p \in Pairs : CombinedRow(p)' = CombinedRow(p) /\ CombinedScale(p)' = CombinedScale(p)
    BY <2>1 DEF CombinedRow, CombinedScale
  <2> QED BY <2>1, <2>2, <2>3, <2>4 DEF CallInv, Late
<1>5. CASE UNCHANGED callVars
  <2>1. /\ routing' = routing /\ plan' = plan /\ tiles' = tiles /\ stage' = stage
        /\ arrived' = arrived /\ mirrored' = mirrored /\ out' = out
    BY <1>5 DEF callVars
  <2>2. \A s \in Shards : TileRows(s)' = TileRows(s)
    BY <2>1, SameTables
  <2>3. ArrivedRows' = ArrivedRows /\ ArrivedSublanes' = ArrivedSublanes
    BY <2>1, SameCopies
  <2>4. \A p \in Pairs : CombinedRow(p)' = CombinedRow(p) /\ CombinedScale(p)' = CombinedScale(p)
    BY <2>1 DEF CombinedRow, CombinedScale
  <2> QED BY <2>1, <2>2, <2>3, <2>4 DEF CallInv, Late
<1>6. CASE Done
  BY <1>5, <1>6 DEF Done
<1> QED BY <1>1, <1>2, <1>3, <1>4, <1>5, <1>6 DEF CallNext

LEMMA CallInductive == CallSpec => []CallInv
<1> QED BY CallInitInv, CallNextInv, PTL DEF CallSpec

\* The two builders of the routing tables give every shard the same plan, for
\* every routing and every size of the layer: the tables of the runs, the rows
\* its own tokens arrive in and the rows of its slab (host.py,
\* build_routing_tables_sharded: "every table below is identical either way").
THEOREM BuildersAgree == CallSpec => []PlansAgree
<1>1. CallInv => PlansAgree
  <2> SUFFICES ASSUME routing \in Routings, NEW s \in Shards
               PROVE  SamePlan(s, ShardPlan(s, TRUE), ShardPlan(s, FALSE))
    BY DEF CallInv, PlansAgree
  <2> DEFINE t == TablesFor(routing)
             a == ShardPlan(s, TRUE)
             b == ShardPlan(s, FALSE)
  <2>1. PlanFor(routing, t, s, a) /\ PlanFor(routing, t, s, b)
    BY ShardPlanIs
  <2>2. Stride \in Nat
    BY TotalsBounded
  <2> HIDE DEF t, a, b
  <2>3. /\ a.runs = b.runs /\ a.pos = b.pos /\ a.mirror_pos = b.mirror_pos
    BY <2>1 DEF PlanFor
  <2>4. ASSUME NEW p \in Pairs, ShardOf(routing[p]) # s
        PROVE  Min({a.slab_row[p], b.slab_row[p]}) >= Stride
    <3> DEFINE x == a.slab_row[p]
               y == b.slab_row[p]
    <3>1. x \in Nat /\ x >= Stride /\ y \in Nat /\ y >= Stride
      BY <2>1, <2>4 DEF PlanFor
    <3> HIDE DEF x, y
    <3>2. Min({x, y}) >= Stride
      BY <3>1, MinMaxIs
    <3> QED BY <3>2 DEF x, y
  <2>5. ASSUME NEW p \in Pairs, ShardOf(routing[p]) = s
        PROVE  a.slab_row[p] = b.slab_row[p]
    BY <2>1, <2>5 DEF PlanFor
  <2>6. SamePlan(s, a, b)
    BY <2>3, <2>4, <2>5 DEF SamePlan
  <2> QED BY <2>6 DEF a, b
<1> QED BY <1>1, CallInductive, PTL

-----------------------------------------------------------------------------
\* More arithmetic.

\* Whole multiples come out of a quotient.
LEMMA QuotientShifts ==
  ASSUME NEW m \in Nat \ {0}, NEW a \in Int, NEW k \in Int
  PROVE  (a + k * m) \div m = a \div m + k /\ (a + k * m) % m = a % m
<1> DEFINE q == a \div m
           r == a % m
<1>1. q \in Int /\ r \in 0..m - 1 /\ a = m * q + r
  BY Division
<1> HIDE DEF q, r
<1>2. a + k * m = m * (q + k) + r
  <2>1. m * (q + k) = m * q + m * k /\ k * m = m * k
    BY <1>1
  <2>2. m * q \in Int /\ m * k \in Int
    BY <1>1
  <2> QED BY <1>1, <2>1, <2>2
<1>3. q + k \in Int
  BY <1>1
<1>4. (a + k * m) \div m = q + k /\ (a + k * m) % m = r
  BY <1>1, <1>2, <1>3, QuotientIs
<1> QED BY <1>4 DEF q, r

\* The quotient of a sum is the sum of the quotients, or one more.
LEMMA QuotientsAdd ==
  ASSUME NEW m \in Nat \ {0}, NEW a \in Int, NEW b \in Int
  PROVE  /\ a \div m \in Int /\ b \div m \in Int /\ (a + b) \div m \in Int
         /\ a \div m + b \div m =< (a + b) \div m
         /\ (a + b) \div m =< a \div m + b \div m + 1
<1> DEFINE p == a \div m
           q == b \div m
           r == a % m
           s == b % m
<1>1. p \in Int /\ r \in 0..m - 1 /\ a = m * p + r
  BY Division
<1>2. q \in Int /\ s \in 0..m - 1 /\ b = m * q + s
  BY Division
<1> HIDE DEF p, q, r, s
<1>3. /\ m * (p + q) = m * p + m * q /\ m * (p + q + 1) = m * p + m * q + m
      /\ m * p \in Int /\ m * q \in Int /\ p + q \in Int /\ p + q + 1 \in Int
  BY <1>1, <1>2
<1>4. CASE r + s < m
  <2>1. r + s \in 0..m - 1 /\ a + b = m * (p + q) + (r + s)
    BY <1>1, <1>2, <1>3, <1>4
  <2>2. (a + b) \div m = p + q
    <3> DEFINE u == p + q
               v == r + s
    <3>1. u \in Int /\ v \in 0..m - 1 /\ a + b = m * u + v
      BY <1>3, <2>1
    <3> HIDE DEF u, v
    <3>2. (a + b) \div m = u
      BY <3>1, QuotientIs
    <3> QED BY <3>2 DEF u
  <2> QED BY <1>1, <1>2, <2>2 DEF p, q
<1>5. CASE r + s >= m
  <2>1. r + s - m \in 0..m - 1 /\ a + b = m * (p + q + 1) + (r + s - m)
    BY <1>1, <1>2, <1>3, <1>5
  <2>2. (a + b) \div m = p + q + 1
    <3> DEFINE u == p + q + 1
               v == r + s - m
    <3>1. u \in Int /\ v \in 0..m - 1 /\ a + b = m * u + v
      BY <1>3, <2>1
    <3> HIDE DEF u, v
    <3>2. (a + b) \div m = u
      BY <3>1, QuotientIs
    <3> QED BY <3>2 DEF u
  <2> QED BY <1>1, <1>2, <2>2 DEF p, q
<1> QED BY <1>1, <1>2, <1>4, <1>5

\* The multiples up to a number are those up to its quotient.
LEMMA QuotientBounds ==
  ASSUME NEW m \in Nat \ {0}, NEW a \in Int, NEW k \in Int
  PROVE  /\ k * m \in Int /\ a \div m \in Int
         /\ k * m =< a <=> k =< a \div m
         /\ a < k * m + m <=> a \div m =< k
<1> DEFINE q == a \div m
           r == a % m
<1>1. q \in Int /\ r \in 0..m - 1 /\ a = m * q + r
  BY Division
<1> HIDE DEF q, r
<1>2. m * q \in Int /\ m * k \in Int /\ k * m = m * k
  BY <1>1
<1>3. k < q => m * k + m =< m * q
  BY <1>1, Multiples
<1>4. q < k => m * q + m =< m * k
  BY <1>1, Multiples
<1>5. k = q => m * k = m * q
  OBVIOUS
<1>6. (m * k =< a <=> k =< q) /\ (a < m * k + m <=> q =< k)
  BY <1>1, <1>2, <1>3, <1>4, <1>5
<1> QED BY <1>1, <1>2, <1>6 DEF q

\* Rounding up: the multiples below a number.
LEMMA TilesBelow ==
  ASSUME NEW m \in Nat \ {0}, NEW n \in Nat, NEW k \in Int
  PROVE  /\ -((-n) \div m) \in Nat /\ k * m \in Int
         /\ k < -((-n) \div m) <=> k * m < n
<1> DEFINE q == (-n) \div m
           r == (-n) % m
<1>1. q \in Int /\ r \in 0..m - 1 /\ -n = m * q + r
  BY Division
<1> HIDE DEF q, r
<1>2. /\ m * q \in Int /\ m * k \in Int /\ k * m = m * k /\ -q \in Int
      /\ m * (-q) = -(m * q)
  BY <1>1
<1>3. k < -q => m * k + m =< m * (-q)
  BY <1>2, Multiples
<1>4. -q =< k => m * (-q) =< m * k
  <2>1. -q < k => m * (-q) + m =< m * k
    BY <1>2, Multiples
  <2>2. -q = k => m * (-q) = m * k
    OBVIOUS
  <2> QED BY <1>1, <1>2, <2>1, <2>2
<1>5. k < -q <=> m * k < n
  BY <1>1, <1>2, <1>3, <1>4
<1>6. -q >= 0
  <2>1. -q < 0 => m * (-q) + m =< m * 0
    BY <1>2, Multiples
  <2>2. m * 0 = 0
    OBVIOUS
  <2> QED BY <1>1, <1>2, <2>1, <2>2
<1>7. -q \in Nat
  BY <1>2, <1>6
<1> QED BY <1>2, <1>5, <1>7 DEF q

-----------------------------------------------------------------------------
\* The tiles of a shard once it has planned, and the rows it computed.

Planned ==
  routing \in Routings /\ \A s \in Shards : PlanFor(routing, TablesFor(routing), s, plan[s])
Computed == Planned /\ tiles = [s \in Shards |-> TileRows(s)]

LEMMA PlannedIs ==
  ASSUME Planned, NEW s \in Shards
  PROVE  /\ Runs(s) = TablesFor(routing) /\ RunsPadded(Runs(s)) /\ RunsLaid(Runs(s))
         /\ SlabsLaid(Runs(s)) /\ ArrivalsLaid(Runs(s)) /\ ContribsLaid(Runs(s))
         /\ Visited(Runs(s), s) = {e \in ExpertsOf(s) : Runs(s).expert_rows[e] > 0}
<1> DEFINE t == TablesFor(routing)
<1>1. Runs(s) = t
  BY DEF Planned, PlanFor, Runs
<1> HIDE DEF t
<1>2. t = TablesFor(routing)
  BY DEF t
<1>3. RunsPadded(t)
  BY <1>2, PaddedAre
<1>4. RunsLaid(t)
  BY <1>2, RunsLie
<1>5. SlabsLaid(t)
  BY <1>2, SlabsLie
<1>6. ArrivalsLaid(t)
  BY <1>2, ArrivalsLie
<1>7. ContribsLaid(t)
  BY <1>2, ContribsLie
<1>8. \A e \in Experts : t.expert_rows[e] \in Nat
  BY <1>5 DEF SlabsLaid
<1>9. Visited(t, s) = {e \in ExpertsOf(s) : t.expert_rows[e] > 0}
  BY <1>8, VisitedAre
<1> QED BY <1>1, <1>2, <1>3, <1>4, <1>5, <1>6, <1>7, <1>9

\* Tile k of an expert holds its rows from k * TileM on.
TileLies(s, e, k) ==
  /\ k * TileM \in Nat /\ k * TileM < Runs(s).expert_rows[e] /\ LiveRows(s, e, k) \in 1..TileM
  /\ k * TileM + LiveRows(s, e, k) =< Runs(s).expert_rows[e]
  /\ LiveRows(s, e, k) = TileM \/ k * TileM + LiveRows(s, e, k) = Runs(s).expert_rows[e]

LEMMA TilesLie ==
  ASSUME Planned, NEW s \in Shards, NEW e \in Experts
  PROVE  /\ NumTiles(s, e) \in Nat /\ Runs(s).expert_rows[e] \in Nat
         /\ \A k \in Nat : k \in 0..NumTiles(s, e) - 1 <=> k * TileM < Runs(s).expert_rows[e]
         /\ \A k \in 0..NumTiles(s, e) - 1 : TileLies(s, e, k)
<1> DEFINE n == Runs(s).expert_rows[e]
<1>1. n \in Nat
  BY PlannedIs DEF SlabsLaid
<1>2. NumTiles(s, e) = -((-n) \div TileM)
  BY DEF NumTiles
<1>3. \A k \in Int : LiveRows(s, e, k) = Min({n - k * TileM, TileM})
  BY DEF LiveRows
<1> HIDE DEF n
<1>4. NumTiles(s, e) \in Nat
  <2>1. 0 \in Int
    OBVIOUS
  <2> QED BY <1>1, <1>2, <2>1, SizesAre, TilesBelow
<1>5. ASSUME NEW k \in Nat
      PROVE  k * TileM \in Nat /\ (k < NumTiles(s, e) <=> k * TileM < n)
  <2>0. k \in Int /\ TileM \in Nat \ {0}
    BY SizesAre
  <2>1. k < -((-n) \div TileM) <=> k * TileM < n
    BY ONLY <1>1, <2>0, TilesBelow
  <2>2. k * TileM \in Nat
    BY SizesAre
  <2> QED BY <1>2, <2>1, <2>2
<1>6. ASSUME NEW k \in 0..NumTiles(s, e) - 1
      PROVE  TileLies(s, e, k)
  <2> DEFINE a == k * TileM
  <2>1. a \in Nat /\ a < n
    BY <1>4, <1>5
  <2>2. LiveRows(s, e, k) = Min({n - a, TileM})
    BY <1>3, <1>4
  <2> HIDE DEF a
  <2>3. TileM \in Nat \ {0}
    BY SizesAre
  <2>4. Min({n - a, TileM}) = IF n - a =< TileM THEN n - a ELSE TileM
    BY <1>1, <2>1, <2>3, MinMaxIs
  <2>5. /\ LiveRows(s, e, k) \in 1..TileM /\ a + LiveRows(s, e, k) =< n
        /\ LiveRows(s, e, k) = TileM \/ a + LiveRows(s, e, k) = n
    BY <1>1, <2>1, <2>2, <2>3, <2>4
  <2> QED BY <2>1, <2>5 DEF a, n, TileLies
<1>7. \A k \in Nat : k \in 0..NumTiles(s, e) - 1 <=> k * TileM < n
  BY <1>4, <1>5
<1> QED BY <1>1, <1>4, <1>6, <1>7 DEF n

\* What the token gather fetched for row x of the slab of an expert of s.
Fetched(s, e, x) == <<e, TokenGather(plan[s].slab_row)[SlabBase(Runs(s), e) + x]>>

\* Tile k of the expert e is there.
IsTile(s, e, k) == e \in ExpertsOf(s) /\ k \in 0..NumTiles(s, e) - 1

LEMMA TileIdsAre ==
  ASSUME Computed, NEW s \in Shards
  PROVE  /\ \A e, k : <<e, k>> \in TileIds(s) <=> IsTile(s, e, k)
         /\ \A o \in TileIds(s) : o = <<o[1], o[2]>> /\ IsTile(s, o[1], o[2])
         /\ \A e, k : IsTile(s, e, k) =>
              \A i \in 0..LiveRows(s, e, k) - 1 :
                tiles[s][e][k][i] = Fetched(s, e, k * TileM + i)
<1> DEFINE V == {e \in ExpertsOf(s) : Runs(s).expert_rows[e] > 0}
<1>1. tiles[s] = TileRows(s)
  BY DEF Computed
<1>2. Visited(Runs(s), s) = V
  BY PlannedIs DEF Computed
<1>3. DOMAIN tiles[s] = V
  BY <1>1, <1>2 DEF TileRows
<1>4. ASSUME NEW e \in V
      PROVE  tiles[s][e] = [k \in 0..NumTiles(s, e) - 1 |->
               [i \in 0..LiveRows(s, e, k) - 1 |->
                 <<e, TokenGather(plan[s].slab_row)[SlabBase(Runs(s), e) + k * TileM + i]>>]]
  BY <1>1, <1>2 DEF TileRows
<1>5. ASSUME NEW e \in ExpertsOf(s), NEW k \in 0..NumTiles(s, e) - 1
      PROVE  e \in V
  <2>1. e \in Experts
    BY ExpertFacts
  <2>2. TileLies(s, e, k) /\ Runs(s).expert_rows[e] \in Nat
    BY <2>1, TilesLie DEF Computed
  <2>3. Runs(s).expert_rows[e] > 0
    BY <2>2 DEF TileLies
  <2> QED BY <2>3
<1>6. \A e \in V : DOMAIN tiles[s][e] = 0..NumTiles(s, e) - 1
  <2> SUFFICES ASSUME NEW e \in V PROVE DOMAIN tiles[s][e] = 0..NumTiles(s, e) - 1
    OBVIOUS
  <2> QED BY <1>4
<1>8. \A e \in V : e \in ExpertsOf(s)
  OBVIOUS
<1> HIDE DEF V
<1>7. \A o : o \in TileIds(s) <=> \E e \in V : \E k \in 0..NumTiles(s, e) - 1 : o = <<e, k>>
  <2> SUFFICES ASSUME NEW o
               PROVE  o \in TileIds(s) <=> \E e \in V : \E k \in 0..NumTiles(s, e) - 1 : o = <<e, k>>
    OBVIOUS
  <2>1. o \in TileIds(s) <=> \E e \in V : \E k \in DOMAIN tiles[s][e] : o = <<e, k>>
    BY <1>3 DEF TileIds
  <2> QED BY <1>6, <2>1
<1>9. \A e, k : <<e, k>> \in TileIds(s) <=> IsTile(s, e, k)
  BY <1>5, <1>7, <1>8 DEF IsTile
<1>10. \A o \in TileIds(s) : o = <<o[1], o[2]>>
  BY <1>7
<1>11. ASSUME NEW e, NEW k, IsTile(s, e, k), NEW i \in 0..LiveRows(s, e, k) - 1
       PROVE  tiles[s][e][k][i] = Fetched(s, e, k * TileM + i)
  <2>1. e \in V /\ k \in 0..NumTiles(s, e) - 1 /\ e \in Experts
    BY <1>5, <1>11, ExpertFacts DEF IsTile
  <2>2. tiles[s][e][k][i] =
          <<e, TokenGather(plan[s].slab_row)[SlabBase(Runs(s), e) + k * TileM + i]>>
    <3>1. tiles[s][e][k] = [j \in 0..LiveRows(s, e, k) - 1 |->
            <<e, TokenGather(plan[s].slab_row)[SlabBase(Runs(s), e) + k * TileM + j]>>]
      BY <1>4, <2>1
    <3> QED BY <1>11, <3>1
  <2>3. SlabBase(Runs(s), e) \in Nat
    BY <2>1, PlannedIs DEF Computed, SlabsLaid
  <2>4. k * TileM \in Nat /\ LiveRows(s, e, k) \in 1..TileM /\ TileM \in Nat
    BY <2>1, TilesLie, SizesAre DEF Computed, TileLies
  <2>5. SlabBase(Runs(s), e) + k * TileM + i = SlabBase(Runs(s), e) + (k * TileM + i)
    <3> DEFINE a == SlabBase(Runs(s), e)
               b == k * TileM
    <3>1. a \in Nat /\ b \in Nat /\ i \in Int
      BY <1>11, <2>3, <2>4
    <3> HIDE DEF a, b
    <3>2. a + b + i = a + (b + i)
      BY <3>1
    <3> QED BY <3>2 DEF a, b
  <2> QED BY <2>2, <2>5 DEF Fetched
<1> QED BY <1>9, <1>10, <1>11

\* The rows of a tile that belong to the run to d, if there are any.
Shares(s, e, d, k) == <<e, d, k>> \in Overlaps(s)
First(s, e, d) == Start(s, e, d) \div TileM
Last(s, e, d) == (Start(s, e, d) + Runs(s).aligned[e][d] - 1) \div TileM

OverlapLies(s, e, d, k) ==
  /\ IsTile(s, e, k) /\ d \in Shards
  /\ Lo(s, e, d, k) \in Nat /\ Hi(s, e, d, k) \in Nat /\ Lo(s, e, d, k) < Hi(s, e, d, k)
  /\ Start(s, e, d) =< Lo(s, e, d, k) /\ k * TileM =< Lo(s, e, d, k)
  /\ Hi(s, e, d, k) =< Start(s, e, d) + Runs(s).aligned[e][d]
  /\ Hi(s, e, d, k) =< k * TileM + LiveRows(s, e, k)
  /\ \A y \in Int : Start(s, e, d) =< y /\ k * TileM =< y => Lo(s, e, d, k) =< y
  /\ \A y \in Int : y < Start(s, e, d) + Runs(s).aligned[e][d]
                      /\ y < k * TileM + LiveRows(s, e, k) => y < Hi(s, e, d, k)

\* The start of a run, its length and the bounds of a tile.
LEMMA RunIs ==
  ASSUME Planned, NEW s \in Shards, NEW e \in Experts, NEW d \in Shards
  PROVE  /\ Start(s, e, d) \in Nat /\ Runs(s).aligned[e][d] \in Nat
         /\ Runs(s).run_rows[e][d] \in Nat /\ Runs(s).run_rows[e][d] =< Runs(s).aligned[e][d]
         /\ Runs(s).aligned[e][d] > 0 => Runs(s).run_rows[e][d] > 0
         /\ Start(s, e, d) + Runs(s).aligned[e][d] =< Runs(s).expert_rows[e]
BY PlannedIs DEF RunsPadded, RunsLaid, Start

LEMMA BoundsAre ==
  ASSUME Computed, NEW s \in Shards, NEW e, NEW k, IsTile(s, e, k), NEW d \in Shards,
         Lo(s, e, d, k) < Hi(s, e, d, k)
  PROVE  OverlapLies(s, e, d, k)
<1> DEFINE a == Start(s, e, d)
           b == k * TileM
           c == Start(s, e, d) + Runs(s).aligned[e][d]
           f == k * TileM + LiveRows(s, e, k)
<1>1. e \in Experts
  BY ExpertFacts DEF IsTile
<1>2. a \in Nat /\ c \in Nat
  BY <1>1, RunIs DEF Computed
<1>3. b \in Nat /\ f \in Nat
  <2>1. k * TileM \in Nat /\ LiveRows(s, e, k) \in 1..TileM
    BY <1>1, TilesLie DEF Computed, TileLies, IsTile
  <2>2. \A x \in 1..TileM : x \in Nat
    BY SizesAre
  <2> QED BY <2>1, <2>2
<1>4. Lo(s, e, d, k) = Max({a, b}) /\ Hi(s, e, d, k) = Min({c, f})
  BY DEF Lo, Hi
<1> HIDE DEF a, b, c, f
<1>5. /\ Max({a, b}) = IF a =< b THEN b ELSE a
      /\ Min({c, f}) = IF c =< f THEN c ELSE f
  BY <1>2, <1>3, MinMaxIs
<1> DEFINE l == Lo(s, e, d, k)
           h == Hi(s, e, d, k)
<1>6. /\ l \in Nat /\ h \in Nat /\ a =< l /\ b =< l /\ h =< c /\ h =< f
      /\ \A y \in Int : a =< y /\ b =< y => l =< y
      /\ \A y \in Int : y < c /\ y < f => y < h
  BY <1>2, <1>3, <1>4, <1>5
<1> HIDE DEF l, h
<1> QED BY <1>6 DEF a, b, c, f, l, h, OverlapLies

LEMMA SharesIs ==
  ASSUME Computed, NEW s \in Shards
  PROVE  /\ \A o \in Overlaps(s) : o = <<o[1], o[2], o[3]>> /\ OverlapLies(s, o[1], o[2], o[3])
         /\ \A e, d, k : IsTile(s, e, k) /\ d \in Shards /\ Lo(s, e, d, k) < Hi(s, e, d, k)
              => Shares(s, e, d, k)
<1>1. \A o \in Overlaps(s) : /\ o = <<o[1], o[2], o[3]>> /\ o[2] \in Shards
                             /\ <<o[1], o[3]>> \in TileIds(s)
                             /\ Lo(s, o[1], o[2], o[3]) < Hi(s, o[1], o[2], o[3])
  BY DEF Overlaps
<1>2. \A o \in Overlaps(s) : OverlapLies(s, o[1], o[2], o[3])
  BY <1>1, TileIdsAre, BoundsAre
<1>3. ASSUME NEW e, NEW d \in Shards, NEW k, IsTile(s, e, k), Lo(s, e, d, k) < Hi(s, e, d, k)
      PROVE  Shares(s, e, d, k)
  <2>1. e \in Experts /\ <<e, k>> \in TileIds(s)
    BY <1>3, ExpertFacts, TileIdsAre DEF IsTile
  <2>2. k \in 0..Stride \div TileM
    <3>1. /\ k \in Nat /\ k * TileM \in Nat /\ k * TileM < Runs(s).expert_rows[e]
          /\ Runs(s).expert_rows[e] \in Nat
      BY <1>3, <2>1, TilesLie DEF IsTile, Computed, TileLies
    <3>2. /\ SlabBase(Runs(s), e) \in Nat
          /\ SlabBase(Runs(s), e) + Runs(s).expert_rows[e] + TileM =< Stride
      BY <2>1, PlannedIs DEF Computed, SlabsLaid
    <3>3. Stride \in Nat /\ TileM \in Nat \ {0}
      BY TotalsBounded, SizesAre
    <3>4. k * TileM =< Stride
      <4> DEFINE a == k * TileM
                 b == SlabBase(Runs(s), e)
                 c == Runs(s).expert_rows[e]
      <4>1. a \in Nat /\ a < c /\ b \in Nat /\ c \in Nat /\ b + c + TileM =< Stride
        BY <3>1, <3>2
      <4> HIDE DEF a, b, c
      <4>2. a =< Stride
        BY <3>3, <4>1
      <4> QED BY <4>2 DEF a
    <3>5. k =< Stride \div TileM /\ Stride \div TileM \in Int
      <4>1. k \in Int /\ Stride \in Int
        BY <3>1, <3>3
      <4> QED BY <3>3, <3>4, <4>1, QuotientBounds
    <3> QED BY <3>1, <3>5
  <2> QED BY <1>3, <2>1, <2>2 DEF Shares, Overlaps
<1> QED BY <1>1, <1>2, <1>3

\* Every row of a run is shared with the tile that it falls in.
LEMMA RowsShared ==
  ASSUME Computed, NEW s \in Shards, NEW e \in ExpertsOf(s), NEW d \in Shards,
         NEW y \in Nat, Start(s, e, d) =< y, y < Start(s, e, d) + Runs(s).aligned[e][d]
  PROVE  LET k == y \div TileM IN
         Shares(s, e, d, k) /\ OverlapLies(s, e, d, k) /\ Lo(s, e, d, k) =< y /\ y < Hi(s, e, d, k)
<1> DEFINE k == y \div TileM
           b == k * TileM
           l == Start(s, e, d)
           h == Start(s, e, d) + Runs(s).aligned[e][d]
           n == Runs(s).expert_rows[e]
           v == LiveRows(s, e, k)
<1>1. e \in Experts /\ TileM \in Nat \ {0}
  BY ExpertFacts, SizesAre
<1>2. l \in Nat /\ h \in Nat /\ h =< n /\ n \in Nat /\ l =< y /\ y < h
  BY <1>1, RunIs, TilesLie DEF Computed
<1>3. k \in Nat /\ b \in Int /\ b =< y /\ y < b + TileM
  <2>1. k \in Nat
    BY <1>1, AlignDownIs
  <2> HIDE DEF k
  <2>2. k * TileM \in Int /\ k * TileM =< y /\ y < k * TileM + TileM
    <3>1. y \in Int /\ k \in Int /\ k =< y \div TileM /\ y \div TileM =< k
      BY <2>1 DEF k
    <3> QED BY <1>1, <3>1, QuotientBounds
  <2> QED BY <2>1, <2>2
<1>4. IsTile(s, e, k)
  <2>1. b < n
    BY <1>2, <1>3
  <2> QED BY <1>1, <1>3, <2>1, TilesLie DEF Computed, IsTile
<1>5. /\ v \in 1..TileM /\ b + v =< n /\ (v = TileM \/ b + v = n)
  BY <1>1, <1>4, TilesLie DEF Computed, TileLies, IsTile
<1>6. Lo(s, e, d, k) = Max({l, b}) /\ Hi(s, e, d, k) = Min({h, b + v})
  BY DEF Lo, Hi
<1> HIDE DEF k, b, l, h, n, v
<1>7. y < b + v /\ v \in Nat
  BY <1>1, <1>2, <1>3, <1>5
<1>8. /\ Max({l, b}) = IF l =< b THEN b ELSE l
      /\ Min({h, b + v}) = IF h =< b + v THEN h ELSE b + v
  <2>1. l \in Int /\ b \in Int /\ h \in Int /\ b + v \in Int
    BY <1>2, <1>3, <1>7
  <2> QED BY <2>1, MinMaxIs
<1>9. Lo(s, e, d, k) =< y /\ y < Hi(s, e, d, k) /\ Lo(s, e, d, k) < Hi(s, e, d, k)
  BY <1>2, <1>3, <1>6, <1>7, <1>8
<1>10. Shares(s, e, d, k)
  BY <1>4, <1>9, SharesIs
<1>11. OverlapLies(s, e, d, k)
  BY <1>4, <1>9, BoundsAre
<1> QED BY <1>9, <1>10, <1>11 DEF k

\* The tiles that share rows with a run are those from its first row to its last.
LEMMA TilesShared ==
  ASSUME Computed, NEW s \in Shards, NEW e \in ExpertsOf(s), NEW d \in Shards
  PROVE  /\ First(s, e, d) \in Nat
         /\ \A k : Shares(s, e, d, k) <=>
              Runs(s).aligned[e][d] > 0 /\ k \in First(s, e, d)..Last(s, e, d)
         /\ Runs(s).aligned[e][d] > 0 =>
              /\ Last(s, e, d) \in Nat /\ First(s, e, d) =< Last(s, e, d)
              /\ Last(s, e, d) =< NumTiles(s, e) - 1
              /\ Runs(s).run_tiles[e][d] = Last(s, e, d) - First(s, e, d) + 1
         /\ Runs(s).aligned[e][d] = 0 => Runs(s).run_tiles[e][d] = 0
<1> DEFINE l == Start(s, e, d)
           w == Runs(s).aligned[e][d]
           n == Runs(s).expert_rows[e]
           f == First(s, e, d)
           g == Last(s, e, d)
<1>1. e \in Experts /\ TileM \in Nat \ {0}
  BY ExpertFacts, SizesAre
<1>2. l \in Nat /\ w \in Nat /\ l + w =< n /\ n \in Nat
  BY <1>1, RunIs, TilesLie DEF Computed
<1>3. f = l \div TileM /\ g = (l + w - 1) \div TileM
  BY DEF First, Last
<1>4. f \in Nat
  BY <1>1, <1>2, <1>3, AlignDownIs
<1>5. Runs(s).run_tiles[e][d] = IF w = 0 THEN 0 ELSE g - f + 1
  BY <1>1, PlannedIs DEF Computed, RunsLaid, MirrorRunTiles, Start, First, Last
<1>6. ASSUME w > 0
      PROVE  g \in Nat /\ f =< g /\ g =< NumTiles(s, e) - 1
  <2>1. l + w - 1 \in Nat /\ l =< l + w - 1 /\ l + w - 1 < n
    BY <1>2, <1>6
  <2>2. g \in Nat /\ f =< g
    <3> DEFINE a == l + w - 1
    <3>1. a \in Nat /\ l =< a
      BY <2>1
    <3> HIDE DEF a, l, f, g
    <3>2. a \div TileM \in Nat /\ l \div TileM =< a \div TileM
      BY <1>1, <1>2, <3>1, DivisionGrows
    <3> QED BY <1>3, <3>2 DEF a
  <2>3. g * TileM =< l + w - 1 /\ g * TileM \in Nat
    <3>1. l + w - 1 \in Int /\ g \in Int /\ g =< (l + w - 1) \div TileM
      BY <1>3, <2>1, <2>2
    <3> HIDE DEF l, w, g
    <3>2. g * TileM =< l + w - 1
      BY <1>1, <3>1, QuotientBounds
    <3> QED BY <1>1, <2>2, <3>2
  <2>4. g * TileM < n
    BY <1>2, <2>1, <2>3
  <2>5. g \in 0..NumTiles(s, e) - 1
    BY <1>1, <2>2, <2>4, TilesLie DEF Computed
  <2>6. NumTiles(s, e) \in Nat
    BY <1>1, TilesLie DEF Computed
  <2> QED BY <2>2, <2>5, <2>6
<1>7. ASSUME NEW k, Shares(s, e, d, k)
      PROVE  w > 0 /\ k \in f..g
  <2>1. OverlapLies(s, e, d, k)
    <3>1. LET o == <<e, d, k>> IN OverlapLies(s, o[1], o[2], o[3])
      BY <1>7, SharesIs DEF Shares
    <3> QED BY <3>1
  <2> DEFINE lo == Lo(s, e, d, k)
             hi == Hi(s, e, d, k)
             v == LiveRows(s, e, k)
             b == k * TileM
  <2>2. /\ lo \in Nat /\ hi \in Nat /\ lo < hi /\ l =< lo /\ b =< lo /\ hi =< l + w /\ hi =< b + v
    BY <2>1 DEF OverlapLies
  <2>3. k \in Nat /\ v \in 1..TileM /\ b \in Nat
    BY <1>1, <2>1, TilesLie DEF OverlapLies, IsTile, Computed, TileLies
  <2> HIDE DEF lo, hi, v, b
  <2>4. w > 0 /\ b =< l + w - 1 /\ l < b + TileM
    <3> HIDE DEF l, w
    <3> QED BY <1>1, <1>2, <2>2, <2>3
  <2>5. k =< (l + w - 1) \div TileM /\ l \div TileM =< k
    <3>1. l + w - 1 \in Int /\ l \in Int /\ k \in Int
      BY <1>2, <2>3
    <3> HIDE DEF l, w
    <3>2. k * TileM =< l + w - 1 <=> k =< (l + w - 1) \div TileM
      BY <1>1, <3>1, QuotientBounds
    <3>3. l < k * TileM + TileM <=> l \div TileM =< k
      BY <1>1, <3>1, QuotientBounds
    <3> QED BY <2>4, <3>2, <3>3 DEF b
  <2> QED BY <1>3, <1>4, <1>6, <2>3, <2>4, <2>5
<1>8. ASSUME w > 0, NEW k \in f..g
      PROVE  Shares(s, e, d, k)
  <2>1. k \in Nat /\ f =< k /\ k =< g
    BY <1>4, <1>6, <1>8
  <2> DEFINE b == k * TileM
  <2>2. b \in Nat /\ b =< l + w - 1 /\ l < b + TileM
    <3>1. l + w - 1 \in Int /\ l \in Int /\ k \in Int
      BY <1>2, <2>1
    <3>2. k =< (l + w - 1) \div TileM /\ l \div TileM =< k
      BY <1>3, <2>1
    <3>4. k * TileM \in Nat
      BY <1>1, <2>1
    <3> HIDE DEF l, w, f, g
    <3>3. k * TileM =< l + w - 1 /\ l < k * TileM + TileM
      BY <1>1, <3>1, <3>2, QuotientBounds
    <3> QED BY <3>3, <3>4
  <2>3. \E y \in Nat : l =< y /\ y < l + w /\ b =< y /\ y < b + TileM
    <3> HIDE DEF l, w, b
    <3>1. CASE l =< b
      <4>1. b < l + w
        BY <1>2, <2>2
      <4> QED BY <1>1, <2>2, <3>1, <4>1
    <3>2. CASE b < l
      BY <1>2, <1>8, <2>2, <3>2
    <3> QED BY <1>2, <2>2, <3>1, <3>2
  <2>4. PICK y \in Nat : l =< y /\ y < l + w /\ b =< y /\ y < b + TileM
    BY <2>3
  <2>5. Shares(s, e, d, y \div TileM)
    BY <2>4, RowsShared
  <2>6. y \div TileM = k
    <3>1. k \in Int /\ y \in Int
      BY <2>1
    <3>2. k =< y \div TileM /\ y \div TileM =< k /\ y \div TileM \in Int
      BY <1>1, <2>4, <3>1, QuotientBounds
    <3> QED BY <3>1, <3>2
  <2> QED BY <2>5, <2>6
<1>9. w > 0 \/ w = 0
  BY <1>2
<1> QED BY <1>2, <1>4, <1>5, <1>6, <1>7, <1>8, <1>9

-----------------------------------------------------------------------------
\* What the two transports copy: every run, row by row.

RowCopy(s, e, d, x) ==
  Copy(d, PushDst(Runs(s), e, d) + x, Fetched(s, e, Start(s, e, d) + x))
RunCopies(s, e, d) == {RowCopy(s, e, d, x) : x \in 0..PushedLength(s, e, d) - 1}

LEMMA LengthsAre ==
  ASSUME Planned, NEW s \in Shards, NEW e \in Experts, NEW d \in Shards
  PROVE  /\ PushedLength(s, e, d) \in Nat
         /\ PushedLength(s, e, d) =< Runs(s).aligned[e][d]
         /\ Runs(s).run_rows[e][d] =< PushedLength(s, e, d)
         /\ d # s => PushedLength(s, e, d) = Runs(s).run_rows[e][d]
         /\ d = s => PushedLength(s, e, d) = Runs(s).aligned[e][d]
<1>1. /\ Runs(s).aligned[e][d] \in Nat /\ Runs(s).run_rows[e][d] \in Nat
      /\ Runs(s).run_rows[e][d] =< Runs(s).aligned[e][d]
  BY RunIs
<1> QED BY <1>1 DEF PushedLength

\* Row i of what a tile shares with a run, as a row of the run.
LEMMA TileRowIs ==
  ASSUME Computed, NEW s \in Shards, NEW e, NEW d, NEW k, OverlapLies(s, e, d, k),
         NEW i \in Nat, i < Hi(s, e, d, k) - Lo(s, e, d, k)
  PROVE  LET lo == Lo(s, e, d, k)
             x == lo - Start(s, e, d) + i IN
         /\ x \in Nat /\ x < Runs(s).aligned[e][d]
         /\ \A a \in Nat : a + lo - Start(s, e, d) + i = a + x
         /\ tiles[s][e][k][lo - k * TileM + i] = Fetched(s, e, Start(s, e, d) + x)
<1> DEFINE lo == Lo(s, e, d, k)
           hi == Hi(s, e, d, k)
           l == Start(s, e, d)
           w == Runs(s).aligned[e][d]
           b == k * TileM
           v == LiveRows(s, e, k)
           x == lo - l + i
           j == lo - b + i
<1>1. /\ IsTile(s, e, k) /\ d \in Shards /\ lo \in Nat /\ hi \in Nat /\ lo < hi
      /\ l =< lo /\ b =< lo /\ hi =< l + w /\ hi =< b + v /\ i < hi - lo
  BY DEF OverlapLies
<1>2. e \in Experts /\ l \in Nat /\ w \in Nat
  BY <1>1, ExpertFacts, RunIs DEF IsTile, Computed
<1>3. b \in Nat /\ v \in 1..TileM /\ TileM \in Nat
  BY <1>1, <1>2, TilesLie, SizesAre DEF IsTile, Computed, TileLies
<1> HIDE DEF lo, hi, l, w, b, v
<1>4. /\ x \in Nat /\ x < w /\ (\A a \in Nat : a + lo - l + i = a + x)
      /\ j \in 0..v - 1 /\ b + j = l + x
  BY <1>1, <1>2, <1>3
<1>5. tiles[s][e][k][j] = Fetched(s, e, b + j)
  <2> HIDE DEF j
  <2> QED BY <1>1, <1>4, TileIdsAre DEF b, v
<1>6. tiles[s][e][k][j] = Fetched(s, e, l + x)
  BY <1>4, <1>5
<1> QED BY <1>4, <1>6 DEF lo, l, w, b

\* And every row of a run is one of some tile.
LEMMA RunRowIs ==
  ASSUME Computed, NEW s \in Shards, NEW e \in ExpertsOf(s), NEW d \in Shards,
         NEW x \in Nat, x < Runs(s).aligned[e][d]
  PROVE  \E k, i : /\ Shares(s, e, d, k) /\ OverlapLies(s, e, d, k)
                   /\ i \in Nat /\ i < Hi(s, e, d, k) - Lo(s, e, d, k)
                   /\ x = Lo(s, e, d, k) - Start(s, e, d) + i
<1> DEFINE l == Start(s, e, d)
           w == Runs(s).aligned[e][d]
           y == l + x
           k == y \div TileM
           lo == Lo(s, e, d, k)
           hi == Hi(s, e, d, k)
           i == y - lo
<1>1. e \in Experts /\ l \in Nat /\ w \in Nat
  BY ExpertFacts, RunIs DEF Computed
<1>2. y \in Nat /\ l =< y /\ y < l + w
  <2> HIDE DEF l, w
  <2> QED BY <1>1 DEF w
<1>3. Shares(s, e, d, k) /\ OverlapLies(s, e, d, k) /\ lo =< y /\ y < hi
  <2> HIDE DEF y
  <2> QED BY <1>2, RowsShared
<1> HIDE DEF k
<1>4. lo \in Nat /\ hi \in Nat
  BY <1>3 DEF OverlapLies
<1> HIDE DEF l, w, lo, hi
<1>5. i \in Nat /\ i < hi - lo /\ x = lo - l + i
  BY <1>1, <1>2, <1>3, <1>4
<1> QED BY <1>3, <1>5 DEF l, lo, hi

\* commit_tile brings the runs of a shard into its slab of contributions.
LEMMA CommittedAre ==
  ASSUME Computed, NEW s \in Shards
  PROVE  \A c : c \in Committed(s) <=>
           \E e \in ExpertsOf(s), d \in Shards : \E x \in 0..Runs(s).aligned[e][d] - 1 :
             c = Copy(s, ContribOff(Runs(s), e, d) + x, Fetched(s, e, Start(s, e, d) + x))
<1> DEFINE Part(e, d, k, i) ==
             Copy(s, ContribOff(Runs(s), e, d) + Lo(s, e, d, k) - Start(s, e, d) + i,
                  tiles[s][e][k][Lo(s, e, d, k) - k * TileM + i])
           Whole(e, d, x) ==
             Copy(s, ContribOff(Runs(s), e, d) + x, Fetched(s, e, Start(s, e, d) + x))
<1>1. \A c : c \in Committed(s) <=>
        \E o \in Overlaps(s) : \E i \in 0..Hi(s, o[1], o[2], o[3]) - Lo(s, o[1], o[2], o[3]) - 1 :
          c = Part(o[1], o[2], o[3], i)
  BY DEF Committed
<1>2. ASSUME NEW e \in ExpertsOf(s), NEW d \in Shards, NEW k, OverlapLies(s, e, d, k),
             NEW i \in Nat, i < Hi(s, e, d, k) - Lo(s, e, d, k)
      PROVE  LET x == Lo(s, e, d, k) - Start(s, e, d) + i IN
             x \in Nat /\ x < Runs(s).aligned[e][d] /\ Part(e, d, k, i) = Whole(e, d, x)
  <2>1. ContribOff(Runs(s), e, d) \in Nat
    BY PlannedIs, ExpertFacts DEF Computed, ContribsLaid
  <2> QED BY <1>2, <2>1, TileRowIs
<1>3. ASSUME NEW o \in Overlaps(s)
      PROVE  /\ o = <<o[1], o[2], o[3]>> /\ OverlapLies(s, o[1], o[2], o[3])
             /\ o[1] \in ExpertsOf(s) /\ o[2] \in Shards
             /\ Lo(s, o[1], o[2], o[3]) \in Nat /\ Hi(s, o[1], o[2], o[3]) \in Nat
  BY SharesIs DEF OverlapLies, IsTile
<1> HIDE DEF Part, Whole
<1>4. ASSUME NEW c \in Committed(s)
      PROVE  \E e \in ExpertsOf(s), d \in Shards : \E x \in 0..Runs(s).aligned[e][d] - 1 :
               c = Whole(e, d, x)
  <2>1. PICK o \in Overlaps(s) :
          \E i \in 0..Hi(s, o[1], o[2], o[3]) - Lo(s, o[1], o[2], o[3]) - 1 :
            c = Part(o[1], o[2], o[3], i)
    BY <1>1
  <2> DEFINE e == o[1]
             d == o[2]
             k == o[3]
  <2>2. PICK i \in 0..Hi(s, e, d, k) - Lo(s, e, d, k) - 1 : c = Part(e, d, k, i)
    BY <2>1
  <2>3. e \in ExpertsOf(s) /\ d \in Shards /\ OverlapLies(s, e, d, k)
    BY <1>3
  <2>4. i \in Nat /\ i < Hi(s, e, d, k) - Lo(s, e, d, k)
    BY <1>3
  <2> HIDE DEF e, d, k
  <2> DEFINE x == Lo(s, e, d, k) - Start(s, e, d) + i
  <2>5. x \in Nat /\ x < Runs(s).aligned[e][d] /\ c = Whole(e, d, x)
    BY <1>2, <2>2, <2>3, <2>4
  <2>6. Runs(s).aligned[e][d] \in Nat
    BY <2>3, ExpertFacts, RunIs DEF Computed
  <2> QED BY <2>3, <2>5, <2>6
<1>5. ASSUME NEW e \in ExpertsOf(s), NEW d \in Shards, NEW x \in 0..Runs(s).aligned[e][d] - 1
      PROVE  Whole(e, d, x) \in Committed(s)
  <2>1. x \in Nat /\ x < Runs(s).aligned[e][d]
    <3>1. Runs(s).aligned[e][d] \in Nat
      BY ExpertFacts, RunIs DEF Computed
    <3> QED BY <3>1
  <2>2. PICK k, i : /\ Shares(s, e, d, k) /\ OverlapLies(s, e, d, k)
                    /\ i \in Nat /\ i < Hi(s, e, d, k) - Lo(s, e, d, k)
                    /\ x = Lo(s, e, d, k) - Start(s, e, d) + i
    BY <2>1, RunRowIs
  <2>3. Part(e, d, k, i) = Whole(e, d, x)
    BY <1>2, <2>2
  <2>4. i \in 0..Hi(s, e, d, k) - Lo(s, e, d, k) - 1
    <3>1. Lo(s, e, d, k) \in Nat /\ Hi(s, e, d, k) \in Nat
      BY <2>2 DEF OverlapLies
    <3> QED BY <2>2, <3>1
  <2> DEFINE o == <<e, d, k>>
  <2>5. o \in Overlaps(s) /\ o[1] = e /\ o[2] = d /\ o[3] = k
    BY <2>2 DEF Shares
  <2> HIDE DEF o
  <2> QED BY <1>1, <2>3, <2>4, <2>5
<1> QED BY <1>4, <1>5 DEF Whole

\* ship_tile copies of a tile what the run has rows for.
LEMMA ShippedLengthIs ==
  ASSUME Computed, NEW s \in Shards, NEW e, NEW d, NEW k, OverlapLies(s, e, d, k), NEW i \in Int
  PROVE  i \in 0..ShippedLength(s, e, d, k) - 1 <=>
           /\ i \in Nat /\ i < Hi(s, e, d, k) - Lo(s, e, d, k)
           /\ Lo(s, e, d, k) - Start(s, e, d) + i < PushedLength(s, e, d)
<1> DEFINE lo == Lo(s, e, d, k)
           hi == Hi(s, e, d, k)
           l == Start(s, e, d)
           w == Runs(s).aligned[e][d]
           r == Runs(s).run_rows[e][d]
           n == ShippedLength(s, e, d, k)
           m == PushedLength(s, e, d)
           v == hi - lo
           u == r - (lo - l)
           z == Min({u, v})
<1>1. e \in Experts /\ d \in Shards /\ lo \in Nat /\ hi \in Nat /\ lo < hi /\ l =< lo /\ hi =< l + w
  BY ExpertFacts DEF OverlapLies, IsTile
<1>2. l \in Nat /\ w \in Nat /\ r \in Nat
  BY <1>1, RunIs DEF Computed
<1>3. (d = s => n = v /\ m = w) /\ (d # s => n = Max({0, z}) /\ m = r)
  BY DEF ShippedLength, PushedLength
<1> HIDE DEF lo, hi, l, w, r, n, m
<1>4. u \in Int /\ v \in Int
  BY <1>1, <1>2
<1>5. z = IF u =< v THEN u ELSE v
  <2> HIDE DEF u, v
  <2> QED BY <1>4, MinMaxIs
<1>6. z \in Int
  BY <1>4, <1>5
<1>7. Max({0, z}) = IF 0 =< z THEN z ELSE 0
  <2>1. 0 \in Int
    OBVIOUS
  <2> HIDE DEF z
  <2> QED BY <1>6, <2>1, MinMaxIs
<1>8. ASSUME d = s
      PROVE  i \in 0..n - 1 <=> i \in Nat /\ i < hi - lo /\ lo - l + i < m
  BY <1>1, <1>2, <1>3, <1>8
<1>9. ASSUME d # s
      PROVE  i \in 0..n - 1 <=> i \in Nat /\ i < hi - lo /\ lo - l + i < m
  <2>1. n = IF 0 =< z THEN z ELSE 0
    BY <1>3, <1>7, <1>9
  <2> HIDE DEF z
  <2> QED BY <1>1, <1>2, <1>3, <1>5, <1>6, <1>9, <2>1
<1> QED BY <1>8, <1>9 DEF lo, hi, l, n, m

LEMMA ShippedAre ==
  ASSUME Computed, NEW s \in Shards
  PROVE  \A c : c \in ShippedRows(s) <=> \E e \in ExpertsOf(s), d \in Shards : c \in RunCopies(s, e, d)
<1> DEFINE Part(e, d, k, i) ==
             Copy(d, PushDst(Runs(s), e, d) + Lo(s, e, d, k) - Start(s, e, d) + i,
                  tiles[s][e][k][Lo(s, e, d, k) - k * TileM + i])
<1>1. \A c : c \in ShippedRows(s) <=>
        \E o \in Overlaps(s) : \E i \in 0..ShippedLength(s, o[1], o[2], o[3]) - 1 :
          c = Part(o[1], o[2], o[3], i)
  BY DEF ShippedRows
<1>2. ASSUME NEW e \in ExpertsOf(s), NEW d \in Shards, NEW k, OverlapLies(s, e, d, k),
             NEW i \in Nat, i < Hi(s, e, d, k) - Lo(s, e, d, k)
      PROVE  LET x == Lo(s, e, d, k) - Start(s, e, d) + i IN
             x \in Nat /\ Part(e, d, k, i) = RowCopy(s, e, d, x)
  <2>1. PushDst(Runs(s), e, d) \in Nat
    BY PlannedIs, ExpertFacts DEF Computed, ArrivalsLaid, PushDst
  <2> QED BY <1>2, <2>1, TileRowIs DEF RowCopy
<1>3. ASSUME NEW o \in Overlaps(s)
      PROVE  /\ o = <<o[1], o[2], o[3]>> /\ OverlapLies(s, o[1], o[2], o[3])
             /\ o[1] \in ExpertsOf(s) /\ o[2] \in Shards
  BY SharesIs DEF OverlapLies, IsTile
<1> HIDE DEF Part
<1>4. ASSUME NEW c \in ShippedRows(s)
      PROVE  \E e \in ExpertsOf(s), d \in Shards : c \in RunCopies(s, e, d)
  <2>1. PICK o \in Overlaps(s) :
          \E i \in 0..ShippedLength(s, o[1], o[2], o[3]) - 1 : c = Part(o[1], o[2], o[3], i)
    BY <1>1
  <2> DEFINE e == o[1]
             d == o[2]
             k == o[3]
  <2>2. PICK i \in 0..ShippedLength(s, e, d, k) - 1 : c = Part(e, d, k, i)
    BY <2>1
  <2>3. e \in ExpertsOf(s) /\ d \in Shards /\ OverlapLies(s, e, d, k)
    BY <1>3
  <2> HIDE DEF e, d, k
  <2> DEFINE x == Lo(s, e, d, k) - Start(s, e, d) + i
  <2>4. i \in Nat /\ i < Hi(s, e, d, k) - Lo(s, e, d, k) /\ x < PushedLength(s, e, d)
    <3>1. i \in Int
      OBVIOUS
    <3> QED BY <2>3, <3>1, ShippedLengthIs
  <2>5. x \in Nat /\ c = RowCopy(s, e, d, x)
    BY <1>2, <2>2, <2>3, <2>4
  <2>6. PushedLength(s, e, d) \in Nat
    BY <2>3, ExpertFacts, LengthsAre DEF Computed
  <2>7. x \in 0..PushedLength(s, e, d) - 1
    BY <2>4, <2>5, <2>6
  <2> HIDE DEF x
  <2> QED BY <2>3, <2>5, <2>7 DEF RunCopies
<1>5. ASSUME NEW e \in ExpertsOf(s), NEW d \in Shards, NEW c \in RunCopies(s, e, d)
      PROVE  c \in ShippedRows(s)
  <2>0. PICK x \in 0..PushedLength(s, e, d) - 1 : c = RowCopy(s, e, d, x)
    BY DEF RunCopies
  <2>1. x \in Nat /\ x < Runs(s).aligned[e][d] /\ x < PushedLength(s, e, d)
    <3>1. /\ Runs(s).aligned[e][d] \in Nat /\ PushedLength(s, e, d) \in Nat
          /\ PushedLength(s, e, d) =< Runs(s).aligned[e][d]
      BY ExpertFacts, RunIs, LengthsAre DEF Computed
    <3> QED BY <3>1
  <2>2. PICK k, i : /\ Shares(s, e, d, k) /\ OverlapLies(s, e, d, k)
                    /\ i \in Nat /\ i < Hi(s, e, d, k) - Lo(s, e, d, k)
                    /\ x = Lo(s, e, d, k) - Start(s, e, d) + i
    BY <2>1, RunRowIs
  <2>3. Part(e, d, k, i) = c
    BY <1>2, <2>0, <2>2
  <2>4. i \in 0..ShippedLength(s, e, d, k) - 1
    <3>1. i \in Int
      BY <2>2
    <3> QED BY <2>1, <2>2, <3>1, ShippedLengthIs
  <2> DEFINE o == <<e, d, k>>
  <2>5. o \in Overlaps(s) /\ o[1] = e /\ o[2] = d /\ o[3] = k
    BY <2>2 DEF Shares
  <2> HIDE DEF o
  <2> QED BY <1>1, <2>3, <2>4, <2>5
<1> QED BY <1>4, <1>5

\* push_expert moves them from there to where they go.
LEMMA PushedAre ==
  ASSUME Computed, NEW s \in Shards
  PROVE  \A c : c \in PushedRows(s) <=> \E e \in ExpertsOf(s), d \in Shards : c \in RunCopies(s, e, d)
<1> DEFINE From(e, d) == ContribOff(Runs(s), e, d)
           N(e, d) == PushedLength(s, e, d)
           To(e, d) == PushDst(Runs(s), e, d)
           W(e, d) == Runs(s).aligned[e][d]
           Cargo(e, d, x) == Fetched(s, e, Start(s, e, d) + x)
<1>1. \A c : c \in PushedRows(s) <=>
        \E p \in PushedRuns(s) : \E b \in Committed(s) :
          /\ b.at \in From(p[1], p[2])..From(p[1], p[2]) + N(p[1], p[2]) - 1
          /\ c = Copy(p[2], b.at - From(p[1], p[2]) + To(p[1], p[2]), b.what)
  BY DEF PushedRows, Moved
<1>2. \A b : b \in Committed(s) <=>
        \E e \in ExpertsOf(s), d \in Shards : \E x \in 0..W(e, d) - 1 :
          b = Copy(s, From(e, d) + x, Cargo(e, d, x))
  BY CommittedAre
<1>3. ASSUME NEW e \in ExpertsOf(s), NEW d \in Shards
      PROVE  /\ From(e, d) \in Nat /\ To(e, d) \in Nat /\ W(e, d) \in Nat /\ N(e, d) \in Nat
             /\ N(e, d) =< W(e, d) /\ e \in Int
             /\ \A f \in ExpertsOf(s), c \in Shards :
                  d < c \/ (d = c /\ e < f) => From(e, d) + W(e, d) =< From(f, c)
  <2>1. e \in Experts /\ e \in Nat /\ ShardOf(e) = s
    BY ExpertFacts
  <2>2. \A f \in ExpertsOf(s) : f \in Experts /\ ShardOf(f) = s
    BY ExpertFacts
  <2>3. To(e, d) \in Nat
    BY <2>1, PlannedIs DEF Computed, ArrivalsLaid, PushDst
  <2>4. W(e, d) \in Nat /\ N(e, d) \in Nat /\ N(e, d) =< W(e, d)
    BY <2>1, RunIs, LengthsAre DEF Computed
  <2>5. ContribsLaid(Runs(s))
    BY PlannedIs DEF Computed
  <2>6. /\ From(e, d) \in Nat
        /\ \A f \in ExpertsOf(s), c \in Shards :
             d < c \/ (d = c /\ e < f) => From(e, d) + W(e, d) =< From(f, c)
    BY <2>1, <2>2, <2>5 DEF ContribsLaid
  <2> QED BY <2>1, <2>3, <2>4, <2>6
<1>4. /\ \A p \in PushedRuns(s) : p[1] \in ExpertsOf(s) /\ p[2] \in Shards
      /\ \A e \in ExpertsOf(s), d \in Shards : W(e, d) > 0 => <<e, d>> \in PushedRuns(s)
  <2>1. /\ \A e \in ExpertsOf(s) : Runs(s).expert_rows[e] > 0 => e \in Visited(Runs(s), s)
        /\ \A e \in Visited(Runs(s), s) : e \in ExpertsOf(s)
    BY PlannedIs DEF Computed
  <2>2. ASSUME NEW e \in ExpertsOf(s), NEW d \in Shards, W(e, d) > 0
        PROVE  Runs(s).expert_rows[e] > 0
    <3>1. /\ Start(s, e, d) \in Nat /\ Start(s, e, d) + Runs(s).aligned[e][d] =< Runs(s).expert_rows[e]
          /\ Runs(s).expert_rows[e] \in Nat /\ Runs(s).aligned[e][d] \in Nat
      BY ExpertFacts, RunIs, TilesLie DEF Computed
    <3> QED BY <2>2, <3>1
  <2> QED BY <2>1, <2>2 DEF PushedRuns
<1>5. ASSUME NEW e \in ExpertsOf(s), NEW d \in Shards, NEW f \in ExpertsOf(s), NEW c \in Shards,
             NEW x \in 0..W(e, d) - 1, NEW y \in 0..W(f, c) - 1, From(e, d) + x = From(f, c) + y
      PROVE  e = f /\ d = c /\ x = y
  <2> DEFINE a == From(e, d)
             b == From(f, c)
             u == W(e, d)
             v == W(f, c)
  <2>1. /\ a \in Nat /\ b \in Nat /\ u \in Nat /\ v \in Nat /\ e \in Int /\ f \in Int
        /\ (d < c \/ (d = c /\ e < f) => a + u =< b)
        /\ (c < d \/ (d = c /\ f < e) => b + v =< a)
    BY <1>3
  <2>2. d \in Int /\ c \in Int /\ x \in 0..u - 1 /\ y \in 0..v - 1 /\ a + x = b + y
    BY <1>5 DEF Shards
  <2> HIDE DEF a, b, u, v
  <2>3. ~(a + u =< b) /\ ~(b + v =< a)
    BY <2>1, <2>2
  <2>4. d = c /\ e = f
    BY <2>1, <2>2, <2>3
  <2>5. a = b
    BY <2>4 DEF a, b
  <2> QED BY <2>1, <2>2, <2>4, <2>5
<1>6. ASSUME NEW e, NEW d, NEW x
      PROVE  RowCopy(s, e, d, x) = Copy(d, To(e, d) + x, Cargo(e, d, x))
  BY DEF RowCopy
<1> HIDE DEF From, To, W, N, Cargo
<1>7. ASSUME NEW c \in PushedRows(s)
      PROVE  \E e \in ExpertsOf(s), d \in Shards : c \in RunCopies(s, e, d)
  <2>1. PICK p \in PushedRuns(s) : \E b \in Committed(s) :
          /\ b.at \in From(p[1], p[2])..From(p[1], p[2]) + N(p[1], p[2]) - 1
          /\ c = Copy(p[2], b.at - From(p[1], p[2]) + To(p[1], p[2]), b.what)
    BY <1>1
  <2> DEFINE e == p[1]
             d == p[2]
  <2>2. PICK b \in Committed(s) :
          b.at \in From(e, d)..From(e, d) + N(e, d) - 1 /\ c = Copy(d, b.at - From(e, d) + To(e, d), b.what)
    BY <2>1
  <2>3. e \in ExpertsOf(s) /\ d \in Shards
    BY <1>4
  <2> HIDE DEF e, d
  <2>4. PICK f \in ExpertsOf(s), g \in Shards : \E y \in 0..W(f, g) - 1 :
          b = Copy(s, From(f, g) + y, Cargo(f, g, y))
    BY <1>2
  <2>5. PICK y \in 0..W(f, g) - 1 : b = Copy(s, From(f, g) + y, Cargo(f, g, y))
    BY <2>4
  <2>6. b.at = From(f, g) + y /\ b.what = Cargo(f, g, y)
    BY <2>5 DEF Copy
  <2> DEFINE x == b.at - From(e, d)
  <2>7. x \in 0..N(e, d) - 1 /\ From(e, d) + x = b.at /\ x + To(e, d) = To(e, d) + x
    <3>1. From(e, d) \in Nat /\ N(e, d) \in Nat /\ To(e, d) \in Nat
      BY <1>3, <2>3
    <3> QED BY <2>2, <3>1
  <2>8. x \in 0..W(e, d) - 1
    <3>1. N(e, d) \in Nat /\ W(e, d) \in Nat /\ N(e, d) =< W(e, d)
      BY <1>3, <2>3
    <3> HIDE DEF x
    <3> QED BY <2>7, <3>1
  <2> HIDE DEF x
  <2>9. e = f /\ d = g /\ x = y
    BY <1>5, <2>3, <2>6, <2>7, <2>8
  <2>10. c = RowCopy(s, e, d, x)
    BY <1>6, <2>2, <2>6, <2>7, <2>9 DEF x
  <2> QED BY <2>3, <2>7, <2>10 DEF RunCopies, N
<1>8. ASSUME NEW e \in ExpertsOf(s), NEW d \in Shards, NEW c \in RunCopies(s, e, d)
      PROVE  c \in PushedRows(s)
  <2>1. PICK x \in 0..N(e, d) - 1 : c = RowCopy(s, e, d, x)
    BY DEF RunCopies, N
  <2>2. /\ x \in 0..W(e, d) - 1 /\ W(e, d) > 0 /\ From(e, d) \in Nat /\ N(e, d) \in Nat
        /\ To(e, d) \in Nat
    <3>1. /\ N(e, d) \in Nat /\ W(e, d) \in Nat /\ N(e, d) =< W(e, d)
          /\ From(e, d) \in Nat /\ To(e, d) \in Nat
      BY <1>3
    <3> QED BY <3>1
  <2> DEFINE b == Copy(s, From(e, d) + x, Cargo(e, d, x))
             p == <<e, d>>
  <2>3. b \in Committed(s) /\ b.at = From(e, d) + x /\ b.what = Cargo(e, d, x)
    BY <1>2, <2>2 DEF Copy
  <2>4. p \in PushedRuns(s) /\ p[1] = e /\ p[2] = d
    BY <1>4, <2>2
  <2> HIDE DEF b, p
  <2>5. b.at \in From(e, d)..From(e, d) + N(e, d) - 1 /\ b.at - From(e, d) + To(e, d) = To(e, d) + x
    BY <2>2, <2>3
  <2>6. c = Copy(d, b.at - From(e, d) + To(e, d), b.what)
    BY <1>6, <2>1, <2>3, <2>5
  <2> QED BY <1>1, <2>3, <2>4, <2>5, <2>6
<1> QED BY <1>7, <1>8

-----------------------------------------------------------------------------
\* What the two transports copy of the mirrors: every run, tile by tile.

\* The sublanes of the tiles lie apart in the mirror of the contributions.
LEMMA MirrorsLie ==
  ASSUME Planned, NEW s \in Shards, NEW e \in ExpertsOf(s), NEW k \in 0..NumTiles(s, e) - 1
  PROVE  /\ MirrorBase(s, e) \in Nat /\ k \in Nat /\ ContribMirrorRows \in Int
         /\ MirrorBase(s, e) + k < ContribMirrorRows
         /\ \A f \in ExpertsOf(s) : e < f => MirrorBase(s, e) + k < MirrorBase(s, f)
<1> DEFINE a == SlabBase(Runs(s), e)
           n == Runs(s).expert_rows[e]
           q == a \div TileM
           g == e % GLocal
           z == Stride \div TileM
           x == k * TileM
<1>1. TileM \in Nat \ {0} /\ GLocal \in Nat \ {0} /\ Stride \in Nat
  BY SizesAre, TotalsBounded
<1>2. e \in Experts /\ ShardOf(e) = s
  BY ExpertFacts
<1>3. /\ n \in Nat /\ a \in Nat /\ a + n + TileM =< Stride
      /\ \A f \in Experts : ShardOf(f) = ShardOf(e) /\ e < f => a + n =< SlabBase(Runs(s), f)
  BY <1>2, PlannedIs DEF SlabsLaid
<1>4. k \in Nat /\ x \in Nat /\ x < n
  <2>1. NumTiles(s, e) \in Nat /\ TileLies(s, e, k)
    BY <1>2, TilesLie
  <2> QED BY <2>1 DEF TileLies
<1>5. /\ e \in Int /\ e = GLocal * s + g /\ g \in 0..GLocal - 1
      /\ \A f \in ExpertsOf(s) : f \in Int /\ f = GLocal * s + (f % GLocal) /\ f % GLocal \in 0..GLocal - 1
  BY <1>2, ExpertsOfIs
<1>6. q \in Nat
  <2> HIDE DEF a
  <2> QED BY <1>1, <1>3, AlignDownIs
<1>7. ASSUME NEW b \in Nat, a + n =< b
      PROVE  q + k =< b \div TileM
  <2> HIDE DEF a, n
  <2>1. a + x \in Int /\ b \in Int /\ a + x =< b
    BY <1>3, <1>4, <1>7
  <2>2. (a + x) \div TileM =< b \div TileM
    <3> DEFINE y == a + x
    <3> HIDE DEF x, y
    <3>1. y \in Int /\ b \in Int /\ y =< b
      BY <2>1 DEF y
    <3>2. y \div TileM =< b \div TileM
      BY <1>1, <3>1, QuotientsGrow
    <3> QED BY <3>2 DEF y
  <2>3. (a + x) \div TileM = q + k
    BY <1>1, <1>3, <1>4, QuotientShifts
  <2> QED BY <2>2, <2>3
<1>8. MirrorBase(s, e) = q + 2 * g /\ ContribMirrorRows = z + 2 * GLocal + 2
  BY DEF MirrorBase, ContribMirrorRows, Slack
<1>9. z \in Nat
  BY <1>1, AlignDownIs
<1>10. q + k =< z
  <2>1. a + n =< Stride
    <3> HIDE DEF a, n
    <3> QED BY <1>1, <1>3
  <2> QED BY <1>1, <1>7, <2>1
<1>11. ASSUME NEW f \in ExpertsOf(s), e < f
       PROVE  q + 2 * g + k < MirrorBase(s, f)
  <2> DEFINE b == SlabBase(Runs(s), f)
             p == b \div TileM
             h == f % GLocal
  <2>1. f \in Experts /\ ShardOf(f) = s
    BY ExpertFacts
  <2>2. b \in Nat /\ a + n =< b
    BY <1>2, <1>3, <1>11, <2>1, PlannedIs DEF SlabsLaid
  <2>3. MirrorBase(s, f) = p + 2 * h
    BY DEF MirrorBase, Slack
  <2>4. h \in 0..GLocal - 1 /\ g < h
    <3>1. GLocal * s \in Int
      BY <1>1 DEF Shards
    <3>2. f = GLocal * s + h /\ h \in 0..GLocal - 1
      BY <1>5
    <3> HIDE DEF g, h
    <3> QED BY <1>1, <1>5, <1>11, <3>1, <3>2
  <2>5. q + k =< p /\ p \in Nat
    <3>1. q + k =< p
      BY <1>7, <2>2
    <3> HIDE DEF b
    <3>2. p \in Nat
      BY <1>1, <2>2, AlignDownIs
    <3> QED BY <3>1, <3>2
  <2> HIDE DEF p, h, q, g
  <2> QED BY <1>1, <1>4, <1>5, <1>6, <2>3, <2>4, <2>5
<1> HIDE DEF q, g, z
<1>12. /\ q + 2 * g \in Nat /\ z + 2 * GLocal + 2 \in Int
       /\ q + 2 * g + k < z + 2 * GLocal + 2
  BY <1>1, <1>4, <1>5, <1>6, <1>9, <1>10
<1> QED BY <1>4, <1>8, <1>11, <1>12

\* So a sublane there is that of one tile.
LEMMA MirrorsApart ==
  ASSUME Planned, NEW s \in Shards, NEW e, NEW k, IsTile(s, e, k), NEW f, NEW l, IsTile(s, f, l),
         MirrorBase(s, e) + k = MirrorBase(s, f) + l
  PROVE  e = f /\ k = l
<1>1. /\ e \in ExpertsOf(s) /\ k \in 0..NumTiles(s, e) - 1 /\ f \in ExpertsOf(s)
      /\ l \in 0..NumTiles(s, f) - 1 /\ e \in Int /\ f \in Int
  BY ExpertsOfIs DEF IsTile
<1>2. /\ MirrorBase(s, e) \in Nat /\ k \in Nat /\ MirrorBase(s, f) \in Nat /\ l \in Nat
      /\ e < f => MirrorBase(s, e) + k < MirrorBase(s, f)
      /\ f < e => MirrorBase(s, f) + l < MirrorBase(s, e)
  BY <1>1, MirrorsLie
<1>3. ~(e < f) /\ ~(f < e)
  BY <1>2
<1>4. e = f
  BY <1>1, <1>3
<1> QED BY <1>2, <1>4

LEMMA MirrorIs ==
  ASSUME Computed, NEW s \in Shards
  PROVE  \A c : c \in CommittedSublanes(s) <=>
           \E e, k : IsTile(s, e, k) /\ c = Copy(s, MirrorBase(s, e) + k, Sublane(s, e, k))
<1>1. \A c : c \in CommittedSublanes(s) <=>
        \E o \in TileIds(s) : c = Copy(s, MirrorBase(s, o[1]) + o[2], Sublane(s, o[1], o[2]))
  BY DEF CommittedSublanes
<1>2. /\ \A e, k : <<e, k>> \in TileIds(s) <=> IsTile(s, e, k)
      /\ \A o \in TileIds(s) : IsTile(s, o[1], o[2])
  BY TileIdsAre
<1>3. \A e, k : <<e, k>>[1] = e /\ <<e, k>>[2] = k
  OBVIOUS
<1>4. ASSUME NEW e, NEW k, IsTile(s, e, k)
      PROVE  Copy(s, MirrorBase(s, e) + k, Sublane(s, e, k)) \in CommittedSublanes(s)
  <2> DEFINE o == <<e, k>>
  <2>1. o \in TileIds(s) /\ o[1] = e /\ o[2] = k
    BY <1>2, <1>4
  <2> HIDE DEF o
  <2> QED BY <1>1, <2>1
<1> QED BY <1>1, <1>2, <1>4

SublaneCopy(s, e, d, k) == Copy(d, ArrivalSublane(s, e, d, k), Sublane(s, e, k))
RunSublanes(s, e, d) ==
  {SublaneCopy(s, e, d, First(s, e, d) + j) : j \in 0..Runs(s).run_tiles[e][d] - 1}

LEMMA RunTilesAre ==
  ASSUME Computed, NEW s \in Shards, NEW e \in ExpertsOf(s), NEW d \in Shards
  PROVE  /\ Runs(s).run_tiles[e][d] \in Nat /\ First(s, e, d) \in Nat
         /\ Runs(s).aligned[e][d] \in Nat
         /\ Runs(s).run_tiles[e][d] > 0 <=> Runs(s).aligned[e][d] > 0
         /\ Runs(s).aligned[e][d] > 0 =>
              First(s, e, d) + Runs(s).run_tiles[e][d] - 1 = Last(s, e, d)
         /\ \A k : Shares(s, e, d, k) <=>
              \E j \in 0..Runs(s).run_tiles[e][d] - 1 : k = First(s, e, d) + j
         /\ \A j \in 0..Runs(s).run_tiles[e][d] - 1 : IsTile(s, e, First(s, e, d) + j)
<1> DEFINE n == Runs(s).run_tiles[e][d]
           f == First(s, e, d)
           g == Last(s, e, d)
           w == Runs(s).aligned[e][d]
           m == NumTiles(s, e)
<1>1. w \in Nat /\ m \in Nat
  BY ExpertFacts, RunIs, TilesLie DEF Computed
<1>2. /\ f \in Nat
      /\ \A k : Shares(s, e, d, k) <=> w > 0 /\ k \in f..g
      /\ w > 0 => g \in Nat /\ f =< g /\ g =< m - 1 /\ n = g - f + 1
      /\ w = 0 => n = 0
  BY TilesShared
<1>3. \A j : IsTile(s, e, f + j) <=> f + j \in 0..m - 1
  BY DEF IsTile
<1> HIDE DEF n, f, g, w, m
<1>4. n \in Nat /\ (n > 0 <=> w > 0) /\ (w > 0 => f + n - 1 = g)
  BY <1>1, <1>2
<1>5. ASSUME NEW j \in 0..n - 1
      PROVE  w > 0 /\ f + j \in f..g /\ f + j \in 0..m - 1
  BY <1>1, <1>2, <1>4
<1>6. ASSUME w > 0, NEW k \in f..g
      PROVE  \E j \in 0..n - 1 : k = f + j
  <2>1. k - f \in 0..n - 1 /\ k = f + (k - f)
    BY <1>1, <1>2, <1>4, <1>6
  <2> QED BY <2>1
<1> QED BY <1>1, <1>2, <1>3, <1>4, <1>5, <1>6 DEF n, f, g, w, m

\* Where the sublanes of a run arrive.
LEMMA ArrivalSublaneIs ==
  ASSUME Planned, NEW s \in Shards, NEW e \in ExpertsOf(s), NEW d \in Shards, NEW j \in Nat,
         First(s, e, d) \in Nat
  PROVE  /\ PushDst(Runs(s), e, d) \div TileM \in Nat /\ e \in Nat
         /\ ArrivalSublane(s, e, d, First(s, e, d) + j)
              = PushDst(Runs(s), e, d) \div TileM + 2 * e + j
<1> DEFINE a == PushDst(Runs(s), e, d)
           q == a \div TileM
           f == First(s, e, d)
<1>1. e \in Experts /\ e \in Nat /\ TileM \in Nat \ {0}
  BY ExpertFacts, SizesAre
<1>2. a \in Nat
  BY <1>1, PlannedIs DEF ArrivalsLaid, PushDst
<1>3. q \in Nat
  <2> HIDE DEF a
  <2> QED BY <1>1, <1>2, AlignDownIs
<1>4. ArrivalSublane(s, e, d, f + j) = q + 2 * e + (f + j) - f
  BY DEF ArrivalSublane, First, Slack
<1> HIDE DEF q, f
<1>5. f \in Nat
  BY DEF f
<1>6. q + 2 * e + (f + j) - f = q + 2 * e + j
  BY <1>1, <1>3, <1>5
<1> QED BY <1>1, <1>3, <1>4, <1>6 DEF q, f

LEMMA ShippedSublanesAre ==
  ASSUME Computed, NEW s \in Shards
  PROVE  \A c : c \in ShippedSublanes(s) <=>
           \E e \in ExpertsOf(s), d \in Shards : c \in RunSublanes(s, e, d)
<1>1. \A c : c \in ShippedSublanes(s) <=>
        \E o \in Overlaps(s) : c = SublaneCopy(s, o[1], o[2], o[3])
  BY DEF ShippedSublanes, SublaneCopy
<1>2. \A o \in Overlaps(s) : /\ o = <<o[1], o[2], o[3]>> /\ o[1] \in ExpertsOf(s) /\ o[2] \in Shards
                             /\ Shares(s, o[1], o[2], o[3])
  BY SharesIs DEF OverlapLies, IsTile, Shares
<1>3. ASSUME NEW e, NEW d, NEW k, Shares(s, e, d, k)
      PROVE  SublaneCopy(s, e, d, k) \in ShippedSublanes(s)
  <2> DEFINE o == <<e, d, k>>
  <2>1. o \in Overlaps(s) /\ o[1] = e /\ o[2] = d /\ o[3] = k
    BY <1>3 DEF Shares
  <2> HIDE DEF o
  <2> QED BY <1>1, <2>1
<1>4. \A c : c \in ShippedSublanes(s) <=>
        \E e \in ExpertsOf(s), d \in Shards : \E k : Shares(s, e, d, k) /\ c = SublaneCopy(s, e, d, k)
  BY <1>1, <1>2, <1>3
<1>5. ASSUME NEW e \in ExpertsOf(s), NEW d \in Shards, NEW c
      PROVE  (\E k : Shares(s, e, d, k) /\ c = SublaneCopy(s, e, d, k)) <=> c \in RunSublanes(s, e, d)
  BY RunTilesAre DEF RunSublanes
<1> QED BY <1>4, <1>5

LEMMA PushedSublanesAre ==
  ASSUME Computed, NEW s \in Shards
  PROVE  \A c : c \in PushedSublanes(s) <=>
           \E e \in ExpertsOf(s), d \in Shards : c \in RunSublanes(s, e, d)
<1> DEFINE From(e, d) == MirrorBase(s, e) + First(s, e, d)
           N(e, d) == Runs(s).run_tiles[e][d]
           To(e, d) == ArrivalSublane(s, e, d, First(s, e, d))
<1>1. \A c : c \in PushedSublanes(s) <=>
        \E p \in PushedRuns(s) : \E b \in CommittedSublanes(s) :
          /\ b.at \in From(p[1], p[2])..From(p[1], p[2])
               + MirrorRunTiles(Start(s, p[1], p[2]), Runs(s).aligned[p[1]][p[2]]) - 1
          /\ c = Copy(p[2], b.at - From(p[1], p[2]) + To(p[1], p[2]), b.what)
  BY DEF PushedSublanes, Moved, First
<1>2. /\ \A p \in PushedRuns(s) : p[1] \in ExpertsOf(s) /\ p[2] \in Shards
      /\ \A e \in ExpertsOf(s), d \in Shards : Runs(s).aligned[e][d] > 0 => <<e, d>> \in PushedRuns(s)
  <2>1. /\ \A e \in ExpertsOf(s) : Runs(s).expert_rows[e] > 0 => e \in Visited(Runs(s), s)
        /\ \A e \in Visited(Runs(s), s) : e \in ExpertsOf(s)
    BY PlannedIs DEF Computed
  <2>2. ASSUME NEW e \in ExpertsOf(s), NEW d \in Shards, Runs(s).aligned[e][d] > 0
        PROVE  Runs(s).expert_rows[e] > 0
    <3>1. /\ Start(s, e, d) \in Nat /\ Start(s, e, d) + Runs(s).aligned[e][d] =< Runs(s).expert_rows[e]
          /\ Runs(s).expert_rows[e] \in Nat /\ Runs(s).aligned[e][d] \in Nat
      BY ExpertFacts, RunIs, TilesLie DEF Computed
    <3> QED BY <2>2, <3>1
  <2> QED BY <2>1, <2>2 DEF PushedRuns
<1>3. ASSUME NEW e \in ExpertsOf(s), NEW d \in Shards
      PROVE  /\ MirrorRunTiles(Start(s, e, d), Runs(s).aligned[e][d]) = N(e, d)
             /\ N(e, d) \in Nat /\ (N(e, d) > 0 <=> Runs(s).aligned[e][d] > 0)
             /\ N(e, d) > 0 => From(e, d) \in Nat /\ MirrorBase(s, e) \in Nat
             /\ First(s, e, d) \in Nat /\ To(e, d) \in Nat
             /\ \A j \in 0..N(e, d) - 1 :
                  /\ ArrivalSublane(s, e, d, First(s, e, d) + j) = To(e, d) + j
                  /\ IsTile(s, e, First(s, e, d) + j)
  <2>1. MirrorRunTiles(Start(s, e, d), Runs(s).aligned[e][d]) = N(e, d)
    BY ExpertFacts, PlannedIs DEF Computed, RunsLaid, Start
  <2>2. /\ N(e, d) \in Nat /\ (N(e, d) > 0 <=> Runs(s).aligned[e][d] > 0)
        /\ First(s, e, d) \in Nat
        /\ \A j \in 0..N(e, d) - 1 : IsTile(s, e, First(s, e, d) + j)
    BY RunTilesAre
  <2>3. ASSUME N(e, d) > 0
        PROVE  From(e, d) \in Nat /\ MirrorBase(s, e) \in Nat
    <3>1. 0 \in 0..N(e, d) - 1
      BY <2>2, <2>3
    <3>2. First(s, e, d) + 0 \in 0..NumTiles(s, e) - 1
      BY <2>2, <3>1 DEF IsTile
    <3>3. MirrorBase(s, e) \in Nat
      BY <3>2, MirrorsLie DEF Computed
    <3> QED BY <2>2, <3>3
  <2> DEFINE z == PushDst(Runs(s), e, d) \div TileM
  <2>4. ASSUME NEW j \in Nat
        PROVE  z \in Nat /\ e \in Nat /\ ArrivalSublane(s, e, d, First(s, e, d) + j) = z + 2 * e + j
    BY <2>2, ArrivalSublaneIs DEF Computed
  <2> HIDE DEF z
  <2>5. To(e, d) = z + 2 * e /\ z \in Nat /\ e \in Nat
    <3>1. ArrivalSublane(s, e, d, First(s, e, d) + 0) = z + 2 * e + 0 /\ z \in Nat /\ e \in Nat
      BY <2>4
    <3>2. First(s, e, d) + 0 = First(s, e, d) /\ z + 2 * e + 0 = z + 2 * e
      BY <2>2, <3>1
    <3> QED BY <3>1, <3>2
  <2> QED BY <2>1, <2>2, <2>3, <2>4, <2>5
<1>4. \A b : b \in CommittedSublanes(s) <=>
        \E e, k : IsTile(s, e, k) /\ b = Copy(s, MirrorBase(s, e) + k, Sublane(s, e, k))
  BY MirrorIs
<1>5. \A e, d, k : SublaneCopy(s, e, d, k) = Copy(d, ArrivalSublane(s, e, d, k), Sublane(s, e, k))
  BY DEF SublaneCopy
<1>6. \A e, d : RunSublanes(s, e, d) =
                  {SublaneCopy(s, e, d, First(s, e, d) + j) : j \in 0..N(e, d) - 1}
  BY DEF RunSublanes
<1>7. \A e, d : From(e, d) = MirrorBase(s, e) + First(s, e, d)
  OBVIOUS
<1> HIDE DEF From, To, N
<1>8. ASSUME NEW c \in PushedSublanes(s)
      PROVE  \E e \in ExpertsOf(s), d \in Shards : c \in RunSublanes(s, e, d)
  <2>1. PICK p \in PushedRuns(s) : \E b \in CommittedSublanes(s) :
          /\ b.at \in From(p[1], p[2])..From(p[1], p[2])
               + MirrorRunTiles(Start(s, p[1], p[2]), Runs(s).aligned[p[1]][p[2]]) - 1
          /\ c = Copy(p[2], b.at - From(p[1], p[2]) + To(p[1], p[2]), b.what)
    BY <1>1
  <2> DEFINE e == p[1]
             d == p[2]
  <2>2. e \in ExpertsOf(s) /\ d \in Shards /\ Runs(s).aligned[e][d] > 0
    BY <1>2 DEF PushedRuns
  <2>3. PICK b \in CommittedSublanes(s) :
          /\ b.at \in From(e, d)..From(e, d) + N(e, d) - 1
          /\ c = Copy(d, b.at - From(e, d) + To(e, d), b.what)
    BY <1>3, <2>1, <2>2
  <2> HIDE DEF e, d
  <2>4. PICK f, l : IsTile(s, f, l) /\ b = Copy(s, MirrorBase(s, f) + l, Sublane(s, f, l))
    BY <1>4
  <2>5. b.at = MirrorBase(s, f) + l /\ b.what = Sublane(s, f, l)
    BY <2>4 DEF Copy
  <2>6. b.at \in Int
    <3>1. MirrorBase(s, f) \in Nat /\ l \in Nat
      BY <2>4, MirrorsLie DEF Computed, IsTile
    <3> QED BY <2>5, <3>1
  <2> DEFINE j == b.at - From(e, d)
             k == First(s, e, d) + j
  <2>7. /\ j \in 0..N(e, d) - 1 /\ MirrorBase(s, e) + k = b.at /\ j \in Nat
        /\ j + To(e, d) = To(e, d) + j
    <3>1. N(e, d) \in Nat /\ First(s, e, d) \in Nat /\ To(e, d) \in Nat
      BY <1>3, <2>2
    <3>2. N(e, d) > 0
      BY <1>3, <2>2
    <3>3. From(e, d) \in Nat /\ MirrorBase(s, e) \in Nat /\ From(e, d) = MirrorBase(s, e) + First(s, e, d)
      BY <1>3, <1>7, <2>2, <3>2
    <3> QED BY <2>3, <2>6, <3>1, <3>3
  <2>8. IsTile(s, e, k) /\ ArrivalSublane(s, e, d, k) = To(e, d) + j
    BY <1>3, <2>2, <2>7
  <2> HIDE DEF k
  <2>9. e = f /\ k = l
    BY <2>4, <2>5, <2>7, <2>8, MirrorsApart DEF Computed
  <2>10. c = SublaneCopy(s, e, d, k)
    BY <1>5, <2>3, <2>5, <2>7, <2>8, <2>9
  <2> HIDE DEF j
  <2> QED BY <1>6, <2>2, <2>7, <2>10 DEF k
<1>9. ASSUME NEW e \in ExpertsOf(s), NEW d \in Shards, NEW c \in RunSublanes(s, e, d)
      PROVE  c \in PushedSublanes(s)
  <2>1. PICK j \in 0..N(e, d) - 1 : c = SublaneCopy(s, e, d, First(s, e, d) + j)
    BY <1>6
  <2> DEFINE k == First(s, e, d) + j
             b == Copy(s, MirrorBase(s, e) + k, Sublane(s, e, k))
             p == <<e, d>>
  <2>2. /\ N(e, d) \in Nat /\ N(e, d) > 0 /\ Runs(s).aligned[e][d] > 0 /\ j \in Nat
        /\ First(s, e, d) \in Nat /\ To(e, d) \in Nat
    <3>1. N(e, d) \in Nat /\ (N(e, d) > 0 <=> Runs(s).aligned[e][d] > 0)
          /\ First(s, e, d) \in Nat /\ To(e, d) \in Nat
      BY <1>3
    <3>2. N(e, d) > 0 /\ j \in Nat
      BY <3>1
    <3> QED BY <3>1, <3>2
  <2>3. /\ From(e, d) \in Nat /\ MirrorBase(s, e) \in Nat
        /\ From(e, d) = MirrorBase(s, e) + First(s, e, d)
    BY <1>3, <1>7, <2>2
  <2>4. IsTile(s, e, k) /\ ArrivalSublane(s, e, d, k) = To(e, d) + j
    BY <1>3
  <2>5. b \in CommittedSublanes(s) /\ b.at = MirrorBase(s, e) + k /\ b.what = Sublane(s, e, k)
    BY <1>4, <2>4 DEF Copy
  <2>6. p \in PushedRuns(s) /\ p[1] = e /\ p[2] = d
    BY <1>2, <2>2
  <2>7. b.at \in From(e, d)..From(e, d) + N(e, d) - 1 /\ b.at - From(e, d) + To(e, d) = To(e, d) + j
    <3> HIDE DEF b
    <3> QED BY <2>2, <2>3, <2>5
  <2>8. c = Copy(d, b.at - From(e, d) + To(e, d), b.what)
    <3> HIDE DEF b, k
    <3>1. c = SublaneCopy(s, e, d, k)
      BY <2>1 DEF k
    <3> QED BY <1>5, <2>4, <2>5, <2>7, <3>1
  <2>9. b.at \in From(e, d)..From(e, d)
               + MirrorRunTiles(Start(s, e, d), Runs(s).aligned[e][d]) - 1
    BY <1>3, <2>7
  <2> HIDE DEF b, p
  <2> QED BY <1>1, <2>5, <2>6, <2>8, <2>9
<1> QED BY <1>8, <1>9

\* ship_tile and push_expert copy the same rows and the same sublanes.
LEMMA SameTransports ==
  ASSUME Computed, NEW s \in Shards
  PROVE  ShippedRows(s) = PushedRows(s) /\ ShippedSublanes(s) = PushedSublanes(s)
<1>1. \A c : c \in ShippedRows(s) <=> c \in PushedRows(s)
  BY ShippedAre, PushedAre
<1>2. \A c : c \in ShippedSublanes(s) <=> c \in PushedSublanes(s)
  BY ShippedSublanesAre, PushedSublanesAre
<1>3. ShippedRows(s) = PushedRows(s)
  <2>1. \A A, B : (\A c : c \in A <=> c \in B) => A = B
    OBVIOUS
  <2> QED BY <1>1, <2>1
<1>4. ShippedSublanes(s) = PushedSublanes(s)
  <2>1. \A A, B : (\A c : c \in A <=> c \in B) => A = B
    OBVIOUS
  <2> QED BY <1>2, <2>1
<1> QED BY <1>3, <1>4

\* What CallInv says of a shard that has computed.
LEMMA ComputedIs ==
  ASSUME CallInv, stage \in Late
  PROVE  Computed
BY DEF CallInv, Computed, Planned, Late

\* Shipping tiles from where they were computed and pushing runs from the slab of
\* contributions put the same rows and the same scales in the same places, for
\* every routing and every size of the layer (kernel.py, ship_tile: "every offset
\* here is the one the two-hop path would have used").
THEOREM TransportsAgreeAlways == CallSpec => []TransportsAgree
<1>1. CallInv => TransportsAgree
  <2> SUFFICES ASSUME CallInv, stage = "computed" PROVE TransportsAgree
    BY DEF TransportsAgree
  <2>1. Computed
    BY ComputedIs DEF Late
  <2> QED BY <2>1, SameTransports DEF TransportsAgree
<1> QED BY <1>1, CallInductive, PTL

-----------------------------------------------------------------------------
\* The slabs.

\* Pairs of the experts of one shard have slab rows of their own.
LEMMA SlabRowsDiffer ==
  ASSUME NEW r \in Routings, NEW t, t = TablesFor(r), NEW p \in Pairs, NEW q \in Pairs
  PROVE  /\ SlabRow(r, t, p) \in Nat /\ SlabRow(r, t, p) < Stride
         /\ p # q /\ ShardOf(r[p]) = ShardOf(r[q]) => SlabRow(r, t, p) # SlabRow(r, t, q)
<1> DEFINE Base(x) == SlabBase(t, r[x])
           At0(x) == t.start_aligned[r[x]][Owner(x)]
           W(x) == t.aligned[r[x]][Owner(x)]
           N(x) == t.expert_rows[r[x]]
           R(x) == Rank(r, x)
<1>1. ASSUME NEW x \in Pairs
      PROVE  /\ Base(x) \in Nat /\ At0(x) \in Nat /\ W(x) \in Nat /\ N(x) \in Nat /\ R(x) \in Nat
             /\ R(x) < W(x) /\ At0(x) + W(x) =< N(x) /\ Base(x) + N(x) + TileM =< Stride
             /\ SlabRow(r, t, x) = Base(x) + At0(x) + R(x)
             /\ r[x] \in Experts /\ r[x] \in Nat /\ Owner(x) \in Shards /\ x \in Nat
  <2>1. /\ r[x] \in Experts /\ Owner(x) \in Shards /\ R(x) \in Nat
        /\ R(x) < t.run_rows[r[x]][Owner(x)] /\ x \in Nat
    BY PairIs, OwnerIs
  <2>2. /\ t.run_rows[r[x]][Owner(x)] \in Nat /\ W(x) \in Nat /\ t.run_rows[r[x]][Owner(x)] =< W(x)
    BY <2>1, PaddedAre DEF RunsPadded
  <2>3. At0(x) \in Nat /\ At0(x) + W(x) =< N(x) /\ N(x) \in Nat
    BY <2>1, RunsLie DEF RunsLaid
  <2>4. Base(x) \in Nat /\ Base(x) + N(x) + TileM =< Stride
    BY <2>1, SlabsLie DEF SlabsLaid
  <2>5. R(x) < W(x)
    <3> HIDE DEF R, W
    <3> QED BY <2>1, <2>2
  <2>6. r[x] \in Nat
    BY <2>1, ExpertFacts
  <2> QED BY <2>1, <2>2, <2>3, <2>4, <2>5, <2>6 DEF SlabRow
<1>2. ASSUME NEW x \in Pairs, NEW y \in Pairs, ShardOf(r[x]) = ShardOf(r[y]), r[x] < r[y]
      PROVE  Base(x) + N(x) =< Base(y)
  BY <1>1, <1>2, SlabsLie DEF SlabsLaid
<1>3. ASSUME NEW x \in Pairs, NEW y \in Pairs, r[x] = r[y], Owner(x) < Owner(y)
      PROVE  Base(x) = Base(y) /\ At0(x) + W(x) =< At0(y)
  BY <1>1, <1>3, RunsLie DEF RunsLaid
<1>4. ASSUME NEW x \in Pairs, NEW y \in Pairs, r[x] = r[y], Owner(x) = Owner(y), x < y
      PROVE  Base(x) = Base(y) /\ At0(x) = At0(y) /\ R(x) < R(y)
  BY <1>4, RanksDiffer
<1> HIDE DEF Base, At0, W, N, R
<1>5. ASSUME NEW x \in Pairs, NEW y \in Pairs, ShardOf(r[x]) = ShardOf(r[y]),
             \/ r[x] < r[y]
             \/ r[x] = r[y] /\ Owner(x) < Owner(y)
             \/ r[x] = r[y] /\ Owner(x) = Owner(y) /\ x < y
      PROVE  SlabRow(r, t, x) < SlabRow(r, t, y)
  <2>1. /\ Base(x) \in Nat /\ At0(x) \in Nat /\ W(x) \in Nat /\ N(x) \in Nat /\ R(x) \in Nat
        /\ R(x) < W(x) /\ At0(x) + W(x) =< N(x) /\ SlabRow(r, t, x) = Base(x) + At0(x) + R(x)
    BY <1>1
  <2>2. /\ Base(y) \in Nat /\ At0(y) \in Nat /\ R(y) \in Nat
        /\ SlabRow(r, t, y) = Base(y) + At0(y) + R(y)
    BY <1>1
  <2>3. CASE r[x] < r[y]
    BY <1>2, <1>5, <2>1, <2>2, <2>3
  <2>4. CASE r[x] = r[y] /\ Owner(x) < Owner(y)
    BY <1>3, <2>1, <2>2, <2>4
  <2>5. CASE r[x] = r[y] /\ Owner(x) = Owner(y) /\ x < y
    BY <1>4, <2>1, <2>2, <2>5
  <2> QED BY <1>5, <2>3, <2>4, <2>5
<1>6. \A x \in Pairs : SlabRow(r, t, x) \in Nat /\ SlabRow(r, t, x) < Stride
  <2> SUFFICES ASSUME NEW x \in Pairs PROVE SlabRow(r, t, x) \in Nat /\ SlabRow(r, t, x) < Stride
    OBVIOUS
  <2>1. Stride \in Nat /\ TileM \in Nat
    BY <1>1, TotalsBounded, SizesAre
  <2>2. /\ Base(x) \in Nat /\ At0(x) \in Nat /\ W(x) \in Nat /\ N(x) \in Nat /\ R(x) \in Nat
        /\ R(x) < W(x) /\ At0(x) + W(x) =< N(x) /\ Base(x) + N(x) + TileM =< Stride
        /\ SlabRow(r, t, x) = Base(x) + At0(x) + R(x)
    BY <1>1
  <2> QED BY <2>1, <2>2
<1>7. ASSUME p # q, ShardOf(r[p]) = ShardOf(r[q])
      PROVE  SlabRow(r, t, p) # SlabRow(r, t, q)
  <2>1. /\ r[p] \in Nat /\ r[q] \in Nat /\ p \in Nat /\ q \in Nat
        /\ Owner(p) \in Int /\ Owner(q) \in Int
    BY <1>1 DEF Shards
  <2> DEFINE Before(x, y) == \/ r[x] < r[y]
                             \/ r[x] = r[y] /\ Owner(x) < Owner(y)
                             \/ r[x] = r[y] /\ Owner(x) = Owner(y) /\ x < y
  <2>2. Before(p, q) \/ Before(q, p)
    BY <1>7, <2>1
  <2>3. SlabRow(r, t, p) < SlabRow(r, t, q) \/ SlabRow(r, t, q) < SlabRow(r, t, p)
    BY <1>5, <1>7, <2>2
  <2>4. SlabRow(r, t, p) \in Nat /\ SlabRow(r, t, q) \in Nat
    BY <1>6
  <2> QED BY <2>3, <2>4
<1> QED BY <1>6, <1>7

\* The slabs of every shard hold together, for every routing and every size of
\* the layer: no two pairs share a row of a slab, and what is read and committed
\* without bounds checks, whole tiles and padding included, lies within what was
\* allocated (kernel.py, expert_tiles; host.py, ragged_stride_bound and
\* contrib_mirror_rows).
THEOREM SlabsHold == CallSpec => []SlabsInBounds
<1>1. CallInv => SlabsInBounds
  <2> SUFFICES ASSUME CallInv, stage = "computed", NEW s \in Shards
               PROVE  /\ \A p, q \in {p \in Pairs : ShardOf(routing[p]) = s} :
                           p # q => plan[s].slab_row[p] # plan[s].slab_row[q]
                      /\ \A t \in TileIds(s) : SlabBase(Runs(s), t[1]) + (t[2] + 1) * TileM <= Stride
                      /\ \A c \in Committed(s) : c.at < Stride
                      /\ \A c \in CommittedSublanes(s) : c.at < ContribMirrorRows
                      /\ \A c1, c2 \in CommittedSublanes(s) : c1.at = c2.at => c1 = c2
    BY DEF SlabsInBounds
  <2>1. Computed /\ Planned
    BY ComputedIs DEF Late, Computed
  <2>2. ASSUME NEW p \in Pairs, NEW q \in Pairs, p # q, ShardOf(routing[p]) = s,
               ShardOf(routing[q]) = s
        PROVE  plan[s].slab_row[p] # plan[s].slab_row[q]
    <3> DEFINE t == TablesFor(routing)
    <3>1. routing \in Routings /\ PlanFor(routing, t, s, plan[s])
      BY <2>1 DEF Planned
    <3>2. /\ plan[s].slab_row[p] = SlabRow(routing, t, p)
          /\ plan[s].slab_row[q] = SlabRow(routing, t, q)
      BY <2>2, <3>1 DEF PlanFor
    <3>3. SlabRow(routing, t, p) # SlabRow(routing, t, q)
      BY <2>2, <3>1, SlabRowsDiffer
    <3> QED BY <3>2, <3>3
  <2>3. ASSUME NEW o \in TileIds(s)
        PROVE  SlabBase(Runs(s), o[1]) + (o[2] + 1) * TileM <= Stride
    <3> DEFINE e == o[1]
               k == o[2]
               b == SlabBase(Runs(s), e)
               n == Runs(s).expert_rows[e]
    <3>1. IsTile(s, e, k)
      BY <2>1, TileIdsAre
    <3>2. e \in Experts /\ k \in 0..NumTiles(s, e) - 1
      BY <3>1, ExpertFacts DEF IsTile
    <3>3. k \in Nat /\ k * TileM \in Nat /\ k * TileM < n /\ n \in Nat
      <4>1. NumTiles(s, e) \in Nat /\ TileLies(s, e, k) /\ n \in Nat
        BY <2>1, <3>2, TilesLie
      <4> QED BY <3>2, <4>1 DEF TileLies
    <3>4. b \in Nat /\ b + n + TileM =< Stride /\ Stride \in Nat /\ TileM \in Nat
      BY <2>1, <3>2, PlannedIs, TotalsBounded, SizesAre DEF SlabsLaid
    <3> HIDE DEF b, n, k, e
    <3>5. (k + 1) * TileM = k * TileM + TileM
      BY <3>3, <3>4
    <3>6. b + (k + 1) * TileM =< Stride
      BY <3>3, <3>4, <3>5
    <3> QED BY <3>6 DEF b, k, e
  <2>4. ASSUME NEW c \in Committed(s)
        PROVE  c.at < Stride
    <3>1. PICK e \in ExpertsOf(s), d \in Shards : \E x \in 0..Runs(s).aligned[e][d] - 1 :
            c = Copy(s, ContribOff(Runs(s), e, d) + x, Fetched(s, e, Start(s, e, d) + x))
      BY <2>1, CommittedAre
    <3>2. PICK x \in 0..Runs(s).aligned[e][d] - 1 :
            c = Copy(s, ContribOff(Runs(s), e, d) + x, Fetched(s, e, Start(s, e, d) + x))
      BY <3>1
    <3>3. c.at = ContribOff(Runs(s), e, d) + x
      BY <3>2 DEF Copy
    <3>4. /\ ContribOff(Runs(s), e, d) \in Nat
          /\ ContribOff(Runs(s), e, d) + Runs(s).aligned[e][d] =< Stride
          /\ Runs(s).aligned[e][d] \in Nat /\ Stride \in Nat
      BY <2>1, ExpertFacts, PlannedIs, RunIs, TotalsBounded DEF ContribsLaid
    <3> QED BY <3>3, <3>4
  <2>5. ASSUME NEW c \in CommittedSublanes(s)
        PROVE  \E e, k : /\ IsTile(s, e, k) /\ c = Copy(s, MirrorBase(s, e) + k, Sublane(s, e, k))
                         /\ c.at = MirrorBase(s, e) + k
    BY <2>1, MirrorIs DEF Copy
  <2>6. ASSUME NEW c \in CommittedSublanes(s)
        PROVE  c.at < ContribMirrorRows
    <3>1. PICK e, k : IsTile(s, e, k) /\ c.at = MirrorBase(s, e) + k
      BY <2>5
    <3> QED BY <2>1, <3>1, MirrorsLie DEF IsTile
  <2>7. ASSUME NEW b \in CommittedSublanes(s), NEW c \in CommittedSublanes(s), b.at = c.at
        PROVE  b = c
    <3>1. PICK e, k : /\ IsTile(s, e, k) /\ b = Copy(s, MirrorBase(s, e) + k, Sublane(s, e, k))
                      /\ b.at = MirrorBase(s, e) + k
      BY <2>5
    <3>2. PICK f, l : /\ IsTile(s, f, l) /\ c = Copy(s, MirrorBase(s, f) + l, Sublane(s, f, l))
                      /\ c.at = MirrorBase(s, f) + l
      BY <2>5
    <3>3. e = f /\ k = l
      BY <2>1, <2>7, <3>1, <3>2, MirrorsApart
    <3> QED BY <3>1, <3>2, <3>3
  <2>8. \A p, q \in {p \in Pairs : ShardOf(routing[p]) = s} :
          p # q => plan[s].slab_row[p] # plan[s].slab_row[q]
    BY <2>2
  <2> QED BY <2>3, <2>4, <2>6, <2>7, <2>8
<1> QED BY <1>1, CallInductive, PTL

-----------------------------------------------------------------------------
\* The arrival buffers.

\* On either path, what arrives is every run of every expert.
LEMMA ArrivedAre ==
  ASSUME Computed
  PROVE  /\ \A c : c \in ArrivedRows <=>
              \E e \in Experts, d \in Shards : c \in RunCopies(ShardOf(e), e, d)
         /\ \A c : c \in ArrivedSublanes <=>
              \E e \in Experts, d \in Shards : c \in RunSublanes(ShardOf(e), e, d)
<1>1. \A c : c \in ArrivedRows <=> \E s \in Shards : c \in ShippedRows(s)
  <2>1. \A s \in Shards : (IF PushFromVmem THEN ShippedRows(s) ELSE PushedRows(s)) = ShippedRows(s)
    BY SameTransports
  <2> QED BY <2>1 DEF ArrivedRows
<1>2. \A c : c \in ArrivedSublanes <=> \E s \in Shards : c \in ShippedSublanes(s)
  <2>1. \A s \in Shards :
          (IF PushFromVmem THEN ShippedSublanes(s) ELSE PushedSublanes(s)) = ShippedSublanes(s)
    BY SameTransports
  <2> QED BY <2>1 DEF ArrivedSublanes
<1>3. /\ \A e \in Experts : ShardOf(e) \in Shards /\ e \in ExpertsOf(ShardOf(e))
      /\ \A s \in Shards : \A e \in ExpertsOf(s) : e \in Experts /\ ShardOf(e) = s
  BY ExpertFacts
<1>4. ASSUME NEW c
      PROVE  (\E s \in Shards : c \in ShippedRows(s)) <=>
               \E e \in Experts, d \in Shards : c \in RunCopies(ShardOf(e), e, d)
  <2>1. \A s \in Shards : c \in ShippedRows(s) <=>
          \E e \in ExpertsOf(s), d \in Shards : c \in RunCopies(s, e, d)
    BY ShippedAre
  <2> QED BY <1>3, <2>1
<1>5. ASSUME NEW c
      PROVE  (\E s \in Shards : c \in ShippedSublanes(s)) <=>
               \E e \in Experts, d \in Shards : c \in RunSublanes(ShardOf(e), e, d)
  <2>1. \A s \in Shards : c \in ShippedSublanes(s) <=>
          \E e \in ExpertsOf(s), d \in Shards : c \in RunSublanes(s, e, d)
    BY ShippedSublanesAre
  <2> QED BY <1>3, <2>1
<1> QED BY <1>1, <1>2, <1>4, <1>5

\* The row of a run's row x in the arrival buffer of d, and of its tile j.
RowAt(e, d, x) == TablesFor(routing).recv_base[d][e] + x
SublaneAt(e, d, j) == TablesFor(routing).recv_base[d][e] \div TileM + 2 * e + j
RowsTo(e, d) == PushedLength(ShardOf(e), e, d)
TilesTo(e, d) == TablesFor(routing).run_tiles[e][d]

LEMMA RowsLand ==
  ASSUME Planned, NEW e \in Experts, NEW d \in Shards, NEW x \in 0..RowsTo(e, d) - 1
  PROVE  /\ RowCopy(ShardOf(e), e, d, x).to = d /\ RowCopy(ShardOf(e), e, d, x).at = RowAt(e, d, x)
         /\ x \in Nat /\ RowAt(e, d, x) \in Nat /\ RecvRows \in Nat /\ RowAt(e, d, x) < RecvRows
         /\ \A f \in Experts : e < f =>
              RowAt(e, d, x) < RowAt(f, d, 0) /\ RowAt(f, d, 0) \in Nat
<1> DEFINE t == TablesFor(routing)
           a == t.recv_base[d][e]
           w == t.aligned[e][d]
           n == RowsTo(e, d)
<1>1. ShardOf(e) \in Shards /\ Runs(ShardOf(e)) = t
  BY ExpertFacts, PlannedIs
<1>2. /\ a \in Nat /\ a + w =< RecvRows
      /\ \A f \in Experts : e < f => a + w =< t.recv_base[d][f]
  BY ArrivalsLie DEF ArrivalsLaid
<1>3. n \in Nat /\ w \in Nat /\ n =< w
  BY <1>1, LengthsAre, RunIs DEF RowsTo
<1>4. RecvRows \in Nat
  BY TotalsBounded
<1>5. /\ RowCopy(ShardOf(e), e, d, x).to = d
      /\ RowCopy(ShardOf(e), e, d, x).at = RowAt(e, d, x) /\ RowAt(e, d, x) = a + x
  BY <1>1 DEF RowCopy, Copy, PushDst, RowAt
<1>6. ASSUME NEW f \in Experts, e < f
      PROVE  RowAt(f, d, 0) \in Nat /\ a + w =< RowAt(f, d, 0)
  <2> DEFINE b == t.recv_base[d][f]
  <2>1. b \in Nat
    BY ArrivalsLie DEF ArrivalsLaid
  <2>2. a + w =< b
    BY <1>2, <1>6
  <2>3. RowAt(f, d, 0) = b + 0
    BY DEF RowAt
  <2> HIDE DEF b
  <2> QED BY <2>1, <2>2, <2>3
<1> HIDE DEF a, w, n
<1>7. x \in Nat /\ x < w
  BY <1>3 DEF n
<1>8. a + x \in Nat /\ a + x < RecvRows
  BY <1>2, <1>3, <1>4, <1>7
<1>9. \A f \in Experts : e < f => a + x < RowAt(f, d, 0) /\ RowAt(f, d, 0) \in Nat
  BY <1>2, <1>3, <1>6, <1>7
<1> QED BY <1>4, <1>5, <1>7, <1>8, <1>9

\* A row of an arrival buffer is that of one row of one run.
LEMMA RowsApart ==
  ASSUME Planned, NEW d \in Shards, NEW e \in Experts, NEW x \in 0..RowsTo(e, d) - 1,
         NEW f \in Experts, NEW y \in 0..RowsTo(f, d) - 1, RowAt(e, d, x) = RowAt(f, d, y)
  PROVE  e = f /\ x = y
<1>1. /\ x \in Nat /\ y \in Nat /\ RowAt(e, d, x) \in Nat
      /\ e < f => RowAt(e, d, x) < RowAt(f, d, 0) /\ RowAt(f, d, 0) \in Nat
      /\ f < e => RowAt(f, d, y) < RowAt(e, d, 0) /\ RowAt(e, d, 0) \in Nat
  BY RowsLand
<1> DEFINE B(g) == TablesFor(routing).recv_base[d][g]
<1>2. \A g \in Experts : B(g) \in Nat /\ g \in Nat
  BY ArrivalsLie, ExpertFacts DEF ArrivalsLaid
<1>3. \A g \in Experts : \A z : RowAt(g, d, z) = B(g) + z
  BY DEF RowAt
<1> HIDE DEF B
<1>4. ~(e < f) /\ ~(f < e)
  BY <1>1, <1>2, <1>3
<1>5. e = f
  BY <1>2, <1>4
<1> QED BY <1>1, <1>2, <1>3, <1>5

LEMMA SublanesLand ==
  ASSUME Computed, NEW e \in Experts, NEW d \in Shards, NEW j \in 0..TilesTo(e, d) - 1
  PROVE  LET s == ShardOf(e)
             k == First(s, e, d) + j IN
         /\ IsTile(s, e, k) /\ Shares(s, e, d, k)
         /\ SublaneCopy(s, e, d, k).to = d /\ SublaneCopy(s, e, d, k).at = SublaneAt(e, d, j)
         /\ j \in Nat /\ SublaneAt(e, d, j) \in Nat /\ ArrivalMirrorRows \in Nat
         /\ SublaneAt(e, d, j) < ArrivalMirrorRows
         /\ \A f \in Experts : e < f =>
              SublaneAt(e, d, j) < SublaneAt(f, d, 0) /\ SublaneAt(f, d, 0) \in Nat
<1> DEFINE s == ShardOf(e)
           t == TablesFor(routing)
           a == t.recv_base[d][e]
           w == t.aligned[e][d]
           l == Start(s, e, d)
           n == TilesTo(e, d)
           q == a \div TileM
           i == l \div TileM
           v == w - 1
           z == RecvRows \div TileM
<1>1. /\ s \in Shards /\ e \in ExpertsOf(s) /\ Runs(s) = t /\ e \in Nat /\ Planned
      /\ TileM \in Nat \ {0} /\ EP \in Nat /\ GLocal \in Nat
  BY ExpertFacts, PlannedIs, SizesAre DEF Computed
<1>2. /\ a \in Nat /\ a + w =< RecvRows
      /\ \A f \in Experts : e < f => a + w =< t.recv_base[d][f]
  BY ArrivalsLie DEF ArrivalsLaid
<1>3. /\ n \in Nat /\ First(s, e, d) \in Nat /\ (n > 0 <=> w > 0) /\ w \in Nat
      /\ w > 0 => First(s, e, d) + n - 1 = Last(s, e, d)
      /\ Shares(s, e, d, First(s, e, d) + j) /\ IsTile(s, e, First(s, e, d) + j)
  <2>1. n = Runs(s).run_tiles[e][d]
    BY <1>1 DEF TilesTo
  <2> HIDE DEF n, s
  <2>2. /\ n \in Nat /\ First(s, e, d) \in Nat /\ (n > 0 <=> w > 0) /\ w \in Nat
        /\ w > 0 => First(s, e, d) + n - 1 = Last(s, e, d)
        /\ \A k : Shares(s, e, d, k) <=> \E h \in 0..n - 1 : k = First(s, e, d) + h
        /\ \A h \in 0..n - 1 : IsTile(s, e, First(s, e, d) + h)
    BY <1>1, <2>1, RunTilesAre
  <2> QED BY <2>2 DEF n
<1>4. j \in Nat /\ j =< n - 1 /\ n > 0
  BY <1>3
<1>5. l \in Nat
  BY <1>1, RunIs
<1>6. First(s, e, d) = i /\ Last(s, e, d) = (l + w - 1) \div TileM
  BY <1>1 DEF First, Last
<1>7. RecvRows \in Nat
  BY TotalsBounded
<1>8. q \in Nat /\ i \in Nat /\ z \in Nat
  <2> HIDE DEF a, l
  <2> QED BY <1>1, <1>2, <1>5, <1>7, AlignDownIs
<1>9. SublaneCopy(s, e, d, First(s, e, d) + j).at = SublaneAt(e, d, j)
  <2>1. ArrivalSublane(s, e, d, First(s, e, d) + j) = PushDst(Runs(s), e, d) \div TileM + 2 * e + j
    BY <1>1, <1>3, <1>4, ArrivalSublaneIs
  <2> QED BY <1>1, <2>1 DEF SublaneCopy, Copy, SublaneAt, PushDst
<1>10. q + j =< (a + v) \div TileM + 1 /\ v \in Nat /\ (a + v) \div TileM \in Int
  <2>1. v \in Nat /\ l + w - 1 = l + v
    BY <1>3, <1>4, <1>5
  <2>2. j =< (l + v) \div TileM - i
    BY <1>3, <1>4, <1>6, <1>8, <2>1
  <2> HIDE DEF a, l, v, i, q
  <2>3. l \in Int /\ a \in Int /\ v \in Int
    BY <1>2, <1>5, <2>1
  <2>4. /\ (l + v) \div TileM \in Int /\ v \div TileM \in Int
        /\ (l + v) \div TileM =< i + v \div TileM + 1
    BY <1>1, <2>3, QuotientsAdd DEF i
  <2>5. (a + v) \div TileM \in Int /\ q + v \div TileM =< (a + v) \div TileM
    BY <1>1, <2>3, QuotientsAdd DEF q
  <2> QED BY <1>4, <1>8, <2>1, <2>2, <2>4, <2>5
<1>11. ASSUME NEW b \in Nat, a + w =< b
       PROVE  q + j =< b \div TileM + 1 /\ b \div TileM \in Nat
  <2>1. a + v =< b /\ a + v \in Int
    <3> HIDE DEF a
    <3> QED BY <1>2, <1>3, <1>11
  <2>2. (a + v) \div TileM =< b \div TileM
    <3> DEFINE y == a + v
    <3> HIDE DEF y
    <3>1. y \in Int /\ b \in Int /\ y =< b
      BY <2>1 DEF y
    <3>2. y \div TileM =< b \div TileM
      BY <1>1, <3>1, QuotientsGrow
    <3> QED BY <3>2 DEF y
  <2>3. b \div TileM \in Nat
    BY <1>1, AlignDownIs
  <2> HIDE DEF q, v
  <2> QED BY <1>4, <1>8, <1>10, <2>2, <2>3
<1>12. SublaneAt(e, d, j) = q + 2 * e + j
  BY DEF SublaneAt
<1>13. SublaneAt(e, d, j) < ArrivalMirrorRows /\ ArrivalMirrorRows \in Nat
  <2>1. q + j =< z + 1
    BY <1>2, <1>7, <1>11
  <2>2. ArrivalMirrorRows = z + 2 * EP * GLocal + 2
    BY DEF ArrivalMirrorRows, Slack
  <2>3. 2 * EP * GLocal = 2 * (EP * GLocal) /\ EP * GLocal \in Nat
    BY <1>1
  <2>4. e =< EP * GLocal - 1
    BY <1>1, <2>3 DEF Experts
  <2> HIDE DEF q, z
  <2> QED BY <1>1, <1>4, <1>8, <1>12, <2>1, <2>2, <2>3, <2>4
<1>14. ASSUME NEW f \in Experts, e < f
       PROVE  SublaneAt(e, d, j) < SublaneAt(f, d, 0) /\ SublaneAt(f, d, 0) \in Nat
  <2> DEFINE b == t.recv_base[d][f]
             p == b \div TileM
  <2>1. b \in Nat /\ f \in Nat
    BY ArrivalsLie, ExpertFacts DEF ArrivalsLaid
  <2>2. a + w =< b
    BY <1>2, <1>14
  <2>3. q + j =< p + 1 /\ p \in Nat
    BY <1>11, <2>1, <2>2
  <2>4. SublaneAt(f, d, 0) = p + 2 * f + 0
    BY DEF SublaneAt
  <2> HIDE DEF p, q
  <2> QED BY <1>1, <1>4, <1>8, <1>12, <1>14, <2>1, <2>3, <2>4
<1>15. SublaneAt(e, d, j) \in Nat
  <2> HIDE DEF q
  <2> QED BY <1>1, <1>4, <1>8, <1>12
<1>16. SublaneCopy(s, e, d, First(s, e, d) + j).to = d
  BY DEF SublaneCopy, Copy
<1> QED BY <1>3, <1>4, <1>9, <1>13, <1>14, <1>15, <1>16 DEF s

LEMMA SublanesApart ==
  ASSUME Computed, NEW d \in Shards, NEW e \in Experts, NEW x \in 0..TilesTo(e, d) - 1,
         NEW f \in Experts, NEW y \in 0..TilesTo(f, d) - 1, SublaneAt(e, d, x) = SublaneAt(f, d, y)
  PROVE  e = f /\ x = y
<1>1. /\ x \in Nat /\ y \in Nat /\ SublaneAt(e, d, x) \in Nat
      /\ e < f => SublaneAt(e, d, x) < SublaneAt(f, d, 0) /\ SublaneAt(f, d, 0) \in Nat
      /\ f < e => SublaneAt(f, d, y) < SublaneAt(e, d, 0) /\ SublaneAt(e, d, 0) \in Nat
  BY SublanesLand
<1> DEFINE B(g) == TablesFor(routing).recv_base[d][g] \div TileM
<1>2. \A g \in Experts : B(g) \in Int /\ g \in Nat
  <2> SUFFICES ASSUME NEW g \in Experts PROVE B(g) \in Int /\ g \in Nat
    OBVIOUS
  <2> DEFINE b == TablesFor(routing).recv_base[d][g]
  <2>1. b \in Nat /\ g \in Nat /\ TileM \in Nat \ {0}
    BY ArrivalsLie, ExpertFacts, SizesAre DEF ArrivalsLaid
  <2> HIDE DEF b
  <2>2. b \div TileM \in Int
    BY <2>1, Division
  <2> QED BY <2>1, <2>2 DEF b
<1>3. \A g \in Experts : \A z : SublaneAt(g, d, z) = B(g) + 2 * g + z
  BY DEF SublaneAt
<1> HIDE DEF B
<1>4. ~(e < f) /\ ~(f < e)
  BY <1>1, <1>2, <1>3
<1>5. e = f
  BY <1>2, <1>4
<1> QED BY <1>1, <1>2, <1>3, <1>5

\* What arrived, copy by copy.
LEMMA RowsArrived ==
  ASSUME Computed
  PROVE  /\ \A c \in ArrivedRows : \E e \in Experts, d \in Shards :
              \E x \in 0..RowsTo(e, d) - 1 :
                c = RowCopy(ShardOf(e), e, d, x) /\ c.to = d /\ c.at = RowAt(e, d, x)
         /\ \A e \in Experts, d \in Shards : \A x \in 0..RowsTo(e, d) - 1 :
              RowCopy(ShardOf(e), e, d, x) \in ArrivedRows
<1>1. \A e \in Experts, d \in Shards :
        RunCopies(ShardOf(e), e, d) = {RowCopy(ShardOf(e), e, d, x) : x \in 0..RowsTo(e, d) - 1}
  BY DEF RunCopies, RowsTo
<1>2. ASSUME NEW c \in ArrivedRows
      PROVE  \E e \in Experts, d \in Shards : \E x \in 0..RowsTo(e, d) - 1 :
               c = RowCopy(ShardOf(e), e, d, x) /\ c.to = d /\ c.at = RowAt(e, d, x)
  <2>1. PICK e \in Experts, d \in Shards : c \in RunCopies(ShardOf(e), e, d)
    BY ArrivedAre
  <2>2. PICK x \in 0..RowsTo(e, d) - 1 : c = RowCopy(ShardOf(e), e, d, x)
    BY <1>1, <2>1
  <2> QED BY <2>2, RowsLand DEF Computed
<1>3. ASSUME NEW e \in Experts, NEW d \in Shards, NEW x \in 0..RowsTo(e, d) - 1
      PROVE  RowCopy(ShardOf(e), e, d, x) \in ArrivedRows
  BY <1>1, ArrivedAre
<1> QED BY <1>2, <1>3

LEMMA SublanesArrived ==
  ASSUME Computed
  PROVE  /\ \A c \in ArrivedSublanes : \E e \in Experts, d \in Shards :
              \E j \in 0..TilesTo(e, d) - 1 :
                /\ c = SublaneCopy(ShardOf(e), e, d, First(ShardOf(e), e, d) + j)
                /\ c.to = d /\ c.at = SublaneAt(e, d, j)
         /\ \A e \in Experts, d \in Shards : \A j \in 0..TilesTo(e, d) - 1 :
              SublaneCopy(ShardOf(e), e, d, First(ShardOf(e), e, d) + j) \in ArrivedSublanes
<1>1. ASSUME NEW e \in Experts, NEW d \in Shards
      PROVE  RunSublanes(ShardOf(e), e, d) =
               {SublaneCopy(ShardOf(e), e, d, First(ShardOf(e), e, d) + j) : j \in 0..TilesTo(e, d) - 1}
  BY ExpertFacts, PlannedIs DEF RunSublanes, TilesTo, Computed
<1>2. ASSUME NEW c \in ArrivedSublanes
      PROVE  \E e \in Experts, d \in Shards : \E j \in 0..TilesTo(e, d) - 1 :
               /\ c = SublaneCopy(ShardOf(e), e, d, First(ShardOf(e), e, d) + j)
               /\ c.to = d /\ c.at = SublaneAt(e, d, j)
  <2>1. PICK e \in Experts, d \in Shards : c \in RunSublanes(ShardOf(e), e, d)
    BY ArrivedAre
  <2>2. PICK j \in 0..TilesTo(e, d) - 1 :
          c = SublaneCopy(ShardOf(e), e, d, First(ShardOf(e), e, d) + j)
    BY <1>1, <2>1
  <2>3. c.to = d /\ c.at = SublaneAt(e, d, j)
    BY <2>2, SublanesLand
  <2> QED BY <2>2, <2>3
<1>3. ASSUME NEW e \in Experts, NEW d \in Shards, NEW j \in 0..TilesTo(e, d) - 1
      PROVE  SublaneCopy(ShardOf(e), e, d, First(ShardOf(e), e, d) + j) \in ArrivedSublanes
  BY <1>1, ArrivedAre
<1> QED BY <1>2, <1>3

LEMMA ArrivalsApart ==
  ASSUME Computed
  PROVE  /\ \A c \in ArrivedRows : c.at < RecvRows
         /\ \A c \in ArrivedSublanes : c.at < ArrivalMirrorRows
         /\ \A b, c \in ArrivedRows : b.to = c.to /\ b.at = c.at => b = c
         /\ \A b, c \in ArrivedSublanes : b.to = c.to /\ b.at = c.at => b = c
<1>1. ASSUME NEW c \in ArrivedRows
      PROVE  c.at < RecvRows
  <2>1. PICK e \in Experts, d \in Shards : \E x \in 0..RowsTo(e, d) - 1 : c.at = RowAt(e, d, x)
    BY RowsArrived
  <2> QED BY <2>1, RowsLand DEF Computed
<1>2. ASSUME NEW c \in ArrivedSublanes
      PROVE  c.at < ArrivalMirrorRows
  <2>1. PICK e \in Experts, d \in Shards : \E j \in 0..TilesTo(e, d) - 1 : c.at = SublaneAt(e, d, j)
    BY SublanesArrived
  <2> QED BY <2>1, SublanesLand
<1>3. ASSUME NEW b \in ArrivedRows, NEW c \in ArrivedRows, b.to = c.to, b.at = c.at
      PROVE  b = c
  <2>1. PICK e \in Experts, d \in Shards : \E x \in 0..RowsTo(e, d) - 1 :
          b = RowCopy(ShardOf(e), e, d, x) /\ b.to = d /\ b.at = RowAt(e, d, x)
    BY RowsArrived
  <2>2. PICK f \in Experts, g \in Shards : \E y \in 0..RowsTo(f, g) - 1 :
          c = RowCopy(ShardOf(f), f, g, y) /\ c.to = g /\ c.at = RowAt(f, g, y)
    BY RowsArrived
  <2>3. d = g
    BY <1>3, <2>1, <2>2
  <2> QED BY <1>3, <2>1, <2>2, <2>3, RowsApart DEF Computed
<1>4. ASSUME NEW b \in ArrivedSublanes, NEW c \in ArrivedSublanes, b.to = c.to, b.at = c.at
      PROVE  b = c
  <2>1. PICK e \in Experts, d \in Shards : \E x \in 0..TilesTo(e, d) - 1 :
          /\ b = SublaneCopy(ShardOf(e), e, d, First(ShardOf(e), e, d) + x)
          /\ b.to = d /\ b.at = SublaneAt(e, d, x)
    BY SublanesArrived
  <2>2. PICK f \in Experts, g \in Shards : \E y \in 0..TilesTo(f, g) - 1 :
          /\ c = SublaneCopy(ShardOf(f), f, g, First(ShardOf(f), f, g) + y)
          /\ c.to = g /\ c.at = SublaneAt(f, g, y)
    BY SublanesArrived
  <2>3. d = g
    BY <1>4, <2>1, <2>2
  <2> QED BY <1>4, <2>1, <2>2, <2>3, SublanesApart
<1> QED BY <1>1, <1>2, <1>3, <1>4

\* No two copies of the exchange land on one row or one sublane, whatever their
\* sources, and all land within the arrival buffers, for every routing and every
\* size of the layer: two sublanes of slack per expert are enough (host.py,
\* contrib_mirror_rows and arrival_mirror_rows).
THEOREM ArrivalsLandApart == CallSpec => []LandApart
<1>1. CallInv => LandApart
  <2> SUFFICES ASSUME CallInv, stage = "arrived" PROVE LandApart
    BY DEF LandApart
  <2>1. Computed
    BY ComputedIs DEF Late
  <2>2. arrived = ArrivedRows /\ mirrored = ArrivedSublanes
    BY DEF CallInv, Late
  <2> QED BY <2>1, <2>2, ArrivalsApart DEF LandApart
<1> QED BY <1>1, CallInductive, PTL

-----------------------------------------------------------------------------
\* The combine.

\* What lies where one copy landed alone.
LEMMA AtIs ==
  ASSUME NEW copies, NEW c \in copies, \A b \in copies : b.to = c.to /\ b.at = c.at => b = c
  PROVE  At(copies, c.to, c.at) = c.what
<1>1. {b \in copies : b.to = c.to /\ b.at = c.at} = {c}
  OBVIOUS
<1> QED BY <1>1 DEF At

\* The token gather finds the token of every pair in the pair's slab row.
LEMMA GatherIs ==
  ASSUME Planned, NEW p \in Pairs
  PROVE  TokenGather(plan[ShardOf(routing[p])].slab_row)
           [SlabRow(routing, TablesFor(routing), p)] = Token(p)
<1> DEFINE t == TablesFor(routing)
           s == ShardOf(routing[p])
           row == plan[s].slab_row
           x == SlabRow(routing, t, p)
           f == [q \in Pairs |-> Token(q)]
           top == EP * TLocal - 1
<1>1. routing \in Routings /\ s \in Shards /\ PlanFor(routing, t, s, plan[s])
  <2>1. routing \in Routings
    BY DEF Planned
  <2>2. s \in Shards
    BY <2>1, PairIs
  <2> QED BY <2>1, <2>2 DEF Planned
<1>2. x \in Nat /\ x < Stride /\ Stride \in Nat
  <2>1. x \in Nat /\ x < Stride
    BY <1>1, SlabRowsDiffer
  <2>2. Stride \in Nat
    BY <1>1, TotalsBounded
  <2> QED BY <2>1, <2>2
<1>3. {q \in Pairs : row[q] = x} = {p}
  <2>1. row[p] = x
    BY <1>1 DEF PlanFor
  <2>2. ASSUME NEW q \in Pairs, q # p
        PROVE  row[q] # x
    <3>1. CASE ShardOf(routing[q]) = s
      <4>1. row[q] = SlabRow(routing, t, q)
        BY <1>1, <3>1 DEF PlanFor
      <4>2. SlabRow(routing, t, q) # x
        BY <1>1, <2>2, <3>1, SlabRowsDiffer
      <4> QED BY <4>1, <4>2
    <3>2. CASE ShardOf(routing[q]) # s
      <4>1. row[q] \in Nat /\ row[q] >= Stride
        BY <1>1, <3>2 DEF PlanFor
      <4> HIDE DEF row, x
      <4> QED BY <1>2, <4>1
    <3> QED BY <3>1, <3>2
  <2> HIDE DEF row, x
  <2> QED BY <2>1, <2>2
<1>4. Token(p) \in Nat /\ Token(p) =< top /\ top \in Nat
  <2>1. p \in Nat /\ TopK \in Nat \ {0} /\ EP \in Nat \ {0} /\ TLocal \in Nat \ {0}
    BY OwnerIs, SizesAre
  <2>2. p < EP * TLocal * TopK
    <3>1. EP * TLocal * TopK \in Int
      BY <2>1
    <3> QED BY <2>1, <3>1 DEF Pairs, NumPairs
  <2>3. top \in Nat /\ top * TopK + TopK = EP * TLocal * TopK
    <3>1. EP * TLocal \in Nat \ {0}
      BY <2>1
    <3> DEFINE m == EP * TLocal
    <3> HIDE DEF m
    <3>2. m - 1 \in Nat /\ (m - 1) * TopK + TopK = m * TopK
      BY <2>1, <3>1 DEF m
    <3> QED BY <3>2 DEF m
  <2> HIDE DEF top
  <2>4. Token(p) =< top
    <3>1. p < top * TopK + TopK
      BY <2>2, <2>3
    <3>2. p \in Int /\ top \in Int
      BY <2>1, <2>3
    <3> QED BY <2>1, <3>1, <3>2, QuotientBounds DEF Token
  <2>5. Token(p) \in Nat
    BY <2>1, AlignDownIs DEF Token
  <2> QED BY <2>3, <2>4, <2>5
<1>5. SumOf(f, {p}) = Token(p)
  <2>1. f[p] = Token(p)
    OBVIOUS
  <2> HIDE DEF f
  <2>2. IsFiniteSet({p}) /\ \A q \in {p} : f[q] \in Nat
    BY <1>4, <2>1, FS_Singleton
  <2>3. SumOf(f, {p}) = f[p] + SumOf(f, {p} \ {p}) /\ SumOf(f, {}) = 0
    BY <2>2, Sums
  <2>4. SumOf(f, {p} \ {p}) = 0
    <3>1. {p} \ {p} = {}
      OBVIOUS
    <3> QED BY <2>3, <3>1
  <2> DEFINE v == Token(p)
  <2>5. v \in Nat /\ f[p] = v /\ SumOf(f, {p}) = f[p] + 0
    BY <1>4, <2>1, <2>3, <2>4
  <2> HIDE DEF v
  <2>6. SumOf(f, {p}) = v
    BY <2>5
  <2> QED BY <2>6 DEF v
<1>6. Max({top, 0}) = top /\ Min({Token(p), top}) = Token(p)
  <2> HIDE DEF top
  <2> DEFINE v == Token(p)
             z == 0
  <2>1. z \in Int /\ top \in Int /\ v \in Int /\ top >= z /\ v =< top
    BY <1>4
  <2> HIDE DEF v, z
  <2>2. Max({top, z}) = IF top =< z THEN z ELSE top
    BY <2>1, MinMaxIs
  <2>3. Min({v, top}) = v
    BY <2>1, MinMaxIs
  <2>4. Max({top, z}) = top
    BY <2>1, <2>2
  <2> QED BY <2>3, <2>4 DEF v, z
<1>7. TokenGather(row) = [y \in 0..Stride - 1 |->
        Min({SumOf(f, {q \in Pairs : row[q] = y}), Max({top, 0})})]
  BY DEF TokenGather
<1> HIDE DEF x, f, top, row
<1>8. x \in 0..Stride - 1
  BY <1>2
<1>9. TokenGather(row)[x] = Min({SumOf(f, {p}), Max({top, 0})})
  BY <1>3, <1>7, <1>8
<1> QED BY <1>5, <1>6, <1>9 DEF x, row

\* So the row of a pair's rank in its run is the pair's.
LEMMA FetchedIs ==
  ASSUME Planned, NEW p \in Pairs
  PROVE  LET e == routing[p]
             s == ShardOf(e)
             d == Owner(p) IN
         /\ e \in Experts /\ s \in Shards /\ e \in ExpertsOf(s) /\ d \in Shards
         /\ Rank(routing, p) \in Nat /\ Rank(routing, p) < Runs(s).run_rows[e][d]
         /\ Fetched(s, e, Start(s, e, d) + Rank(routing, p)) = <<e, Token(p)>>
<1> DEFINE e == routing[p]
           s == ShardOf(e)
           d == Owner(p)
           t == TablesFor(routing)
           x == Rank(routing, p)
<1>1. /\ e \in Experts /\ s \in Shards /\ d \in Shards /\ routing \in Routings
      /\ x \in Nat /\ x < t.run_rows[e][d]
  <2>1. routing \in Routings
    BY DEF Planned
  <2> QED BY <2>1, PairIs
<1>2. Runs(s) = t /\ e \in ExpertsOf(s)
  BY <1>1, PlannedIs, ExpertFacts
<1>3. Start(s, e, d) = t.start_aligned[e][d] /\ Start(s, e, d) \in Nat
  BY <1>1, <1>2, RunIs DEF Start
<1>4. SlabBase(t, e) \in Nat
  BY <1>1, SlabsLie DEF SlabsLaid
<1>5. SlabBase(t, e) + (Start(s, e, d) + x) = SlabRow(routing, t, p)
  <2> DEFINE a == SlabBase(t, e)
             b == Start(s, e, d)
  <2>1. SlabRow(routing, t, p) = a + b + x
    BY <1>3 DEF SlabRow
  <2> HIDE DEF a, b, x
  <2>2. a + (b + x) = a + b + x
    BY <1>1, <1>3, <1>4 DEF a, b
  <2> QED BY <2>1, <2>2 DEF a, b, x
<1>6. TokenGather(plan[s].slab_row)[SlabRow(routing, t, p)] = Token(p)
  BY GatherIs
<1>7. Fetched(s, e, Start(s, e, d) + x) = <<e, Token(p)>>
  BY <1>2, <1>5, <1>6 DEF Fetched
<1> QED BY <1>1, <1>2, <1>7

LEMMA RowReturns ==
  ASSUME Computed, arrived = ArrivedRows, NEW p \in Pairs
  PROVE  CombinedRow(p) = <<routing[p], Token(p)>>
<1> DEFINE e == routing[p]
           s == ShardOf(e)
           d == Owner(p)
           x == Rank(routing, p)
           c == RowCopy(s, e, d, x)
<1>1. /\ e \in Experts /\ s \in Shards /\ e \in ExpertsOf(s) /\ d \in Shards
      /\ x \in Nat /\ x < Runs(s).run_rows[e][d]
      /\ Fetched(s, e, Start(s, e, d) + x) = <<e, Token(p)>>
  BY FetchedIs DEF Computed
<1>2. x \in 0..RowsTo(e, d) - 1
  <2>1. /\ RowsTo(e, d) \in Nat /\ Runs(s).run_rows[e][d] \in Nat
        /\ Runs(s).run_rows[e][d] =< RowsTo(e, d)
    BY <1>1, LengthsAre, RunIs DEF RowsTo, Computed
  <2> HIDE DEF x
  <2> QED BY <1>1, <2>1
<1>3. plan[d].pos[p] = RowAt(e, d, x)
  <2>1. p \in PairsOf(d) /\ plan[d].pos = [q \in PairsOf(d) |-> ArrivalRow(routing, TablesFor(routing), q)]
    BY <1>1, OwnerIs DEF Computed, Planned, PlanFor
  <2> QED BY <2>1 DEF ArrivalRow, RowAt
<1>4. c \in ArrivedRows
  BY <1>1, <1>2, RowsArrived
<1>5. /\ c.to = d /\ c.at = RowAt(e, d, x) /\ RowAt(e, d, x) \in Nat /\ RecvRows \in Nat
      /\ RowAt(e, d, x) < RecvRows
  BY <1>1, <1>2, RowsLand DEF Computed
<1>6. c.what = <<e, Token(p)>>
  BY <1>1 DEF RowCopy, Copy
<1> HIDE DEF c, e, s, d, x
<1>7. At(ArrivedRows, c.to, c.at) = c.what
  BY <1>4, ArrivalsApart, AtIs
<1>8. Min({RowAt(e, d, x), RecvRows - 1}) = RowAt(e, d, x)
  <2> DEFINE a == RowAt(e, d, x)
             b == RecvRows - 1
  <2>1. a \in Int /\ b \in Int /\ a =< b
    BY <1>5
  <2> HIDE DEF a, b
  <2>2. Min({a, b}) = a
    BY <2>1, MinMaxIs
  <2> QED BY <2>2 DEF a, b
<1>9. CombinedRow(p) = At(ArrivedRows, d, Min({RowAt(e, d, x), RecvRows - 1}))
  BY <1>3 DEF CombinedRow, d
<1> QED BY <1>5, <1>6, <1>7, <1>8, <1>9 DEF e

\* The scale of a pair lies in the lane its row had in the tile.
LEMMA ScaleIs ==
  ASSUME Computed, NEW p \in Pairs
  PROVE  LET e == routing[p]
             s == ShardOf(e)
             d == Owner(p)
             y == Start(s, e, d) + Rank(routing, p)
             scl == plan[d].mirror_pos[p] IN
         \E j \in 0..TilesTo(e, d) - 1 :
           /\ First(s, e, d) + j = y \div TileM
           /\ scl \div TileM = SublaneAt(e, d, j) /\ scl % TileM = y % TileM
           /\ scl \in Int /\ scl =< ArrivalMirrorRows * TileM - 1
           /\ ArrivalMirrorRows * TileM \in Int
<1> DEFINE e == routing[p]
           s == ShardOf(e)
           d == Owner(p)
           t == TablesFor(routing)
           x == Rank(routing, p)
           l == Start(s, e, d)
           y == l + x
           i == First(s, e, d)
           k == y \div TileM
           j == k - i
           q == t.recv_base[d][e] \div TileM
           scl == plan[d].mirror_pos[p]
<1>1. /\ e \in Experts /\ s \in Shards /\ e \in ExpertsOf(s) /\ d \in Shards
      /\ x \in Nat /\ x < Runs(s).run_rows[e][d] /\ Planned
      /\ TileM \in Nat \ {0} /\ e \in Nat
  <2>1. Planned
    BY DEF Computed
  <2>2. TileM \in Nat \ {0} /\ \A f \in Experts : f \in Nat
    BY SizesAre, ExpertFacts
  <2> QED BY <2>1, <2>2, FetchedIs
<1>2. /\ Runs(s) = t /\ l \in Nat /\ Runs(s).run_rows[e][d] \in Nat
      /\ Runs(s).aligned[e][d] \in Nat /\ Runs(s).run_rows[e][d] =< Runs(s).aligned[e][d]
      /\ l = t.start_aligned[e][d]
  <2>1. Runs(s) = t
    BY <1>1, PlannedIs
  <2> QED BY <1>1, <2>1, RunIs DEF Start
<1>3. y \in Nat /\ l =< y /\ y < l + Runs(s).aligned[e][d]
  <2> HIDE DEF l, x, s, d, e
  <2> QED BY <1>1, <1>2
<1>4. Shares(s, e, d, k)
  <2> HIDE DEF y
  <2> QED BY <1>1, <1>3, RowsShared
<1>5. i \in Nat /\ \E h \in 0..TilesTo(e, d) - 1 : k = i + h
  <2>1. Runs(s).run_tiles[e][d] = TilesTo(e, d)
    BY <1>2 DEF TilesTo
  <2> HIDE DEF k, y, s, e, d
  <2>2. First(s, e, d) \in Nat
    BY <1>1, RunTilesAre
  <2>3. \E h \in 0..Runs(s).run_tiles[e][d] - 1 : k = First(s, e, d) + h
    BY <1>1, <1>4, RunTilesAre
  <2> QED BY <2>1, <2>2, <2>3
<1>6. PICK h \in 0..TilesTo(e, d) - 1 : k = i + h
  BY <1>5
<1>7. h \in Nat /\ SublaneAt(e, d, h) = q + 2 * e + h /\ SublaneAt(e, d, h) \in Nat
      /\ SublaneAt(e, d, h) < ArrivalMirrorRows /\ ArrivalMirrorRows \in Nat
  <2> HIDE DEF e, d
  <2> QED BY <1>1, SublanesLand DEF SublaneAt
<1>8. q \in Nat
  <2> DEFINE a == t.recv_base[d][e]
  <2>1. a \in Nat
    BY <1>1, ArrivalsLie DEF ArrivalsLaid
  <2> HIDE DEF a
  <2>2. a \div TileM \in Nat
    BY <1>1, <2>1, AlignDownIs
  <2> QED BY <2>2 DEF a
<1>9. scl = (q + 2 * e) * TileM + (l % TileM) + x
  <2>1. p \in PairsOf(d) /\ plan[d].mirror_pos = [z \in PairsOf(d) |-> MirrorRow(routing, t, z)]
    BY <1>1, OwnerIs DEF Planned, PlanFor
  <2>2. scl = MirrorStart(t, e, d) + x
    BY <2>1 DEF MirrorRow
  <2> QED BY <1>2, <2>2 DEF MirrorStart, Slack
<1>10. l = TileM * i + (l % TileM) /\ l % TileM \in Nat
  <2>1. i = l \div TileM
    BY DEF First
  <2> HIDE DEF l, i
  <2>2. l \in Int /\ \A z \in 0..TileM - 1 : z \in Nat
    BY <1>1, <1>2
  <2> QED BY <1>1, <2>1, <2>2, Division
<1>11. scl = y + (q + 2 * e - i) * TileM
  <2> DEFINE m == l % TileM
             a == q + 2 * e
  <2>1. /\ a \in Nat /\ m \in Nat /\ i \in Nat /\ l = TileM * i + m /\ scl = a * TileM + m + x
        /\ y = l + x
    BY <1>1, <1>5, <1>8, <1>9, <1>10
  <2> HIDE DEF m, a, l, i, y, x, scl
  <2>2. (a - i) * TileM = a * TileM - TileM * i /\ a * TileM \in Int /\ TileM * i \in Int
    BY <1>1, <2>1
  <2>3. x \in Nat
    BY <1>1
  <2>4. scl = y + (a - i) * TileM
    BY <2>1, <2>2, <2>3
  <2>5. a - i = q + 2 * e - i
    <3>1. q \in Nat /\ e \in Nat /\ i \in Nat
      BY <1>1, <1>5, <1>8
    <3> HIDE DEF q, e, i
    <3> QED BY <3>1 DEF a
  <2> DEFINE b == q + 2 * e - i
  <2>6. a - i = b
    BY <2>5
  <2> HIDE DEF b
  <2>7. scl = y + b * TileM
    BY <2>4, <2>6
  <2> QED BY <2>7 DEF b
<1>12. SublaneAt(e, d, h) = k + (q + 2 * e - i) /\ q + 2 * e - i \in Int /\ k \in Int
  <2> HIDE DEF q, i, k, e
  <2> QED BY <1>1, <1>5, <1>6, <1>7, <1>8
<1>13. scl \div TileM = SublaneAt(e, d, h) /\ scl % TileM = y % TileM
  <2> DEFINE b == q + 2 * e - i
  <2>1. b \in Int /\ y \in Int
    BY <1>3, <1>12
  <2> HIDE DEF b, y
  <2>2. (y + b * TileM) \div TileM = y \div TileM + b /\ (y + b * TileM) % TileM = y % TileM
    BY <1>1, <2>1, QuotientShifts
  <2> QED BY <1>11, <1>12, <2>2 DEF b
<1>14. scl \in Int
  <2> DEFINE b == q + 2 * e - i
  <2>1. b \in Int /\ y \in Int
    BY <1>3, <1>12
  <2> HIDE DEF b, y
  <2>2. b * TileM \in Int
    BY <1>1, <2>1
  <2> QED BY <1>11, <2>1, <2>2 DEF b
<1> HIDE DEF scl, e, d, s
<1>15. scl =< ArrivalMirrorRows * TileM - 1 /\ ArrivalMirrorRows * TileM \in Int
  <2> DEFINE n == ArrivalMirrorRows - 1
  <2>1. n \in Int /\ scl \div TileM =< n
    BY <1>7, <1>13
  <2>2. n * TileM + TileM = ArrivalMirrorRows * TileM /\ n * TileM \in Int
    BY <1>1, <1>7
  <2>3. scl < n * TileM + TileM
    <3> HIDE DEF n
    <3> QED BY <1>1, <1>14, <2>1, QuotientBounds
  <2> QED BY <1>1, <1>14, <2>2, <2>3
<1>16. First(s, e, d) + h = y \div TileM
  BY <1>6
<1> HIDE DEF y
<1> QED BY <1>13, <1>14, <1>15, <1>16 DEF scl, e, d, s, y, l, x

LEMMA ScaleReturns ==
  ASSUME Computed, mirrored = ArrivedSublanes, NEW p \in Pairs
  PROVE  CombinedScale(p) = <<routing[p], Token(p)>>
<1> DEFINE e == routing[p]
           s == ShardOf(e)
           d == Owner(p)
           y == Start(s, e, d) + Rank(routing, p)
           scl == plan[d].mirror_pos[p]
           k == y \div TileM
           i == y % TileM
           c == SublaneCopy(s, e, d, k)
<1>1. /\ e \in Experts /\ s \in Shards /\ e \in ExpertsOf(s) /\ d \in Shards
      /\ Rank(routing, p) \in Nat /\ Rank(routing, p) < Runs(s).run_rows[e][d]
      /\ Fetched(s, e, y) = <<e, Token(p)>>
  BY FetchedIs DEF Computed
<1>2. PICK j \in 0..TilesTo(e, d) - 1 :
        /\ First(s, e, d) + j = k
        /\ scl \div TileM = SublaneAt(e, d, j) /\ scl % TileM = i
        /\ scl \in Int /\ scl =< ArrivalMirrorRows * TileM - 1
        /\ ArrivalMirrorRows * TileM \in Int
  BY ScaleIs
<1>3. /\ Start(s, e, d) \in Nat /\ Runs(s).run_rows[e][d] \in Nat
      /\ Runs(s).aligned[e][d] \in Nat /\ Runs(s).run_rows[e][d] =< Runs(s).aligned[e][d]
  BY <1>1, RunIs DEF Computed
<1>4. y \in Nat /\ Start(s, e, d) =< y /\ y < Start(s, e, d) + Runs(s).aligned[e][d]
  <2> DEFINE l == Start(s, e, d)
             x == Rank(routing, p)
  <2>1. l \in Nat /\ x \in Nat /\ x < Runs(s).aligned[e][d]
    BY <1>1, <1>3
  <2> HIDE DEF l, x
  <2>2. l + x \in Nat /\ l =< l + x /\ l + x < l + Runs(s).aligned[e][d]
    BY <1>3, <2>1
  <2> QED BY <2>2 DEF l, x
<1>5. OverlapLies(s, e, d, k) /\ y < Hi(s, e, d, k)
  <2> HIDE DEF y, e, s, d
  <2> QED BY <1>1, <1>4, RowsShared
<1>6. /\ i \in Nat /\ i < TileM /\ y = k * TileM + i /\ k * TileM \in Nat /\ TileM \in Nat \ {0}
  <2>1. TileM \in Nat \ {0}
    BY SizesAre
  <2> HIDE DEF y
  <2>2. y \in Int /\ k \in Nat
    <3>1. y \in Nat
      BY <1>4
    <3>2. y \div TileM \in Nat
      BY <2>1, <3>1, AlignDownIs
    <3> QED BY <3>1, <3>2
  <2>3. k \in Int /\ i \in 0..TileM - 1 /\ y = TileM * k + i
    BY <2>1, <2>2, Division
  <2> HIDE DEF k, i
  <2> QED BY <2>1, <2>2, <2>3
<1>7. LiveRows(s, e, k) \in Nat /\ i < LiveRows(s, e, k) /\ IsTile(s, e, k)
  <2>1. IsTile(s, e, k) /\ Hi(s, e, d, k) \in Nat /\ Hi(s, e, d, k) =< k * TileM + LiveRows(s, e, k)
    BY <1>5 DEF OverlapLies
  <2>2. LiveRows(s, e, k) \in 1..TileM
    BY <1>1, <2>1, TilesLie DEF IsTile, Computed, TileLies
  <2> HIDE DEF y, k, i, e, s, d
  <2>3. LiveRows(s, e, k) \in Nat
    BY <1>6, <2>2
  <2> QED BY <1>4, <1>5, <1>6, <2>1, <2>3
<1>8. Sublane(s, e, k)[i] = <<e, Token(p)>> /\ Sublane(s, e, k) # Garbage
  <2>1. i \in 0..TileM - 1 /\ i \in 0..LiveRows(s, e, k) - 1
    <3> HIDE DEF i, k, y
    <3> QED BY <1>6, <1>7
  <2>2. tiles[s][e][k][i] = Fetched(s, e, k * TileM + i)
    <3> HIDE DEF i, k, y, s, e, d
    <3> QED BY <1>1, <1>7, <2>1, TileIdsAre
  <2>3. Sublane(s, e, k)[i] = tiles[s][e][k][i]
    <3> HIDE DEF i, k
    <3> QED BY <1>7, <2>1 DEF Sublane
  <2>4. Sublane(s, e, k) # Garbage
    <3>1. 0 \in DOMAIN Sublane(s, e, k)
      BY <1>6 DEF Sublane
    <3>2. 0 \notin DOMAIN Garbage
      BY DEF Garbage
    <3> QED BY <3>1, <3>2
  <2> QED BY <1>1, <1>6, <2>2, <2>3, <2>4
<1>9. c \in ArrivedSublanes /\ c.to = d /\ c.at = SublaneAt(e, d, j) /\ c.what = Sublane(s, e, k)
  <2>1. c.what = Sublane(s, e, k)
    BY DEF SublaneCopy, Copy
  <2>2. c \in ArrivedSublanes
    BY <1>1, <1>2, SublanesArrived
  <2>3. c.to = d /\ c.at = SublaneAt(e, d, j)
    BY <1>1, <1>2, SublanesLand
  <2> QED BY <2>1, <2>2, <2>3
<1>10. CombinedScale(p) =
         LET z == Min({scl, ArrivalMirrorRows * TileM - 1})
             lanes == At(ArrivedSublanes, d, z \div TileM) IN
         IF lanes = Garbage THEN Garbage ELSE lanes[z % TileM]
  BY DEF CombinedScale
<1> HIDE DEF c, scl, y, k, i, s, d, e
<1>11. At(ArrivedSublanes, c.to, c.at) = c.what
  BY <1>9, ArrivalsApart, AtIs
<1>12. Min({scl, ArrivalMirrorRows * TileM - 1}) = scl
  <2> DEFINE b == ArrivalMirrorRows * TileM - 1
  <2>1. scl \in Int /\ b \in Int /\ scl =< b
    BY <1>2
  <2> HIDE DEF b
  <2>2. Min({scl, b}) = scl
    BY <2>1, MinMaxIs
  <2> QED BY <2>2 DEF b
<1>13. At(ArrivedSublanes, d, scl \div TileM) = Sublane(s, e, k)
  BY <1>2, <1>9, <1>11
<1> QED BY <1>2, <1>8, <1>10, <1>12, <1>13 DEF e

\* Every selection gets back the row, and the scale, that its expert computed for
\* its token, for every routing and every size of the layer: the clamps of
\* _combine_arrivals never move a position (layer.py:640-655).
THEOREM PairsReturned == CallSpec => []PairsReturn
<1>1. CallInv => PairsReturn
  <2> SUFFICES ASSUME CallInv, stage = "combined", NEW p \in Pairs
               PROVE  out[p] = <<<<routing[p], Token(p)>>, <<routing[p], Token(p)>>>>
    BY DEF PairsReturn
  <2>1. Computed
    BY ComputedIs DEF Late
  <2>2. /\ arrived = ArrivedRows /\ mirrored = ArrivedSublanes
        /\ out[p] = <<CombinedRow(p), CombinedScale(p)>>
    BY DEF CallInv, Late
  <2> QED BY <2>1, <2>2, RowReturns, ScaleReturns
<1> QED BY <1>1, CallInductive, PTL

-----------------------------------------------------------------------------
\* Counting the copies.

\* An enumeration without repetition counts.
Image(f, n) == {f[i] : i \in 0..n - 1}

LEMMA ImageCount ==
  ASSUME NEW n \in Nat, NEW f, \A i, j \in 0..n - 1 : f[i] = f[j] => i = j
  PROVE  IsFiniteSet(Image(f, n)) /\ Cardinality(Image(f, n)) = n
<1> DEFINE S == 0..n - 1
           T == {f[i] : i \in S}
           g == [i \in S |-> f[i]]
<1>1. IsFiniteSet(S) /\ Cardinality(S) = n
  BY FS_Interval
<1>2. \A i, j \in S : f[i] = f[j] => i = j
  OBVIOUS
<1> HIDE DEF S
<1>3. g \in Bijection(S, T)
  BY <1>2 DEF Bijection, Injection, Surjection, IsInjective
<1>4. ExistsBijection(S, T)
  BY <1>3 DEF ExistsBijection
<1>5. IsFiniteSet(T) /\ Cardinality(T) = Cardinality(S)
  BY <1>1, <1>4, FS_Bijection
<1> QED BY <1>1, <1>5 DEF S, Image

\* Disjoint sets F[g], of n[g] elements each.
Counting(F, n, G) ==
  /\ IsFiniteSet(G) /\ \A g \in G : IsFiniteSet(F[g]) /\ n[g] = Cardinality(F[g])
  /\ \A g, h \in G : g # h => F[g] \cap F[h] = {}

LEMMA CountingIs ==
  ASSUME NEW F, NEW n, NEW G, Counting(F, n, G), NEW H \in SUBSET G
  PROVE  /\ IsFiniteSet(H) /\ IsFiniteSet(Joined(F, H)) /\ SumOf(n, H) = Cardinality(Joined(F, H))
         /\ \A g \in G : n[g] \in Nat
<1>1. /\ IsFiniteSet(H) /\ \A x \in H : IsFiniteSet(F[x])
      /\ \A x \in H : \A y \in H : x # y => F[x] \cap F[y] = {}
      /\ \A x \in H : n[x] = Cardinality(F[x])
  BY FS_Subset DEF Counting
<1>2. \A g \in G : n[g] \in Nat
  BY FS_CardinalityType DEF Counting
<1> QED BY <1>1, <1>2, DisjointSets

\* Counting the parts is counting the whole.
LEMMA PartsCounted ==
  ASSUME NEW F, NEW n, NEW G, Counting(F, n, G), NEW X, IsFiniteSet(X), NEW P,
         \A x \in X : P[x] \in SUBSET G,
         \A x \in X : \A y \in X : x # y => P[x] \cap P[y] = {},
         NEW m, \A x \in X : m[x] = Cardinality(Joined(F, P[x]))
  PROVE  SumOf(m, X) = SumOf(n, Joined(P, X))
<1> DEFINE D == [x \in X |-> Joined(F, P[x])]
<1>1. \A x \in X : D[x] = Joined(F, P[x])
  OBVIOUS
<1>2. Joined(D, X) = Joined(F, Joined(P, X))
  BY DEF Joined
<1> HIDE DEF D
<1>3. \A x \in X : IsFiniteSet(D[x])
  BY <1>1, CountingIs
<1>4. \A x \in X : \A y \in X : x # y => D[x] \cap D[y] = {}
  <2> SUFFICES ASSUME NEW x \in X, NEW y \in X, x # y, NEW a \in D[x], a \in D[y] PROVE FALSE
    OBVIOUS
  <2>1. PICK g \in P[x] : a \in F[g]
    BY <1>1 DEF Joined
  <2>2. PICK h \in P[y] : a \in F[h]
    BY <1>1 DEF Joined
  <2>3. g \in G /\ h \in G /\ g # h
    BY <2>1, <2>2
  <2> QED BY <2>1, <2>2, <2>3 DEF Counting
<1>5. \A x \in X : m[x] = Cardinality(D[x])
  BY <1>1
<1>6. SumOf(m, X) = Cardinality(Joined(D, X))
  BY <1>3, <1>4, <1>5, DisjointSets
<1>7. Joined(P, X) \in SUBSET G
  BY DEF Joined
<1>8. SumOf(n, Joined(P, X)) = Cardinality(Joined(F, Joined(P, X)))
  BY <1>7, CountingIs
<1> QED BY <1>2, <1>6, <1>8

\* m counts what every shard copies to every other; gone and got, what a shard copies
\* to each of the others and what each of them copies to it.
Matrix(F, m) ==
  \A a, b \in Shards : m[<<a, b>>] = Cardinality(Joined(F, Grid(ExpertsOf(a), {b})))
Margins(m, s, gone, got) ==
  \A d \in Shards \ {s} : gone[d] = m[<<s, d>>] /\ got[d] = m[<<d, s>>]

\* The margins are what the runs amount to.
LEMMA OthersCounted ==
  ASSUME NEW F, NEW n, Counting(F, n, Grid(Experts, Shards)), NEW s \in Shards, NEW m,
         Matrix(F, m), NEW gone, NEW got, Margins(m, s, gone, got)
  PROVE  /\ SumOf(gone, Shards \ {s}) = SumOf(n, Grid(ExpertsOf(s), Shards \ {s}))
         /\ SumOf(got, Shards \ {s}) = SumOf(n, Grid(Experts \ ExpertsOf(s), {s}))
         /\ m[<<s, s>>] = SumOf(n, Grid(ExpertsOf(s), {s}))
<1> DEFINE X == Shards \ {s}
           P == [d \in X |-> Grid(ExpertsOf(s), {d})]
           Q == [d \in X |-> Grid(ExpertsOf(d), {s})]
<1>1. IsFiniteSet(X) /\ X \subseteq Shards
  BY ExpertFacts, FS_Subset
<1>2. /\ \A e \in Experts : ShardOf(e) \in Shards /\ e \in ExpertsOf(ShardOf(e))
      /\ \A d \in Shards : \A e \in ExpertsOf(d) : e \in Experts /\ ShardOf(e) = d
  BY ExpertFacts
<1>3. \A E \in SUBSET Experts, D \in SUBSET Shards : Grid(E, D) \in SUBSET Grid(Experts, Shards)
  BY DEF Grid
<1>4. \A d \in Shards : ExpertsOf(d) \in SUBSET Experts
  BY <1>2
<1>5. SumOf(gone, X) = SumOf(n, Joined(P, X))
  <2>1. \A d \in X : P[d] = Grid(ExpertsOf(s), {d})
    OBVIOUS
  <2>2. \A d \in X : gone[d] = Cardinality(Joined(F, P[d]))
    <3> SUFFICES ASSUME NEW d \in X PROVE gone[d] = Cardinality(Joined(F, P[d]))
      OBVIOUS
    <3>1. d \in Shards /\ gone[d] = m[<<s, d>>]
      BY DEF Margins
    <3>2. m[<<s, d>>] = Cardinality(Joined(F, Grid(ExpertsOf(s), {d})))
      BY <3>1 DEF Matrix
    <3> HIDE DEF P, X
    <3> QED BY <2>1, <3>1, <3>2
  <2>3. \A d \in X : P[d] \in SUBSET Grid(Experts, Shards)
    <3> SUFFICES ASSUME NEW d \in X PROVE P[d] \in SUBSET Grid(Experts, Shards)
      OBVIOUS
    <3>1. {d} \in SUBSET Shards /\ ExpertsOf(s) \in SUBSET Experts
      BY <1>4
    <3> QED BY <1>3, <2>1, <3>1
  <2>4. \A d \in X : \A c \in X : d # c => P[d] \cap P[c] = {}
    BY DEF Grid
  <2> HIDE DEF P, X
  <2> QED BY <1>1, <2>2, <2>3, <2>4, PartsCounted
<1>6. SumOf(got, X) = SumOf(n, Joined(Q, X))
  <2>1. \A d \in X : Q[d] = Grid(ExpertsOf(d), {s})
    OBVIOUS
  <2>2. \A d \in X : got[d] = Cardinality(Joined(F, Q[d]))
    <3> SUFFICES ASSUME NEW d \in X PROVE got[d] = Cardinality(Joined(F, Q[d]))
      OBVIOUS
    <3>1. d \in Shards /\ got[d] = m[<<d, s>>]
      BY DEF Margins
    <3>2. m[<<d, s>>] = Cardinality(Joined(F, Grid(ExpertsOf(d), {s})))
      BY <3>1 DEF Matrix
    <3> HIDE DEF Q, X
    <3> QED BY <2>1, <3>1, <3>2
  <2>3. \A d \in X : Q[d] \in SUBSET Grid(Experts, Shards)
    <3> SUFFICES ASSUME NEW d \in X PROVE Q[d] \in SUBSET Grid(Experts, Shards)
      OBVIOUS
    <3>1. {s} \in SUBSET Shards /\ ExpertsOf(d) \in SUBSET Experts
      BY <1>4
    <3> QED BY <1>3, <2>1, <3>1
  <2>4. \A d \in X : \A c \in X : d # c => Q[d] \cap Q[c] = {}
    BY <1>2 DEF Grid
  <2> HIDE DEF Q, X
  <2> QED BY <1>1, <2>2, <2>3, <2>4, PartsCounted
<1>7. Joined(P, X) = Grid(ExpertsOf(s), X)
  BY DEF Joined, Grid
<1>8. Joined(Q, X) = Grid(Experts \ ExpertsOf(s), {s})
  <2>1. ASSUME NEW g \in Joined(Q, X)
        PROVE  g \in Grid(Experts \ ExpertsOf(s), {s})
    <3>1. PICK d \in X : g \in Grid(ExpertsOf(d), {s})
      BY <2>1 DEF Joined
    <3> QED BY <1>2, <3>1 DEF Grid
  <2>2. ASSUME NEW g \in Grid(Experts \ ExpertsOf(s), {s})
        PROVE  g \in Joined(Q, X)
    <3>1. PICK e \in Experts \ ExpertsOf(s) : g = <<e, s>>
      BY <2>2 DEF Grid
    <3>2. ShardOf(e) \in X /\ g \in Grid(ExpertsOf(ShardOf(e)), {s})
      BY <1>2, <3>1 DEF Grid
    <3> QED BY <3>2 DEF Joined
  <2> QED BY <2>1, <2>2
<1>9. m[<<s, s>>] = SumOf(n, Grid(ExpertsOf(s), {s}))
  <2>1. m[<<s, s>>] = Cardinality(Joined(F, Grid(ExpertsOf(s), {s})))
    BY DEF Matrix
  <2>2. Grid(ExpertsOf(s), {s}) \in SUBSET Grid(Experts, Shards)
    BY <1>3, <1>4
  <2> QED BY <2>1, <2>2, CountingIs
<1> QED BY <1>5, <1>6, <1>7, <1>8, <1>9

\* The copies of every run, and their number.
RowsOf == [g \in Experts \X Shards |-> RunCopies(ShardOf(g[1]), g[1], g[2])]
RowCounts == [g \in Experts \X Shards |-> RowsTo(g[1], g[2])]
SublanesOf == [g \in Experts \X Shards |-> RunSublanes(ShardOf(g[1]), g[1], g[2])]
SublaneCounts == [g \in Experts \X Shards |-> TilesTo(g[1], g[2])]

LEMMA RowsCounted ==
  ASSUME Planned
  PROVE  Counting(RowsOf, RowCounts, Grid(Experts, Shards))
<1>1. IsFiniteSet(Grid(Experts, Shards))
  BY ExpertFacts, FS_Product DEF Grid
<1>2. ASSUME NEW e \in Experts, NEW d \in Shards
      PROVE  LET g == <<e, d>> IN
             IsFiniteSet(RowsOf[g]) /\ RowCounts[g] = Cardinality(RowsOf[g])
  <2> DEFINE n == RowsTo(e, d)
             f == [x \in 0..n - 1 |-> RowCopy(ShardOf(e), e, d, x)]
  <2>1. n \in Nat
    BY ExpertFacts, LengthsAre DEF RowsTo
  <2>2. RowsOf[<<e, d>>] = Image(f, n) /\ RowCounts[<<e, d>>] = n
    <3>1. RowsOf[<<e, d>>] = RunCopies(ShardOf(e), e, d) /\ RowCounts[<<e, d>>] = n
      BY DEF RowsOf, RowCounts
    <3> QED BY <3>1 DEF RunCopies, RowsTo, Image
  <2>3. \A x \in 0..n - 1 : f[x].at = RowAt(e, d, x)
    BY RowsLand
  <2>4. \A x, y \in 0..n - 1 : f[x] = f[y] => x = y
    BY <2>3, RowsApart
  <2> HIDE DEF f, n
  <2>5. IsFiniteSet(Image(f, n)) /\ Cardinality(Image(f, n)) = n
    BY ONLY <2>1, <2>4, ImageCount
  <2> QED BY <2>2, <2>5
<1>3. ASSUME NEW e \in Experts, NEW d \in Shards, NEW c \in RowsOf[<<e, d>>]
      PROVE  c.to = d /\ \E x \in 0..RowsTo(e, d) - 1 : c.at = RowAt(e, d, x)
  <2>1. c \in RunCopies(ShardOf(e), e, d)
    BY <1>3 DEF RowsOf
  <2>2. PICK x \in 0..RowsTo(e, d) - 1 : c = RowCopy(ShardOf(e), e, d, x)
    BY <2>1 DEF RunCopies, RowsTo
  <2> QED BY <2>2, RowsLand
<1>4. ASSUME NEW e \in Experts, NEW d \in Shards, NEW f \in Experts, NEW b \in Shards,
             NEW c \in RowsOf[<<e, d>>], c \in RowsOf[<<f, b>>]
      PROVE  e = f /\ d = b
  BY <1>3, <1>4, RowsApart
<1>5. \A g, h \in Grid(Experts, Shards) : g # h => RowsOf[g] \cap RowsOf[h] = {}
  <2> SUFFICES ASSUME NEW e \in Experts, NEW d \in Shards, NEW f \in Experts, NEW b \in Shards,
                      NEW c \in RowsOf[<<e, d>>], c \in RowsOf[<<f, b>>]
               PROVE  <<e, d>> = <<f, b>>
    BY DEF Grid
  <2> QED BY <1>4
<1>6. \A g \in Grid(Experts, Shards) : IsFiniteSet(RowsOf[g]) /\ RowCounts[g] = Cardinality(RowsOf[g])
  BY <1>2 DEF Grid
<1> QED BY <1>1, <1>5, <1>6 DEF Counting

LEMMA SublanesCounted ==
  ASSUME Computed
  PROVE  Counting(SublanesOf, SublaneCounts, Grid(Experts, Shards))
<1>1. IsFiniteSet(Grid(Experts, Shards))
  BY ExpertFacts, FS_Product DEF Grid
<1>2. ASSUME NEW e \in Experts, NEW d \in Shards
      PROVE  RunSublanes(ShardOf(e), e, d) =
               {SublaneCopy(ShardOf(e), e, d, First(ShardOf(e), e, d) + j) : j \in 0..TilesTo(e, d) - 1}
  BY ExpertFacts, PlannedIs DEF RunSublanes, TilesTo, Computed
<1>3. ASSUME NEW e \in Experts, NEW d \in Shards
      PROVE  LET g == <<e, d>> IN
             IsFiniteSet(SublanesOf[g]) /\ SublaneCounts[g] = Cardinality(SublanesOf[g])
  <2> DEFINE n == TilesTo(e, d)
             f == [j \in 0..n - 1 |-> SublaneCopy(ShardOf(e), e, d, First(ShardOf(e), e, d) + j)]
  <2>1. n \in Nat
    <3>1. /\ Runs(ShardOf(e)).run_tiles[e][d] \in Nat
          /\ Runs(ShardOf(e)) = TablesFor(routing)
      BY ExpertFacts, RunTilesAre, PlannedIs DEF Computed
    <3> QED BY <3>1 DEF TilesTo
  <2>2. SublanesOf[<<e, d>>] = Image(f, n) /\ SublaneCounts[<<e, d>>] = n
    <3>1. SublanesOf[<<e, d>>] = RunSublanes(ShardOf(e), e, d) /\ SublaneCounts[<<e, d>>] = n
      BY DEF SublanesOf, SublaneCounts
    <3> QED BY <1>2, <3>1 DEF Image
  <2>3. \A j \in 0..n - 1 : f[j].at = SublaneAt(e, d, j)
    BY SublanesLand
  <2>4. \A x, y \in 0..n - 1 : f[x] = f[y] => x = y
    BY <2>3, SublanesApart
  <2> HIDE DEF f, n
  <2>5. IsFiniteSet(Image(f, n)) /\ Cardinality(Image(f, n)) = n
    BY ONLY <2>1, <2>4, ImageCount
  <2> QED BY <2>2, <2>5
<1>4. ASSUME NEW e \in Experts, NEW d \in Shards, NEW c \in SublanesOf[<<e, d>>]
      PROVE  c.to = d /\ \E j \in 0..TilesTo(e, d) - 1 : c.at = SublaneAt(e, d, j)
  <2>1. c \in RunSublanes(ShardOf(e), e, d)
    BY <1>4 DEF SublanesOf
  <2>2. PICK j \in 0..TilesTo(e, d) - 1 :
          c = SublaneCopy(ShardOf(e), e, d, First(ShardOf(e), e, d) + j)
    BY <1>2, <2>1
  <2> QED BY <2>2, SublanesLand
<1>5. ASSUME NEW e \in Experts, NEW d \in Shards, NEW f \in Experts, NEW b \in Shards,
             NEW c \in SublanesOf[<<e, d>>], c \in SublanesOf[<<f, b>>]
      PROVE  e = f /\ d = b
  BY <1>4, <1>5, SublanesApart
<1>6. \A g, h \in Grid(Experts, Shards) : g # h => SublanesOf[g] \cap SublanesOf[h] = {}
  <2> SUFFICES ASSUME NEW e \in Experts, NEW d \in Shards, NEW f \in Experts, NEW b \in Shards,
                      NEW c \in SublanesOf[<<e, d>>], c \in SublanesOf[<<f, b>>]
               PROVE  <<e, d>> = <<f, b>>
    BY DEF Grid
  <2> QED BY <1>5
<1>7. \A g \in Grid(Experts, Shards) :
        IsFiniteSet(SublanesOf[g]) /\ SublaneCounts[g] = Cardinality(SublanesOf[g])
  BY <1>3 DEF Grid
<1> QED BY <1>1, <1>6, <1>7 DEF Counting

\* What one shard ships to another is the runs of its experts to it.
LEMMA ShippedTo ==
  ASSUME Computed, NEW a \in Shards, NEW b \in Shards
  PROVE  /\ {c \in ShippedRows(a) : c.to = b} = Joined(RowsOf, Grid(ExpertsOf(a), {b}))
         /\ {c \in ShippedSublanes(a) : c.to = b} = Joined(SublanesOf, Grid(ExpertsOf(a), {b}))
<1>1. \A e \in ExpertsOf(a) : e \in Experts /\ ShardOf(e) = a
  BY ExpertFacts
<1>2. \A e \in ExpertsOf(a), d \in Shards :
        /\ RowsOf[<<e, d>>] = RunCopies(a, e, d) /\ SublanesOf[<<e, d>>] = RunSublanes(a, e, d)
  BY <1>1 DEF RowsOf, SublanesOf
<1>3. /\ \A e, d : \A c \in RunCopies(a, e, d) : c.to = d
      /\ \A e, d : \A c \in RunSublanes(a, e, d) : c.to = d
  BY DEF RunCopies, RowCopy, RunSublanes, SublaneCopy, Copy
<1>4. ASSUME NEW c
      PROVE  (c \in ShippedRows(a) /\ c.to = b) <=> \E e \in ExpertsOf(a) : c \in RowsOf[<<e, b>>]
  <2>1. c \in ShippedRows(a) <=> \E e \in ExpertsOf(a), d \in Shards : c \in RunCopies(a, e, d)
    BY ShippedAre
  <2>2. ASSUME NEW e \in ExpertsOf(a), NEW d \in Shards, c \in RunCopies(a, e, d), c.to = b
        PROVE  c \in RowsOf[<<e, b>>]
    BY <1>2, <1>3, <2>2
  <2>3. ASSUME NEW e \in ExpertsOf(a), c \in RowsOf[<<e, b>>]
        PROVE  c \in RunCopies(a, e, b) /\ c.to = b
    BY <1>2, <1>3, <2>3
  <2> QED BY ONLY <2>1, <2>2, <2>3, b \in Shards
<1>5. ASSUME NEW c
      PROVE  (c \in ShippedSublanes(a) /\ c.to = b) <=>
               \E e \in ExpertsOf(a) : c \in SublanesOf[<<e, b>>]
  <2>1. c \in ShippedSublanes(a) <=>
          \E e \in ExpertsOf(a), d \in Shards : c \in RunSublanes(a, e, d)
    BY ShippedSublanesAre
  <2>2. ASSUME NEW e \in ExpertsOf(a), NEW d \in Shards, c \in RunSublanes(a, e, d), c.to = b
        PROVE  c \in SublanesOf[<<e, b>>]
    BY <1>2, <1>3, <2>2
  <2>3. ASSUME NEW e \in ExpertsOf(a), c \in SublanesOf[<<e, b>>]
        PROVE  c \in RunSublanes(a, e, b) /\ c.to = b
    BY <1>2, <1>3, <2>3
  <2> QED BY ONLY <2>1, <2>2, <2>3, b \in Shards
<1>6. ASSUME NEW F, NEW c
      PROVE  c \in Joined(F, Grid(ExpertsOf(a), {b})) <=> \E e \in ExpertsOf(a) : c \in F[<<e, b>>]
  <2>1. c \in Joined(F, Grid(ExpertsOf(a), {b})) <=> \E g \in Grid(ExpertsOf(a), {b}) : c \in F[g]
    BY DEF Joined
  <2>2. ASSUME NEW g \in Grid(ExpertsOf(a), {b})
        PROVE  \E e \in ExpertsOf(a) : g = <<e, b>>
    BY DEF Grid
  <2>3. ASSUME NEW e \in ExpertsOf(a)
        PROVE  <<e, b>> \in Grid(ExpertsOf(a), {b})
    BY DEF Grid
  <2> QED BY ONLY <2>1, <2>2, <2>3
<1> QED BY <1>4, <1>5, <1>6

\* The counts of a shard are sums over runs.
LEMMA CountsAre ==
  ASSUME Planned, NEW s \in Shards
  PROVE  LET count == Counts(Runs(s), s)
             mine == ExpertsOf(s)
             others == Shards \ {s} IN
         /\ count.send = SumOf(RowCounts, Grid(mine, others))
         /\ count.recv = SumOf(RowCounts, Grid(Experts \ mine, {s}))
         /\ count.self = SumOf(RowCounts, Grid(mine, {s}))
         /\ count.send_mirror = SumOf(SublaneCounts, Grid(mine, others))
         /\ count.recv_mirror = SumOf(SublaneCounts, Grid(Experts \ mine, {s}))
         /\ count.self_mirror = SumOf(SublaneCounts, Grid(mine, {s}))
<1> DEFINE t == TablesFor(routing)
           mine == ExpertsOf(s)
           others == Shards \ {s}
<1>1. Runs(s) = t
  BY PlannedIs
<1>2. \A e \in Experts, d \in Shards :
        t.run_rows[e][d] \in Nat /\ t.aligned[e][d] \in Nat /\ t.run_tiles[e][d] \in Nat
  <2>1. \A e \in Experts : \A d \in Shards :
          t.run_rows[e][d] \in Nat /\ t.aligned[e][d] \in Nat /\ t.run_tiles[e][d] \in Nat
    BY TablesAre DEF TablesFor
  <2> QED BY <2>1
<1>3. /\ \A e \in Experts : ShardOf(e) \in Shards /\ e \in ExpertsOf(ShardOf(e))
      /\ \A e \in mine : e \in Experts /\ ShardOf(e) = s
      /\ IsFiniteSet(mine) /\ mine \in SUBSET Experts
  BY ExpertFacts
<1>4. ASSUME NEW e \in Experts, NEW d \in Shards
      PROVE  /\ RowCounts[<<e, d>>] = IF d = ShardOf(e) THEN t.aligned[e][d] ELSE t.run_rows[e][d]
             /\ SublaneCounts[<<e, d>>] = t.run_tiles[e][d]
  <2>1. Runs(ShardOf(e)) = t
    BY <1>3, PlannedIs
  <2> QED BY <2>1 DEF RowCounts, SublaneCounts, RowsTo, TilesTo, PushedLength
<1>5. IsFiniteSet(others) /\ IsFiniteSet({s})
  BY ExpertFacts, FS_Subset, FS_Singleton
<1>6. SumRuns(t.run_rows, mine, others) = SumOf(RowCounts, Grid(mine, others))
  <2>1. ASSUME NEW e \in mine, NEW d \in others
        PROVE  RowCounts[<<e, d>>] = t.run_rows[e][d] /\ t.run_rows[e][d] \in Nat
    <3>1. e \in Experts /\ d \in Shards /\ d # ShardOf(e)
      BY <1>3
    <3> HIDE DEF mine, others, t
    <3> QED BY <1>2, <1>4, <3>1
  <2> HIDE DEF mine, others, t
  <2> QED BY <1>3, <1>5, <2>1, SumPairs DEF Grid
<1>7. SumRuns(t.aligned, mine, {s}) = SumOf(RowCounts, Grid(mine, {s}))
  <2>1. \A e \in mine : \A d \in {s} :
          RowCounts[<<e, d>>] = t.aligned[e][d] /\ t.aligned[e][d] \in Nat
    BY <1>2, <1>3, <1>4
  <2> HIDE DEF mine, t
  <2> QED BY <1>3, <1>5, <2>1, SumPairs DEF Grid
<1>8. /\ SumRuns(t.run_tiles, mine, others) = SumOf(SublaneCounts, Grid(mine, others))
      /\ SumRuns(t.run_tiles, mine, {s}) = SumOf(SublaneCounts, Grid(mine, {s}))
  <2>1. \A e \in mine : \A d \in Shards :
          SublaneCounts[<<e, d>>] = t.run_tiles[e][d] /\ t.run_tiles[e][d] \in Nat
    BY <1>2, <1>3, <1>4
  <2>2. others \subseteq Shards /\ {s} \subseteq Shards
    OBVIOUS
  <2> HIDE DEF mine, others, t
  <2>3. SumRuns(t.run_tiles, mine, others) = SumOf(SublaneCounts, Grid(mine, others))
    BY <1>3, <1>5, <2>1, <2>2, SumPairs DEF Grid
  <2>4. SumRuns(t.run_tiles, mine, {s}) = SumOf(SublaneCounts, Grid(mine, {s}))
    BY <1>3, <1>5, <2>1, <2>2, SumPairs DEF Grid
  <2> QED BY <2>3, <2>4
<1>9. SumRuns(t.run_rows, Experts, {s}) - SumRuns(t.run_rows, mine, {s})
        = SumOf(RowCounts, Grid(Experts \ mine, {s}))
  <2>1. \A e \in Experts \ ExpertsOf(s) : RowCounts[<<e, s>>] = t.run_rows[e][s]
    BY <1>3, <1>4
  <2>2. \A e \in Experts, d \in Shards : t.run_rows[e][d] \in Nat
    BY <1>2
  <2> HIDE DEF t
  <2> QED BY <2>1, <2>2, OtherRuns DEF Grid
<1>10. SumRuns(t.run_tiles, Experts, {s}) - SumRuns(t.run_tiles, mine, {s})
         = SumOf(SublaneCounts, Grid(Experts \ mine, {s}))
  <2>1. \A e \in Experts \ ExpertsOf(s) : SublaneCounts[<<e, s>>] = t.run_tiles[e][s]
    BY <1>4
  <2>2. \A e \in Experts, d \in Shards : t.run_tiles[e][d] \in Nat
    BY <1>2
  <2> HIDE DEF t
  <2> QED BY <2>1, <2>2, OtherRuns DEF Grid
<1> DEFINE count == Counts(t, s)
<1>11. /\ count.send = SumRuns(t.run_rows, mine, others)
       /\ count.recv = SumRuns(t.run_rows, Experts, {s}) - SumRuns(t.run_rows, mine, {s})
       /\ count.send_mirror = SumRuns(t.run_tiles, mine, others)
       /\ count.recv_mirror = SumRuns(t.run_tiles, Experts, {s}) - SumRuns(t.run_tiles, mine, {s})
       /\ count.self = SumRuns(t.aligned, mine, {s})
       /\ count.self_mirror = SumRuns(t.run_tiles, mine, {s})
  BY DEF Counts
<1> HIDE DEF count, t
<1> QED BY <1>1, <1>6, <1>7, <1>8, <1>9, <1>10, <1>11 DEF count

\* The final waits of the kernel balance, for every routing and every size of the
\* layer: a shard waits to receive exactly the rows and sublanes that the others
\* copy to it, and waits to have sent exactly those that it copies (kernel.py,
\* drain_transport; host.py, shard_count_vector).
THEOREM CountsBalanced == CallSpec => []CountsBalance
<1>1. CallInv => CountsBalance
  <2> SUFFICES ASSUME CallInv, stage = "computed" PROVE CountsBalance
    BY DEF CountsBalance
  <2> DEFINE rows(a, b) == Cardinality({c \in ShippedRows(a) : c.to = b})
             subs(a, b) == Cardinality({c \in ShippedSublanes(a) : c.to = b})
             mr == [g \in Shards \X Shards |-> rows(g[1], g[2])]
             ms == [g \in Shards \X Shards |-> subs(g[1], g[2])]
  <2>1. Computed /\ Planned
    BY ComputedIs DEF Late, Computed
  <2>2. \A a, b \in Shards :
          /\ mr[<<a, b>>] = rows(a, b) /\ ms[<<a, b>>] = subs(a, b)
          /\ rows(a, b) = Cardinality(Joined(RowsOf, Grid(ExpertsOf(a), {b})))
          /\ subs(a, b) = Cardinality(Joined(SublanesOf, Grid(ExpertsOf(a), {b})))
    BY <2>1, ShippedTo
  <2>3. /\ Counting(RowsOf, RowCounts, Grid(Experts, Shards))
        /\ Counting(SublanesOf, SublaneCounts, Grid(Experts, Shards))
    BY <2>1, RowsCounted, SublanesCounted
  <2> HIDE DEF rows, subs, mr, ms
  <2>4. ASSUME NEW s \in Shards
        PROVE  LET count == Counts(Runs(s), s)
                   others == Shards \ {s} IN
               /\ count.send = SumOf([d \in others |-> rows(s, d)], others)
               /\ count.recv = SumOf([d \in others |-> rows(d, s)], others)
               /\ count.send_mirror = SumOf([d \in others |-> subs(s, d)], others)
               /\ count.recv_mirror = SumOf([d \in others |-> subs(d, s)], others)
               /\ count.self = rows(s, s) /\ count.self_mirror = subs(s, s)
    <3> DEFINE others == Shards \ {s}
               a == [d \in others |-> rows(s, d)]
               b == [d \in others |-> rows(d, s)]
               c == [d \in others |-> subs(s, d)]
               e == [d \in others |-> subs(d, s)]
    <3>1. Margins(mr, s, a, b) /\ Margins(ms, s, c, e)
      BY <2>2 DEF Margins
    <3>2. Matrix(RowsOf, mr) /\ Matrix(SublanesOf, ms)
      BY <2>2 DEF Matrix
    <3> HIDE DEF a, b, c, e
    <3>3. /\ SumOf(a, Shards \ {s}) = SumOf(RowCounts, Grid(ExpertsOf(s), Shards \ {s}))
          /\ SumOf(b, Shards \ {s}) = SumOf(RowCounts, Grid(Experts \ ExpertsOf(s), {s}))
          /\ mr[<<s, s>>] = SumOf(RowCounts, Grid(ExpertsOf(s), {s}))
      BY ONLY s \in Shards, <2>3, <3>1, <3>2, OthersCounted
    <3>4. /\ SumOf(c, Shards \ {s}) = SumOf(SublaneCounts, Grid(ExpertsOf(s), Shards \ {s}))
          /\ SumOf(e, Shards \ {s}) = SumOf(SublaneCounts, Grid(Experts \ ExpertsOf(s), {s}))
          /\ ms[<<s, s>>] = SumOf(SublaneCounts, Grid(ExpertsOf(s), {s}))
      BY ONLY s \in Shards, <2>3, <3>1, <3>2, OthersCounted
    <3>5. mr[<<s, s>>] = rows(s, s) /\ ms[<<s, s>>] = subs(s, s)
      BY <2>2
    <3> QED BY <2>1, <3>3, <3>4, <3>5, CountsAre DEF a, b, c, e
  <2> QED BY <2>4 DEF CountsBalance, rows, subs
<1> QED BY <1>1, CallInductive, PTL
=============================================================================

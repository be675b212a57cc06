------------------------ MODULE PagedAttentionProofs ------------------------
(***************************************************************************)
(* Proofs about PagedAttention: what a step waits for is what it copies,    *)
(* and the cached tokens keep their places.                                 *)
(*                                                                          *)
(* The schedule kernel sums up what the lanes of a step will copy (StepOK)  *)
(* when it flushes SMEM; WaitInv follows these sums through HBM, chunk by   *)
(* chunk, to the waits of the pipeline.  There KindInv says what every      *)
(* semaphore holds: the part of such a sum that has landed, for the one     *)
(* outstanding step of its slot.                                            *)
(*                                                                          *)
(* A step that writes new tokens back may write whole pages, and with them  *)
(* cached tokens.  CacheInv says that the buffer of such a step has those   *)
(* (Merges) from the time its copies have landed until it has retired: the  *)
(* fetch brings them, the stitch leaves them where they are, and no other   *)
(* step has the slot.                                                       *)
(***************************************************************************)
EXTENDS PagedAttention, FiniteSums, TLAPS

\* A rank of a group that attends to the new tokens updates the cache.  One that
\* does not is that of MCPagedGroupShared.cfg, where cached tokens are lost:
\* schedule_cp.py has not the branch of schedule.py:589-592 for it.
Updates(args) ==
  Sharded(args) /\ args.scope = "NEW_TOKENS_ONLY" => ~args.skip_kv_update

\* The schedule counts the pages of a key block as whole (kv_p_start); along
\* lanes validate_inputs sees to it, along sublanes nothing does.
InWholePages(args) == args.decode.bkv % args.page = 0 /\ args.prefill.bkv % args.page = 0

GroupsUpdate == \A args \in Calls : Updates(args)
WholeKeyBlocks == \A args \in Calls : InWholePages(args)

\* The configuration of a launch.
IsConfig(k) ==
  /\ IsCall(k)
  /\ {"mode", "bkv", "bq", "batch"} \subseteq DOMAIN k
  /\ k.bkv \in Positive /\ k.bq \in Positive /\ k.batch \in Positive

LEMMA ConfigIs ==
  ASSUME NEW k, IsCall(k), NEW l \in 1..3
  PROVE  IsConfig(Config(k, l))
<1> DEFINE sizes == IF l = 1 THEN k.decode ELSE k.prefill
           d == Config(k, l)
<1>1. sizes \in BlockSizes
  BY DEF IsCall
<1>2. /\ DOMAIN sizes = {"bkv", "bq", "batch"}
      /\ sizes.bkv \in Positive /\ sizes.bq \in Positive /\ sizes.batch \in Positive
  BY <1>1 DEF BlockSizes
<1>3. DOMAIN d = {"mode", "bkv", "bq", "batch"} \cup DOMAIN k
  BY <1>2 DEF Config
<1>4. d.bkv = sizes.bkv /\ d.bq = sizes.bq /\ d.batch = sizes.batch
  BY <1>2, <1>3 DEF Config
<1>5. \A f \in DOMAIN k \ {"mode", "bkv", "bq", "batch"} : d[f] = k[f]
  BY <1>2, <1>3 DEF Config
<1> HIDE DEF sizes
<1>6. IsCall(d)
  <2>1. /\ d.page = k.page /\ d.decode_query_size = k.decode_query_size
        /\ d.window = k.window /\ d.cp_group_size = k.cp_group_size /\ d.cp_rank = k.cp_rank
        /\ d.decode = k.decode /\ d.prefill = k.prefill
        /\ d.kv_lens = k.kv_lens /\ d.cu_q_lens = k.cu_q_lens /\ d.distribution = k.distribution
    BY <1>5 DEF IsCall
  <2> HIDE DEF d
  <2> QED BY <1>3, <2>1 DEF IsCall, NumSeqs
<1> HIDE DEF d
<1> QED BY <1>2, <1>3, <1>4, <1>6 DEF IsConfig, Config, d, sizes

-----------------------------------------------------------------------------
\* Arithmetic.

\* The smaller and the larger of two numbers.
LEMMA MinMaxIs ==
  ASSUME NEW a \in Int, NEW b \in Int
  PROVE  /\ Min({a, b}) = IF a =< b THEN a ELSE b
         /\ Max({a, b}) = IF a =< b THEN b ELSE a
<1> DEFINE low == IF a =< b THEN a ELSE b
           high == IF a =< b THEN b ELSE a
<1>1. low \in {a, b} /\ (\A y \in {a, b} : low =< y) /\ high \in {a, b} /\ (\A y \in {a, b} : high >= y)
  OBVIOUS
<1>2. \A x \in {a, b} : (\A y \in {a, b} : x =< y) => x = low
  OBVIOUS
<1>3. \A x \in {a, b} : (\A y \in {a, b} : x >= y) => x = high
  OBVIOUS
<1> HIDE DEF low, high
<1>4. Min({a, b}) = low
  BY <1>1, <1>2 DEF Min
<1>5. Max({a, b}) = high
  BY <1>1, <1>3 DEF Max
<1> QED BY <1>4, <1>5 DEF low, high

LEMMA MinMaxInts ==
  ASSUME NEW a \in Int, NEW b \in Int
  PROVE  Min({a, b}) \in Int /\ Max({a, b}) \in Int
<1>1. Min({a, b}) = (IF a =< b THEN a ELSE b) /\ Max({a, b}) = (IF a =< b THEN b ELSE a)
  BY MinMaxIs
<1> QED BY <1>1

LEMMA ClipIs ==
  ASSUME NEW x \in Int, NEW high \in Nat
  PROVE  Clip(x, 0, high) \in 0..high
<1> DEFINE y == Min({x, high})
<1>1. y = IF x =< high THEN x ELSE high
  BY MinMaxIs
<1> HIDE DEF y
<1>2. Max({0, y}) = IF 0 =< y THEN y ELSE 0
  BY <1>1, MinMaxIs
<1> QED BY <1>1, <1>2 DEF Clip, y

LEMMA Multiple ==
  ASSUME NEW m \in Positive, NEW a \in Int, NEW b \in Int, a < b
  PROVE  m * b - m * a >= m
<1>1. m * b = m * a + m * (b - a)
  BY DEF Positive
<1>2. m * (b - a) >= m
  <2>1. b - a \in Nat /\ b - a >= 1
    OBVIOUS
  <2> QED BY <2>1 DEF Positive
<1>3. m * a \in Int /\ m * (b - a) \in Int /\ m \in Int
  BY DEF Positive
<1> QED BY <1>1, <1>2, <1>3

LEMMA Division ==
  ASSUME NEW n \in Int, NEW m \in Positive
  PROVE  /\ n \div m \in Int /\ n % m \in 0..m - 1
         /\ n = m * (n \div m) + (n % m)
BY DEF Positive

LEMMA QuotientIs ==
  ASSUME NEW n \in Nat, NEW m \in Positive
  PROVE  n \div m \in Nat
<1> DEFINE q == n \div m
<1>1. q \in Int /\ n % m \in 0..m - 1 /\ n = m * q + (n % m) /\ m \in Int
  BY Division DEF Positive
<1> HIDE DEF q
<1>2. ~(q < 0)
  <2> SUFFICES ASSUME q < 0 PROVE FALSE
    OBVIOUS
  <2>1. m * 0 - m * q >= m
    BY <1>1, Multiple
  <2>2. m * q \in Int
    BY <1>1
  <2> QED BY <1>1, <2>1, <2>2
<1> QED BY <1>1, <1>2 DEF q

\* What is left when whole multiples are taken off.
LEMMA DivisionIs ==
  ASSUME NEW m \in Positive, NEW q \in Int, NEW r \in 0..m - 1
  PROVE  (m * q + r) \div m = q /\ (m * q + r) % m = r
<1> DEFINE n == m * q + r
           p == n \div m
           s == n % m
<1>1. m \in Int /\ m > 0 /\ m * q \in Int /\ n \in Int
  BY DEF Positive
<1>2. p \in Int /\ s \in 0..m - 1 /\ n = m * p + s
  BY <1>1, Division
<1> HIDE DEF p, s
<1>3. m * p \in Int
  BY <1>1, <1>2
<1>4. ~(p < q)
  <2> SUFFICES ASSUME p < q PROVE FALSE
    OBVIOUS
  <2>1. m * q - m * p >= m
    BY <1>2, Multiple
  <2> QED BY <1>1, <1>2, <1>3, <2>1
<1>5. ~(q < p)
  <2> SUFFICES ASSUME q < p PROVE FALSE
    OBVIOUS
  <2>1. m * p - m * q >= m
    BY <1>2, Multiple
  <2> QED BY <1>1, <1>2, <1>3, <2>1
<1>6. p = q
  BY <1>2, <1>4, <1>5
<1>7. s = r
  BY <1>1, <1>2, <1>3, <1>6
<1> QED BY <1>6, <1>7 DEF p, s

\* Numbers less than m apart have different remainders.
LEMMA SlotsApart ==
  ASSUME NEW m \in Positive, NEW a \in Nat, NEW b \in Nat, a < b, b < a + m
  PROVE  a % m # b % m
<1> SUFFICES ASSUME a % m = b % m PROVE FALSE
  OBVIOUS
<1> DEFINE p == a \div m
           q == b \div m
           r == a % m
<1>1. /\ m \in Int /\ p \in Int /\ q \in Int /\ r \in 0..m - 1
      /\ a = m * p + r /\ b = m * q + r
  BY Division DEF Positive
<1> HIDE DEF p, q, r
<1>2. m * p \in Int /\ m * q \in Int
  BY <1>1
<1>3. p < q
  <2> SUFFICES ASSUME ~(p < q) PROVE FALSE
    OBVIOUS
  <2>1. CASE p = q
    BY <2>1, <1>1, <1>2
  <2>2. CASE q < p
    <3>1. m * p - m * q >= m
      BY <1>1, <2>2, Multiple
    <3> QED BY <3>1, <1>1, <1>2
  <2> QED BY <1>1, <2>1, <2>2
<1>4. m * q - m * p >= m
  BY <1>1, <1>3, Multiple
<1> QED BY <1>1, <1>2, <1>4

\* The quotient rounded up.
LEMMA CeilDivIs ==
  ASSUME NEW n \in Nat, NEW m \in Positive
  PROVE  /\ CeilDiv(n, m) \in Nat
         /\ n =< m * CeilDiv(n, m) /\ m * CeilDiv(n, m) < n + m
         /\ \A b \in Nat : n =< m * b => CeilDiv(n, m) =< b
<1> DEFINE p == (-n) \div m
           r == (-n) % m
           u == CeilDiv(n, m)
<1>1. m \in Int /\ m > 0 /\ p \in Int /\ r \in 0..m - 1 /\ -n = m * p + r
  BY Division DEF Positive
<1> HIDE DEF p, r
<1>2. u = -p /\ u \in Int
  BY <1>1 DEF CeilDiv, p
<1>3. m * u = -(m * p) /\ m * p \in Int /\ m * u \in Int
  BY <1>1, <1>2
<1>4. n =< m * u /\ m * u < n + m
  BY <1>1, <1>3
<1> HIDE DEF u
<1>5. ~(u < 0)
  <2> SUFFICES ASSUME u < 0 PROVE FALSE
    OBVIOUS
  <2>1. m * 0 - m * u >= m
    BY <1>2, Multiple
  <2> QED BY <1>1, <1>3, <1>4, <2>1
<1>6. ASSUME NEW b \in Nat, n =< m * b PROVE u =< b
  <2> SUFFICES ASSUME b < u PROVE FALSE
    BY <1>2
  <2>1. m * u - m * b >= m
    BY <1>2, Multiple
  <2>2. m * b \in Int
    BY <1>1
  <2> QED BY <1>1, <1>3, <1>4, <1>6, <2>1, <2>2
<1> QED BY <1>2, <1>4, <1>5, <1>6 DEF u

-----------------------------------------------------------------------------
\* What the copies of an entry move.

Kinds == In \cup Out

LEMMA KindsAre == Kinds = {"q", "kv", "o", "kv out"} /\ In = {"q", "kv"} /\ Out = {"o", "kv out"}
BY DEF Kinds, In, Out

\* An entry of the schedule whose copies move what can be counted.
Sized(e) == \A kind \in Kinds : Amount(kind, e) \in Nat

LEMMA SizesIs ==
  ASSUME NEW n \in Int, NEW S, S = 0..n - 1, NEW f, \A i \in S : f[i] \in Nat
  PROVE  SumOf(f, S) \in Nat
<1>1. IsFiniteSet(S)
  BY FS_Interval
<1> QED BY <1>1, Sums

LEMMA Lengths ==
  ASSUME NEW d, IsConfig(d), NEW s \in 0..NumSeqs(d) - 1
  PROVE  /\ d.cu_q_lens[s] \in Nat /\ d.cu_q_lens[s + 1] \in Nat
         /\ QLen(d, s) \in Int /\ CacheLen(d, s) \in Int /\ KLen(d, s) \in Int
<1>1. /\ NumSeqs(d) \in Nat /\ d.page \in Nat /\ d.page > 0
      /\ d.cp_group_size \in Nat /\ d.cp_rank \in Nat
      /\ d.kv_lens[s] \in Nat /\ d.cu_q_lens[s] \in Nat /\ d.cu_q_lens[s + 1] \in Nat
  <2> DEFINE n == NumSeqs(d)
  <2>1. /\ n \in Nat /\ d.page \in Nat /\ d.page > 0
        /\ d.cp_group_size \in Nat /\ d.cp_rank \in Nat
        /\ d.kv_lens \in [0..n - 1 -> Nat] /\ d.cu_q_lens \in [0..n -> Nat]
    BY DEF IsConfig, IsCall, Positive
  <2> HIDE DEF n
  <2>2. s \in 0..n - 1
    BY DEF n
  <2>3. s \in 0..n /\ s + 1 \in 0..n
    BY <2>1, <2>2
  <2> QED BY <2>1, <2>2, <2>3 DEF n
<1>2. QLen(d, s) \in Int /\ GlobalCacheLen(d, s) \in Int
  BY <1>1 DEF QLen, GlobalCacheLen
<1>3. LocalLen(d, GlobalCacheLen(d, s)) \in Int
  <2> DEFINE super == NumRanks(d) * d.page
             n == GlobalCacheLen(d, s)
             rest == (n % super) - d.cp_rank * d.page
             part == Min({d.page, rest})
  <2>1. super \in Positive
    <3>1. NumRanks(d) \in Nat /\ NumRanks(d) > 0
      BY <1>1 DEF NumRanks, Sharded
    <3>2. NumRanks(d) * d.page > 0 /\ NumRanks(d) * d.page \in Nat
      BY <1>1, <3>1
    <3> QED BY <3>2 DEF Positive
  <2> HIDE DEF super
  <2>2. n \div super \in Int /\ n % super \in Int
    BY <1>2, <2>1, Division
  <2>3. rest \in Int /\ (n \div super) * d.page \in Int
    BY <1>1, <2>2
  <2> HIDE DEF rest, n
  <2>4. part \in Int
    BY <1>1, <2>3, MinMaxIs
  <2> HIDE DEF part
  <2>5. Max({0, part}) \in Int
    BY <2>4, MinMaxInts
  <2>6. LocalLen(d, n) = (n \div super) * d.page + Max({0, part})
    BY DEF LocalLen, super, rest, part
  <2> QED BY <2>3, <2>5, <2>6 DEF n
<1>4. CacheLen(d, s) \in Int
  BY <1>2, <1>3 DEF CacheLen
<1>5. KLen(d, s) \in Int
  BY <1>2, <1>4 DEF KLen, NewLen
<1> QED BY <1>1, <1>2, <1>4, <1>5

LEMMA BlockPages ==
  ASSUME NEW d, IsConfig(d)
  PROVE  BkvP(d) \in Int /\ BkvPNew(d) \in Int
<1>1. d.page \in Positive /\ d.bkv \in Positive /\ d.decode_query_size \in Positive
  BY DEF IsConfig, IsCall
<1>2. \A x \in Int : CeilDiv(x, d.page) \in Int
  <2>1. ASSUME NEW x \in Int PROVE CeilDiv(x, d.page) \in Int
    <3>1. (-x) \div d.page \in Int
      BY <1>1, Division
    <3> QED BY <3>1 DEF CeilDiv
  <2> QED BY <2>1
<1>3. BkvP(d) \in Int /\ MaxDecodeBkvPNew(d) \in Int
  BY <1>1, <1>2 DEF BkvP, MaxDecodeBkvPNew, Positive
<1>4. Min({MaxDecodeBkvPNew(d), BkvP(d)}) \in Int
  BY <1>3, MinMaxIs
<1> QED BY <1>3, <1>4 DEF BkvPNew

\* What is left of the keys from a block on, by origin.
LEMMA Left ==
  ASSUME NEW d, IsConfig(d), NEW s \in 0..NumSeqs(d) - 1, NEW k \in Int
  PROVE  /\ KvLeftFromCache(d, s, k) \in Int
         /\ BkvFromCache(d, s, k) \in Int /\ NewSize(d, s, k) \in Int
<1>1. d.bkv \in Int /\ k * d.bkv \in Int
  BY DEF IsConfig, Positive
<1>2. KLen(d, s) \in Int /\ CacheLen(d, s) \in Int
  BY Lengths
<1>3. KvLeft(d, s, k) \in Int /\ CacheLen(d, s) - k * d.bkv \in Int
  BY <1>1, <1>2 DEF KvLeft
<1>4. KvLeftFromCache(d, s, k) \in Int
  <2> DEFINE left == CacheLen(d, s) - k * d.bkv
  <2>1. left \in Int
    BY <1>3
  <2> HIDE DEF left
  <2>2. Max({0, left}) = IF 0 =< left THEN left ELSE 0
    BY <2>1, MinMaxIs
  <2>3. KvLeftFromCache(d, s, k) \in {KvLeft(d, s, k), Max({0, left})}
    <3>1. {left, 0} = {0, left}
      OBVIOUS
    <3> QED BY <3>1 DEF KvLeftFromCache, left
  <2> QED BY <1>3, <2>1, <2>2, <2>3
<1>5. KvLeftFromNew(d, s, k) \in Int
  BY <1>3, <1>4 DEF KvLeftFromNew
<1>6. BkvFromCache(d, s, k) \in Int
  BY <1>1, <1>4, MinMaxIs DEF BkvFromCache
<1>7. NewSize(d, s, k) \in Int
  BY <1>1, <1>5, <1>6, MinMaxIs DEF NewSize
<1> QED BY <1>4, <1>6, <1>7

\* A slot's share of the new tokens.
LEMMA SlotSizeIs ==
  ASSUME NEW d, IsConfig(d), NEW cached \in Int, NEW size \in Int, NEW i \in Int
  PROVE  SlotSize(d, cached, size, i) \in Nat
<1>1. d.page \in Int /\ i * d.page \in Int /\ (cached \div d.page) * d.page \in Int
  <2>1. d.page \in Positive
    BY DEF IsConfig, IsCall
  <2>2. cached \div d.page \in Int
    BY <2>1, Division
  <2> QED BY <2>1, <2>2 DEF Positive
<1> DEFINE start == SlotStart(d, cached, i)
           from == SlotFrom(d, cached, i)
           end == Min({start + d.page, cached + size})
<1>2. start \in Int
  BY <1>1 DEF SlotStart, AlignDown
<1> HIDE DEF start
<1>3. from \in Int
  BY <1>2, MinMaxIs DEF SlotFrom, start
<1>4. end \in Int
  <2>1. start + d.page \in Int /\ cached + size \in Int
    BY <1>1, <1>2
  <2> QED BY <2>1, MinMaxIs
<1> HIDE DEF from, end
<1>5. Max({0, end - from}) = IF 0 =< end - from THEN end - from ELSE 0
  BY <1>3, <1>4, MinMaxIs
<1>6. SlotSize(d, cached, size, i) = Max({0, end - from})
  BY DEF SlotSize, end, from, start
<1> QED BY <1>3, <1>4, <1>5, <1>6

LEMMA MovedIs ==
  ASSUME NEW d, IsConfig(d), NEW n \in Nat
  PROVE  Moved(d, n) \in Nat
BY DEF Moved, IsConfig, IsCall, Positive

LEMMA IfOwnedIs ==
  ASSUME NEW d, NEW n \in Nat, NEW k, NEW x
  PROVE  IfOwned(d, k, x, n) \in Nat
BY DEF IfOwned

\* Every copy of an entry moves a number of tokens, and those of a lane
\* without work move none.
LEMMA PiecesSized ==
  ASSUME NEW d, IsConfig(d), NEW s \in 0..NumSeqs(d) - 1, NEW q \in Int, NEW k \in Int,
         NEW e, e = Entry(d, s, q, k)
  PROVE  /\ DOMAIN e.cache = 0..BkvP(d) - 1 /\ DOMAIN e.new = 0..BkvPNew(d) - 1
         /\ \A i \in DOMAIN e.cache : e.cache[i].n \in Nat
         /\ \A i \in DOMAIN e.new : e.new[i].n \in Nat /\ e.new[i].m \in Nat
<1> DEFINE left == KvLeftFromCache(d, s, k)
           cached == BkvFromCache(d, s, k)
           size == NewSize(d, s, k)
           src == d.cu_q_lens[s + 1] - KvLeftFromNew(d, s, k)
<1>1. /\ d.page \in Nat /\ BkvP(d) \in Int /\ BkvPNew(d) \in Int
      /\ left \in Int /\ cached \in Int /\ size \in Int
  BY BlockPages, Left DEF IsConfig, IsCall, Positive
<1>2. e.cache = CachePages(d, s, k, left) /\ e.new = NewSlots(d, s, k, cached, size, src)
  BY DEF Entry
<1> HIDE DEF left, cached, size, src
<1>4. ASSUME NEW i \in 0..BkvP(d) - 1 PROVE e.cache[i].n \in Nat
  <2> DEFINE rest == left - i * d.page
  <2>1. rest \in Int
    BY <1>1
  <2>2. e.cache[i].n \in {Moved(d, Clip(rest, 0, d.page)), 0}
    BY <1>2 DEF CachePages
  <2> HIDE DEF rest
  <2>3. Clip(rest, 0, d.page) \in 0..d.page
    BY <1>1, <2>1, ClipIs
  <2>4. Moved(d, Clip(rest, 0, d.page)) \in Nat
    BY <1>1, <2>3, MovedIs
  <2> QED BY <2>2, <2>4
<1>5. ASSUME NEW i \in 0..BkvPNew(d) - 1 PROVE e.new[i].n \in Nat /\ e.new[i].m \in Nat
  <2>1. SlotSize(d, cached, size, i) \in Nat
    BY <1>1, SlotSizeIs
  <2>2. Moved(d, SlotSize(d, cached, size, i)) \in Nat
    BY <2>1, MovedIs
  <2>3. CASE SeqAlongLane(d)
    <3>1. e.new[i] = LaneSlot(d, s, k, cached, size, src, i)
      BY <1>2, <2>3 DEF NewSlots
    <3>2. e.new[i].m \in Nat
      BY <3>1, <2>2, IfOwnedIs DEF LaneSlot
    <3>3. e.new[i].n \in {d.page, 0}
      BY <3>1 DEF LaneSlot
    <3> QED BY <1>1, <3>2, <3>3
  <2>4. CASE ~SeqAlongLane(d)
    <3>1. e.new[i] = SublaneSlot(d, s, k, cached, size, src, i)
      BY <1>2, <2>4 DEF NewSlots
    <3> QED BY <3>1, <2>1, IfOwnedIs DEF SublaneSlot
  <2> QED BY <2>3, <2>4
<1>6. DOMAIN e.cache = 0..BkvP(d) - 1 /\ DOMAIN e.new = 0..BkvPNew(d) - 1
  BY <1>2 DEF CachePages, NewSlots
<1> QED BY <1>4, <1>5, <1>6

LEMMA EntrySized ==
  ASSUME NEW d, IsConfig(d), NEW s \in 0..NumSeqs(d) - 1, NEW q \in Int, NEW k \in Int
  PROVE  Sized(Entry(d, s, q, k))
<1> DEFINE e == Entry(d, s, q, k)
<1>1. d.bq \in Nat /\ BkvP(d) \in Int /\ BkvPNew(d) \in Int
  BY BlockPages DEF IsConfig, Positive
<1>2. e.q_sz = QSize(d, s, q) /\ e.last \in BOOLEAN /\ e.wb \in BOOLEAN
  BY DEF Entry, WritesBack
<1>3. e.q_sz \in Nat
  <2>1. d.cu_q_lens[s] \in Int /\ d.cu_q_lens[s + 1] \in Int /\ q * d.bq \in Int
    BY <1>1, Lengths
  <2>2. d.cu_q_lens[s + 1] - QSrc(d, s, q) \in Int
    BY <2>1 DEF QSrc
  <2>3. QSize(d, s, q) \in 0..d.bq
    BY <1>1, <2>2, ClipIs DEF QSize
  <2> QED BY <1>1, <1>2, <2>3
<1>4. /\ DOMAIN e.cache = 0..BkvP(d) - 1 /\ DOMAIN e.new = 0..BkvPNew(d) - 1
      /\ \A i \in DOMAIN e.cache : e.cache[i].n \in Nat
      /\ \A i \in DOMAIN e.new : e.new[i].n \in Nat /\ e.new[i].m \in Nat
  BY PiecesSized
<1> HIDE DEF e
<1>5. Sizes(e.cache) \in Nat /\ Sizes(e.new) \in Nat
  <2> DEFINE f == [i \in DOMAIN e.cache |-> e.cache[i].n]
             g == [i \in DOMAIN e.new |-> e.new[i].n]
  <2>1. (\A i \in DOMAIN e.cache : f[i] \in Nat) /\ (\A i \in DOMAIN e.new : g[i] \in Nat)
    BY <1>4
  <2> HIDE DEF f, g
  <2>2. SumOf(f, DOMAIN e.cache) \in Nat
    BY <2>1, <1>1, <1>4, SizesIs
  <2>3. SumOf(g, DOMAIN e.new) \in Nat
    BY <2>1, <1>1, <1>4, SizesIs
  <2> QED BY <2>2, <2>3 DEF Sizes, f, g
<1>6. SumOf([i \in DOMAIN e.new |-> e.new[i].m], DOMAIN e.new) \in Nat
  <2> DEFINE f == [i \in DOMAIN e.new |-> e.new[i].m]
  <2>1. \A i \in DOMAIN e.new : f[i] \in Nat
    BY <1>4
  <2> HIDE DEF f
  <2>2. SumOf(f, DOMAIN e.new) \in Nat
    BY <2>1, <1>1, <1>4, SizesIs
  <2> QED BY <2>2 DEF f
<1>7. Amount("q", e) \in Nat /\ Amount("kv", e) \in Nat
  BY <1>3, <1>5 DEF Amount
<1>8. Amount("o", e) \in Nat /\ Amount("kv out", e) \in Nat
  BY <1>3, <1>6 DEF Amount
<1> QED BY <1>7, <1>8, KindsAre DEF Sized, e

LEMMA MaskedSized ==
  ASSUME NEW d, IsConfig(d)
  PROVE  Sized(MaskedEntry(d))
<1> DEFINE e == MaskedEntry(d)
<1>1. BkvP(d) \in Int /\ BkvPNew(d) \in Int
  BY BlockPages
<1>2. e.q_sz = 0 /\ e.last = FALSE /\ e.wb = FALSE
  BY DEF MaskedEntry
<1>3. DOMAIN e.cache = 0..BkvP(d) - 1 /\ DOMAIN e.new = 0..BkvPNew(d) - 1
  BY DEF MaskedEntry
<1>4. /\ \A i \in 0..BkvP(d) - 1 : e.cache[i].n = 0
      /\ \A i \in 0..BkvPNew(d) - 1 : e.new[i].n = 0
  BY DEF MaskedEntry
<1> HIDE DEF e
<1>5. Sizes(e.cache) \in Nat /\ Sizes(e.new) \in Nat
  <2> DEFINE f == [i \in DOMAIN e.cache |-> e.cache[i].n]
             g == [i \in DOMAIN e.new |-> e.new[i].n]
  <2>1. (\A i \in DOMAIN e.cache : f[i] \in Nat) /\ (\A i \in DOMAIN e.new : g[i] \in Nat)
    BY <1>3, <1>4
  <2> HIDE DEF f, g
  <2>2. SumOf(f, DOMAIN e.cache) \in Nat
    BY <2>1, <1>1, <1>3, SizesIs
  <2>3. SumOf(g, DOMAIN e.new) \in Nat
    BY <2>1, <1>1, <1>3, SizesIs
  <2> QED BY <2>2, <2>3 DEF Sizes, f, g
<1>6. Amount("q", e) \in Nat /\ Amount("kv", e) \in Nat /\ Amount("o", e) \in Nat
      /\ Amount("kv out", e) \in Nat
  BY <1>2, <1>5 DEF Amount
<1> QED BY <1>6, KindsAre DEF Sized, e

-----------------------------------------------------------------------------
\* Sums of what copies move.

LEMMA ZeroSum ==
  ASSUME NEW S, IsFiniteSet(S), NEW f, \A x \in S : f[x] = 0
  PROVE  SumOf(f, S) = 0
<1> DEFINE Bad == {T \in SUBSET S : SumOf(f, T) # 0}
<1> SUFFICES ASSUME Bad # {} PROVE FALSE
  OBVIOUS
<1>1. PICK T \in Bad : \A U \in SUBSET T : U # T => U \notin Bad
  <2>1. Bad \subseteq SUBSET S
    OBVIOUS
  <2> HIDE DEF Bad
  <2> QED BY <2>1, Smallest
<1>2. T \in SUBSET S /\ SumOf(f, T) # 0 /\ \A U \in SUBSET T : U # T => SumOf(f, U) = 0
  BY <1>1
<1>3. /\ SumOf(f, {}) = 0
      /\ \A x \in T : SumOf(f, T) = f[x] + SumOf(f, T \ {x})
  <2>1. IsFiniteSet(T)
    BY <1>2, FS_Subset
  <2> QED BY <1>2, <2>1, Sums
<1>4. PICK x \in T : SumOf(f, T) = f[x] + SumOf(f, T \ {x})
  BY <1>2, <1>3
<1>5. f[x] = 0 /\ SumOf(f, T \ {x}) = 0
  BY <1>2
<1> QED BY <1>2, <1>4, <1>5

\* A part that has the whole sum leaves out zeros only.
LEMMA WholeSum ==
  ASSUME NEW S, IsFiniteSet(S), NEW f, \A x \in S : f[x] \in Nat,
         NEW T \in SUBSET S, SumOf(f, T) >= SumOf(f, S)
  PROVE  SumOf(f, T) = SumOf(f, S) /\ \A x \in S \ T : f[x] = 0
<1>1. /\ SumOf(f, S) \in Nat /\ SumOf(f, T) \in Nat /\ SumOf(f, S \ T) \in Nat
      /\ SumOf(f, S) = SumOf(f, T) + SumOf(f, S \ T)
  <2>1. S \ T \in SUBSET S
    OBVIOUS
  <2> QED BY <2>1, Sums
<1>2. SumOf(f, T) = SumOf(f, S) /\ SumOf(f, S \ T) = 0
  BY <1>1
<1>3. ASSUME NEW x \in S \ T PROVE f[x] = 0
  <2>1. IsFiniteSet(S \ T)
    BY FS_Subset
  <2>2. \A y \in S \ T : f[y] \in Nat
    OBVIOUS
  <2>3. /\ SumOf(f, S \ T) = f[x] + SumOf(f, (S \ T) \ {x})
        /\ \A U \in SUBSET (S \ T) : SumOf(f, U) \in Nat
    BY <2>1, <2>2, Sums
  <2>4. SumOf(f, (S \ T) \ {x}) \in Nat /\ f[x] \in Nat
    <3>1. (S \ T) \ {x} \in SUBSET (S \ T)
      OBVIOUS
    <3> QED BY <2>3, <3>1
  <2> QED BY <1>2, <2>3, <2>4
<1> QED BY <1>2, <1>3

\* What a step waits for, as _compute_waits has it, is what its copies move.
LEMMA NeedIs ==
  ASSUME NEW lanes, IsFiniteSet(DOMAIN lanes), NEW kind \in Kinds
  PROVE  Need(kind, Waits(lanes)) =
           SumOf([b \in DOMAIN lanes |-> Amount(kind, lanes[b])], DOMAIN lanes)
<1> DEFINE moved == [b \in DOMAIN lanes |-> Amount(kind, lanes[b])]
<1>1. CASE kind = "q"
  <2> DEFINE f == [b \in DOMAIN lanes |-> lanes[b].q_sz]
  <2>1. Need(kind, Waits(lanes)) = SumOf(f, DOMAIN lanes)
    BY <1>1 DEF Need, Waits
  <2>2. f = moved
    BY <1>1 DEF Amount
  <2> QED BY <2>1, <2>2
<1>2. CASE kind = "kv"
  <2> DEFINE f == [b \in DOMAIN lanes |-> CacheTokens(lanes[b]) + FetchTokens(lanes[b])]
  <2>1. Need(kind, Waits(lanes)) = SumOf(f, DOMAIN lanes)
    BY <1>2 DEF Need, Waits
  <2>2. f = moved
    BY <1>2 DEF Amount, CacheTokens, FetchTokens
  <2> QED BY <2>1, <2>2
<1>3. CASE kind = "o"
  <2> DEFINE f == [b \in DOMAIN lanes |-> OutTokens(lanes[b])]
  <2>1. Need(kind, Waits(lanes)) = SumOf(f, DOMAIN lanes)
    BY <1>3 DEF Need, Waits
  <2>2. f = moved
    BY <1>3 DEF Amount, OutTokens
  <2> QED BY <2>1, <2>2
<1>4. CASE kind = "kv out"
  <2> DEFINE f == [b \in DOMAIN lanes |-> BackTokens(lanes[b])]
  <2>1. Need(kind, Waits(lanes)) = SumOf(f, DOMAIN lanes)
    BY <1>4 DEF Need, Waits
  <2>2. f = moved
    BY <1>4 DEF Amount, BackTokens
  <2> QED BY <2>1, <2>2
<1> QED BY <1>1, <1>2, <1>3, <1>4, KindsAre

-----------------------------------------------------------------------------
\* The schedule.

\* What a step in SMEM moves, lane by lane.
Moves(sm, kind, step) == [b \in Lanes |-> Amount(kind, sm.entries[step * c.batch + b])]

\* An entry the schedule's kernel makes.
Filed(d, e) ==
  \/ e = MaskedEntry(d)
  \/ \E s \in 0..NumSeqs(d) - 1, q \in Int, k \in Nat : e = Entry(d, s, q, k)

LEMMA FiledSized ==
  ASSUME NEW d, IsConfig(d), NEW e, Filed(d, e)
  PROVE  Sized(e)
<1>1. CASE e = MaskedEntry(d)
  BY <1>1, MaskedSized
<1>2. CASE e # MaskedEntry(d)
  <2>1. PICK s \in 0..NumSeqs(d) - 1, q \in Int, k \in Nat : e = Entry(d, s, q, k)
    BY <1>2 DEF Filed
  <2>2. k \in Int
    OBVIOUS
  <2>3. Sized(Entry(d, s, q, k))
    BY <2>2, EntrySized
  <2> QED BY <2>1, <2>3
<1> QED BY <1>1, <1>2

\* A step has entries of the schedule, and waits for what its lanes move.
StepOK(sm, step) ==
  /\ \A b \in Lanes : Filed(c, sm.entries[step * c.batch + b])
  /\ \A kind \in Kinds :
       /\ \A b \in Lanes : Moves(sm, kind, step)[b] \in Nat
       /\ Need(kind, sm.waits[step]) = SumOf(Moves(sm, kind, step), Lanes)

Shape(sm) ==
  /\ sm = [entries |-> sm.entries, waits |-> sm.waits]
  /\ sm.entries = [i \in 0..Capacity - 1 |-> sm.entries[i]]
  /\ sm.waits = [j \in 0..MaxSteps - 1 |-> sm.waits[j]]

LEMMA Room ==
  ASSUME IsConfig(c)
  PROVE  /\ c.batch \in Positive /\ MaxSteps \in Positive /\ Capacity \in Positive
         /\ IsFiniteSet(Lanes)
<1>1. c.batch \in Positive /\ MaxSteps \in Positive
  BY BufferAssumption DEF IsConfig
<1>2. Capacity \in Nat /\ Capacity > 0
  BY <1>1 DEF Capacity, Positive
<1>3. IsFiniteSet(Lanes)
  BY <1>1, FS_Interval DEF Lanes, Positive
<1> QED BY <1>1, <1>2, <1>3 DEF Positive

\* The steps that n entries make.
LEMMA StepsOf ==
  ASSUME IsConfig(c), NEW n \in 0..Capacity
  PROVE  /\ CeilDiv(n, c.batch) \in 0..MaxSteps
         /\ n < Capacity => (n = 0 <=> CeilDiv(n, c.batch) = 0)
         /\ \A j \in 0..CeilDiv(n, c.batch) - 1, b \in Lanes :
              /\ j * c.batch + b \in 0..(CeilDiv(n, c.batch) * c.batch - 1)
              /\ j * c.batch + b \in 0..Capacity - 1
              /\ j \in 0..MaxSteps - 1
<1> DEFINE last == CeilDiv(n, c.batch)
<1>1. c.batch \in Positive /\ MaxSteps \in Positive /\ Capacity \in Positive /\ n \in Nat
  BY Room DEF Positive
<1>2. last \in Nat /\ n =< c.batch * last /\ \A b \in Nat : n =< c.batch * b => last =< b
  BY <1>1, CeilDivIs
<1> HIDE DEF last
<1>3. last =< MaxSteps
  <2>1. MaxSteps \in Nat /\ n =< c.batch * MaxSteps
    BY <1>1 DEF Capacity, Positive
  <2> QED BY <1>2, <2>1
<1>4. n = 0 <=> last = 0
  <2>1. n = 0 => last =< 0
    BY <1>1, <1>2 DEF Positive
  <2>2. last = 0 => n =< 0
    BY <1>1, <1>2 DEF Positive
  <2> QED BY <1>1, <1>2, <2>1, <2>2
<1>5. ASSUME NEW j \in 0..last - 1, NEW b \in Lanes
      PROVE  /\ j * c.batch + b \in 0..(last * c.batch - 1)
             /\ j * c.batch + b \in 0..Capacity - 1
             /\ j \in 0..MaxSteps - 1
  <2>1. j \in Nat /\ last \in Nat /\ b \in 0..c.batch - 1 /\ MaxSteps \in Nat /\ c.batch \in Nat
    BY <1>1, <1>2 DEF Positive, Lanes
  <2>2. c.batch * last - c.batch * j >= c.batch /\ c.batch * MaxSteps - c.batch * j >= c.batch
    <3>1. j < last /\ j < MaxSteps
      BY <1>2, <1>3, <2>1
    <3> QED BY <1>1, <2>1, <3>1, Multiple
  <2>3. /\ c.batch * last = last * c.batch /\ c.batch * MaxSteps = MaxSteps * c.batch
        /\ c.batch * j = j * c.batch /\ c.batch * j \in Nat
        /\ c.batch * last \in Nat /\ c.batch * MaxSteps \in Nat
    BY <2>1
  <2>4. j * c.batch + b < last * c.batch /\ j * c.batch + b < Capacity /\ j * c.batch + b \in Nat
    BY <2>1, <2>2, <2>3 DEF Capacity
  <2> QED BY <1>1, <1>2, <1>3, <2>1, <2>3, <2>4 DEF Positive
<1> QED BY <1>2, <1>3, <1>4, <1>5 DEF last

LEMMA MovesOf ==
  ASSUME IsConfig(c), NEW sm, NEW step,
         \A b \in Lanes : Sized(sm.entries[step * c.batch + b])
  PROVE  \A kind \in Kinds :
           /\ \A b \in Lanes : Moves(sm, kind, step)[b] \in Nat
           /\ Need(kind, Waits(LanesOf(sm, step))) = SumOf(Moves(sm, kind, step), Lanes)
<1> SUFFICES ASSUME NEW kind \in Kinds
             PROVE  /\ \A b \in Lanes : Moves(sm, kind, step)[b] \in Nat
                    /\ Need(kind, Waits(LanesOf(sm, step))) = SumOf(Moves(sm, kind, step), Lanes)
  OBVIOUS
<1>1. \A b \in Lanes : Moves(sm, kind, step)[b] \in Nat
  BY DEF Moves, Sized
<1> DEFINE lanes == LanesOf(sm, step)
<1>2. DOMAIN lanes = Lanes /\ \A b \in Lanes : lanes[b] = sm.entries[step * c.batch + b]
  BY DEF LanesOf
<1> HIDE DEF lanes
<1>3. [b \in DOMAIN lanes |-> Amount(kind, lanes[b])] = Moves(sm, kind, step)
  BY <1>2 DEF Moves
<1>4. IsFiniteSet(DOMAIN lanes)
  BY <1>2, Room
<1>5. Need(kind, Waits(lanes)) = SumOf(Moves(sm, kind, step), Lanes)
  BY <1>2, <1>3, <1>4, NeedIs
<1> QED BY <1>1, <1>5 DEF lanes

LEMMA RecordsIs ==
  ASSUME NEW a, NEW b, NEW x, NEW r, r = [entries |-> a, waits |-> b]
  PROVE  /\ [r EXCEPT !.entries = x] = [entries |-> x, waits |-> b]
         /\ [r EXCEPT !.waits = x] = [entries |-> a, waits |-> x]
OBVIOUS

\* flush_to_hbm leaves every step waiting for what its lanes move, the
\* masked ones among them.
LEMMA FlushIs ==
  ASSUME IsConfig(c), NEW sm, Shape(sm), NEW n \in 0..Capacity,
         \A i \in 0..n - 1 : Filed(c, sm.entries[i])
  PROVE  /\ Shape(Flush(sm, n))
         /\ \A j \in 0..CeilDiv(n, c.batch) - 1 : StepOK(Flush(sm, n), j)
<1> DEFINE last == CeilDiv(n, c.batch)
           filled == [i \in 0..Capacity - 1 |->
                        IF i \in n..(last * c.batch - 1) THEN MaskedEntry(c) ELSE sm.entries[i]]
           masked == [entries |-> filled, waits |-> sm.waits]
           waits == [j \in 0..MaxSteps - 1 |->
                       IF j < last THEN Waits(LanesOf(masked, j)) ELSE sm.waits[j]]
           flushed == [entries |-> filled, waits |-> waits]
<1>1. Flush(sm, n) = flushed
  <2>1. DOMAIN sm.entries = 0..Capacity - 1 /\ DOMAIN sm.waits = 0..MaxSteps - 1
    BY DEF Shape
  <2> DEFINE entries == [i \in DOMAIN sm.entries |->
                   IF i \in n..(last * c.batch - 1) THEN MaskedEntry(c) ELSE sm.entries[i]]
             counts == [j \in DOMAIN masked.waits |->
                   IF j < last THEN Waits(LanesOf(masked, j)) ELSE masked.waits[j]]
  <2>2. entries = filled
    BY <2>1
  <2>3. [sm EXCEPT !.entries = entries] = masked
    <3>1. sm = [entries |-> sm.entries, waits |-> sm.waits]
      BY DEF Shape
    <3> HIDE DEF entries, filled
    <3>2. [sm EXCEPT !.entries = entries] = [entries |-> entries, waits |-> sm.waits]
      BY <3>1, RecordsIs
    <3> QED BY <2>2, <3>2
  <2>4. [masked EXCEPT !.waits = counts] = flushed
    <3> HIDE DEF filled
    <3>1. masked.waits = sm.waits
      OBVIOUS
    <3> HIDE DEF masked
    <3>2. counts = waits
      BY <2>1, <3>1
    <3> HIDE DEF counts, waits
    <3> QED BY <3>2, RecordsIs DEF masked
  <2> HIDE DEF masked
  <2> QED BY <2>3, <2>4 DEF Flush, last
<1>2. Shape(flushed)
  BY DEF Shape
<1>3. ASSUME NEW j \in 0..last - 1 PROVE StepOK(flushed, j)
  <2>1. j \in 0..MaxSteps - 1 /\ j < last
    <3>1. last \in 0..MaxSteps
      BY StepsOf
    <3> HIDE DEF last
    <3>2. last \in Int /\ MaxSteps \in Int /\ last =< MaxSteps
      BY <3>1, Room DEF Positive
    <3> QED BY <3>2
  <2>2. ASSUME NEW b \in Lanes PROVE Filed(c, flushed.entries[j * c.batch + b])
    <3> DEFINE i == j * c.batch + b
    <3>1. i \in 0..(last * c.batch - 1) /\ i \in 0..Capacity - 1
      BY StepsOf
    <3> HIDE DEF i
    <3>2. flushed.entries[i] = IF i \in n..(last * c.batch - 1) THEN MaskedEntry(c) ELSE sm.entries[i]
      BY <3>1
    <3>3. Filed(c, MaskedEntry(c))
      BY DEF Filed
    <3>4. i \notin n..(last * c.batch - 1) => i \in 0..n - 1
      BY <3>1, Room DEF Positive
    <3> HIDE DEF flushed, last
    <3>5. Filed(c, flushed.entries[i])
      BY <3>2, <3>3, <3>4
    <3> QED BY <3>5 DEF i
  <2>3. flushed.waits[j] = Waits(LanesOf(flushed, j))
    <3>1. LanesOf(flushed, j) = LanesOf(masked, j)
      BY DEF LanesOf
    <3>2. flushed.waits[j] = Waits(LanesOf(masked, j))
      BY <2>1
    <3> QED BY <3>1, <3>2
  <2> HIDE DEF flushed
  <2>4. \A b \in Lanes : Sized(flushed.entries[j * c.batch + b])
    BY <2>2, FiledSized
  <2> QED BY <2>2, <2>3, <2>4, MovesOf DEF StepOK
<1> HIDE DEF flushed
<1> QED BY <1>1, <1>2, <1>3

-----------------------------------------------------------------------------
\* The semaphores.

Slots(kind) == IF kind = "o" THEN 2 ELSE NBuffer

LEMMA SlotIs ==
  ASSUME NEW kind \in Kinds, NEW step \in Nat
  PROVE  /\ Slots(kind) \in Positive /\ Slot(kind, step) = step % Slots(kind)
         /\ Slot(kind, step) \in 0..Slots(kind) - 1
<1>1. Slots(kind) \in Positive
  BY BufferAssumption DEF Slots, Positive
<1>2. Slot(kind, step) = step % Slots(kind)
  BY DEF Slot, Slots
<1>3. step % Slots(kind) \in 0..Slots(kind) - 1
  <2> HIDE DEF Slots
  <2> QED BY <1>1, Division
<1> QED BY <1>1, <1>2, <1>3

Landed(fl, kind, step) == {b \in Lanes : [kind |-> kind, step |-> step, lane |-> b] \notin fl}

\* The copies of one kind: the steps first..past - 1 have started theirs and
\* are not waited for.  fl is what is in flight, and s what the semaphores
\* of the kind have: for each of these steps, in a slot of its own, what has
\* landed, and nothing for any other.
KindInv(kind, first, past, fl, s) ==
  /\ first \in Nat /\ past \in Nat /\ first =< past /\ past =< first + Slots(kind)
  /\ \A copy \in fl : copy.kind = kind =>
       /\ copy.step \in first..past - 1
       /\ Moves(smem, kind, copy.step)[copy.lane] > 0
  /\ s \in [0..Slots(kind) - 1 -> Nat]
  /\ \A step \in first..past - 1 :
       /\ StepOK(smem, step)
       /\ s[Slot(kind, step)] = SumOf(Moves(smem, kind, step), Landed(fl, kind, step))
  /\ \A slot \in 0..Slots(kind) - 1 :
       (\A step \in first..past - 1 : Slot(kind, step) # slot) => s[slot] = 0

Copied == [kind : Kinds, step : Nat, lane : Lanes]

LEMMA Apart ==
  ASSUME NEW kind \in Kinds, NEW first \in Nat, NEW past \in Nat, past =< first + Slots(kind),
         NEW a \in first..past - 1, NEW b \in first..past - 1, a # b
  PROVE  Slot(kind, a) # Slot(kind, b)
<1>1. /\ Slots(kind) \in Positive /\ a \in Nat /\ b \in Nat
      /\ Slot(kind, a) = a % Slots(kind) /\ Slot(kind, b) = b % Slots(kind)
  BY SlotIs
<1>2. Slots(kind) \in Nat
  BY <1>1 DEF Positive
<1>3. CASE a < b
  <2>1. b < a + Slots(kind)
    BY <1>1, <1>2
  <2> QED BY <1>1, <1>3, <2>1, SlotsApart
<1>4. CASE b < a
  <2>1. a < b + Slots(kind)
    BY <1>1, <1>2
  <2> QED BY <1>1, <1>4, <2>1, SlotsApart
<1> QED BY <1>1, <1>3, <1>4

LEMMA CopiesAre ==
  ASSUME NEW kinds, kinds \subseteq Kinds, NEW step \in Nat
  PROVE  /\ Copies(kinds, step) \subseteq Copied
         /\ \A copy \in Copies(kinds, step) :
              /\ copy.kind \in kinds /\ copy.step = step /\ copy.lane \in Lanes
              /\ Moves(smem, copy.kind, copy.step)[copy.lane] > 0
         /\ \A kind \in kinds, b \in Lanes :
              Moves(smem, kind, step)[b] > 0 =>
                [kind |-> kind, step |-> step, lane |-> b] \in Copies(kinds, step)
<1>1. \A copy \in [kind : kinds, step : {step}, lane : Lanes] :
        Amount(copy.kind, EntryOf(copy)) = Moves(smem, copy.kind, copy.step)[copy.lane]
  BY DEF Moves, EntryOf
<1> QED BY <1>1 DEF Copies, Copied

\* What has not landed of a step not begun, is all of it.
LEMMA Started ==
  ASSUME IsConfig(c), NEW kind \in Kinds, NEW first, NEW past, NEW fl, NEW s,
         KindInv(kind, first, past, fl, s), past < first + Slots(kind), StepOK(smem, past),
         NEW kinds, kind \in kinds, kinds \subseteq Kinds
  PROVE  KindInv(kind, first, past + 1, fl \cup Copies(kinds, past), s)
<1> DEFINE gl == fl \cup Copies(kinds, past)
           new == [b \in Lanes |-> [kind |-> kind, step |-> past, lane |-> b]]
<1>1. /\ first \in Nat /\ past \in Nat /\ first =< past /\ Slots(kind) \in Nat
      /\ past + 1 \in Nat /\ first =< past + 1 /\ past + 1 =< first + Slots(kind)
      /\ first..(past + 1) - 1 = (first..past - 1) \cup {past}
      /\ past \notin first..past - 1
  <2>1. first \in Nat /\ past \in Nat /\ first =< past /\ Slots(kind) \in Nat
    BY SlotIs DEF KindInv, Positive
  <2> QED BY <2>1
<1>2. \A copy \in gl : copy.kind = kind =>
        /\ copy.step \in first..(past + 1) - 1
        /\ Moves(smem, kind, copy.step)[copy.lane] > 0
  <2>1. \A copy \in fl : copy.kind = kind =>
          /\ copy.step \in first..past - 1
          /\ Moves(smem, kind, copy.step)[copy.lane] > 0
    BY DEF KindInv
  <2>2. \A copy \in Copies(kinds, past) :
          copy.step = past /\ Moves(smem, copy.kind, copy.step)[copy.lane] > 0
    BY <1>1, CopiesAre
  <2> QED BY <1>1, <2>1, <2>2
<1>3. ASSUME NEW step \in first..past - 1
      PROVE  Landed(gl, kind, step) = Landed(fl, kind, step)
  <2>1. \A copy \in Copies(kinds, past) : copy.step # step
    BY <1>1, CopiesAre
  <2> QED BY <2>1 DEF Landed
<1>4. \A step \in first..past - 1 : Slot(kind, step) # Slot(kind, past)
  <2> SUFFICES ASSUME NEW step \in first..past - 1 PROVE Slot(kind, step) # Slot(kind, past)
    OBVIOUS
  <2>1. step \in first..(past + 1) - 1 /\ past \in first..(past + 1) - 1 /\ step # past
    BY <1>1
  <2> QED BY <1>1, <2>1, Apart
<1>5. s[Slot(kind, past)] = 0
  BY <1>1, <1>4, SlotIs DEF KindInv
<1>6. SumOf(Moves(smem, kind, past), Landed(gl, kind, past)) = 0
  <2>1. ASSUME NEW b \in Landed(gl, kind, past) PROVE Moves(smem, kind, past)[b] = 0
    <3>1. b \in Lanes /\ [kind |-> kind, step |-> past, lane |-> b] \notin Copies(kinds, past)
      BY <2>1 DEF Landed
    <3>2. ~(Moves(smem, kind, past)[b] > 0)
      BY <1>1, <3>1, CopiesAre
    <3>3. Moves(smem, kind, past)[b] \in Nat
      BY <3>1 DEF StepOK
    <3> QED BY <3>2, <3>3
  <2>2. IsFiniteSet(Landed(gl, kind, past))
    <3>1. Landed(gl, kind, past) \subseteq Lanes
      BY DEF Landed
    <3> QED BY <3>1, Room, FS_Subset
  <2> QED BY <2>1, <2>2, ZeroSum
<1> HIDE DEF gl
<1>7. \A step \in first..(past + 1) - 1 :
        /\ StepOK(smem, step)
        /\ s[Slot(kind, step)] = SumOf(Moves(smem, kind, step), Landed(gl, kind, step))
  BY <1>1, <1>3, <1>5, <1>6 DEF KindInv
<1>8. \A slot \in 0..Slots(kind) - 1 :
        (\A step \in first..(past + 1) - 1 : Slot(kind, step) # slot) => s[slot] = 0
  BY <1>1 DEF KindInv
<1>9. s \in [0..Slots(kind) - 1 -> Nat]
  BY DEF KindInv
<1> QED BY <1>1, <1>2, <1>7, <1>8, <1>9 DEF KindInv, gl

\* Nothing else in flight matters.
LEMMA Others ==
  ASSUME NEW kind, NEW first, NEW past, NEW fl, NEW gl, NEW s,
         KindInv(kind, first, past, fl, s),
         \A copy \in fl \cup gl : copy.kind = kind => (copy \in fl <=> copy \in gl)
  PROVE  KindInv(kind, first, past, gl, s)
<1>1. \A step : Landed(gl, kind, step) = Landed(fl, kind, step)
  BY DEF Landed
<1>2. \A copy \in gl : copy.kind = kind => copy \in fl
  OBVIOUS
<1> QED BY <1>1, <1>2 DEF KindInv

\* A copy that lands adds to its semaphore what it moves.
LEMMA Landing ==
  ASSUME IsConfig(c), NEW kind \in Kinds, NEW first, NEW past, NEW fl, fl \subseteq Copied, NEW s,
         KindInv(kind, first, past, fl, s), NEW copy \in fl, copy.kind = kind,
         NEW t, t = [s EXCEPT ![Slot(kind, copy.step)] = @ + Moves(smem, kind, copy.step)[copy.lane]]
  PROVE  KindInv(kind, first, past, fl \ {copy}, t)
<1> DEFINE gl == fl \ {copy}
           step == copy.step
           b == copy.lane
           slot == Slot(kind, step)
           moved == Moves(smem, kind, step)[b]
<1>1. /\ first \in Nat /\ past \in Nat /\ first =< past /\ past =< first + Slots(kind)
      /\ step \in first..past - 1 /\ b \in Lanes /\ moved \in Nat /\ step \in Nat
      /\ copy = [kind |-> kind, step |-> step, lane |-> b]
      /\ slot \in 0..Slots(kind) - 1 /\ s \in [0..Slots(kind) - 1 -> Nat] 
  <2>1. first \in Nat /\ past \in Nat /\ first =< past /\ past =< first + Slots(kind)
        /\ step \in first..past - 1 /\ s \in [0..Slots(kind) - 1 -> Nat]
    BY DEF KindInv
  <2>2. copy = [kind |-> kind, step |-> step, lane |-> b] /\ b \in Lanes /\ step \in Nat
    BY DEF Copied
  <2>3. moved \in Nat
    BY <2>1, <2>2 DEF KindInv, StepOK
  <2>4. slot \in 0..Slots(kind) - 1
    BY <2>2, SlotIs
  <2> QED BY <2>1, <2>2, <2>3, <2>4
<1> HIDE DEF step, b
<1>2. /\ t \in [0..Slots(kind) - 1 -> Nat] /\ t[slot] = s[slot] + moved
      /\ \A other \in 0..Slots(kind) - 1 : other # slot => t[other] = s[other]
  <2>1. t = [s EXCEPT ![slot] = s[slot] + moved]
    BY DEF step, b
  <2> HIDE DEF slot, moved
  <2> DEFINE D == 0..Slots(kind) - 1
             v == s[slot] + moved
  <2>2. v \in Nat /\ slot \in D /\ s \in [D -> Nat]
    BY <1>1
  <2>3. t = [s EXCEPT ![slot] = v]
    BY <2>1
  <2> HIDE DEF D, v
  <2>4. t \in [D -> Nat] /\ t[slot] = v /\ \A y \in D : y # slot => t[y] = s[y]
    BY <2>2, <2>3
  <2> QED BY <2>4 DEF D, v
<1>3. ASSUME NEW other \in first..past - 1, other # step
      PROVE  /\ Landed(gl, kind, other) = Landed(fl, kind, other)
             /\ t[Slot(kind, other)] = s[Slot(kind, other)]
  <2>1. Landed(gl, kind, other) = Landed(fl, kind, other)
    BY <1>1, <1>3 DEF Landed
  <2>2. Slot(kind, other) \in 0..Slots(kind) - 1
    <3>1. other \in Nat
      BY <1>1
    <3> QED BY <3>1, SlotIs
  <2>3. Slot(kind, other) # slot
    BY <1>1, <1>3, Apart
  <2> QED BY <1>2, <2>1, <2>2, <2>3
<1>4. t[slot] = SumOf(Moves(smem, kind, step), Landed(gl, kind, step))
  <2> DEFINE f == Moves(smem, kind, step)
             now == Landed(gl, kind, step)
             before == Landed(fl, kind, step)
  <2>1. b \in now /\ now \ {b} = before /\ now \subseteq Lanes
    BY <1>1 DEF Landed
  <2>2. \A x \in now : f[x] \in Nat
    BY <1>1, <2>1 DEF KindInv, StepOK
  <2>3. IsFiniteSet(now)
    BY <2>1, Room, FS_Subset
  <2> HIDE DEF f, now, before
  <2>4. SumOf(f, now) = f[b] + SumOf(f, now \ {b}) /\ SumOf(f, now \ {b}) \in Nat /\ f[b] \in Nat
    <3>1. now \ {b} \in SUBSET now
      OBVIOUS
    <3> QED BY <2>1, <2>2, <2>3, <3>1, Sums
  <2>5. s[slot] = SumOf(f, before)
    BY <1>1 DEF KindInv, f, before
  <2>6. SumOf(f, now) = f[b] + s[slot] /\ s[slot] \in Nat
    BY <2>1, <2>4, <2>5
  <2>7. moved = f[b]
    BY DEF f
  <2> QED BY <1>1, <1>2, <2>4, <2>6, <2>7 DEF f, now
<1>5. \A other \in first..past - 1 :
        /\ StepOK(smem, other)
        /\ t[Slot(kind, other)] = SumOf(Moves(smem, kind, other), Landed(gl, kind, other))
  BY <1>3, <1>4 DEF KindInv
<1>6. \A other \in 0..Slots(kind) - 1 :
        (\A k \in first..past - 1 : Slot(kind, k) # other) => t[other] = 0
  BY <1>1, <1>2 DEF KindInv
<1>7. \A other \in gl : other.kind = kind =>
        /\ other.step \in first..past - 1
        /\ Moves(smem, kind, other.step)[other.lane] > 0
  BY DEF KindInv
<1> HIDE DEF gl
<1>8. KindInv(kind, first, past, gl, t)
  BY <1>1, <1>2, <1>5, <1>6, <1>7 DEF KindInv
<1> QED BY <1>8 DEF gl

\* The wait for a step succeeds when all of it has landed, and takes what it
\* finds.
LEMMA Waited ==
  ASSUME IsConfig(c), NEW kind \in Kinds, NEW first, NEW past, NEW fl, fl \subseteq Copied, NEW s,
         KindInv(kind, first, past, fl, s), first < past,
         s[Slot(kind, first)] >= Need(kind, smem.waits[first]),
         NEW t, t = [s EXCEPT ![Slot(kind, first)] = @ - Need(kind, smem.waits[first])]
  PROVE  KindInv(kind, first + 1, past, fl, t)
<1> DEFINE f == Moves(smem, kind, first)
           slot == Slot(kind, first)
           need == Need(kind, smem.waits[first])
           landed == Landed(fl, kind, first)
<1>1. /\ first \in Nat /\ past \in Nat /\ past =< first + Slots(kind) /\ Slots(kind) \in Nat
      /\ first \in first..past - 1
      /\ first + 1 \in Nat /\ first + 1 =< past /\ past =< (first + 1) + Slots(kind)
      /\ first..past - 1 = ((first + 1)..past - 1) \cup {first}
      /\ first \notin (first + 1)..past - 1
  <2>1. first \in Nat /\ past \in Nat /\ past =< first + Slots(kind) /\ Slots(kind) \in Nat
    BY SlotIs DEF KindInv, Positive
  <2> QED BY <2>1
<1>2. /\ need = SumOf(f, Lanes) /\ s[slot] = SumOf(f, landed)
      /\ \A x \in Lanes : f[x] \in Nat
  BY <1>1 DEF KindInv, StepOK
<1>3. landed \in SUBSET Lanes /\ IsFiniteSet(Lanes)
  BY Room DEF Landed
<1>4. slot \in 0..Slots(kind) - 1 /\ s \in [0..Slots(kind) - 1 -> Nat]
  BY <1>1, SlotIs DEF KindInv
<1>5. s[slot] >= need /\ t = [s EXCEPT ![slot] = @ - need]
  OBVIOUS
<1> HIDE DEF slot, need
<1>6. s[slot] = need /\ \A x \in Lanes \ landed : f[x] = 0
  <2> HIDE DEF f, landed
  <2>1. SumOf(f, landed) >= SumOf(f, Lanes)
    BY <1>2, <1>5
  <2> QED BY <1>2, <1>3, <2>1, WholeSum
<1>7. /\ t \in [0..Slots(kind) - 1 -> Nat] /\ t[slot] = 0
      /\ \A other \in 0..Slots(kind) - 1 : other # slot => t[other] = s[other]
  <2>1. need \in Nat /\ need - need = 0
    BY <1>4, <1>6
  <2> DEFINE D == 0..Slots(kind) - 1
             v == 0
  <2>2. v \in Nat /\ t = [s EXCEPT ![slot] = v] /\ slot \in D /\ s \in [D -> Nat]
    BY <1>4, <1>5, <1>6, <2>1
  <2> HIDE DEF D, v
  <2>3. t \in [D -> Nat] /\ t[slot] = v /\ \A y \in D : y # slot => t[y] = s[y]
    BY <2>2
  <2> QED BY <2>3 DEF D, v
<1>8. ASSUME NEW copy \in fl, copy.kind = kind
      PROVE  /\ copy.step \in (first + 1)..past - 1
             /\ Moves(smem, kind, copy.step)[copy.lane] > 0
  <2>1. copy.step \in first..past - 1 /\ Moves(smem, kind, copy.step)[copy.lane] > 0
    BY <1>8 DEF KindInv
  <2>2. copy.step # first
    <3> SUFFICES ASSUME copy.step = first PROVE FALSE
      OBVIOUS
    <3>1. copy = [kind |-> kind, step |-> first, lane |-> copy.lane] /\ copy.lane \in Lanes
      BY <1>8 DEF Copied
    <3>2. copy.lane \in Lanes \ landed
      BY <3>1 DEF Landed
    <3>3. f[copy.lane] = 0 /\ f[copy.lane] > 0
      BY <1>6, <2>1, <3>2
    <3> QED BY <3>3
  <2> QED BY <1>1, <2>1, <2>2
<1>9. ASSUME NEW step \in (first + 1)..past - 1
      PROVE  /\ StepOK(smem, step)
             /\ t[Slot(kind, step)] = SumOf(Moves(smem, kind, step), Landed(fl, kind, step))
  <2>1. step \in first..past - 1 /\ step # first /\ step \in Nat
    BY <1>1
  <2>2. Slot(kind, step) # slot /\ Slot(kind, step) \in 0..Slots(kind) - 1
    BY <1>1, <2>1, Apart, SlotIs DEF slot
  <2>3. t[Slot(kind, step)] = s[Slot(kind, step)]
    BY <1>7, <2>2
  <2> QED BY <2>1, <2>3 DEF KindInv
<1>10. ASSUME NEW other \in 0..Slots(kind) - 1,
              \A step \in (first + 1)..past - 1 : Slot(kind, step) # other
       PROVE  t[other] = 0
  <2>1. CASE other = slot
    BY <1>7, <2>1
  <2>2. CASE other # slot
    <3>1. \A step \in first..past - 1 : Slot(kind, step) # other
      BY <1>1, <1>10, <2>2 DEF slot
    <3>2. s[other] = 0
      BY <3>1 DEF KindInv
    <3> QED BY <1>7, <2>2, <3>2
  <2> QED BY <2>1, <2>2
<1> QED BY <1>1, <1>7, <1>8, <1>9, <1>10 DEF KindInv

-----------------------------------------------------------------------------
\* The invariant.

\* The steps computed have been waited for before, and the steps retired
\* after.
First(kind) == IF kind \in In THEN cur ELSE retired
Past(kind) == IF kind \in In THEN issued ELSE cur

\* The steps of chunk i.
StepsIn(i) == IF i < NumChunks - 1 \/ steps % MaxSteps = 0 THEN MaxSteps ELSE steps % MaxSteps

IsBlock(block) == block[1] \in 0..NumSeqs(c) - 1 /\ block[2] \in Int /\ block[3] \in Nat

Scheduling ==
  /\ \A block \in work : IsBlock(block)
  /\ Shape(smem) /\ count \in 0..Capacity - 1
  /\ \A i \in 0..count - 1 : Filed(c, smem.entries[i])
  /\ \E S : hbm \in Seq(S)
  /\ offset = MaxSteps * Len(hbm) /\ chunk = 0
  /\ \A i \in 1..Len(hbm) : \A j \in 0..MaxSteps - 1 : StepOK(hbm[i], j)

Scheduled ==
  /\ NumChunks \in Nat /\ chunk \in 0..NumChunks
  /\ \A i \in 0..NumChunks - 1 :
       /\ StepsIn(i) \in 0..MaxSteps
       /\ \A j \in 0..StepsIn(i) - 1 : StepOK(hbm[i + 1], j)

\* The steps asked for are in order, and no more than there are slots.
Running ==
  /\ chunk < NumChunks
  /\ \A j \in 0..ChunkSteps - 1 : StepOK(smem, j)
  /\ retired \in Nat /\ cur \in Nat /\ issued \in Nat
  /\ retired =< cur /\ cur =< issued /\ issued =< ChunkSteps
  /\ issued =< retired + NBuffer /\ cur =< retired + 2
  /\ \A kind \in Kinds : KindInv(kind, First(kind), Past(kind), flying, sem[kind])

Quiet ==
  /\ flying = {}
  /\ \A kind \in Kinds : sem[kind] = [slot \in 0..Slots(kind) - 1 |-> 0]

WaitInv ==
  /\ IsConfig(c) /\ launch \in 1..3
  /\ pc \in {"schedule", "load", "run", "done"}
  /\ flying \subseteq Copied
  /\ sem = [kind \in Kinds |-> sem[kind]]
  /\ pc # "run" => Quiet
  /\ pc = "schedule" => Scheduling
  /\ pc \in {"load", "run"} => Scheduled
  /\ pc = "run" => Running

\* It says what the runs check: a step that has been waited for has nothing
\* in flight.
LEMMA InvWaits == WaitInv => WaitsMatch
<1> SUFFICES ASSUME WaitInv PROVE WaitsMatch
  OBVIOUS
<1>1. ASSUME NEW copy \in flying
      PROVE  copy.step >= (IF copy.kind \in In THEN cur ELSE retired)
  <2>1. pc = "run"
    BY DEF WaitInv, Quiet
  <2>2. Running /\ copy.kind \in Kinds
    BY <2>1 DEF WaitInv, Copied
  <2>3. copy.step \in First(copy.kind)..Past(copy.kind) - 1
    BY <2>2 DEF Running, KindInv
  <2>4. First(copy.kind) \in Int /\ Past(copy.kind) \in Int
    BY <2>2 DEF Running, First, Past
  <2>5. copy.step >= First(copy.kind)
    BY <2>3, <2>4
  <2> QED BY <2>5 DEF First
<1>2. ASSUME pc # "run", NEW kind \in DOMAIN sem, NEW slot \in DOMAIN sem[kind]
      PROVE  sem[kind][slot] = 0
  <2>1. kind \in Kinds /\ Quiet
    BY <1>2 DEF WaitInv
  <2>2. sem[kind] = [x \in 0..Slots(kind) - 1 |-> 0]
    BY <2>1 DEF Quiet
  <2> QED BY <1>2, <2>2
<1> QED BY <1>1, <1>2 DEF WaitsMatch

LEMMA WorkIs ==
  ASSUME IsConfig(c), NEW block \in Work(c)
  PROVE  IsBlock(block)
<1>1. PICK s \in FirstSeq(c)..EndSeq(c) - 1 : block \in SeqWork(c, s)
  BY DEF Work
<1>2. PICK q \in 0..NumQ(c, s) - 1 : block \in Blocks(c, s, q)
  BY <1>1 DEF SeqWork
<1>3. PICK k \in StartK(c, s, q)..EndK(c, s, q) - 1 : block = <<s, q, k>>
  BY <1>2 DEF Blocks
<1>4. s \in 0..NumSeqs(c) - 1
  <2> DEFINE n == NumSeqs(c)
  <2>1. n \in Nat /\ c.distribution \in [1..3 -> 0..n]
    BY DEF IsConfig, IsCall
  <2> HIDE DEF n
  <2>2. c.distribution[1] \in 0..n /\ c.distribution[2] \in 0..n /\ c.distribution[3] \in 0..n
    BY <2>1
  <2>3. FirstSeq(c) \in 0..n /\ EndSeq(c) \in 0..n
    BY <2>1, <2>2 DEF FirstSeq, EndSeq
  <2>4. s \in 0..n - 1
    BY <2>1, <2>3
  <2> QED BY <2>4 DEF n
<1>5. /\ c.bq \in Positive /\ c.bkv \in Positive /\ c.window \in Nat
      /\ QLen(c, s) \in Int /\ CacheLen(c, s) \in Int /\ KLen(c, s) \in Int
      /\ c.cu_q_lens[s] \in Int /\ c.cu_q_lens[s + 1] \in Int
  <2>1. c.bq \in Positive /\ c.bkv \in Positive /\ c.window \in Nat
    BY DEF IsConfig, IsCall
  <2>2. /\ QLen(c, s) \in Int /\ CacheLen(c, s) \in Int /\ KLen(c, s) \in Int
        /\ c.cu_q_lens[s] \in Nat /\ c.cu_q_lens[s + 1] \in Nat
    BY <1>4, Lengths
  <2> QED BY <2>1, <2>2
<1>6. \A x \in Int : x \div c.bkv \in Int /\ CeilDiv(x, c.bq) \in Int /\ CeilDiv(x, c.bkv) \in Int
  <2> SUFFICES ASSUME NEW x \in Int
               PROVE  x \div c.bkv \in Int /\ CeilDiv(x, c.bq) \in Int /\ CeilDiv(x, c.bkv) \in Int
    OBVIOUS
  <2>1. -x \in Int
    OBVIOUS
  <2>2. x \div c.bkv \in Int /\ (-x) \div c.bq \in Int /\ (-x) \div c.bkv \in Int
    BY <1>5, <2>1, Division
  <2> QED BY <2>2 DEF CeilDiv
<1>7. q \in Int /\ q * c.bq \in Int /\ c.bq \in Nat
  <2>1. NumQ(c, s) \in Int
    BY <1>5, <1>6 DEF NumQ
  <2>2. q \in Int
    BY <2>1
  <2> QED BY <1>5, <2>2 DEF Positive
<1>8. WindowStart(c, s, q) \in Nat
  <2> DEFINE from == CacheLen(c, s) + q * c.bq - c.window + 1
  <2>1. from \in Int
    BY <1>5, <1>7
  <2> HIDE DEF from
  <2>2. Max({0, from}) = IF 0 =< from THEN from ELSE 0
    BY <2>1, MinMaxIs
  <2>3. Max({0, from}) \div c.bkv \in Nat
    <3>1. Max({0, from}) \in Nat
      BY <2>1, <2>2
    <3> QED BY <1>5, <3>1, QuotientIs
  <2>4. WindowStart(c, s, q) \in {0, Max({0, from}) \div c.bkv}
    BY DEF WindowStart, from
  <2> QED BY <2>3, <2>4
<1>9. StartK(c, s, q) \in Nat
  <2>1. CacheLen(c, s) \div c.bkv \in Int
    BY <1>5, <1>6
  <2>2. Max({WindowStart(c, s, q), CacheLen(c, s) \div c.bkv}) \in Nat
    <3> DEFINE a == WindowStart(c, s, q)
               b == CacheLen(c, s) \div c.bkv
    <3> HIDE DEF a, b
    <3>1. a \in Nat /\ a \in Int /\ b \in Int
      BY <1>8, <2>1 DEF a, b
    <3>2. Max({a, b}) = IF a =< b THEN b ELSE a
      BY <3>1, MinMaxIs
    <3>3. Max({a, b}) \in Nat
      BY <3>1, <3>2
    <3> QED BY <3>3 DEF a, b
  <2> QED BY <1>8, <2>2 DEF StartK
<1>10. EndK(c, s, q) \in Int
  <2> DEFINE n == CacheLen(c, s) + q * c.bq + QSize(c, s, q) - 1
             end == n \div c.bkv + 1
  <2>1. QSize(c, s, q) \in 0..c.bq
    <3>1. c.cu_q_lens[s + 1] - QSrc(c, s, q) \in Int
      BY <1>5, <1>7 DEF QSrc
    <3> QED BY <1>7, <3>1, ClipIs DEF QSize
  <2>2. n \in Int
    BY <1>5, <1>7, <2>1
  <2> HIDE DEF n
  <2>3. end \in Int /\ NumK(c, s) \in Int
    BY <1>5, <1>6, <2>2 DEF NumK
  <2> HIDE DEF end
  <2>4. Min({NumK(c, s), end}) \in Int
    BY <2>3, MinMaxInts
  <2> QED BY <2>4 DEF EndK, end, n
<1>11. k \in Nat
  BY <1>9, <1>10
<1> QED BY <1>3, <1>4, <1>7, <1>11 DEF IsBlock

-----------------------------------------------------------------------------
\* The steps that begin and end launches.

LaunchStart ==
  /\ IsConfig(c) /\ launch \in 1..3 /\ pc = "schedule"
  /\ work = Work(c) /\ smem = Starts(c).smem /\ sem = Starts(c).sem
  /\ count = 0 /\ offset = 0 /\ hbm = <<>> /\ chunk = 0 /\ flying = {}

LEMMA LaunchStartInv == LaunchStart => WaitInv
<1> SUFFICES ASSUME LaunchStart PROVE WaitInv
  OBVIOUS
<1> USE DEF LaunchStart
<1>1. IsConfig(c)
  OBVIOUS
<1>2. /\ DOMAIN sem = Kinds
      /\ \A kind \in Kinds :
           sem[kind] = [slot \in 0..(IF kind = "o" THEN 1 ELSE NBuffer - 1) |-> 0]
      /\ sem = [kind \in Kinds |-> sem[kind]]
  BY DEF Starts, Kinds
<1>3. ASSUME NEW kind \in Kinds PROVE sem[kind] = [slot \in 0..Slots(kind) - 1 |-> 0]
  BY <1>2 DEF Slots
<1>4. Shape(smem)
  <2> DEFINE entries == [i \in 0..MaxSteps * c.batch - 1 |-> <<>>]
             waits == [j \in 0..MaxSteps - 1 |-> <<>>]
  <2>1. smem = [entries |-> entries, waits |-> waits]
    BY DEF Starts
  <2>2. entries = [i \in 0..Capacity - 1 |-> entries[i]] /\ waits = [j \in 0..MaxSteps - 1 |-> waits[j]]
    BY DEF Capacity
  <2> HIDE DEF entries, waits
  <2> QED BY <2>1, <2>2 DEF Shape
<1>5. Scheduling
  <2>1. \A block \in work : IsBlock(block)
    BY WorkIs
  <2>2. count \in 0..Capacity - 1 /\ \A i \in 0..count - 1 : Filed(c, smem.entries[i])
    BY Room DEF Positive
  <2>3. hbm \in Seq({}) /\ Len(hbm) = 0 /\ offset = MaxSteps * Len(hbm)
    BY Room DEF Positive
  <2> QED BY <1>4, <2>1, <2>2, <2>3 DEF Scheduling
<1> QED BY <1>2, <1>3, <1>5 DEF WaitInv, Quiet

LEMMA NextLaunchStart == LaunchStart' => WaitInv'
BY LaunchStartInv, PTL

LEMMA InitWaitInv == Init => WaitInv
<1> SUFFICES ASSUME Init PROVE WaitInv
  OBVIOUS
<1>1. PICK args \in Calls : c = Config(args, 1)
  BY DEF Init
<1>2. IsConfig(c)
  <2>1. IsCall(args) /\ 1 \in 1..3
    BY CallsAssumption
  <2> QED BY <1>1, <2>1, ConfigIs
<1>3. LaunchStart
  <2>1. /\ launch = 1 /\ pc = "schedule" /\ work = Starts(c).work /\ smem = Starts(c).smem
        /\ sem = Starts(c).sem /\ count = 0 /\ offset = 0 /\ hbm = <<>> /\ chunk = 0 /\ flying = {}
    BY DEF Init
  <2>2. Starts(c).work = Work(c)
    BY DEF Starts
  <2> QED BY <1>2, <2>1, <2>2 DEF LaunchStart
<1> QED BY <1>3, LaunchStartInv

LEMMA NextLaunchStep == WaitInv /\ NextLaunch => WaitInv'
<1> SUFFICES ASSUME WaitInv, NextLaunch PROVE WaitInv'
  OBVIOUS
<1>1. /\ pc = "load" /\ launch < 3 /\ launch' = launch + 1 /\ c' = Config(c, launch + 1)
      /\ work' = Starts(c').work /\ smem' = Starts(c').smem /\ sem' = Starts(c').sem
      /\ count' = 0 /\ offset' = 0 /\ hbm' = <<>> /\ chunk' = 0
      /\ pc' = "schedule" /\ flying' = flying
  BY DEF NextLaunch
<1>2. IsConfig(c) /\ launch \in 1..3 /\ flying = {}
  BY <1>1 DEF WaitInv, Quiet
<1>3. launch' \in 1..3 /\ IsConfig(c')
  <2>1. launch + 1 \in 1..3
    BY <1>1, <1>2
  <2>2. IsCall(c)
    BY <1>2 DEF IsConfig
  <2> QED BY <1>1, <2>1, <2>2, ConfigIs
<1>4. work' = Work(c')
  BY <1>1 DEF Starts
<1>5. LaunchStart'
  BY <1>1, <1>2, <1>3, <1>4 DEF LaunchStart
<1> QED BY <1>5, NextLaunchStart

\* What the invariant says outside the pipeline does not change there.
LEMMA FinishStep == WaitInv /\ (Finish \/ UNCHANGED vars) => WaitInv'
<1> SUFFICES ASSUME WaitInv, Finish \/ UNCHANGED vars PROVE WaitInv'
  OBVIOUS
<1>1. CASE Finish
  <2>1. /\ pc = "load" /\ pc' = "done" /\ c' = c /\ launch' = launch /\ flying' = flying /\ sem' = sem
    BY <1>1 DEF Finish, pipeline
  <2> QED BY <2>1 DEF WaitInv, Quiet, Copied, Lanes
<1>2. CASE UNCHANGED vars
  <2>1. /\ c' = c /\ launch' = launch /\ pc' = pc /\ work' = work /\ count' = count
        /\ offset' = offset /\ smem' = smem /\ hbm' = hbm /\ steps' = steps /\ chunk' = chunk
        /\ cur' = cur /\ issued' = issued /\ retired' = retired /\ flying' = flying /\ sem' = sem
    BY <1>2 DEF vars, schedule, pipeline
  <2>2. Scheduling' = Scheduling
    BY <2>1 DEF Scheduling, IsBlock, Shape, Capacity, StepOK, Moves, Lanes
  <2>3. Scheduled' = Scheduled
    BY <2>1 DEF Scheduled, NumChunks, StepsIn, StepOK, Moves, Lanes
  <2>4. Running' = Running
    BY <2>1 DEF Running, NumChunks, ChunkSteps, First, Past, StepOK, Moves, Lanes, KindInv, Landed
  <2> QED BY <2>1, <2>2, <2>3, <2>4 DEF WaitInv, Quiet, Copied, Lanes
<1> QED BY <1>1, <1>2

-----------------------------------------------------------------------------
\* The steps of the schedule's kernel.

LEMMA AppendIs ==
  ASSUME NEW q, \E S : q \in Seq(S), NEW x
  PROVE  /\ \E S : Append(q, x) \in Seq(S)
         /\ Len(q) \in Nat /\ Len(Append(q, x)) = Len(q) + 1
         /\ \A i \in 1..Len(q) : Append(q, x)[i] = q[i]
         /\ Append(q, x)[Len(q) + 1] = x
<1>1. PICK S : q \in Seq(S)
  OBVIOUS
<1>2. q \in Seq(S \cup {x}) /\ x \in S \cup {x}
  BY <1>1
<1>3. Append(q, x) \in Seq(S \cup {x})
  BY <1>2
<1>4. /\ Len(q) \in Nat /\ Len(Append(q, x)) = Len(q) + 1
      /\ \A i \in 1..Len(q) : Append(q, x)[i] = q[i]
      /\ Append(q, x)[Len(q) + 1] = x
  BY <1>1, <1>2
<1> QED BY <1>3, <1>4

\* The invariant in the schedule's kernel is about the schedule.
LEMMA StillScheduling ==
  ASSUME WaitInv, pc = "schedule", pc' = "schedule", c' = c, launch' = launch,
         flying' = flying, sem' = sem, chunk' = chunk,
         \A block \in work' : block \in work,
         Shape(smem'), count' \in 0..Capacity - 1,
         \A i \in 0..count' - 1 : Filed(c, smem'.entries[i]),
         \E S : hbm' \in Seq(S),
         offset' = MaxSteps * Len(hbm'),
         \A i \in 1..Len(hbm') : \A j \in 0..MaxSteps - 1 : StepOK(hbm'[i], j)
  PROVE  WaitInv'
<1>1. Scheduling'
  <2>1. \A block \in work' : IsBlock(block)'
    BY DEF WaitInv, Scheduling, IsBlock
  <2>2. Shape(smem)'
    BY DEF Shape, Capacity
  <2>3. (count \in 0..Capacity - 1)'
    BY DEF Capacity
  <2>4. (\A i \in 1..Len(hbm) : \A j \in 0..MaxSteps - 1 : StepOK(hbm[i], j))'
    BY DEF StepOK, Moves, Lanes
  <2>5. (chunk = 0)'
    BY DEF WaitInv, Scheduling
  <2> QED BY <2>1, <2>2, <2>3, <2>4, <2>5 DEF Scheduling
<1> QED BY <1>1 DEF WaitInv, Quiet, Copied, Lanes

LEMMA ScheduleStep == WaitInv /\ Schedule => WaitInv'
<1> SUFFICES ASSUME WaitInv, Schedule PROVE WaitInv'
  OBVIOUS
<1>1. PICK block \in work : ScheduleBlock(block)
  BY DEF Schedule
<1> DEFINE e == Entry(c, block[1], block[2], block[3])
           filled == [smem EXCEPT !.entries[count] = e]
           entries == [i \in 0..Capacity - 1 |-> IF i = count THEN e ELSE smem.entries[i]]
<1>2. pc = "schedule" /\ IsConfig(c) /\ Scheduling
  BY DEF Schedule, WaitInv
<1>3. /\ pc' = pc /\ c' = c /\ launch' = launch /\ flying' = flying /\ sem' = sem /\ chunk' = chunk
      /\ work' = work \ {block}
  BY <1>1 DEF ScheduleBlock, pipeline
<1>4. Capacity \in Nat /\ count \in 0..Capacity - 1 /\ count \in Nat
  BY <1>2, Room DEF Scheduling, Positive
<1>5. filled = [entries |-> entries, waits |-> smem.waits]
  <2>1. /\ smem = [entries |-> smem.entries, waits |-> smem.waits]
        /\ smem.entries = [i \in 0..Capacity - 1 |-> smem.entries[i]]
    BY <1>2 DEF Scheduling, Shape
  <2> DEFINE old == smem.entries
  <2>2. [old EXCEPT ![count] = e] = entries
    <3> HIDE DEF e
    <3> QED BY <1>4, <2>1
  <2>3. filled = [smem EXCEPT !.entries = [old EXCEPT ![count] = e]]
    BY <2>1
  <2> HIDE DEF entries, filled, e
  <2>4. [smem EXCEPT !.entries = entries] = [entries |-> entries, waits |-> smem.waits]
    BY <2>1, RecordsIs
  <2> QED BY <2>2, <2>3, <2>4
<1>6. Shape(filled) /\ \A i \in 0..count : Filed(c, filled.entries[i])
  <2>1. filled.entries = entries /\ filled.waits = smem.waits
    BY <1>5
  <2>2. Filed(c, e)
    <3>1. IsBlock(block)
      BY <1>2 DEF Scheduling
    <3> QED BY <3>1 DEF IsBlock, Filed, e
  <2>3. entries = [i \in 0..Capacity - 1 |-> entries[i]]
    OBVIOUS
  <2>4. smem.waits = [j \in 0..MaxSteps - 1 |-> smem.waits[j]]
    BY <1>2 DEF Scheduling, Shape
  <2>5. ASSUME NEW i \in 0..count PROVE Filed(c, entries[i])
    <3> HIDE DEF e
    <3>1. i \in 0..Capacity - 1 /\ (i = count \/ i \in 0..count - 1)
      BY <1>4
    <3>2. entries[i] = IF i = count THEN e ELSE smem.entries[i]
      BY <3>1
    <3>3. i # count => Filed(c, smem.entries[i])
      BY <1>2, <3>1 DEF Scheduling
    <3> HIDE DEF entries
    <3> QED BY <2>2, <3>2, <3>3
  <2> HIDE DEF entries, filled
  <2> QED BY <1>5, <2>1, <2>3, <2>4, <2>5 DEF Shape
<1> HIDE DEF filled, entries, e
<1>7. CASE count + 1 = Capacity
  <2>1. /\ smem' = Flush(filled, Capacity) /\ hbm' = Append(hbm, smem')
        /\ count' = 0 /\ offset' = offset + MaxSteps
    BY <1>1, <1>7 DEF ScheduleBlock, filled, e
  <2>2. CeilDiv(Capacity, c.batch) = MaxSteps
    <3> DEFINE n == CeilDiv(Capacity, c.batch)
    <3>1. n \in 0..MaxSteps /\ MaxSteps \in Nat /\ c.batch \in Positive
      BY <1>2, <1>4, StepsOf, Room DEF Positive
    <3>2. Capacity =< c.batch * n
      BY <1>4, <3>1, CeilDivIs
    <3> HIDE DEF n
    <3>3. ~(n < MaxSteps)
      <4> SUFFICES ASSUME n < MaxSteps PROVE FALSE
        OBVIOUS
      <4>1. c.batch * MaxSteps - c.batch * n >= c.batch
        BY <3>1, Multiple
      <4>2. c.batch * MaxSteps = Capacity /\ c.batch * n \in Int /\ c.batch \in Nat /\ c.batch > 0
        BY <3>1 DEF Capacity, Positive
      <4> QED BY <1>4, <3>2, <4>1, <4>2
    <3> QED BY <3>1, <3>3 DEF n
  <2>3. Shape(smem') /\ \A j \in 0..MaxSteps - 1 : StepOK(smem', j)
    <3>1. Capacity \in 0..Capacity /\ \A i \in 0..Capacity - 1 : Filed(c, filled.entries[i])
      BY <1>4, <1>6, <1>7
    <3> QED BY <1>2, <1>6, <2>1, <2>2, <3>1, FlushIs
  <2>4. /\ \E S : hbm' \in Seq(S)
        /\ Len(hbm) \in Nat /\ Len(hbm') = Len(hbm) + 1
        /\ \A i \in 1..Len(hbm) : hbm'[i] = hbm[i]
        /\ hbm'[Len(hbm) + 1] = smem'
    <3>1. \E S : hbm \in Seq(S)
      BY <1>2 DEF Scheduling
    <3> DEFINE x == smem'
               q == Append(hbm, x)
    <3> HIDE DEF x
    <3>2. /\ \E S : Append(hbm, x) \in Seq(S)
          /\ Len(hbm) \in Nat /\ Len(Append(hbm, x)) = Len(hbm) + 1
          /\ \A i \in 1..Len(hbm) : Append(hbm, x)[i] = hbm[i]
          /\ Append(hbm, x)[Len(hbm) + 1] = x
      BY <3>1, AppendIs, Zenon
    <3>3. hbm' = q
      BY <2>1 DEF x
    <3> HIDE DEF q
    <3> QED BY <3>2, <3>3 DEF q, x
  <2>5. offset' = MaxSteps * Len(hbm')
    <3>1. MaxSteps \in Nat /\ offset = MaxSteps * Len(hbm)
      BY <1>2, Room DEF Scheduling, Positive
    <3> QED BY <2>1, <2>4, <3>1
  <2>6. \A i \in 1..Len(hbm') : \A j \in 0..MaxSteps - 1 : StepOK(hbm'[i], j)
    <3> SUFFICES ASSUME NEW i \in 1..Len(hbm') PROVE \A j \in 0..MaxSteps - 1 : StepOK(hbm'[i], j)
      OBVIOUS
    <3>1. i \in 1..Len(hbm) \/ i = Len(hbm) + 1
      BY <2>4
    <3> QED BY <1>2, <2>3, <2>4, <3>1 DEF Scheduling
  <2>7. count' \in 0..Capacity - 1 /\ \A i \in 0..count' - 1 : Filed(c, smem'.entries[i])
    BY <1>4, <2>1
  <2> QED BY <1>2, <1>3, <2>3, <2>4, <2>5, <2>6, <2>7, StillScheduling
<1>8. CASE count + 1 # Capacity
  <2>1. smem' = filled /\ hbm' = hbm /\ count' = count + 1 /\ offset' = offset
    BY <1>1, <1>8 DEF ScheduleBlock, filled, e
  <2>2. count' \in 0..Capacity - 1 /\ \A i \in 0..count' - 1 : Filed(c, smem'.entries[i])
    <3>1. count + 1 \in 0..Capacity - 1 /\ (count + 1) - 1 = count
      BY <1>4, <1>8
    <3> QED BY <1>6, <2>1, <3>1
  <2> QED BY <1>2, <1>3, <1>6, <2>1, <2>2, StillScheduling DEF Scheduling
<1> QED BY <1>7, <1>8

\* Whole chunks of MaxSteps steps, and what is left of the steps.
LEMMA ChunksOf ==
  ASSUME NEW n \in Nat, NEW last \in 0..MaxSteps, NEW t, t = last + MaxSteps * n
  PROVE  /\ CeilDiv(t, MaxSteps) = IF last = 0 THEN n ELSE n + 1
         /\ t % MaxSteps = IF last = MaxSteps THEN 0 ELSE last
<1> DEFINE m == MaxSteps
           u == CeilDiv(t, m)
<1>1. m \in Positive /\ m \in Nat /\ m > 0
  BY BufferAssumption DEF Positive
<1>2. m * n \in Nat /\ last \in Nat /\ last =< m /\ t \in Nat /\ m * (n + 1) = m * n + m
  BY <1>1
<1>3. u \in Nat /\ t =< m * u /\ \A b \in Nat : t =< m * b => u =< b
  BY <1>1, <1>2, CeilDivIs
<1> HIDE DEF u, m
<1>4. m * u \in Nat
  BY <1>1, <1>3
<1>5. ~(u < n)
  <2> SUFFICES ASSUME u < n PROVE FALSE
    OBVIOUS
  <2>1. m * n - m * u >= m
    BY <1>1, <1>3, Multiple
  <2> QED BY <1>1, <1>2, <1>3, <1>4, <2>1 DEF m
<1>6. CASE last = 0
  <2>1. u =< n
    BY <1>2, <1>3, <1>6 DEF m
  <2>2. u = n
    BY <1>3, <1>5, <2>1
  <2>3. t = m * n + 0 /\ 0 \in 0..m - 1
    BY <1>1, <1>2, <1>6 DEF m
  <2>4. t % m = 0
    BY <1>1, <2>3, DivisionIs
  <2> QED BY <1>1, <1>6, <2>2, <2>4 DEF u, m
<1>7. CASE last # 0
  <2>1. u # n
    BY <1>2, <1>3, <1>7 DEF m
  <2>2. u =< n + 1
    <3> DEFINE b == n + 1
               p == m * n
               r == m * b
    <3>0. b \in Nat /\ p \in Nat /\ r = p + m /\ t = last + p /\ last =< m /\ last \in Nat /\ m \in Nat
      BY <1>1, <1>2 DEF m
    <3> HIDE DEF b, p, r
    <3>1. b \in Nat /\ t =< m * b
      <4>1. t =< r
        BY <3>0
      <4> QED BY <3>0, <4>1 DEF r
    <3> HIDE DEF b
    <3>2. u =< b
      BY <1>3, <3>1
    <3> QED BY <3>2 DEF b
  <2>3. u = n + 1
    BY <1>3, <1>5, <2>1, <2>2
  <2>4. CASE last = m
    <3>1. t = m * (n + 1) + 0 /\ n + 1 \in Int /\ 0 \in 0..m - 1
      BY <1>1, <1>2, <2>4 DEF m
    <3>2. t % m = 0
      BY <1>1, <3>1, DivisionIs
    <3> QED BY <1>7, <2>3, <2>4, <3>2 DEF u, m
  <2>5. CASE last # m
    <3>1. t = m * n + last /\ last \in 0..m - 1
      BY <1>1, <1>2, <2>5 DEF m
    <3>2. t % m = last
      BY <1>1, <3>1, DivisionIs
    <3> QED BY <1>7, <2>3, <2>5, <3>2 DEF u, m
  <2> QED BY <2>4, <2>5
<1> QED BY <1>6, <1>7

LEMMA FinishScheduleStep == WaitInv /\ FinishSchedule => WaitInv'
<1> SUFFICES ASSUME WaitInv, FinishSchedule PROVE WaitInv'
  OBVIOUS
<1> DEFINE last == CeilDiv(count, c.batch)
           n == Len(hbm)
<1>1. /\ pc = "schedule" /\ pc' = "load" /\ c' = c /\ launch' = launch
      /\ flying' = flying /\ sem' = sem /\ chunk' = chunk
      /\ steps' = last + offset /\ smem' = Flush(smem, count) /\ hbm' = Append(hbm, smem')
  BY DEF FinishSchedule, pipeline
<1>2. IsConfig(c) /\ Scheduling
  BY <1>1 DEF WaitInv
<1>3. Capacity \in Nat /\ MaxSteps \in Nat /\ MaxSteps > 0 /\ count \in 0..Capacity
  BY <1>2, Room DEF Scheduling, Positive
<1>4. last \in 0..MaxSteps
  BY <1>2, <1>3, StepsOf
<1>5. \A j \in 0..last - 1 : StepOK(smem', j)
  BY <1>1, <1>2, <1>3, FlushIs DEF Scheduling
<1>6. /\ n \in Nat
      /\ \A i \in 1..n : hbm'[i] = hbm[i]
      /\ hbm'[n + 1] = smem'
  <2>1. \E S : hbm \in Seq(S)
    BY <1>2 DEF Scheduling
  <2> DEFINE x == smem'
             q == Append(hbm, x)
  <2> HIDE DEF x
  <2>2. /\ Len(hbm) \in Nat
        /\ \A i \in 1..Len(hbm) : Append(hbm, x)[i] = hbm[i]
        /\ Append(hbm, x)[Len(hbm) + 1] = x
    BY <2>1, AppendIs, Zenon
  <2>3. hbm' = q
    BY <1>1 DEF x
  <2> HIDE DEF q
  <2> QED BY <2>2, <2>3 DEF q, x
<1>7. steps' = last + MaxSteps * n
  BY <1>1, <1>2 DEF Scheduling
<1> HIDE DEF last, n
<1>8. /\ NumChunks' = IF last = 0 THEN n ELSE n + 1
      /\ steps' % MaxSteps = IF last = MaxSteps THEN 0 ELSE last
  BY <1>4, <1>6, <1>7, ChunksOf DEF NumChunks
<1>9. Scheduled'
  <2>1. NumChunks' \in Nat /\ chunk' \in 0..NumChunks'
    BY <1>1, <1>2, <1>6, <1>8 DEF Scheduling
  <2>2. ASSUME NEW i \in 0..NumChunks' - 1
        PROVE  /\ StepsIn(i)' \in 0..MaxSteps
               /\ \A j \in 0..StepsIn(i)' - 1 : StepOK(hbm'[i + 1], j)
    <3>1. StepsIn(i)' = IF i < NumChunks' - 1 \/ steps' % MaxSteps = 0 THEN MaxSteps
                        ELSE steps' % MaxSteps
      BY DEF StepsIn
    <3>2. CASE i < n
      <4>1. StepsIn(i)' = MaxSteps
        BY <1>3, <1>4, <1>6, <1>8, <3>1, <3>2
      <4>2. i + 1 \in 1..n
        BY <1>6, <3>2, <2>1
      <4>3. hbm'[i + 1] = hbm[i + 1] /\ \A j \in 0..MaxSteps - 1 : StepOK(hbm[i + 1], j)
        BY <1>2, <1>6, <4>2 DEF Scheduling, n
      <4> QED BY <1>3, <4>1, <4>3
    <3>3. CASE ~(i < n)
      <4>1. last # 0 /\ i = n /\ NumChunks' = n + 1
        BY <1>6, <1>8, <2>1, <3>3
      <4>2. StepsIn(i)' = last
        BY <1>3, <1>4, <1>6, <1>8, <3>1, <4>1
      <4> QED BY <1>4, <1>5, <1>6, <4>1, <4>2
    <3> QED BY <3>2, <3>3
  <2> QED BY <1>1, <2>1, <2>2 DEF Scheduled, StepOK, Moves, Lanes
<1> QED BY <1>1, <1>9 DEF WaitInv, Quiet, Copied, Lanes

-----------------------------------------------------------------------------
\* The steps of the pipeline.

LEMMA ChunkStepsIs == ChunkSteps = StepsIn(chunk)
BY DEF ChunkSteps, StepsIn

LEMMA StillScheduled ==
  ASSUME Scheduled, c' = c, hbm' = hbm, steps' = steps, chunk' \in 0..NumChunks
  PROVE  Scheduled'
<1>1. NumChunks' = NumChunks /\ \A i : StepsIn(i)' = StepsIn(i)
  BY DEF NumChunks, StepsIn
<1>2. \A i, j : StepOK(hbm[i + 1], j) => StepOK(hbm[i + 1], j)'
  BY DEF StepOK, Moves, Lanes
<1> HIDE DEF NumChunks, StepsIn
<1> QED BY <1>1, <1>2 DEF Scheduled

LEMMA LoadChunkStep == WaitInv /\ LoadChunk => WaitInv'
<1> SUFFICES ASSUME WaitInv, LoadChunk PROVE WaitInv'
  OBVIOUS
<1>1. /\ pc = "load" /\ pc' = "run" /\ chunk < NumChunks /\ smem' = hbm[chunk + 1]
      /\ cur' = 0 /\ issued' = 0 /\ retired' = 0
      /\ c' = c /\ launch' = launch /\ hbm' = hbm /\ steps' = steps /\ chunk' = chunk
      /\ flying' = flying /\ sem' = sem
  BY DEF LoadChunk
<1>2. IsConfig(c) /\ Scheduled /\ Quiet
  BY <1>1 DEF WaitInv
<1>3. Scheduled'
  <2>1. chunk' \in 0..NumChunks
    BY <1>1, <1>2 DEF Scheduled
  <2> QED BY <1>1, <1>2, <2>1, StillScheduled
<1>4. ChunkSteps \in Nat /\ \A j \in 0..ChunkSteps - 1 : StepOK(smem', j)
  <2>1. chunk \in 0..NumChunks - 1 /\ MaxSteps \in Nat
    BY <1>1, <1>2, Room DEF Scheduled, Positive
  <2>2. StepsIn(chunk) \in 0..MaxSteps /\ \A j \in 0..StepsIn(chunk) - 1 : StepOK(hbm[chunk + 1], j)
    BY <1>2, <2>1 DEF Scheduled
  <2> QED BY <1>1, <2>1, <2>2, ChunkStepsIs
<1>5. ChunkSteps' = ChunkSteps
  BY <1>1 DEF ChunkSteps, NumChunks
<1>6. ASSUME NEW kind \in Kinds
      PROVE  KindInv(kind, First(kind), Past(kind), flying, sem[kind])'
  <2>1. First(kind)' = 0 /\ Past(kind)' = 0
    BY <1>1 DEF First, Past
  <2>2. sem[kind] = [slot \in 0..Slots(kind) - 1 |-> 0] /\ flying = {}
    BY <1>2 DEF Quiet
  <2>3. Slots(kind) \in Nat
    <3>1. 0 \in Nat
      OBVIOUS
    <3> QED BY <3>1, SlotIs DEF Positive
  <2>4. sem[kind] \in [0..Slots(kind) - 1 -> Nat] /\ \A slot \in 0..Slots(kind) - 1 : sem[kind][slot] = 0
    BY <2>2
  <2>5. 0..0 - 1 = {}
    OBVIOUS
  <2> QED BY <1>1, <2>1, <2>2, <2>3, <2>4, <2>5 DEF KindInv
<1>7. Running'
  <2>1. (chunk < NumChunks)' /\ (\A j \in 0..ChunkSteps - 1 : StepOK(smem, j))'
    BY <1>1, <1>4, <1>5 DEF NumChunks, StepOK, Moves, Lanes
  <2>2. /\ retired' \in Nat /\ cur' \in Nat /\ issued' \in Nat
        /\ retired' =< cur' /\ cur' =< issued' /\ issued' =< ChunkSteps'
        /\ issued' =< retired' + NBuffer /\ cur' =< retired' + 2
    BY <1>1, <1>4, <1>5, BufferAssumption DEF Positive
  <2> QED BY <1>6, <2>1, <2>2 DEF Running
<1> QED BY <1>1, <1>3, <1>7 DEF WaitInv, Quiet, Copied, Lanes

\* The invariant in the pipeline is about the copies.
LEMMA StillRunning ==
  ASSUME WaitInv, pc = "run", pc' = "run",
         c' = c, launch' = launch, UNCHANGED schedule, chunk' = chunk,
         flying' \subseteq Copied, sem' = [kind \in Kinds |-> sem'[kind]],
         retired' \in Nat, cur' \in Nat, issued' \in Nat,
         retired' =< cur', cur' =< issued', issued' =< ChunkSteps,
         issued' =< retired' + NBuffer, cur' =< retired' + 2,
         \A kind \in Kinds : KindInv(kind, First(kind)', Past(kind)', flying', sem'[kind])
  PROVE  WaitInv'
<1>1. hbm' = hbm /\ steps' = steps /\ smem' = smem
  BY DEF schedule
<1>2. Scheduled'
  <2>1. Scheduled
    BY DEF WaitInv
  <2>2. chunk' \in 0..NumChunks
    BY <2>1 DEF Scheduled
  <2> QED BY <1>1, <2>1, <2>2, StillScheduled
<1>3. ASSUME NEW kind \in Kinds
      PROVE  KindInv(kind, First(kind), Past(kind), flying, sem[kind])'
  <2>1. KindInv(kind, First(kind)', Past(kind)', flying', sem'[kind])
    OBVIOUS
  <2> QED BY <1>1, <2>1 DEF KindInv, StepOK, Moves, Lanes, Landed
<1>4. Running'
  <2>1. Running
    BY DEF WaitInv
  <2>2. (chunk < NumChunks)' /\ (\A j \in 0..ChunkSteps - 1 : StepOK(smem, j))'
    BY <1>1, <2>1 DEF Running, NumChunks, ChunkSteps, StepOK, Moves, Lanes
  <2>3. ChunkSteps' = ChunkSteps
    BY <1>1 DEF ChunkSteps, NumChunks
  <2> QED BY <1>3, <2>2, <2>3 DEF Running
<1> QED BY <1>2, <1>4 DEF WaitInv, Quiet, Copied, Lanes

LEMMA EndChunkStep == WaitInv /\ EndChunk => WaitInv'
<1> SUFFICES ASSUME WaitInv, EndChunk PROVE WaitInv'
  OBVIOUS
<1>1. /\ pc = "run" /\ pc' = "load" /\ retired = ChunkSteps /\ chunk' = chunk + 1
      /\ c' = c /\ launch' = launch /\ hbm' = hbm /\ steps' = steps
      /\ flying' = flying /\ sem' = sem
  BY DEF EndChunk, schedule, pipeline
<1>2. Running /\ Scheduled
  BY <1>1 DEF WaitInv
<1>3. cur = retired /\ issued = retired /\ retired \in Nat
  BY <1>1, <1>2 DEF Running
<1>4. \A kind \in Kinds : First(kind) = retired /\ Past(kind) = retired
  BY <1>3 DEF First, Past
<1>5. retired..retired - 1 = {}
  BY <1>3
<1>6. \A kind \in Kinds : KindInv(kind, retired, retired, flying, sem[kind])
  BY <1>2, <1>4 DEF Running
<1>7. flying = {}
  <2> SUFFICES ASSUME NEW copy \in flying PROVE FALSE
    OBVIOUS
  <2>1. copy.kind \in Kinds
    BY DEF WaitInv, Copied
  <2>2. copy.step \in retired..retired - 1
    BY <1>6, <2>1 DEF KindInv
  <2> QED BY <1>5, <2>2
<1>8. ASSUME NEW kind \in Kinds PROVE sem[kind] = [slot \in 0..Slots(kind) - 1 |-> 0]
  <2>1. sem[kind] \in [0..Slots(kind) - 1 -> Nat] /\ \A slot \in 0..Slots(kind) - 1 : sem[kind][slot] = 0
    BY <1>5, <1>6 DEF KindInv
  <2> QED BY <2>1
<1>9. Quiet'
  BY <1>1, <1>7, <1>8 DEF Quiet
<1>10. Scheduled'
  <2>1. chunk + 1 \in 0..NumChunks
    BY <1>2 DEF Running, Scheduled
  <2> QED BY <1>1, <1>2, <2>1, StillScheduled
<1> QED BY <1>1, <1>9, <1>10 DEF WaitInv, Copied, Lanes

LEMMA WaitIs ==
  ASSUME sem = [kind \in Kinds |-> sem[kind]], NEW kinds, kinds \subseteq Kinds, NEW step,
         Wait(kinds, step)
  PROVE  /\ sem' = [kind \in Kinds |-> sem'[kind]]
         /\ \A kind \in kinds :
              /\ sem[kind][Slot(kind, step)] >= Need(kind, smem.waits[step])
              /\ sem'[kind] = [sem[kind] EXCEPT ![Slot(kind, step)] = @ - Need(kind, smem.waits[step])]
         /\ \A kind \in Kinds \ kinds : sem'[kind] = sem[kind]
<1>1. DOMAIN sem = Kinds
  OBVIOUS
<1>2. sem' = [kind \in Kinds |->
        IF kind \in kinds
        THEN [sem[kind] EXCEPT ![Slot(kind, step)] = @ - Need(kind, smem.waits[step])]
        ELSE sem[kind]]
  BY <1>1 DEF Wait
<1>3. \A kind \in kinds : sem[kind][Slot(kind, step)] >= Need(kind, smem.waits[step])
  BY DEF Wait
<1> QED BY <1>2, <1>3

\* What the invariant says of a run, by kind.
LEMMA RunningIs ==
  ASSUME WaitInv, pc = "run"
  PROVE  /\ IsConfig(c) /\ flying \subseteq Copied /\ sem = [kind \in Kinds |-> sem[kind]]
         /\ NBuffer \in Nat
         /\ retired \in Nat /\ cur \in Nat /\ issued \in Nat /\ ChunkSteps \in Int
         /\ retired =< cur /\ cur =< issued /\ issued =< ChunkSteps
         /\ issued =< retired + NBuffer /\ cur =< retired + 2
         /\ \A j \in 0..ChunkSteps - 1 : StepOK(smem, j)
         /\ \A kind \in In : Slots(kind) = NBuffer /\ KindInv(kind, cur, issued, flying, sem[kind])
         /\ \A kind \in Out : /\ Slots(kind) \in {2, NBuffer}
                              /\ KindInv(kind, retired, cur, flying, sem[kind])
<1>1. Running /\ Scheduled
  BY DEF WaitInv
<1>2. NBuffer \in Nat
  BY BufferAssumption DEF Positive
<1>3. \A kind \in In : kind \in Kinds /\ kind # "o"
  BY KindsAre
<1>4. \A kind \in Out : kind \in Kinds /\ kind \notin In
  BY KindsAre
<1>5. \A kind \in In : Slots(kind) = NBuffer /\ KindInv(kind, cur, issued, flying, sem[kind])
  BY <1>1, <1>3 DEF Running, First, Past, Slots
<1>6. \A kind \in Out : /\ Slots(kind) \in {2, NBuffer}
                        /\ KindInv(kind, retired, cur, flying, sem[kind])
  BY <1>1, <1>2, <1>4 DEF Running, First, Past, Slots
<1>7. ChunkSteps \in Int
  <2>1. chunk \in 0..NumChunks - 1
    BY <1>1 DEF Running, Scheduled
  <2>2. StepsIn(chunk) \in 0..MaxSteps
    BY <1>1, <2>1 DEF Scheduled
  <2> QED BY <2>2, ChunkStepsIs
<1> QED BY <1>1, <1>2, <1>5, <1>6, <1>7 DEF WaitInv, Running

LEMMA IssueStep == WaitInv /\ Issue => WaitInv'
<1> SUFFICES ASSUME WaitInv, Issue PROVE WaitInv'
  OBVIOUS
<1>1. /\ pc = "run" /\ pc' = "run" /\ issued < ChunkSteps /\ issued - NBuffer < retired
      /\ flying' = flying \cup Copies(In, issued) /\ issued' = issued + 1
      /\ c' = c /\ launch' = launch /\ UNCHANGED schedule /\ chunk' = chunk
      /\ cur' = cur /\ retired' = retired /\ sem' = sem
  BY DEF Issue
<1>2. /\ IsConfig(c) /\ flying \subseteq Copied /\ sem = [kind \in Kinds |-> sem[kind]]
      /\ NBuffer \in Nat
      /\ retired \in Nat /\ cur \in Nat /\ issued \in Nat /\ ChunkSteps \in Int
      /\ retired =< cur /\ cur =< issued /\ cur =< retired + 2
      /\ \A j \in 0..ChunkSteps - 1 : StepOK(smem, j)
      /\ \A kind \in In : Slots(kind) = NBuffer /\ KindInv(kind, cur, issued, flying, sem[kind])
      /\ \A kind \in Out : KindInv(kind, retired, cur, flying, sem[kind])
  BY <1>1, RunningIs
<1>3. In \subseteq Kinds /\ Out \subseteq Kinds /\ \A kind \in Out : kind \notin In
  BY KindsAre
<1>4. Copies(In, issued) \subseteq Copied /\ \A copy \in Copies(In, issued) : copy.kind \in In
  BY <1>2, <1>3, CopiesAre
<1>5. ASSUME NEW kind \in In PROVE KindInv(kind, cur, issued', flying', sem'[kind])
  <2>1. StepOK(smem, issued)
    BY <1>1, <1>2
  <2>2. issued < cur + Slots(kind)
    BY <1>1, <1>2
  <2>3. KindInv(kind, cur, issued + 1, flying \cup Copies(In, issued), sem[kind])
    BY <1>2, <1>3, <2>1, <2>2, Started
  <2> QED BY <1>1, <2>3
<1>6. ASSUME NEW kind \in Out PROVE KindInv(kind, retired, cur, flying', sem'[kind])
  <2>1. \A copy \in flying \cup flying' : copy.kind = kind => (copy \in flying <=> copy \in flying')
    BY <1>1, <1>3, <1>4
  <2>2. KindInv(kind, retired, cur, flying', sem[kind])
    BY <1>2, <2>1, Others
  <2> QED BY <1>1, <2>2
<1>7. ASSUME NEW kind \in Kinds PROVE KindInv(kind, First(kind)', Past(kind)', flying', sem'[kind])
  <2>1. CASE kind \in In
    BY <1>1, <1>5, <2>1 DEF First, Past
  <2>2. CASE kind \in Out
    <3>1. First(kind)' = retired /\ Past(kind)' = cur
      BY <1>1, <1>3, <2>2 DEF First, Past
    <3> QED BY <1>6, <2>2, <3>1
  <2> QED BY <2>1, <2>2 DEF Kinds
<1>8. /\ issued' \in Nat /\ cur' =< issued' /\ issued' =< ChunkSteps
      /\ issued' =< retired' + NBuffer
  BY <1>1, <1>2
<1>9. flying' \subseteq Copied
  BY <1>1, <1>2, <1>4
<1> QED BY <1>1, <1>2, <1>7, <1>8, <1>9, StillRunning

LEMMA RetireStep == WaitInv /\ Retire => WaitInv'
<1> SUFFICES ASSUME WaitInv, Retire PROVE WaitInv'
  OBVIOUS
<1>1. /\ pc = "run" /\ pc' = "run" /\ retired < cur /\ Wait(Out, retired) /\ retired' = retired + 1
      /\ c' = c /\ launch' = launch /\ UNCHANGED schedule /\ chunk' = chunk
      /\ cur' = cur /\ issued' = issued /\ flying' = flying
  BY DEF Retire
<1>2. /\ IsConfig(c) /\ flying \subseteq Copied /\ sem = [kind \in Kinds |-> sem[kind]]
      /\ NBuffer \in Nat
      /\ retired \in Nat /\ cur \in Nat /\ issued \in Nat
      /\ cur =< issued /\ issued =< ChunkSteps
      /\ issued =< retired + NBuffer /\ cur =< retired + 2
      /\ \A kind \in In : KindInv(kind, cur, issued, flying, sem[kind])
      /\ \A kind \in Out : KindInv(kind, retired, cur, flying, sem[kind])
  BY <1>1, RunningIs
<1>3. In \subseteq Kinds /\ Out \subseteq Kinds /\ \A kind \in Out : kind \notin In
  BY KindsAre
<1>4. /\ sem' = [kind \in Kinds |-> sem'[kind]]
      /\ \A kind \in Out :
           /\ sem[kind][Slot(kind, retired)] >= Need(kind, smem.waits[retired])
           /\ sem'[kind] = [sem[kind] EXCEPT ![Slot(kind, retired)] =
                              @ - Need(kind, smem.waits[retired])]
      /\ \A kind \in Kinds \ Out : sem'[kind] = sem[kind]
  BY <1>1, <1>2, <1>3, WaitIs
<1>5. ASSUME NEW kind \in Out PROVE KindInv(kind, retired + 1, cur, flying, sem'[kind])
  BY <1>1, <1>2, <1>3, <1>4, Waited
<1>6. ASSUME NEW kind \in Kinds PROVE KindInv(kind, First(kind)', Past(kind)', flying', sem'[kind])
  <2>1. CASE kind \in In
    <3>1. First(kind)' = cur /\ Past(kind)' = issued /\ sem'[kind] = sem[kind]
      BY <1>1, <1>3, <1>4, <2>1 DEF First, Past
    <3> QED BY <1>1, <1>2, <2>1, <3>1
  <2>2. CASE kind \in Out
    <3>1. First(kind)' = retired + 1 /\ Past(kind)' = cur
      BY <1>1, <1>3, <2>2 DEF First, Past
    <3> QED BY <1>1, <1>5, <2>2, <3>1
  <2> QED BY <2>1, <2>2 DEF Kinds
<1>7. /\ retired' \in Nat /\ retired' =< cur' /\ issued' =< retired' + NBuffer
      /\ cur' =< retired' + 2
  BY <1>1, <1>2
<1> QED BY <1>1, <1>2, <1>4, <1>6, <1>7, StillRunning

LEMMA ComputeStep == WaitInv /\ Compute => WaitInv'
<1> SUFFICES ASSUME WaitInv, Compute PROVE WaitInv'
  OBVIOUS
<1>1. /\ pc = "run" /\ pc' = "run" /\ cur < issued /\ retired >= cur - 1 /\ Wait(In, cur)
      /\ flying' = flying \cup Copies(Out, cur) /\ cur' = cur + 1
      /\ c' = c /\ launch' = launch /\ UNCHANGED schedule /\ chunk' = chunk
      /\ issued' = issued /\ retired' = retired
  BY DEF Compute
<1>2. /\ IsConfig(c) /\ flying \subseteq Copied /\ sem = [kind \in Kinds |-> sem[kind]]
      /\ retired \in Nat /\ cur \in Nat /\ issued \in Nat /\ ChunkSteps \in Int
      /\ NBuffer \in Nat
      /\ retired =< cur /\ issued =< ChunkSteps /\ issued =< retired + NBuffer
      /\ \A j \in 0..ChunkSteps - 1 : StepOK(smem, j)
      /\ \A kind \in In : KindInv(kind, cur, issued, flying, sem[kind])
      /\ \A kind \in Out : /\ Slots(kind) \in {2, NBuffer}
                           /\ KindInv(kind, retired, cur, flying, sem[kind])
  BY <1>1, RunningIs
<1>3. In \subseteq Kinds /\ Out \subseteq Kinds /\ \A kind \in Out : kind \notin In
  BY KindsAre
<1>4. /\ sem' = [kind \in Kinds |-> sem'[kind]]
      /\ \A kind \in In :
           /\ sem[kind][Slot(kind, cur)] >= Need(kind, smem.waits[cur])
           /\ sem'[kind] = [sem[kind] EXCEPT ![Slot(kind, cur)] = @ - Need(kind, smem.waits[cur])]
      /\ \A kind \in Kinds \ In : sem'[kind] = sem[kind]
  BY <1>1, <1>2, <1>3, WaitIs
<1>5. Copies(Out, cur) \subseteq Copied /\ \A copy \in Copies(Out, cur) : copy.kind \in Out
  BY <1>2, <1>3, CopiesAre
<1>6. ASSUME NEW kind \in In PROVE KindInv(kind, cur + 1, issued, flying', sem'[kind])
  <2>1. KindInv(kind, cur + 1, issued, flying, sem'[kind])
    BY <1>1, <1>2, <1>3, <1>4, Waited
  <2>2. \A copy \in flying \cup flying' : copy.kind = kind => (copy \in flying <=> copy \in flying')
    BY <1>1, <1>3, <1>5
  <2> QED BY <2>1, <2>2, Others
<1>7. ASSUME NEW kind \in Out PROVE KindInv(kind, retired, cur + 1, flying', sem'[kind])
  <2>1. StepOK(smem, cur)
    BY <1>1, <1>2
  <2>2. cur < retired + Slots(kind)
    <3>1. cur < retired + 2 /\ cur < retired + NBuffer
      BY <1>1, <1>2
    <3>2. Slots(kind) = 2 \/ Slots(kind) = NBuffer
      BY <1>2
    <3> QED BY <3>1, <3>2
  <2>3. KindInv(kind, retired, cur + 1, flying \cup Copies(Out, cur), sem[kind])
    BY <1>2, <1>3, <2>1, <2>2, Started
  <2> QED BY <1>1, <1>3, <1>4, <2>3
<1>8. ASSUME NEW kind \in Kinds PROVE KindInv(kind, First(kind)', Past(kind)', flying', sem'[kind])
  <2>1. CASE kind \in In
    <3>1. First(kind)' = cur + 1 /\ Past(kind)' = issued
      BY <1>1, <2>1 DEF First, Past
    <3> QED BY <1>6, <2>1, <3>1
  <2>2. CASE kind \in Out
    <3>1. First(kind)' = retired /\ Past(kind)' = cur + 1
      BY <1>1, <1>3, <2>2 DEF First, Past
    <3> QED BY <1>7, <2>2, <3>1
  <2> QED BY <2>1, <2>2 DEF Kinds
<1>9. /\ cur' \in Nat /\ retired' =< cur' /\ cur' =< issued' /\ cur' =< retired' + 2
  BY <1>1, <1>2
<1>10. flying' \subseteq Copied
  BY <1>1, <1>2, <1>5
<1> QED BY <1>1, <1>2, <1>4, <1>8, <1>9, <1>10, StillRunning

LEMMA LandStep == ASSUME WaitInv, NEW copy \in flying, Land(copy) PROVE WaitInv'
<1> DEFINE kind == copy.kind
           slot == Slot(kind, copy.step)
           moved == Moves(smem, kind, copy.step)[copy.lane]
<1>1. pc = "run"
  BY DEF WaitInv, Quiet
<1>2. /\ pc' = "run" /\ flying' = flying \ {copy}
      /\ sem' = [sem EXCEPT ![kind][slot] = @ + Amount(kind, EntryOf(copy))]
      /\ c' = c /\ launch' = launch /\ UNCHANGED schedule /\ chunk' = chunk
      /\ cur' = cur /\ issued' = issued /\ retired' = retired
  BY <1>1 DEF Land
<1>3. /\ IsConfig(c) /\ flying \subseteq Copied /\ sem = [x \in Kinds |-> sem[x]]
      /\ Running
      /\ retired \in Nat /\ cur \in Nat /\ issued \in Nat
      /\ retired =< cur /\ cur =< issued /\ issued =< ChunkSteps
      /\ issued =< retired + NBuffer /\ cur =< retired + 2
  BY <1>1 DEF WaitInv, Running
<1>4. kind \in Kinds /\ copy.lane \in Lanes /\ copy.step \in Nat
  BY <1>3 DEF Copied
<1>5. Amount(kind, EntryOf(copy)) = moved
  BY <1>4 DEF Moves, EntryOf
<1> HIDE DEF slot, moved, kind
<1>6. /\ sem' = [x \in Kinds |-> sem'[x]]
      /\ sem'[kind] = [sem[kind] EXCEPT ![slot] = @ + moved]
      /\ \A x \in Kinds : x # kind => sem'[x] = sem[x]
  <2>1. sem' = [sem EXCEPT ![kind] = [sem[kind] EXCEPT ![slot] = sem[kind][slot] + moved]]
    BY <1>2, <1>5
  <2> QED BY <1>3, <1>4, <2>1
<1>7. ASSUME NEW x \in Kinds PROVE KindInv(x, First(x)', Past(x)', flying', sem'[x])
  <2>1. First(x)' = First(x) /\ Past(x)' = Past(x)
    BY <1>2 DEF First, Past
  <2>2. KindInv(x, First(x), Past(x), flying, sem[x])
    BY <1>3 DEF Running
  <2>3. CASE x = kind
    <3>1. sem'[x] = [sem[x] EXCEPT ![Slot(x, copy.step)] = @ + Moves(smem, x, copy.step)[copy.lane]]
      BY <1>6, <2>3 DEF slot, moved
    <3>2. copy.kind = x
      BY <2>3 DEF kind
    <3>3. KindInv(x, First(x), Past(x), flying \ {copy}, sem'[x])
      BY <1>3, <2>2, <3>1, <3>2, Landing
    <3> QED BY <1>2, <2>1, <3>3
  <2>4. CASE x # kind
    <3>1. \A other \in flying \cup flying' : other.kind = x => (other \in flying <=> other \in flying')
      BY <1>2, <2>4 DEF kind
    <3>2. KindInv(x, First(x), Past(x), flying', sem[x])
      BY <2>2, <3>1, Others
    <3> QED BY <1>6, <2>1, <2>4, <3>2
  <2> QED BY <2>3, <2>4
<1>8. flying' \subseteq Copied
  BY <1>2, <1>3
<1> QED BY <1>1, <1>2, <1>3, <1>6, <1>7, <1>8, StillRunning

-----------------------------------------------------------------------------
LEMMA NextWaitInv == WaitInv /\ [Next]_vars => WaitInv'
<1> SUFFICES ASSUME WaitInv, [Next]_vars PROVE WaitInv'
  OBVIOUS
<1>1. CASE Schedule
  BY <1>1, ScheduleStep
<1>2. CASE FinishSchedule
  BY <1>2, FinishScheduleStep
<1>3. CASE LoadChunk
  BY <1>3, LoadChunkStep
<1>4. CASE Issue
  BY <1>4, IssueStep
<1>5. CASE Compute
  BY <1>5, ComputeStep
<1>6. CASE Retire
  BY <1>6, RetireStep
<1>7. CASE EndChunk
  BY <1>7, EndChunkStep
<1>8. CASE NextLaunch
  BY <1>8, NextLaunchStep
<1>9. CASE Finish \/ UNCHANGED vars
  BY <1>9, FinishStep
<1>10. CASE Done
  BY <1>10, FinishStep DEF Done
<1>11. CASE \E copy \in flying : Land(copy)
  BY <1>11, LandStep
<1> QED BY <1>1, <1>2, <1>3, <1>4, <1>5, <1>6, <1>7, <1>8, <1>9, <1>10, <1>11 DEF Next

\* A step of the attention kernel waits for all of its copies and no more:
\* when it goes on nothing it asked for is in flight, and a chunk leaves no
\* semaphore with a count for the next one (schedule.py:386-480,
\* bref_override.py:146-185).  For every call, every block size, every number
\* of slots and every size of a chunk.
THEOREM WaitsMatchCopies == Spec => []WaitsMatch
<1>1. Init => WaitInv
  BY InitWaitInv
<1>2. WaitInv /\ [Next]_vars => WaitInv'
  BY NextWaitInv
<1>3. WaitInv => WaitsMatch
  BY InvWaits
<1> QED BY <1>1, <1>2, <1>3, PTL DEF Spec

-----------------------------------------------------------------------------
\* The pages of a launch.

\* The fields of a call that say where its tokens lie.
Placement == {"page", "cp_group_size", "cp_rank", "kv_lens", "cu_q_lens", "page_indices",
              "num_pages", "scope", "layout", "skip_kv_update", "decode", "prefill"}

\* What the invariant needs of the call, and that the key blocks of the launch
\* are whole pages.
Fits(d) == FitsPages(d) /\ Updates(d) /\ InWholePages(d) /\ d.bkv % d.page = 0

LEMMA SamePlace ==
  ASSUME NEW k, NEW d,
         d.page = k.page, d.cp_group_size = k.cp_group_size, d.cp_rank = k.cp_rank,
         d.kv_lens = k.kv_lens, d.cu_q_lens = k.cu_q_lens, d.page_indices = k.page_indices,
         d.layout = k.layout
  PROVE  /\ NumSeqs(d) = NumSeqs(k) /\ PagesPerSeq(d) = PagesPerSeq(k) /\ NumRanks(d) = NumRanks(k)
         /\ (Sharded(d) <=> Sharded(k)) /\ (SeqAlongLane(d) <=> SeqAlongLane(k))
         /\ \A s : QLen(d, s) = QLen(k, s)
         /\ \A y : (Holds(d, y) <=> Holds(k, y)) /\ SlotOf(d, y) = SlotOf(k, y)
         /\ \A s, y : PageOf(d, s, y) = PageOf(k, s, y)
<1>1. NumSeqs(d) = NumSeqs(k)
  BY DEF NumSeqs
<1>2. (Sharded(d) <=> Sharded(k)) /\ (SeqAlongLane(d) <=> SeqAlongLane(k))
  BY DEF Sharded, SeqAlongLane
<1>3. NumRanks(d) = NumRanks(k)
  BY <1>2 DEF NumRanks
<1>4. PagesPerSeq(d) = PagesPerSeq(k)
  BY <1>1 DEF PagesPerSeq
<1>5. \A s : QLen(d, s) = QLen(k, s)
  BY DEF QLen
<1>6. ASSUME NEW y PROVE (Holds(d, y) <=> Holds(k, y)) /\ SlotOf(d, y) = SlotOf(k, y)
  BY <1>3 DEF Holds, Owned, SlotOf
<1>7. ASSUME NEW s, NEW y PROVE PageOf(d, s, y) = PageOf(k, s, y)
  BY <1>3, <1>4 DEF PageOf
<1> QED BY <1>1, <1>2, <1>3, <1>4, <1>5, <1>6, <1>7

LEMMA ConfigFits ==
  ASSUME NEW k, IsCall(k), FitsPages(k), Updates(k), InWholePages(k), NEW l \in 1..3
  PROVE  /\ Fits(Config(k, l))
         /\ \A field \in Placement : Config(k, l)[field] = k[field]
<1> DEFINE sizes == IF l = 1 THEN k.decode ELSE k.prefill
           d == Config(k, l)
<1>1. sizes \in BlockSizes
  BY DEF IsCall
<1>2. DOMAIN sizes = {"bkv", "bq", "batch"}
  BY <1>1 DEF BlockSizes
<1>3. DOMAIN d = {"mode", "bkv", "bq", "batch"} \cup DOMAIN k
  BY <1>2 DEF Config
<1>4. d.bkv = sizes.bkv
  BY <1>2, <1>3 DEF Config
<1>5. \A f \in DOMAIN k \ {"mode", "bkv", "bq", "batch"} : d[f] = k[f]
  BY <1>2, <1>3 DEF Config
<1>6. Placement \subseteq DOMAIN k \ {"mode", "bkv", "bq", "batch"}
  BY DEF Placement, IsCall, FitsPages
<1>7. \A field \in Placement : d[field] = k[field]
  BY <1>5, <1>6
<1>8. sizes.bkv % k.page = 0
  BY DEF InWholePages
<1> HIDE DEF sizes, d
<1>9. /\ d.page = k.page /\ d.cp_group_size = k.cp_group_size /\ d.cp_rank = k.cp_rank
      /\ d.kv_lens = k.kv_lens /\ d.cu_q_lens = k.cu_q_lens /\ d.page_indices = k.page_indices
      /\ d.num_pages = k.num_pages /\ d.scope = k.scope /\ d.layout = k.layout
      /\ d.skip_kv_update = k.skip_kv_update /\ d.decode = k.decode /\ d.prefill = k.prefill
  BY <1>7 DEF Placement
<1>10. /\ NumSeqs(d) = NumSeqs(k) /\ PagesPerSeq(d) = PagesPerSeq(k) /\ NumRanks(d) = NumRanks(k)
       /\ (Sharded(d) <=> Sharded(k)) /\ (SeqAlongLane(d) <=> SeqAlongLane(k))
       /\ \A s : QLen(d, s) = QLen(k, s)
       /\ \A y : Holds(d, y) <=> Holds(k, y)
       /\ \A s, y : PageOf(d, s, y) = PageOf(k, s, y)
  BY <1>9, SamePlace
<1>11. FitsPages(d)
  BY <1>3, <1>9, <1>10 DEF FitsPages
<1>12. Updates(d) /\ InWholePages(d)
  BY <1>9, <1>10 DEF Updates, InWholePages
<1> QED BY <1>4, <1>7, <1>8, <1>9, <1>11, <1>12 DEF Fits, d

LEMMA Ranks ==
  ASSUME NEW d, IsConfig(d)
  PROVE  NumRanks(d) \in Positive /\ (~Sharded(d) => NumRanks(d) = 1)
BY DEF IsConfig, IsCall, NumRanks, Sharded, Positive

LEMMA Units ==
  ASSUME NEW d, IsConfig(d)
  PROVE  /\ d.page \in Positive /\ d.page \in Nat /\ d.page > 0
         /\ d.bkv \in Positive /\ d.bkv \in Nat /\ d.bkv > 0
<1>1. d.page \in Positive /\ d.bkv \in Positive
  BY DEF IsConfig, IsCall
<1> QED BY <1>1 DEF Positive

\* A key block is BkvP(d) whole pages.
LEMMA WholePages ==
  ASSUME NEW d, IsConfig(d), Fits(d)
  PROVE  BkvP(d) \in Positive /\ d.bkv = d.page * BkvP(d)
<1> DEFINE m == d.page
           b == d.bkv
           n == b \div m
           u == BkvP(d)
<1>1. m \in Positive /\ b \in Positive /\ b \in Nat /\ b > 0 /\ m \in Nat /\ m > 0 /\ b % m = 0
  BY DEF IsConfig, IsCall, Fits, Positive
<1>2. u = CeilDiv(b, m)
  BY DEF BkvP
<1> HIDE DEF m, b, u
<1>3. n \in Nat /\ b = m * n
  BY <1>1, Division, QuotientIs
<1> HIDE DEF n
<1>4. u \in Nat /\ b =< m * u /\ u =< n
  <2>1. /\ u \in Nat /\ b =< m * u
        /\ \A x \in Nat : b =< m * x => u =< x
    BY <1>1, <1>2, CeilDivIs
  <2>2. b =< m * n
    BY <1>1, <1>3
  <2> QED BY <1>3, <2>1, <2>2
<1>5. ~(u < n)
  <2> SUFFICES ASSUME u < n PROVE FALSE
    OBVIOUS
  <2>1. m * n - m * u >= m
    BY <1>1, <1>3, <1>4, Multiple
  <2> QED BY <1>1, <1>3, <1>4, <2>1
<1>6. u = n
  BY <1>3, <1>4, <1>5
<1>7. u # 0
  BY <1>1, <1>3, <1>6
<1> QED BY <1>3, <1>4, <1>6, <1>7 DEF m, b, u, Positive

\* A product of positive factors orders as its second one.
LEMMA Ordered ==
  ASSUME NEW m \in Positive, NEW a \in Int, NEW b \in Int, m * a < m * b
  PROVE  a < b
<1> SUFFICES ASSUME ~(a < b) PROVE FALSE
  OBVIOUS
<1>1. m \in Int /\ m > 0 /\ m * a \in Int /\ m * b \in Int
  BY DEF Positive
<1>2. CASE a = b
  BY <1>1, <1>2
<1>3. CASE b < a
  <2>1. m * a - m * b >= m
    BY <1>3, Multiple
  <2> QED BY <1>1, <2>1
<1> QED BY <1>2, <1>3

LEMMA MaxZero ==
  ASSUME NEW x \in Int
  PROVE  /\ Max({x, 0}) = IF x =< 0 THEN 0 ELSE x
         /\ Max({0, x}) = IF x =< 0 THEN 0 ELSE x
<1>1. {x, 0} = {0, x}
  OBVIOUS
<1>2. Max({0, x}) = IF 0 =< x THEN x ELSE 0
  BY MinMaxIs
<1> QED BY <1>1, <1>2

\* What a block that is written back has: cached tokens up to "cached", new
\* ones behind them.
LEMMA BlockIs ==
  ASSUME NEW d, IsConfig(d), Fits(d), NEW s \in 0..NumSeqs(d) - 1, NEW k \in Nat,
         NewSize(d, s, k) > 0
  PROVE  LET cached == BkvFromCache(d, s, k)
             edge == CacheLen(d, s) - k * d.bkv IN
         /\ d.scope # "CACHE_ONLY" /\ ~d.skip_kv_update
         /\ CacheLen(d, s) = GlobalCacheLen(d, s) /\ KLen(d, s) = d.kv_lens[s]
         /\ d.kv_lens[s] \in Nat /\ CacheLen(d, s) \in 0..d.kv_lens[s]
         /\ k * d.bkv \in Nat /\ edge \in Int /\ cached \in 0..d.bkv /\ NewSize(d, s, k) \in Nat
         /\ KvLeftFromCache(d, s, k) = Max({edge, 0})
         /\ cached = Min({Max({edge, 0}), d.bkv})
         /\ edge =< cached \/ cached = d.bkv
         /\ cached + NewSize(d, s, k) =< d.bkv
         /\ k * d.bkv + cached + NewSize(d, s, k) =< d.kv_lens[s]
<1> DEFINE cached == BkvFromCache(d, s, k)
           edge == CacheLen(d, s) - k * d.bkv
           left == KvLeft(d, s, k)
           old == KvLeftFromCache(d, s, k)
           new == KvLeftFromNew(d, s, k)
           size == NewSize(d, s, k)
           high == Max({edge, 0})
           bkv == d.bkv
           base == k * d.bkv
<1>1. /\ bkv \in Nat /\ bkv > 0 /\ base \in Nat
      /\ CacheLen(d, s) \in Int /\ KLen(d, s) \in Int
  <2>1. d.bkv \in Nat /\ d.bkv > 0
    BY DEF IsConfig, Positive
  <2> QED BY <2>1, Lengths
<1>2. edge \in Int /\ left \in Int /\ left = KLen(d, s) - base /\ edge = CacheLen(d, s) - base
  BY <1>1 DEF KvLeft
<1>3. high = IF edge =< 0 THEN 0 ELSE edge
  <2>1. edge \in Int
    BY <1>2
  <2> HIDE DEF edge
  <2> QED BY <2>1, MaxZero
<1>4. old \in {left, high} /\ (d.skip_kv_update /\ ~Sharded(d) => old = left)
      /\ (~(d.skip_kv_update /\ ~Sharded(d)) => old = high)
  BY DEF KvLeftFromCache
<1>5. new = left - old
  BY DEF KvLeftFromNew
<1>6. cached = Min({old, bkv}) /\ size = Min({bkv - cached, new}) /\ size > 0
  BY DEF BkvFromCache, NewSize
<1>7. KLen(d, s) = CacheLen(d, s) + NewLen(d, s)
  BY DEF KLen
<1>8. d.scope = "CACHE_ONLY" => NewLen(d, s) = 0
  BY DEF NewLen
<1>9. d.scope # "CACHE_ONLY" => NewLen(d, s) = QLen(d, s) /\ CacheLen(d, s) = GlobalCacheLen(d, s)
  BY DEF NewLen, CacheLen
<1>10. /\ d.skip_kv_update \in BOOLEAN
       /\ Sharded(d) /\ d.scope # "CACHE_ONLY" => ~d.skip_kv_update
       /\ QLen(d, s) \in 0..d.kv_lens[s] /\ d.kv_lens[s] \in Nat
  <2>1. d.kv_lens[s] \in Nat
    <3> DEFINE S == 0..NumSeqs(d) - 1
    <3>1. d.kv_lens \in [S -> Nat] /\ s \in S
      BY DEF IsConfig, IsCall
    <3> HIDE DEF S
    <3> QED BY <3>1
  <2> QED BY <2>1 DEF Fits, FitsPages, Updates
<1> HIDE DEF cached, edge, left, old, new, size, high, base, bkv
<1>11. old \in Int /\ new \in Int
  BY <1>2, <1>3, <1>4, <1>5
<1>12. cached = (IF old =< bkv THEN old ELSE bkv) /\ cached \in Int
  BY <1>1, <1>6, <1>11, MinMaxIs
<1>13. size = (IF bkv - cached =< new THEN bkv - cached ELSE new) /\ size \in Int
  <2>1. bkv - cached \in Int
    BY <1>1, <1>12
  <2> QED BY <1>6, <1>11, <2>1, MinMaxIs
<1>14. new > 0
  BY <1>1, <1>6, <1>11, <1>12, <1>13
<1>15. ~(d.skip_kv_update /\ ~Sharded(d)) /\ old = high
  BY <1>2, <1>4, <1>5, <1>14
<1>16. d.scope # "CACHE_ONLY"
  <2> SUFFICES ASSUME d.scope = "CACHE_ONLY" PROVE FALSE
    OBVIOUS
  <2>1. left = edge
    BY <1>1, <1>2, <1>7, <1>8
  <2>2. new =< 0
    BY <1>2, <1>3, <1>5, <1>15, <2>1
  <2> QED BY <1>11, <1>14, <2>2
<1>17. ~d.skip_kv_update
  BY <1>10, <1>15, <1>16
<1>18. /\ CacheLen(d, s) = GlobalCacheLen(d, s) /\ KLen(d, s) = d.kv_lens[s]
       /\ CacheLen(d, s) \in 0..d.kv_lens[s]
  BY <1>7, <1>9, <1>10, <1>16 DEF GlobalCacheLen
<1>19. cached \in 0..bkv /\ size \in Nat /\ cached + size =< bkv
       /\ (edge =< cached \/ cached = bkv)
  <2>1. old \in Nat /\ edge =< old
    BY <1>2, <1>3, <1>15
  <2>2. cached \in 0..bkv /\ (edge =< cached \/ cached = bkv)
    BY <1>1, <1>2, <1>12, <2>1
  <2>3. size \in Nat /\ cached + size =< bkv
    <3>1. size =< bkv - cached
      BY <1>1, <1>11, <1>12, <1>13
    <3> QED BY <1>1, <1>6, <1>12, <1>13, <3>1
  <2> QED BY <2>2, <2>3
<1>20. base + cached + size =< d.kv_lens[s]
  BY <1>1, <1>2, <1>3, <1>5, <1>10, <1>11, <1>12, <1>13, <1>15, <1>18
<1> QED BY <1>1, <1>2, <1>6, <1>10, <1>15, <1>16, <1>17, <1>18, <1>19, <1>20
        DEF cached, edge, old, size, high, base, bkv

\* The new tokens of a slot lie within one page of the block.
LEMMA SlotSpan ==
  ASSUME NEW d, IsConfig(d), Fits(d), NEW cached \in 0..d.bkv, NEW size \in Nat,
         cached + size =< d.bkv, NEW i \in Nat, SlotSize(d, cached, size, i) > 0
  PROVE  LET start == SlotStart(d, cached, i)
             from == SlotFrom(d, cached, i)
             n == SlotSize(d, cached, size, i) IN
         \E u \in 0..BkvP(d) - 1 :
           /\ start = d.page * u /\ from \in start..start + d.page - 1 /\ cached =< from
           /\ n \in Nat /\ from + n =< start + d.page /\ from + n =< cached + size
<1> DEFINE start == SlotStart(d, cached, i)
           from == SlotFrom(d, cached, i)
           n == SlotSize(d, cached, size, i)
           m == d.page
           end == start + m
           past == cached + size
           top == Min({end, past})
           whole == BkvP(d)
<1>1. /\ m \in Positive /\ m \in Nat /\ m > 0 /\ cached \in Nat /\ past \in Nat /\ past =< d.bkv
      /\ d.bkv \in Nat
  BY Units
<1>2. whole \in Positive /\ d.bkv = m * whole /\ whole \in Nat
  BY WholePages DEF Positive
<1>3. PICK u \in Nat : start = m * u
  <2> DEFINE w == cached \div m
  <2>1. w \in Nat
    BY <1>1, QuotientIs
  <2>2. start \in {w * m + i * m, i * m}
    BY DEF SlotStart, AlignDown
  <2> HIDE DEF w, start, m
  <2>3. w * m + i * m = m * (w + i) /\ i * m = m * i /\ w + i \in Nat
    BY <1>1, <2>1
  <2> QED BY <2>2, <2>3
<1>4. start \in Nat /\ end \in Nat /\ end = start + m
  <2>1. m * u \in Nat
    BY <1>1
  <2> QED BY <1>1, <1>3, <2>1
<1>5. from = Max({start, cached}) /\ n = Max({0, top - from}) /\ n > 0
  BY DEF SlotFrom, SlotSize
<1> HIDE DEF start, from, n, m, end, past, whole, top
<1>6. from = IF start =< cached THEN cached ELSE start
  <2>1. start \in Int /\ cached \in Int
    BY <1>1, <1>4
  <2> QED BY <1>5, <2>1, MinMaxIs
<1>7. top = IF end =< past THEN end ELSE past
  BY <1>1, <1>4, MinMaxIs DEF top
<1>8. top - from \in Int
  BY <1>1, <1>4, <1>6, <1>7
<1>9. n = IF top - from =< 0 THEN 0 ELSE top - from
  BY <1>5, <1>8, MaxZero
<1>10. n = top - from /\ n \in Nat
  BY <1>5, <1>8, <1>9
<1>11. /\ from \in start..end - 1 /\ cached =< from /\ from + n =< end /\ from + n =< past
  BY <1>1, <1>4, <1>5, <1>6, <1>7, <1>10
<1>12. u < whole
  <2>1. m * u < m * whole
    BY <1>1, <1>2, <1>3, <1>4, <1>5, <1>10, <1>11
  <2> QED BY <1>1, <1>2, <2>1, Ordered
<1>13. u \in 0..whole - 1
  BY <1>2, <1>12
<1>14. /\ u \in 0..whole - 1
       /\ start = m * u /\ from \in start..start + m - 1 /\ cached =< from
       /\ n \in Nat /\ from + n =< start + m /\ from + n =< past
  <2>1. from \in start..start + m - 1 /\ from + n =< start + m
    BY <1>1, <1>4, <1>10, <1>11
  <2> QED BY <1>3, <1>10, <1>11, <1>13, <2>1
<1> QED BY <1>14 DEF start, from, n, m, past, whole

\* The page of a key block that some token of its sequence lies on, and where
\* the tokens there are.
LEMMA PagePlace ==
  ASSUME NEW d, IsConfig(d), Fits(d), NEW s \in 0..NumSeqs(d) - 1, NEW k \in Nat,
         NEW u \in 0..BkvP(d) - 1, NEW r0 \in 0..d.page - 1,
         k * d.bkv + (d.page * u + r0) < d.kv_lens[s]
  PROVE  LET p == k * BkvP(d) + u IN
         /\ p \in Nat /\ p < PagesPerSeq(d) * NumRanks(d)
         /\ \A r \in 0..d.page - 1 :
              LET x == d.page * u + r
                  y == k * d.bkv + x IN
              /\ x \in 0..d.bkv - 1 /\ x \div d.page = u /\ y \in Nat
              /\ y \div d.page = p /\ SlotOf(d, y) = r
              /\ PageAt(d, k, x) = p
              /\ PageIndexOf(d, s, k, x) = s * PagesPerSeq(d) + (p \div NumRanks(d))
              /\ PageOf(d, s, y) = d.page_indices[PageIndexOf(d, s, k, x)]
              /\ Holds(d, y) <=> Owned(d, p)
<1> DEFINE m == d.page
           n == BkvP(d)
           p == k * n + u
           longest == PagesPerSeq(d) * NumRanks(d)
<1>1. /\ m \in Positive /\ m \in Nat /\ m > 0 /\ n \in Positive /\ n \in Nat /\ d.bkv = m * n
      /\ d.bkv \in Nat
  <2>1. n \in Positive /\ d.bkv = m * n
    BY WholePages
  <2> QED BY <2>1, Units DEF Positive
<1>2. p \in Nat
  BY <1>1
<1>3. k * d.bkv = m * (k * n) /\ k * n \in Nat
  BY <1>1
<1>4. k * d.bkv + m * u = m * p
  BY <1>1, <1>3
<1>5. longest \in Nat /\ d.kv_lens[s] =< longest * m
  <2>1. PagesPerSeq(d) \in Nat /\ NumRanks(d) \in Nat
    BY Ranks DEF Fits, FitsPages, Positive
  <2> QED BY <2>1 DEF Fits, FitsPages
<1>6. d.kv_lens[s] \in Nat
  <2> DEFINE S == 0..NumSeqs(d) - 1
  <2>1. d.kv_lens \in [S -> Nat] /\ s \in S
    BY DEF IsConfig, IsCall
  <2> HIDE DEF S
  <2> QED BY <2>1
<1>7. p < longest
  <2>1. m * p < m * longest
    <3>1. k * d.bkv + (m * u + r0) < d.kv_lens[s]
      OBVIOUS
    <3>2. k * d.bkv \in Nat /\ m * u \in Nat /\ m * p \in Nat /\ longest * m = m * longest
          /\ m * longest \in Nat
      BY <1>1, <1>2, <1>5
    <3> HIDE DEF p, longest
    <3> QED BY <1>1, <1>4, <1>5, <1>6, <3>1, <3>2
  <2> QED BY <1>1, <1>2, <1>5, <2>1, Ordered
<1> HIDE DEF longest, p
<1>8. ASSUME NEW r \in 0..m - 1
      PROVE  LET x == m * u + r
                 y == k * d.bkv + x IN
             /\ x \in 0..d.bkv - 1 /\ x \div m = u /\ y \in Nat
             /\ y \div m = p /\ SlotOf(d, y) = r
             /\ PageAt(d, k, x) = p
             /\ PageIndexOf(d, s, k, x) = s * PagesPerSeq(d) + (p \div NumRanks(d))
             /\ PageOf(d, s, y) = d.page_indices[PageIndexOf(d, s, k, x)]
             /\ Holds(d, y) <=> Owned(d, p)
  <2> DEFINE x == m * u + r
             y == k * d.bkv + x
  <2>1. y = m * p + r
    <3>1. k * d.bkv \in Int /\ m * u \in Int
      BY <1>1
    <3> QED BY <1>1, <1>4, <3>1
  <2>2. y \div m = p /\ y % m = r /\ y \in Nat
    <3>1. m * p \in Nat /\ p \in Int
      BY <1>1, <1>2
    <3>2. (m * p + r) \div m = p /\ (m * p + r) % m = r
      BY <1>1, <3>1, DivisionIs
    <3>3. m * p + r \in Nat
      BY <1>1, <3>1
    <3> HIDE DEF y
    <3> QED BY <2>1, <3>2, <3>3
  <2>3. x \in 0..d.bkv - 1
    <3>1. m * n - m * u >= m
      BY <1>1, Multiple
    <3>2. m * u \in Nat /\ m * n \in Nat
      BY <1>1
    <3> QED BY <1>1, <3>1, <3>2
  <2>3a. x \div m = u
    BY <1>1, DivisionIs
  <2> HIDE DEF x
  <2>4. PageAt(d, k, x) = p
    <3>1. PageAt(d, k, x) = Min({p, longest - 1})
      BY <2>2 DEF PageAt, longest
    <3>2. p =< longest - 1 /\ longest - 1 \in Int
      BY <1>2, <1>5, <1>7
    <3> QED BY <1>2, <3>1, <3>2, MinMaxIs
  <2>5. PageIndexOf(d, s, k, x) = s * PagesPerSeq(d) + (p \div NumRanks(d))
    BY <2>4 DEF PageIndexOf
  <2>6. PageOf(d, s, y) = d.page_indices[PageIndexOf(d, s, k, x)]
    BY <2>2, <2>5 DEF PageOf
  <2>7. (Holds(d, y) <=> Owned(d, p)) /\ SlotOf(d, y) = r
    BY <2>2 DEF Holds, SlotOf
  <2> QED BY <2>2, <2>3, <2>3a, <2>4, <2>5, <2>6, <2>7 DEF x
<1> QED BY <1>2, <1>7, <1>8 DEF longest, p

-----------------------------------------------------------------------------
\* What an entry writes back, and what it copies in for it.

\* Where slot i's tokens go: to a page of the block, within which the slot's
\* first one is at o, and on which some token of the sequence is, at r.
LEMMA SlotTarget ==
  ASSUME NEW d, IsConfig(d), Fits(d), NEW s \in 0..NumSeqs(d) - 1, NEW q \in Int, NEW k \in Nat,
         NEW e, e = Entry(d, s, q, k), e.wb, NEW i \in DOMAIN e.new, NEW j \in 0..e.new[i].m - 1
  PROVE  /\ NewSize(d, s, k) > 0
         /\ \E u \in 0..BkvP(d) - 1, r \in 0..d.page - 1, o \in 0..d.page - 1 :
              /\ k * d.bkv + (d.page * u + r) < d.kv_lens[s]
              /\ e.new[i].from = d.page * u + o /\ e.new[i].offset = o
              /\ e.new[i].m \in Nat /\ o + e.new[i].m =< d.page
              /\ Owned(d, k * BkvP(d) + u)
              /\ e.new[i].page = s * PagesPerSeq(d) + ((k * BkvP(d) + u) \div NumRanks(d))
              /\ SeqAlongLane(d) \/ e.new[i].from >= BkvFromCache(d, s, k)
<1> DEFINE cached == BkvFromCache(d, s, k)
           size == NewSize(d, s, k)
           src == d.cu_q_lens[s + 1] - KvLeftFromNew(d, s, k)
           start == SlotStart(d, cached, i)
           from == SlotFrom(d, cached, i)
           n == SlotSize(d, cached, size, i)
           base == k * d.bkv
           limit == d.kv_lens[s]
           m == d.page
           slot == e.new[i]
           p(u) == k * BkvP(d) + u
<1>1. e.wb = WritesBack(d, s, q, k) /\ e.new = NewSlots(d, s, k, cached, size, src)
  BY DEF Entry
<1>2. size > 0
  BY <1>1 DEF WritesBack
<1>3. i \in 0..BkvPNew(d) - 1 /\ i \in Nat
  <2>1. i \in 0..BkvPNew(d) - 1
    BY <1>1 DEF NewSlots
  <2> QED BY <2>1, BlockPages
<1>4. slot = IF SeqAlongLane(d) THEN LaneSlot(d, s, k, cached, size, src, i)
             ELSE SublaneSlot(d, s, k, cached, size, src, i)
  BY <1>1, <1>3 DEF NewSlots
<1>5. /\ base \in Nat /\ limit \in Nat /\ cached \in 0..d.bkv /\ cached \in Int /\ size \in Nat
      /\ size \in Int /\ cached + size =< d.bkv /\ base + cached + size =< limit
  <2>1. d.bkv \in Nat
    BY Units
  <2>2. /\ base \in Nat /\ limit \in Nat /\ cached \in 0..d.bkv /\ size \in Nat
        /\ cached + size =< d.bkv /\ base + cached + size =< limit
    BY <1>2, BlockIs
  <2> HIDE DEF cached, size, base, limit
  <2> QED BY <2>1, <2>2
<1>6. m \in Nat /\ m > 0
  BY Units
<1> HIDE DEF slot, src, cached, size
<1>7. n \in Nat
  BY <1>3, <1>5, SlotSizeIs
<1>8. slot.m > 0
  <2>1. slot.m = IF SeqAlongLane(d) THEN IfOwned(d, k, start, Moved(d, n)) ELSE IfOwned(d, k, from, n)
    BY <1>4 DEF LaneSlot, SublaneSlot
  <2>2. Moved(d, n) \in Nat
    BY <1>7, MovedIs
  <2>3. slot.m \in Nat
    BY <1>7, <2>1, <2>2, IfOwnedIs
  <2>4. j \in 0..slot.m - 1
    BY DEF slot
  <2> QED BY <2>3, <2>4
<1> HIDE DEF base, limit, n
<1>9. n > 0
  <2>1. CASE SeqAlongLane(d)
    <3>1. slot.m = IfOwned(d, k, start, Moved(d, n))
      BY <1>4, <2>1 DEF LaneSlot, n
    <3> QED BY <1>7, <1>8, <3>1 DEF IfOwned, Moved
  <2>2. CASE ~SeqAlongLane(d)
    <3>1. slot.m = IfOwned(d, k, from, n)
      BY <1>4, <2>2 DEF SublaneSlot, n
    <3> QED BY <1>7, <1>8, <3>1 DEF IfOwned
  <2> QED BY <2>1, <2>2
<1>10. PICK u \in 0..BkvP(d) - 1 :
         /\ start = m * u /\ from \in start..start + m - 1 /\ cached =< from
         /\ from + n =< start + m /\ from + n =< cached + size
  BY <1>3, <1>5, <1>9, SlotSpan DEF n
<1> DEFINE r == from - start
<1> HIDE DEF m, start, from
<1>11. start \in Nat /\ r \in 0..m - 1 /\ from = m * u + r /\ from \in Nat /\ from < cached + size
  <2>1. m * u \in Nat
    <3>1. u \in Nat
      OBVIOUS
    <3> QED BY <1>6, <3>1
  <2> HIDE DEF r
  <2>2. start \in Nat /\ from \in Nat
    BY <1>6, <1>10, <2>1
  <2> QED BY <1>5, <1>6, <1>7, <1>9, <1>10, <2>1, <2>2 DEF r
<1> HIDE DEF r
<1>12. base + (m * u + r) < limit
  BY <1>5, <1>11
<1>13. ASSUME NEW x \in 0..m - 1
       PROVE  /\ PageAt(d, k, m * u + x) = p(u)
              /\ PageIndexOf(d, s, k, m * u + x) = s * PagesPerSeq(d) + (p(u) \div NumRanks(d))
              /\ (k * d.bkv + (m * u + x)) % m = x
  BY <1>11, <1>12, PagePlace DEF m, base, limit, SlotOf
<1> HIDE DEF p
<1>14. CASE SeqAlongLane(d)
  <2>1. /\ slot.from = start /\ slot.offset = 0 /\ slot.page = PageIndexOf(d, s, k, start)
        /\ slot.m = IfOwned(d, k, start, Moved(d, n))
    BY <1>4, <1>14 DEF LaneSlot, n, start
  <2>2. start = m * u + 0 /\ 0 \in 0..m - 1
    <3>1. m * u = m * u + 0
      <4>1. m * u \in Nat
        BY <1>10, <1>11
      <4> QED BY <4>1
    <3> QED BY <1>6, <1>10, <3>1
  <2>3. PageAt(d, k, start) = p(u) /\ slot.page = s * PagesPerSeq(d) + (p(u) \div NumRanks(d))
    BY <1>13, <2>1, <2>2
  <2>4. Owned(d, p(u)) /\ slot.m = Moved(d, n)
    BY <1>8, <2>1, <2>3 DEF IfOwned
  <2>5. slot.m = m
    BY <1>9, <1>14, <2>4 DEF Moved, m
  <2> QED BY <1>2, <1>6, <1>11, <1>12, <1>14, <2>1, <2>2, <2>3, <2>4, <2>5
          DEF slot, base, limit, m, p, size
<1>15. CASE ~SeqAlongLane(d)
  <2>1. /\ slot.from = from /\ slot.offset = (base + from) % m /\ slot.page = PageIndexOf(d, s, k, from)
        /\ slot.m = IfOwned(d, k, from, n)
    BY <1>4, <1>15 DEF SublaneSlot, n, from, base, m
  <2>2. /\ PageAt(d, k, from) = p(u) /\ slot.page = s * PagesPerSeq(d) + (p(u) \div NumRanks(d))
        /\ slot.offset = r
    BY <1>11, <1>13, <2>1 DEF base
  <2>3. Owned(d, p(u)) /\ slot.m = n
    BY <1>8, <2>1, <2>2 DEF IfOwned
  <2>4. r + n =< m
    BY <1>6, <1>7, <1>10, <1>11 DEF r
  <2> QED BY <1>2, <1>7, <1>10, <1>11, <1>12, <2>1, <2>2, <2>3, <2>4
          DEF slot, base, limit, m, p, size, cached
<1> QED BY <1>14, <1>15

LEMMA SlotInts ==
  ASSUME NEW d, IsConfig(d), Fits(d), NEW s \in 0..NumSeqs(d) - 1, NEW q \in Int, NEW k \in Nat,
         NEW e, e = Entry(d, s, q, k), e.wb, NEW i \in DOMAIN e.new
  PROVE  e.new[i].m \in Nat /\ e.new[i].offset \in Int
<1> DEFINE cached == BkvFromCache(d, s, k)
           size == NewSize(d, s, k)
           src == d.cu_q_lens[s + 1] - KvLeftFromNew(d, s, k)
           start == SlotStart(d, cached, i)
           from == SlotFrom(d, cached, i)
           slot == e.new[i]
<1>1. e.wb = WritesBack(d, s, q, k) /\ e.new = NewSlots(d, s, k, cached, size, src)
  BY DEF Entry
<1>2. size > 0
  BY <1>1 DEF WritesBack
<1>3. i \in 0..BkvPNew(d) - 1 /\ i \in Int
  <2>1. i \in 0..BkvPNew(d) - 1
    BY <1>1 DEF NewSlots
  <2> QED BY <2>1, BlockPages
<1>4. slot = IF SeqAlongLane(d) THEN LaneSlot(d, s, k, cached, size, src, i)
             ELSE SublaneSlot(d, s, k, cached, size, src, i)
  BY <1>1, <1>3 DEF NewSlots
<1>5. cached \in Int /\ size \in Int
  BY Left
<1>6. slot.offset = IF SeqAlongLane(d) THEN 0 ELSE (k * d.bkv + from) % d.page
  BY <1>4 DEF LaneSlot, SublaneSlot
<1>7. slot.m \in Nat
  <2>1. k \in Int
    OBVIOUS
  <2> QED BY <2>1, PiecesSized
<1>8. (k * d.bkv + from) % d.page \in Int
  <2>1. from \in Int
    <3>1. \A x \in Int : x * d.page \in Int /\ x \div d.page \in Int
      BY Units, Division
    <3>2. start \in Int
      <4> HIDE DEF cached
      <4>1. cached \div d.page \in Int
        BY <1>5, <3>1
      <4>2. (cached \div d.page) * d.page \in Int /\ i * d.page \in Int
        BY <1>3, <3>1, <4>1
      <4> QED BY <4>2 DEF SlotStart, AlignDown
    <3> HIDE DEF cached
    <3>3. from = Max({start, cached})
      BY DEF SlotFrom
    <3> HIDE DEF start, from
    <3> QED BY <1>5, <3>2, <3>3, MinMaxInts
  <2> DEFINE x == k * d.bkv + from
  <2> HIDE DEF from
  <2>2. x \in Int
    BY <2>1, Units
  <2> HIDE DEF x
  <2>3. x % d.page \in Int
    BY <2>2, Units, Division
  <2> QED BY <2>3 DEF x
<1> HIDE DEF from
<1>9. slot.offset \in Int
  BY <1>6, <1>8
<1> QED BY <1>7, <1>9

\* The token a slot's j-th one is: its place in the cache, and a token of
\* the sequence on the same page.
LEMMA SlotPlace ==
  ASSUME NEW d, IsConfig(d), Fits(d), NEW s \in 0..NumSeqs(d) - 1, NEW q \in Int, NEW k \in Nat,
         NEW e, e = Entry(d, s, q, k), e.wb, NEW i \in DOMAIN e.new, NEW j \in 0..e.new[i].m - 1
  PROVE  LET x == e.new[i].from + j
             y == k * d.bkv + x IN
         /\ e.new[i].from \in Int /\ x \in 0..d.bkv - 1 /\ y \in Nat /\ Holds(d, y)
         /\ d.page_indices[e.new[i].page] = PageOf(d, s, y)
         /\ e.new[i].offset \in Nat /\ e.new[i].m \in Nat /\ e.new[i].offset + j = SlotOf(d, y)
         /\ \E z \in 0..d.kv_lens[s] - 1 :
              Holds(d, z) /\ z \div d.page = y \div d.page /\ PageOf(d, s, z) = PageOf(d, s, y)
<1> DEFINE slot == e.new[i]
           m == d.page
           base == k * d.bkv
           x == slot.from + j
           y == base + x
<1>1. PICK u \in 0..BkvP(d) - 1, r \in 0..m - 1, o \in 0..m - 1 :
        /\ base + (m * u + r) < d.kv_lens[s]
        /\ slot.from = m * u + o /\ slot.offset = o
        /\ slot.m \in Nat /\ o + slot.m =< m
        /\ Owned(d, k * BkvP(d) + u)
        /\ slot.page = s * PagesPerSeq(d) + ((k * BkvP(d) + u) \div NumRanks(d))
  BY SlotTarget
<1>2. m \in Nat /\ m > 0
  BY Units
<1> DEFINE p == k * BkvP(d) + u
           place(l) == base + (m * u + l)
<1>3. ASSUME NEW l \in 0..m - 1
      PROVE  /\ m * u + l \in 0..d.bkv - 1 /\ place(l) \in Nat
             /\ place(l) \div m = p /\ SlotOf(d, place(l)) = l
             /\ PageOf(d, s, place(l)) = d.page_indices[s * PagesPerSeq(d) + (p \div NumRanks(d))]
             /\ Holds(d, place(l)) <=> Owned(d, p)
  BY <1>1, PagePlace
<1>4. m * u \in Nat /\ o + j \in 0..m - 1 /\ x = m * u + (o + j) /\ slot.from \in Int
  <2>1. u \in Nat
    OBVIOUS
  <2>2. m * u \in Nat
    BY <1>2, <2>1
  <2> QED BY <1>1, <1>2, <2>2
<1>5. y = place(o + j)
  BY <1>4
<1> HIDE DEF p, base, m, x, slot, place
<1>6. x \in 0..d.bkv - 1 /\ y \in Nat /\ Holds(d, y) /\ d.page_indices[slot.page] = PageOf(d, s, y)
      /\ SlotOf(d, y) = o + j
  BY <1>1, <1>3, <1>4, <1>5 DEF p, place
<1>7. \E z \in 0..d.kv_lens[s] - 1 :
        Holds(d, z) /\ z \div m = y \div m /\ PageOf(d, s, z) = PageOf(d, s, y)
  <2>1. place(r) \in 0..d.kv_lens[s] - 1
    <3>1. place(r) \in Nat /\ place(r) < d.kv_lens[s]
      BY <1>1, <1>3 DEF place
    <3>2. d.kv_lens[s] \in Nat
      <4> DEFINE S == 0..NumSeqs(d) - 1
      <4>1. d.kv_lens \in [S -> Nat] /\ s \in S
        BY DEF IsConfig, IsCall
      <4> HIDE DEF S
      <4> QED BY <4>1
    <3> QED BY <3>1, <3>2
  <2>2. /\ place(r) \div m = p /\ y \div m = p
        /\ PageOf(d, s, place(r)) = PageOf(d, s, y)
        /\ Holds(d, place(r))
    BY <1>1, <1>3, <1>4, <1>5 DEF p
  <2> QED BY <2>1, <2>2
<1> QED BY <1>1, <1>4, <1>6, <1>7 DEF base, x, m, slot

\* The page that the p-th one of a sequence is copied in from, if it is held.
LEMMA SourceIs ==
  ASSUME NEW d, IsConfig(d), Fits(d), NEW s \in 0..NumSeqs(d) - 1, NEW p \in Nat,
         p < PagesPerSeq(d) * NumRanks(d), d.scope # "CACHE_ONLY", SeqAlongLane(d)
  PROVE  SourcePage(d, s, p) = s * PagesPerSeq(d) + (p \div NumRanks(d))
<1> DEFINE n == PagesPerSeq(d)
           ranks == NumRanks(d)
           w == p \div ranks
           all == NumSeqs(d)
<1>1. /\ n \in Nat /\ ranks \in Positive /\ ranks \in Nat /\ (~Sharded(d) => ranks = 1)
      /\ all \in Nat /\ Cardinality(DOMAIN d.page_indices) = all * n
      /\ (Sharded(d) => d.scope = "NEW_TOKENS_ONLY")
  <2>1. n \in Nat /\ Cardinality(DOMAIN d.page_indices) = all * n
    BY DEF Fits, FitsPages
  <2>2. Sharded(d) => d.scope = "NEW_TOKENS_ONLY"
    BY DEF Fits, FitsPages
  <2>3. all \in Nat
    BY DEF IsConfig, IsCall
  <2> QED BY <2>1, <2>2, <2>3, Ranks DEF Positive
<1>2. w \in Nat /\ p % ranks \in Nat /\ p = ranks * w + (p % ranks)
  BY <1>1, Division, QuotientIs
<1> HIDE DEF n, ranks, w, all
<1>3. CASE Sharded(d)
  <2>1. SourcePage(d, s, p) = s * n + Min({w, n - 1})
    BY <1>1, <1>3 DEF SourcePage, n, ranks, w
  <2>2. ranks * w < ranks * n
    <3>1. n * ranks = ranks * n /\ ranks * w \in Nat /\ ranks * n \in Nat /\ p < n * ranks
      BY <1>1, <1>2 DEF n, ranks
    <3> QED BY <1>2, <3>1
  <2>3. w < n
    BY <1>1, <1>2, <2>2, Ordered
  <2>4. w \in Int /\ n - 1 \in Int /\ w =< n - 1
    BY <1>1, <1>2, <2>3
  <2>5. Min({w, n - 1}) = w
    BY <2>4, MinMaxIs
  <2> QED BY <2>1, <2>5 DEF n, w, ranks
<1>4. CASE ~Sharded(d)
  <2>1. SourcePage(d, s, p) = Min({s * n + p, all * n - 1})
    BY <1>1, <1>4 DEF SourcePage, n
  <2>2. ranks = 1 /\ p < n * 1
    BY <1>1, <1>4 DEF n, ranks
  <2>3. p < n /\ w = p
    <3>1. p % 1 \in 0..1 - 1 /\ p = 1 * (p \div 1) + (p % 1) /\ p \div 1 \in Int
      BY Division DEF Positive
    <3> QED BY <1>1, <2>2, <3>1 DEF w
  <2>4. s * n + p =< all * n - 1 /\ s * n + p \in Int /\ all * n - 1 \in Int
    <3>1. s \in Nat /\ s =< all - 1
      BY <1>1 DEF all
    <3>2. s * n \in Nat /\ all * n \in Nat /\ (all - 1) * n = all * n - n
      BY <1>1, <3>1
    <3>3. s * n =< (all - 1) * n
      BY <1>1, <3>1
    <3> QED BY <1>1, <2>3, <3>2, <3>3
  <2>5. Min({s * n + p, all * n - 1}) = s * n + p
    BY <2>4, MinMaxIs
  <2> QED BY <2>1, <2>3, <2>5 DEF n, w, ranks
<1> QED BY <1>3, <1>4

\* The page of a buffer that position x lies on.
Piece(d, x) == x \div d.page

\* Position x of the k-th key block of sequence s is a cached token that a
\* copy to the page it is on has to bring: with the tokens along lanes it is
\* copied in with the whole page, and nothing over it.
CopiedOver(d, e, s, k, x) ==
  LET g == Piece(d, x)
      y == k * d.bkv + x IN
  /\ SeqAlongLane(d) /\ x < BkvFromCache(d, s, k)
  /\ g \in DOMAIN e.cache /\ e.cache[g].n > 0
  /\ Covering(e.new, x) = {} /\ Covering(e.cache, x) = {g}
  /\ d.page_indices[e.cache[g].page] = PageOf(d, s, y)
  /\ x - e.cache[g].at = SlotOf(d, y)

LEMMA CachedPiece ==
  ASSUME NEW d, IsConfig(d), Fits(d), NEW s \in 0..NumSeqs(d) - 1, NEW q \in Int, NEW k \in Nat,
         NEW e, e = Entry(d, s, q, k), e.wb, NEW i \in DOMAIN e.new, NEW j \in 0..e.new[i].m - 1,
         k * d.bkv + (e.new[i].from + j) < CacheLen(d, s)
  PROVE  CopiedOver(d, e, s, k, e.new[i].from + j)
<1> DEFINE slot == e.new[i]
           m == d.page
           base == k * d.bkv
           x == slot.from + j
           y == base + x
           cached == BkvFromCache(d, s, k)
           edge == CacheLen(d, s) - base
           left == KvLeftFromCache(d, s, k)
           size == NewSize(d, s, k)
<1>1. PICK u \in 0..BkvP(d) - 1, r \in 0..m - 1, o \in 0..m - 1 :
        /\ base + (m * u + r) < d.kv_lens[s]
        /\ slot.from = m * u + o /\ slot.offset = o
        /\ slot.m \in Nat /\ o + slot.m =< m
        /\ Owned(d, k * BkvP(d) + u)
        /\ SeqAlongLane(d) \/ slot.from >= cached
  BY SlotTarget
<1>2. size > 0
  BY SlotTarget
<1>3. m \in Positive /\ m \in Nat /\ m > 0 /\ d.bkv \in Nat
  BY Units
<1> DEFINE p == k * BkvP(d) + u
<1>4. u \in Nat /\ m * u \in Nat /\ o + j \in 0..m - 1 /\ x = m * u + (o + j)
  <2>1. u \in Nat
    OBVIOUS
  <2>2. m * u \in Nat
    BY <1>3, <2>1
  <2> QED BY <1>1, <1>3, <2>1, <2>2
<1>5. /\ x \in 0..d.bkv - 1 /\ x \div m = u /\ y \in Nat
      /\ SlotOf(d, y) = o + j /\ p \in Nat /\ p < PagesPerSeq(d) * NumRanks(d)
      /\ PageOf(d, s, y) = d.page_indices[s * PagesPerSeq(d) + (p \div NumRanks(d))]
  <2>1. k * d.bkv + (m * u + r) < d.kv_lens[s]
    BY <1>1
  <2>2. /\ m * u + (o + j) \in 0..d.bkv - 1 /\ (m * u + (o + j)) \div m = u
        /\ k * d.bkv + (m * u + (o + j)) \in Nat
        /\ SlotOf(d, k * d.bkv + (m * u + (o + j))) = o + j
        /\ p \in Nat /\ p < PagesPerSeq(d) * NumRanks(d)
        /\ PageOf(d, s, k * d.bkv + (m * u + (o + j))) =
             d.page_indices[s * PagesPerSeq(d) + (p \div NumRanks(d))]
    BY <1>4, <2>1, PagePlace
  <2> HIDE DEF p
  <2> QED BY <1>4, <2>2
<1>6. /\ base \in Nat /\ edge \in Int /\ cached \in 0..d.bkv /\ left = Max({edge, 0})
      /\ (edge =< cached \/ cached = d.bkv) /\ CacheLen(d, s) \in Nat
      /\ ~d.skip_kv_update /\ d.scope # "CACHE_ONLY"
  <2>1. /\ base \in Nat /\ edge \in Int /\ cached \in 0..d.bkv /\ left = Max({edge, 0})
        /\ (edge =< cached \/ cached = d.bkv) /\ CacheLen(d, s) \in 0..d.kv_lens[s]
        /\ ~d.skip_kv_update /\ d.scope # "CACHE_ONLY"
    BY <1>2, BlockIs
  <2> QED BY <2>1
<1> HIDE DEF p, size, left
<1>7. x < edge /\ left = edge /\ left \in Nat
  <2>1. base + x < CacheLen(d, s)
    OBVIOUS
  <2>2. x < edge
    BY <1>5, <1>6, <2>1
  <2>3. edge > 0 /\ edge \in Int
    BY <1>5, <1>6, <2>2
  <2> HIDE DEF edge
  <2>4. left = edge
    BY <1>6, <2>3, MaxZero
  <2> QED BY <2>2, <2>3, <2>4
<1> HIDE DEF base, edge, cached, slot
<1>8. x < cached
  BY <1>3, <1>5, <1>6, <1>7
<1>9. SeqAlongLane(d)
  BY <1>1, <1>4, <1>5, <1>6, <1>8
<1> HIDE DEF x
<1>10. /\ DOMAIN e.cache = 0..BkvP(d) - 1
       /\ \A g \in 0..BkvP(d) - 1 :
            /\ e.cache[g].at = g * m
            /\ e.cache[g].page = SourcePage(d, s, k * BkvP(d) + g)
            /\ e.cache[g].n = IF FetchesPage(d, k * BkvP(d) + g)
                              THEN Moved(d, Clip(left - g * m, 0, m)) ELSE 0
  <2>1. e.cache = CachePages(d, s, k, left)
    BY DEF Entry, left
  <2> QED BY <2>1 DEF CachePages
<1>11. ASSUME NEW g \in 0..BkvP(d) - 1 PROVE e.cache[g].n \in {0, m}
  <2> DEFINE rest == left - g * m
  <2>1. rest \in Int
    BY <1>3, <1>7
  <2>2. e.cache[g].n \in {Moved(d, Clip(rest, 0, m)), 0}
    BY <1>10
  <2> HIDE DEF rest, m
  <2>3. Clip(rest, 0, m) \in 0..m
    BY <1>3, <2>1, ClipIs
  <2>4. Moved(d, Clip(rest, 0, m)) \in {0, m}
    BY <1>3, <1>9, <2>3 DEF Moved, m
  <2> QED BY <2>2, <2>4
<1>12. e.cache[u].n = m
  <2> DEFINE rest == left - u * m
  <2>1. rest \in Int /\ rest > 0
    <3>1. u * m = m * u
      BY <1>3, <1>4
    <3> QED BY <1>3, <1>4, <1>7, <3>1
  <2>2. FetchesPage(d, p)
    BY <1>1, <1>9 DEF FetchesPage, p
  <2>3. e.cache[u].n = Moved(d, Clip(rest, 0, m))
    BY <1>10, <2>2 DEF p
  <2> HIDE DEF rest, m
  <2>4. Clip(rest, 0, m) > 0
    <3> DEFINE low == Min({rest, m})
    <3>1. low = (IF rest =< m THEN rest ELSE m) /\ m \in Int
      BY <1>3, <2>1, MinMaxIs
    <3> HIDE DEF low
    <3>2. low \in Int /\ low > 0
      BY <1>3, <2>1, <3>1
    <3>3. Max({0, low}) = low
      BY <3>2, MaxZero
    <3> QED BY <3>2, <3>3 DEF Clip, low
  <2> QED BY <1>9, <2>3, <2>4 DEF Moved, m
<1>13. Covering(e.cache, x) = {u}
  <2>1. u \in Covering(e.cache, x)
    <3>1. x \in u * m..(u * m + m - 1)
      <4>1. u * m = m * u
        BY <1>3, <1>4
      <4> QED BY <1>3, <1>4, <4>1
    <3> QED BY <1>10, <1>12, <3>1 DEF Covering
  <2>2. ASSUME NEW g \in Covering(e.cache, x) PROVE g = u
    <3>1. g \in 0..BkvP(d) - 1 /\ x \in g * m..(g * m + e.cache[g].n - 1)
      BY <1>10 DEF Covering
    <3>2. g \in Int /\ g * m = m * g /\ m * g \in Int
      BY <1>3, <3>1
    <3> DEFINE w == m * g
               l == x - w
    <3>3. w \in Int /\ x \in w..w + m - 1 /\ x \in Int
      BY <1>3, <1>5, <1>11, <3>1, <3>2
    <3> HIDE DEF w
    <3>4. l \in 0..m - 1 /\ x = w + l
      BY <1>3, <3>3
    <3> HIDE DEF l
    <3>5. (m * g + l) \div m = g
      BY <1>3, <3>2, <3>4, DivisionIs
    <3> QED BY <1>5, <3>4, <3>5 DEF w
  <2> QED BY <2>1, <2>2
<1>14. Covering(e.new, x) = {}
  <2> SUFFICES ASSUME NEW h \in Covering(e.new, x) PROVE FALSE
    OBVIOUS
  <2>1. e.new = NewSlots(d, s, k, cached, NewSize(d, s, k), d.cu_q_lens[s + 1] - KvLeftFromNew(d, s, k))
    BY DEF Entry, cached
  <2>2. h \in 0..BkvPNew(d) - 1 /\ e.new[h].at = (CeilDiv(cached, m) + h) * m
        /\ e.new[h].n \in {0, m}
    BY <1>9, <2>1 DEF Covering, NewSlots, LaneSlot
  <2>3. h \in Nat
    BY <2>2, BlockPages
  <2> DEFINE w == CeilDiv(cached, m)
  <2>4. w \in Nat /\ cached =< m * w /\ cached \in Nat
    <3>1. cached \in Nat
      BY <1>3, <1>6
    <3> HIDE DEF m
    <3> QED BY <1>3, <3>1, CeilDivIs
  <2> HIDE DEF w
  <2>5. (w + h) * m = m * w + m * h /\ m * w \in Nat /\ m * h \in Nat
    BY <1>3, <2>3, <2>4
  <2>6. x >= e.new[h].at
    <3>1. x \in e.new[h].at..(e.new[h].at + e.new[h].n - 1)
      BY DEF Covering
    <3>2. e.new[h].at \in Nat /\ e.new[h].n \in Nat
      BY <1>3, <2>2, <2>5 DEF w
    <3> QED BY <3>1, <3>2
  <2>7. e.new[h].at = m * w + m * h
    BY <2>2, <2>5 DEF w
  <2> QED BY <1>5, <1>8, <2>4, <2>5, <2>6, <2>7
<1>15. d.page_indices[e.cache[u].page] = PageOf(d, s, y) /\ x - e.cache[u].at = SlotOf(d, y)
  <2>1. e.cache[u].page = SourcePage(d, s, p) /\ e.cache[u].at = u * m
    BY <1>10 DEF p
  <2>2. SourcePage(d, s, p) = s * PagesPerSeq(d) + (p \div NumRanks(d))
    BY <1>5, <1>6, <1>9, SourceIs
  <2>3. x - u * m = o + j
    <3>1. u * m = m * u
      BY <1>3, <1>4
    <3> QED BY <1>3, <1>4, <3>1
  <2> QED BY <1>5, <2>1, <2>2, <2>3
<1> QED BY <1>3, <1>5, <1>8, <1>9, <1>10, <1>12, <1>13, <1>14, <1>15 DEF x, slot, base, cached, Piece, CopiedOver

-----------------------------------------------------------------------------
\* What the stitch keeps, and what the fetch brings.

LEMMA MaxOne ==
  ASSUME NEW x \in Int
  PROVE  Max({x}) = x
<1>1. {x, x} = {x} /\ Max({x, x}) = IF x =< x THEN x ELSE x
  BY MinMaxIs
<1> QED BY <1>1

IsBuffer(d, v) == DOMAIN v = 0..BufferLen(d) - 1

LEMMA DecodeKeeps ==
  ASSUME NEW d, IsConfig(d), Fits(d), SeqAlongLane(d), NEW v, IsBuffer(d, v),
         NEW m, m.cached \in 0..d.bkv, NEW x \in 0..d.bkv - 1, x < m.cached
  PROVE  StitchDecode(d, v, m)[x] = v[x]
<1> DEFINE lanes == NumLanes
           first == FirstCol(m)
           last == MaxCol(d)
           col == x \div lanes
           at == x % lanes
           edge == m.cached % lanes
           before == {i \in 0..NumCols(d) - 1 : MergedCol(d, m, i) <= col}
<1>1. /\ lanes \in Positive /\ lanes \in Nat /\ lanes > 0
      /\ d.page \in Nat /\ d.page > 0 /\ d.bkv \in Nat /\ d.page % lanes = 0
  BY LanesAssumption, Units DEF Positive, Fits, FitsPages
<1>2. x \in DOMAIN v
  <2>1. BufferLen(d) = d.bkv + 2 * d.page
    BY DEF BufferLen
  <2> QED BY <1>1, <2>1 DEF IsBuffer
<1>3. NumCols(d) \in Int
  <2>1. lanes - 1 + d.bq \in Int
    BY <1>1 DEF IsConfig, Positive
  <2> DEFINE n == lanes - 1 + d.bq
  <2> HIDE DEF n
  <2>2. -n \in Int
    BY <2>1 DEF n
  <2>3. CeilDiv(n, lanes) \in Int
    BY <1>1, <2>2, Division DEF CeilDiv
  <2> QED BY <2>3 DEF NumCols, n
<1>4. StitchDecode(d, v, m)[x] =
        IF col \in StoredCols(d, m) /\ before # {} THEN Merged(d, v, m, Max(before), at) ELSE v[x]
  BY <1>2 DEF StitchDecode
<1>5. /\ col \in Int /\ at \in 0..lanes - 1 /\ x = lanes * col + at
      /\ first \in Int /\ edge \in 0..lanes - 1 /\ m.cached = lanes * first + edge
      /\ m.cached \in Int
  <2>1. m.cached \in Int /\ x \in Int
    BY <1>1
  <2>2. col \in Int /\ at \in 0..lanes - 1 /\ x = lanes * col + at
    BY <1>1, <2>1, Division
  <2> DEFINE n == m.cached
  <2>3. n \div lanes \in Int /\ n % lanes \in 0..lanes - 1 /\ n = lanes * (n \div lanes) + (n % lanes)
    <3>1. n \in Int
      BY <2>1
    <3> HIDE DEF n
    <3> QED BY <1>1, <3>1, Division
  <2>4. first = n \div lanes
    BY DEF FirstCol
  <2> QED BY <2>1, <2>2, <2>3, <2>4
<1> HIDE DEF first, edge, col, at
<1>6. col < first + 1
  <2>1. lanes * (first + 1) = lanes * first + lanes /\ lanes * first \in Int /\ lanes * col \in Int
    BY <1>1, <1>5
  <2>2. lanes * col < lanes * (first + 1)
    BY <1>1, <1>5, <2>1
  <2> QED BY <1>1, <1>5, <2>2, Ordered
<1>7. last \in Int /\ first + 1 =< last
  <2> DEFINE room == BufferLen(d)
             b == room \div lanes
             w == d.page \div lanes
  <2>1. room = d.bkv + 2 * d.page /\ room \in Nat /\ last = b - 1
    BY <1>1 DEF BufferLen, MaxCol
  <2> HIDE DEF room, last
  <2>2. b \in Int /\ room % lanes \in 0..lanes - 1 /\ room = lanes * b + (room % lanes)
    <3>1. room \in Int
      BY <2>1
    <3> QED BY <1>1, <3>1, Division
  <2>3. w \in Nat /\ d.page = lanes * w
    <3> DEFINE n == d.page
    <3>1. n \in Nat /\ n \in Int /\ n % lanes = 0
      BY <1>1
    <3> HIDE DEF n
    <3>2. n \div lanes \in Nat /\ n = lanes * (n \div lanes) + (n % lanes) /\ n \div lanes \in Int
      BY <1>1, <3>1, Division, QuotientIs
    <3>3. n = lanes * (n \div lanes)
      <4> DEFINE y == lanes * (n \div lanes)
      <4>1. y \in Int
        BY <1>1, <3>2
      <4> HIDE DEF y
      <4>2. n = y + 0
        BY <3>1, <3>2 DEF y
      <4> QED BY <4>1, <4>2 DEF y
    <3> QED BY <3>2, <3>3 DEF n
  <2> HIDE DEF b, w
  <2>4. d.page >= lanes
    <3>1. w # 0
      BY <1>1, <2>3
    <3>2. 0 < w /\ lanes * w - lanes * 0 >= lanes
      BY <1>1, <2>3, <3>1, Multiple
    <3> QED BY <1>1, <2>3, <3>2
  <2>5. lanes * (first + 2) = lanes * first + 2 * lanes /\ lanes * first \in Int
        /\ lanes * (b + 1) = lanes * b + lanes /\ lanes * b \in Int
    BY <1>1, <1>5, <2>2
  <2>6. lanes * (first + 2) < lanes * (b + 1)
    <3> DEFINE y == lanes * first
               z == lanes * b
               r == room % lanes
    <3>1. /\ y \in Int /\ z \in Int /\ r \in 0..lanes - 1 /\ room = z + r
          /\ m.cached = y + edge /\ m.cached =< d.bkv /\ edge \in 0..lanes - 1
      BY <1>1, <1>5, <2>2, <2>5
    <3> HIDE DEF y, z, r
    <3>2. y + 2 * lanes < z + lanes
      BY <1>1, <1>5, <2>1, <2>4, <3>1
    <3> QED BY <2>5, <3>2 DEF y, z
  <2>7. first + 2 < b + 1
    BY <1>1, <1>5, <2>2, <2>6, Ordered
  <2> QED BY <1>5, <2>1, <2>2, <2>7
<1> HIDE DEF last
<1>8. ASSUME NEW i \in before PROVE i = 0 /\ col = first
  <2>1. i \in Nat /\ MergedCol(d, m, i) =< col
    BY <1>3
  <2>2. first + i \in Int
    BY <1>5, <2>1
  <2>3. MergedCol(d, m, i) = IF first + i =< last THEN first + i ELSE last
    BY <1>7, <2>2, MinMaxIs DEF MergedCol, first, last
  <2> QED BY <1>5, <1>6, <1>7, <2>1, <2>3
<1> HIDE DEF before
<1>9. CASE before = {}
  BY <1>4, <1>9
<1>10. CASE before # {}
  <2>1. before = {0} /\ col = first
    BY <1>8, <1>10
  <2>2. Max(before) = 0
    BY <2>1, MaxOne
  <2>3. Merged(d, v, m, 0, at) = v[x]
    <3>1. at < edge
      BY <1>1, <1>5, <2>1
    <3>2. 0 * lanes + at - edge < 0
      BY <1>1, <1>5, <3>1
    <3>3. MergedCol(d, m, 0) = first
      <4>1. first + 0 = first /\ first =< last
        BY <1>5, <1>7
      <4>2. Min({first, last}) = first
        BY <1>5, <1>7, <4>1, MinMaxIs
      <4> QED BY <4>1, <4>2 DEF MergedCol, first, last
    <3>4. first * lanes + at = x
      BY <1>1, <1>5, <2>1
    <3> QED BY <3>2, <3>3, <3>4 DEF Merged, edge
  <2> QED BY <1>4, <2>2, <2>3
<1> QED BY <1>9, <1>10

\* The stitch moves the new tokens, never a cached one.
LEMMA StitchKeeps ==
  ASSUME NEW d, IsConfig(d), Fits(d), NEW v, IsBuffer(d, v),
         NEW m, m.cached \in 0..d.bkv, NEW x \in 0..d.bkv - 1, x < m.cached
  PROVE  Stitch(d, v, m)[x] = v[x]
<1>1. CASE ~SeqAlongLane(d)
  BY <1>1 DEF Stitch
<1>2. CASE SeqAlongLane(d) /\ d.bq <= NumLanes
  <2>1. StitchDecode(d, v, m)[x] = v[x]
    BY <1>2, DecodeKeeps
  <2> QED BY <1>2, <2>1 DEF Stitch
<1>3. CASE SeqAlongLane(d) /\ ~(d.bq <= NumLanes)
  <2>1. x \in DOMAIN v
    <3>1. BufferLen(d) = d.bkv + 2 * d.page
      BY <1>3 DEF BufferLen
    <3> QED BY <3>1, Units DEF IsBuffer
  <2>2. x \notin m.cached..(d.bkv - 1)
    BY Units
  <2> QED BY <1>3, <2>1, <2>2 DEF Stitch, StitchPrefill
<1> QED BY <1>1, <1>2, <1>3

LEMMA StitchDomain ==
  ASSUME NEW d, NEW v, NEW m
  PROVE  DOMAIN Stitch(d, v, m) = DOMAIN v
BY DEF Stitch, StitchPrefill, StitchDecode

\* A buffer has what its entry writes back of cached tokens.
Merges(d, e, v) ==
  e.wb => \A i \in DOMAIN e.new : \A j \in 0..e.new[i].m - 1 :
    LET x == e.new[i].from + j IN
    e.k * d.bkv + x < CacheLen(d, e.s) => v[x] = <<e.s, e.k * d.bkv + x>>

LEMMA BackEntry ==
  ASSUME NEW d, NEW e, Filed(d, e), e.wb
  PROVE  /\ e.s \in 0..NumSeqs(d) - 1 /\ e.q \in Int /\ e.k \in Nat
         /\ e = Entry(d, e.s, e.q, e.k)
<1>1. e # MaskedEntry(d)
  BY DEF MaskedEntry
<1>2. PICK s \in 0..NumSeqs(d) - 1, q \in Int, k \in Nat : e = Entry(d, s, q, k)
  BY <1>1 DEF Filed
<1>3. e.s = s /\ e.q = q /\ e.k = k
  BY <1>2 DEF Entry
<1> QED BY <1>2, <1>3

LEMMA StitchMerges ==
  ASSUME NEW d, IsConfig(d), Fits(d), NEW e, Filed(d, e), NEW v, IsBuffer(d, v),
         Merges(d, e, v)
  PROVE  Merges(d, e, Stitch(d, v, StepMeta(d, e)))
<1> SUFFICES ASSUME e.wb, NEW i \in DOMAIN e.new, NEW j \in 0..e.new[i].m - 1,
                    e.k * d.bkv + (e.new[i].from + j) < CacheLen(d, e.s)
             PROVE  Stitch(d, v, StepMeta(d, e))[e.new[i].from + j] =
                      <<e.s, e.k * d.bkv + (e.new[i].from + j)>>
  BY DEF Merges
<1> DEFINE x == e.new[i].from + j
           m == StepMeta(d, e)
<1>1. /\ e.s \in 0..NumSeqs(d) - 1 /\ e.q \in Int /\ e.k \in Nat
      /\ e = Entry(d, e.s, e.q, e.k)
  BY BackEntry
<1>2. x \in 0..d.bkv - 1
  BY <1>1, SlotPlace
<1>3. x < BkvFromCache(d, e.s, e.k)
  <2>1. CopiedOver(d, e, e.s, e.k, x)
    BY <1>1, CachedPiece
  <2> QED BY <2>1 DEF CopiedOver
<1>4. m.cached = BkvFromCache(d, e.s, e.k) /\ m.cached \in 0..d.bkv
  <2>1. NewSize(d, e.s, e.k) > 0
    BY <1>1, SlotTarget
  <2>2. /\ ~d.skip_kv_update
        /\ BkvFromCache(d, e.s, e.k) \in 0..d.bkv
        /\ BkvFromCache(d, e.s, e.k) = Min({Max({CacheLen(d, e.s) - e.k * d.bkv, 0}), d.bkv})
    BY <1>1, <2>1, BlockIs
  <2>3. e.s # -1
    BY <1>1
  <2> QED BY <2>2, <2>3 DEF StepMeta, FromCache
<1> HIDE DEF m, x
<1>5. Stitch(d, v, m)[x] = v[x]
  BY <1>2, <1>3, <1>4, StitchKeeps
<1>6. v[x] = <<e.s, e.k * d.bkv + x>>
  BY DEF Merges, x
<1> QED BY <1>5, <1>6 DEF m, x

-----------------------------------------------------------------------------
\* What the pages keep.

LEMMA MaxIn ==
  ASSUME NEW n \in Int, NEW S, S \subseteq 0..n, S # {}
  PROVE  Max(S) \in S
<1> DEFINE T == {n - x : x \in S}
<1>1. T \subseteq Nat /\ T # {}
  BY DEF T
<1>2. PICK t \in T : \A u \in T : t =< u
  BY <1>1, Least
<1>3. PICK x \in S : t = n - x
  BY <1>2
<1>4. ASSUME NEW y \in S PROVE x >= y
  <2>1. n - y \in T
    OBVIOUS
  <2>2. n - x =< n - y /\ x \in Int /\ y \in Int
    BY <1>2, <1>3, <2>1
  <2> QED BY <2>2
<1>5. \E z \in S : \A y \in S : z >= y
  BY <1>4
<1> QED BY <1>5 DEF Max

\* CacheKept, for a launch d and pages pg.
CachedOf(d, s) ==
  {y \in 0..(GlobalCacheLen(d, s) - 1 + (IF d.skip_kv_update THEN QLen(d, s) ELSE 0)) : Holds(d, y)}

Kept(d, pg) ==
  /\ \A s \in 0..NumSeqs(d) - 1 : \A y \in CachedOf(d, s) :
       pg[PageOf(d, s, y)][SlotOf(d, y)] = <<s, y>>
  /\ \A p \in DOMAIN pg :
       (\A s \in 0..NumSeqs(d) - 1 : \A y \in 0..d.kv_lens[s] - 1 :
            Holds(d, y) => PageOf(d, s, y) # p)
         => \A y \in DOMAIN pg[p] : pg[p][y] = Unwritten

Stored(d, pg) ==
  /\ DOMAIN pg = 0..d.num_pages - 1
  /\ \A p \in DOMAIN pg : DOMAIN pg[p] = 0..d.page - 1

LEMMA KeptIs == CacheKept <=> Kept(c, pages)
BY DEF CacheKept, Kept, CachedAtFirst, CachedOf

\* A cached token is one of its sequence's, and has a place.
LEMMA CachedPlace ==
  ASSUME NEW d, IsConfig(d), Fits(d), NEW s \in 0..NumSeqs(d) - 1, NEW y \in CachedOf(d, s)
  PROVE  /\ y \in 0..d.kv_lens[s] - 1 /\ Holds(d, y)
         /\ PageOf(d, s, y) \in 0..d.num_pages - 1 /\ SlotOf(d, y) \in 0..d.page - 1
         /\ y = d.page * (y \div d.page) + SlotOf(d, y)
         /\ ~d.skip_kv_update => y < GlobalCacheLen(d, s)
<1>1. d.kv_lens[s] \in Nat
  <2> DEFINE S == 0..NumSeqs(d) - 1
  <2>1. d.kv_lens \in [S -> Nat] /\ s \in S
    BY DEF IsConfig, IsCall
  <2> HIDE DEF S
  <2> QED BY <2>1
<1>2. QLen(d, s) \in 0..d.kv_lens[s] /\ GlobalCacheLen(d, s) = d.kv_lens[s] - QLen(d, s)
  BY DEF Fits, FitsPages, GlobalCacheLen
<1>3. y \in 0..(GlobalCacheLen(d, s) - 1 + (IF d.skip_kv_update THEN QLen(d, s) ELSE 0)) /\ Holds(d, y)
  BY DEF CachedOf
<1>4. y \in 0..d.kv_lens[s] - 1 /\ (~d.skip_kv_update => y < GlobalCacheLen(d, s))
  BY <1>1, <1>2, <1>3
<1>5. PageOf(d, s, y) \in 0..d.num_pages - 1
  BY <1>3, <1>4 DEF Fits, FitsPages
<1>6. SlotOf(d, y) \in 0..d.page - 1 /\ y = d.page * (y \div d.page) + SlotOf(d, y)
  <2>1. y \in Int
    BY <1>4
  <2> QED BY <2>1, Units, Division DEF SlotOf
<1> QED BY <1>3, <1>4, <1>5, <1>6

\* Writing back what a buffer has to write back keeps every cached token,
\* those on the same page and those the slots write once more.
LEMMA BackKeeps ==
  ASSUME IsConfig(c), Fits(c), NEW e, Filed(c, e), e.wb, NEW v, Merges(c, e, v),
         Stored(c, pages), Kept(c, pages)
  PROVE  Stored(c, WrittenBack(e, v)) /\ Kept(c, WrittenBack(e, v))
<1> DEFINE pg == WrittenBack(e, v)
           into(p, l) == {i \in DOMAIN e.new :
                            /\ c.page_indices[e.new[i].page] = p
                            /\ l \in e.new[i].offset..(e.new[i].offset + e.new[i].m - 1)}
           base == e.k * c.bkv
<1>1. /\ e.s \in 0..NumSeqs(c) - 1 /\ e.q \in Int /\ e.k \in Nat
      /\ e = Entry(c, e.s, e.q, e.k)
  BY BackEntry
<1>2. /\ DOMAIN pg = DOMAIN pages
      /\ \A p \in DOMAIN pages :
           /\ DOMAIN pg[p] = DOMAIN pages[p]
           /\ \A l \in DOMAIN pages[p] :
                pg[p][l] = IF into(p, l) = {} THEN pages[p][l]
                           ELSE v[e.new[Max(into(p, l))].from + l - e.new[Max(into(p, l))].offset]
  BY DEF WrittenBack
<1> HIDE DEF pg
<1>3. Stored(c, pg)
  BY <1>2 DEF Stored
<1>4. ASSUME NEW p, NEW l \in Int, into(p, l) # {}
      PROVE  \E i \in DOMAIN e.new : \E j \in 0..e.new[i].m - 1 :
               /\ i = Max(into(p, l)) /\ c.page_indices[e.new[i].page] = p
               /\ e.new[i].offset \in Int /\ l = e.new[i].offset + j
  <2> DEFINE i == Max(into(p, l))
             n == BkvPNew(c) - 1
  <2>1. i \in into(p, l)
    <3> DEFINE S == into(p, l)
    <3>1. n \in Int /\ DOMAIN e.new = 0..n
      BY <1>1, BlockPages DEF Entry, NewSlots
    <3>2. S \subseteq 0..n /\ S # {}
      BY <1>4, <3>1
    <3> HIDE DEF S, n
    <3>3. Max(S) \in S
      BY <3>1, <3>2, MaxIn
    <3> QED BY <3>3 DEF S
  <2> HIDE DEF i
  <2>2. /\ i \in DOMAIN e.new /\ c.page_indices[e.new[i].page] = p
        /\ l \in e.new[i].offset..(e.new[i].offset + e.new[i].m - 1)
    BY <2>1
  <2>3. e.new[i].m \in Nat /\ e.new[i].offset \in Int
    BY <1>1, <2>2, SlotInts
  <2> DEFINE j == l - e.new[i].offset
  <2>4. j \in 0..e.new[i].m - 1 /\ l = e.new[i].offset + j
    BY <2>2, <2>3
  <2> QED BY <2>2, <2>3, <2>4 DEF i
<1> HIDE DEF into
<1>5. ASSUME NEW s \in 0..NumSeqs(c) - 1, NEW y \in CachedOf(c, s)
      PROVE  pg[PageOf(c, s, y)][SlotOf(c, y)] = <<s, y>>
  <2> DEFINE p == PageOf(c, s, y)
             l == SlotOf(c, y)
  <2>1. /\ y \in 0..c.kv_lens[s] - 1 /\ Holds(c, y) /\ l \in 0..c.page - 1 /\ p \in 0..c.num_pages - 1
        /\ y = c.page * (y \div c.page) + l /\ (~c.skip_kv_update => y < GlobalCacheLen(c, s))
    BY CachedPlace
  <2>2. p \in DOMAIN pages /\ l \in DOMAIN pages[p] /\ l \in Int
    <3>1. p \in DOMAIN pages
      BY <2>1 DEF Stored
    <3>2. DOMAIN pages[p] = 0..c.page - 1
      BY <3>1 DEF Stored
    <3>3. l \in 0..c.page - 1 /\ c.page \in Nat
      BY <2>1, Units
    <3> HIDE DEF p, l
    <3> QED BY <3>1, <3>2, <3>3
  <2>3. pages[p][l] = <<s, y>>
    BY DEF Kept
  <2>4. CASE into(p, l) = {}
    BY <1>2, <2>2, <2>3, <2>4
  <2>5. CASE into(p, l) # {}
    <3>0. PICK i \in DOMAIN e.new : \E j \in 0..e.new[i].m - 1 :
            /\ i = Max(into(p, l)) /\ c.page_indices[e.new[i].page] = p
            /\ e.new[i].offset \in Int /\ l = e.new[i].offset + j
      BY <1>4, <2>2, <2>5
    <3>1. PICK j \in 0..e.new[i].m - 1 :
            /\ i = Max(into(p, l)) /\ c.page_indices[e.new[i].page] = p
            /\ e.new[i].offset \in Int /\ l = e.new[i].offset + j
      BY <3>0
    <3> DEFINE x == e.new[i].from + j
               t == base + x
    <3>2. /\ t \in Nat /\ p = PageOf(c, e.s, t) /\ l = SlotOf(c, t) /\ e.new[i].from \in Int
          /\ e.new[i].m \in Nat
          /\ \E z \in 0..c.kv_lens[e.s] - 1 :
               Holds(c, z) /\ z \div c.page = t \div c.page /\ PageOf(c, e.s, z) = PageOf(c, e.s, t)
      BY <1>1, <3>1, SlotPlace
    <3>3. pg[p][l] = v[e.new[i].from + l - e.new[i].offset]
      BY <1>2, <2>2, <2>5, <3>1
    <3> HIDE DEF into
    <3>4. v[e.new[i].from + l - e.new[i].offset] = v[x]
      <4> DEFINE a == e.new[i].from
                 b == e.new[i].offset
      <4>1. a \in Int /\ b \in Int /\ j \in Int /\ l = b + j
        <5>1. e.new[i].m \in Nat /\ j \in 0..e.new[i].m - 1
          BY <3>1, <3>2
        <5>2. j \in Int
          BY <5>1
        <5>3. l = b + j /\ b \in Int
          BY <3>1
        <5>4. a \in Int
          BY <3>2
        <5> QED BY <5>2, <5>3, <5>4
      <4> HIDE DEF a, b, l
      <4>2. a + l - b = a + j
        BY <4>1
      <4> QED BY <4>2 DEF a, b
    <3>5. PICK z \in 0..c.kv_lens[e.s] - 1 :
            Holds(c, z) /\ z \div c.page = t \div c.page /\ PageOf(c, e.s, z) = p
      BY <3>2
    <3>6. s = e.s /\ y \div c.page = t \div c.page
      <4>1. PageOf(c, s, y) = PageOf(c, e.s, z)
        BY <3>5
      <4> QED BY <1>1, <2>1, <3>5, <4>1 DEF Fits, FitsPages
    <3>7. y = t
      <4> HIDE DEF t, p, l
      <4>1. t = c.page * (t \div c.page) + (t % c.page) /\ l = t % c.page
        BY <3>2, Units, Division DEF SlotOf
      <4>2. y = c.page * (t \div c.page) + l
        BY <2>1, <3>6
      <4> QED BY <4>1, <4>2
    <3>8. NewSize(c, e.s, e.k) > 0
      BY <1>1, SlotTarget
    <3>9. t < CacheLen(c, e.s)
      <4>1. ~c.skip_kv_update /\ CacheLen(c, e.s) = GlobalCacheLen(c, e.s)
        BY <1>1, <3>8, BlockIs
      <4> QED BY <2>1, <3>6, <3>7, <4>1
    <3>10. v[x] = <<e.s, t>>
      BY <3>9 DEF Merges
    <3> HIDE DEF x, t
    <3> QED BY <3>3, <3>4, <3>6, <3>7, <3>10
  <2> QED BY <2>4, <2>5
<1>6. ASSUME NEW p \in DOMAIN pg, NEW l \in DOMAIN pg[p],
             \A s \in 0..NumSeqs(c) - 1 : \A y \in 0..c.kv_lens[s] - 1 :
               Holds(c, y) => PageOf(c, s, y) # p
      PROVE  pg[p][l] = Unwritten
  <2>1. p \in DOMAIN pages /\ l \in DOMAIN pages[p] /\ l \in Int
    <3>1. p \in DOMAIN pages /\ DOMAIN pg[p] = DOMAIN pages[p]
      BY <1>2
    <3>2. DOMAIN pages[p] = 0..c.page - 1
      BY <3>1 DEF Stored
    <3> QED BY <3>1, <3>2
  <2>2. pages[p][l] = Unwritten
    BY <1>6, <2>1 DEF Kept
  <2>3. into(p, l) = {}
    <3> SUFFICES ASSUME into(p, l) # {} PROVE FALSE
      OBVIOUS
    <3>1. PICK i \in DOMAIN e.new : \E j \in 0..e.new[i].m - 1 :
            i = Max(into(p, l)) /\ c.page_indices[e.new[i].page] = p
      BY <1>4, <2>1
    <3>2. PICK j \in 0..e.new[i].m - 1 : c.page_indices[e.new[i].page] = p
      BY <3>1
    <3> DEFINE t == base + (e.new[i].from + j)
    <3>3. p = PageOf(c, e.s, t) /\ \E z \in 0..c.kv_lens[e.s] - 1 :
            Holds(c, z) /\ z \div c.page = t \div c.page /\ PageOf(c, e.s, z) = PageOf(c, e.s, t)
      BY <1>1, <3>2, SlotPlace
    <3> QED BY <1>1, <1>6, <3>3
  <2> QED BY <1>2, <2>1, <2>2, <2>3
<1> QED BY <1>3, <1>5, <1>6 DEF Kept, pg

\* The fetch brings what the entry writes back of cached tokens.
LEMMA FetchMerges ==
  ASSUME IsConfig(c), Fits(c), NEW e, Filed(c, e), NEW v, IsBuffer(c, v), Kept(c, pages)
  PROVE  Merges(c, e, Fetched(e, v)) /\ IsBuffer(c, Fetched(e, v))
<1>1. IsBuffer(c, Fetched(e, v))
  BY DEF IsBuffer, Fetched
<1> SUFFICES ASSUME e.wb, NEW i \in DOMAIN e.new, NEW j \in 0..e.new[i].m - 1,
                    e.k * c.bkv + (e.new[i].from + j) < CacheLen(c, e.s)
             PROVE  Fetched(e, v)[e.new[i].from + j] = <<e.s, e.k * c.bkv + (e.new[i].from + j)>>
  BY <1>1 DEF Merges
<1> DEFINE x == e.new[i].from + j
           y == e.k * c.bkv + x
           g == Piece(c, x)
<1>2. /\ e.s \in 0..NumSeqs(c) - 1 /\ e.q \in Int /\ e.k \in Nat
      /\ e = Entry(c, e.s, e.q, e.k)
  BY BackEntry
<1>3. x \in 0..c.bkv - 1 /\ y \in Nat /\ Holds(c, y)
  BY <1>2, SlotPlace
<1>4. /\ SeqAlongLane(c) /\ Covering(e.new, x) = {} /\ Covering(e.cache, x) = {g}
      /\ c.page_indices[e.cache[g].page] = PageOf(c, e.s, y)
      /\ x - e.cache[g].at = SlotOf(c, y)
  <2>1. CopiedOver(c, e, e.s, e.k, x)
    BY <1>2, CachedPiece
  <2> HIDE DEF x
  <2> QED BY <2>1 DEF CopiedOver
<1>5. y \in CachedOf(c, e.s)
  <2>1. NewSize(c, e.s, e.k) > 0
    BY <1>2, SlotTarget
  <2>2. /\ ~c.skip_kv_update /\ CacheLen(c, e.s) = GlobalCacheLen(c, e.s)
        /\ CacheLen(c, e.s) \in 0..c.kv_lens[e.s]
    BY <1>2, <2>1, BlockIs
  <2>3. GlobalCacheLen(c, e.s) \in Int /\ y < GlobalCacheLen(c, e.s)
    BY <2>2
  <2> HIDE DEF y
  <2>4. y \in 0..GlobalCacheLen(c, e.s) - 1 + 0
    BY <1>3, <2>3
  <2> QED BY <1>3, <2>2, <2>4 DEF CachedOf
<1>6. x \in DOMAIN v
  <2>1. BufferLen(c) = c.bkv + 2 * c.page
    BY <1>4 DEF BufferLen
  <2> HIDE DEF x
  <2> QED BY <1>3, <2>1, Units DEF IsBuffer
<1>7. Max({g}) = g
  <2>1. x \in Int
    BY <1>3
  <2> HIDE DEF x
  <2>2. g \in Int
    BY <2>1, Units, Division DEF Piece
  <2> QED BY <2>2, MaxOne
<1>8. NewPieces(e) = e.new
  BY <1>4 DEF NewPieces
<1> HIDE DEF g, x, y
<1>9. Fetched(e, v)[x] = pages[PageOf(c, e.s, y)][SlotOf(c, y)]
  BY <1>4, <1>6, <1>7, <1>8 DEF Fetched
<1>10. pages[PageOf(c, e.s, y)][SlotOf(c, y)] = <<e.s, y>>
  BY <1>2, <1>5 DEF Kept
<1> QED BY <1>9, <1>10 DEF x, y

\* An entry that copies nothing in has nothing to merge.
LEMMA ZeroMerges ==
  ASSUME IsConfig(c), Fits(c), NEW e, Filed(c, e), NEW v, ~(Amount("kv", e) > 0)
  PROVE  Merges(c, e, v)
<1> SUFFICES ASSUME e.wb, NEW i \in DOMAIN e.new, NEW j \in 0..e.new[i].m - 1,
                    e.k * c.bkv + (e.new[i].from + j) < CacheLen(c, e.s)
             PROVE  FALSE
  BY DEF Merges
<1> DEFINE g == Piece(c, e.new[i].from + j)
           f == [h \in DOMAIN e.cache |-> e.cache[h].n]
           f1 == [h \in DOMAIN e.new |-> e.new[h].n]
<1>1. /\ e.s \in 0..NumSeqs(c) - 1 /\ e.q \in Int /\ e.k \in Nat
      /\ e = Entry(c, e.s, e.q, e.k)
  BY BackEntry
<1>2. g \in DOMAIN e.cache /\ e.cache[g].n > 0
  <2>1. CopiedOver(c, e, e.s, e.k, e.new[i].from + j)
    BY <1>1, CachedPiece
  <2> QED BY <2>1 DEF CopiedOver
<1>3. DOMAIN e.cache = 0..BkvP(c) - 1 /\ DOMAIN e.new = 0..BkvPNew(c) - 1
      /\ BkvP(c) \in Int /\ BkvPNew(c) \in Int
  BY <1>1, BlockPages DEF Entry, CachePages, NewSlots
<1>4. IsFiniteSet(DOMAIN e.cache)
  <2> DEFINE n == BkvP(c) - 1
  <2>1. n \in Int /\ DOMAIN e.cache = 0..n
    BY <1>3
  <2> HIDE DEF n
  <2>2. 0 \in Int
    OBVIOUS
  <2>3. IsFiniteSet(0..n)
    BY <2>1, <2>2, FS_Interval
  <2> QED BY <2>1, <2>3
<1>5. (\A h \in DOMAIN e.cache : f[h] \in Nat) /\ \A h \in DOMAIN e.new : f1[h] \in Nat
  BY <1>1, PiecesSized
<1> HIDE DEF f, f1, g
<1>6. SumOf(f1, DOMAIN e.new) \in Nat
  BY <1>3, <1>5, SizesIs
<1>7. /\ SumOf(f, DOMAIN e.cache) = f[g] + SumOf(f, DOMAIN e.cache \ {g})
      /\ SumOf(f, DOMAIN e.cache \ {g}) \in Nat
  <2>1. DOMAIN e.cache \ {g} \in SUBSET DOMAIN e.cache
    OBVIOUS
  <2> QED BY <1>2, <1>4, <1>5, <2>1, Sums
<1>8. f[g] > 0 /\ f[g] \in Nat
  BY <1>2, <1>5 DEF f
<1>9. Amount("kv", e) = SumOf(f, DOMAIN e.cache) + SumOf(f1, DOMAIN e.new)
  BY DEF Amount, Sizes, f, f1
<1> QED BY <1>6, <1>7, <1>8, <1>9

-----------------------------------------------------------------------------
\* The invariant of the cache: a buffer whose copies have all landed has what
\* its step is to write back of cached tokens, until the step has retired.

KvCopy(step, b) == [kind |-> "kv", step |-> step, lane |-> b]
EntryAt(step, b) == smem.entries[step * c.batch + b]

Buffered ==
  /\ DOMAIN kvbuf = 0..NBuffer - 1
  /\ \A slot \in 0..NBuffer - 1 :
       DOMAIN kvbuf[slot] = Lanes /\ \A b \in Lanes : IsBuffer(c, kvbuf[slot][b])

Held ==
  \A step \in retired..issued - 1, b \in Lanes :
    KvCopy(step, b) \notin flying => Merges(c, EntryAt(step, b), kvbuf[step % NBuffer][b])

CacheInv ==
  /\ WaitInv /\ Fits(c) /\ Stored(c, pages) /\ Kept(c, pages) /\ Buffered
  /\ pc = "run" => Held

LEMMA KeptMoves ==
  ASSUME NEW k, NEW d, \A field \in Placement : d[field] = k[field], NEW pg
  PROVE  (Kept(k, pg) => Kept(d, pg)) /\ (Stored(k, pg) => Stored(d, pg))
<1>1. /\ d.page = k.page /\ d.cp_group_size = k.cp_group_size /\ d.cp_rank = k.cp_rank
      /\ d.kv_lens = k.kv_lens /\ d.cu_q_lens = k.cu_q_lens /\ d.page_indices = k.page_indices
      /\ d.num_pages = k.num_pages /\ d.layout = k.layout /\ d.skip_kv_update = k.skip_kv_update
  BY DEF Placement
<1>2. /\ NumSeqs(d) = NumSeqs(k)
      /\ \A s : QLen(d, s) = QLen(k, s)
      /\ \A y : (Holds(d, y) <=> Holds(k, y)) /\ SlotOf(d, y) = SlotOf(k, y)
      /\ \A s, y : PageOf(d, s, y) = PageOf(k, s, y)
  BY <1>1, SamePlace
<1>3. ASSUME NEW s PROVE CachedOf(d, s) = CachedOf(k, s)
  <2>1. GlobalCacheLen(d, s) = GlobalCacheLen(k, s)
    BY <1>1, <1>2 DEF GlobalCacheLen
  <2> QED BY <1>1, <1>2, <2>1 DEF CachedOf
<1>4. Stored(k, pg) => Stored(d, pg)
  BY <1>1 DEF Stored
<1>5. Kept(k, pg) => Kept(d, pg)
  BY <1>1, <1>2, <1>3 DEF Kept
<1> QED BY <1>4, <1>5

LEMMA StartBuffered == kvbuf = Starts(c).kvbuf => Buffered
<1> SUFFICES ASSUME kvbuf = Starts(c).kvbuf PROVE Buffered
  OBVIOUS
<1>1. kvbuf = [slot \in 0..NBuffer - 1 |-> [b \in Lanes |-> [x \in 0..BufferLen(c) - 1 |-> Zero]]]
  BY DEF Starts, Lanes
<1> QED BY <1>1 DEF Buffered, IsBuffer

LEMMA NextBuffered == kvbuf' = Starts(c').kvbuf => Buffered'
<1>1. (kvbuf = Starts(c).kvbuf)' => Buffered'
  BY StartBuffered, PTL
<1> QED BY <1>1

\* A token in its place is the only one there.
LEMMA PlacesApart ==
  ASSUME NEW d, IsConfig(d), Fits(d), NEW s \in 0..NumSeqs(d) - 1, NEW y \in CachedOf(d, s),
         NEW t \in 0..NumSeqs(d) - 1, NEW z \in CachedOf(d, t),
         PageOf(d, s, y) = PageOf(d, t, z), SlotOf(d, y) = SlotOf(d, z)
  PROVE  s = t /\ y = z
<1>1. /\ y \in 0..d.kv_lens[s] - 1 /\ Holds(d, y)
      /\ y = d.page * (y \div d.page) + SlotOf(d, y)
  BY CachedPlace
<1>2. /\ z \in 0..d.kv_lens[t] - 1 /\ Holds(d, z)
      /\ z = d.page * (z \div d.page) + SlotOf(d, z)
  BY CachedPlace
<1>3. s = t /\ y \div d.page = z \div d.page
  BY <1>1, <1>2 DEF Fits, FitsPages
<1> QED BY <1>1, <1>2, <1>3

LEMMA InitKept ==
  ASSUME Init, IsConfig(c), Fits(c)
  PROVE  Stored(c, pages) /\ Kept(c, pages)
<1> DEFINE longest == PagesPerSeq(c) * NumRanks(c) * c.page
           tokens == (0..NumSeqs(c) - 1) \X (0..longest - 1)
           here(p, l) == {token \in tokens :
                            /\ token[2] \in CachedAtFirst(token[1])
                            /\ PageOf(c, token[1], token[2]) = p /\ SlotOf(c, token[2]) = l}
<1>1. pages = [p \in 0..c.num_pages - 1 |-> [l \in 0..c.page - 1 |->
                IF here(p, l) = {} THEN Unwritten ELSE CHOOSE token \in here(p, l) : TRUE]]
  BY DEF Init
<1>2. \A s : CachedAtFirst(s) = CachedOf(c, s)
  BY DEF CachedAtFirst, CachedOf
<1>3. ASSUME NEW p, NEW l, NEW token \in here(p, l)
      PROVE  \E t \in 0..NumSeqs(c) - 1 : \E z \in CachedOf(c, t) :
               token = <<t, z>> /\ PageOf(c, t, z) = p /\ SlotOf(c, z) = l
  <2>1. token \in tokens /\ token[2] \in CachedOf(c, token[1])
        /\ PageOf(c, token[1], token[2]) = p /\ SlotOf(c, token[2]) = l
    BY <1>2
  <2>2. token = <<token[1], token[2]>> /\ token[1] \in 0..NumSeqs(c) - 1
    BY <2>1
  <2> QED BY <2>1, <2>2
<1>4. ASSUME NEW s \in 0..NumSeqs(c) - 1, NEW y \in CachedOf(c, s)
      PROVE  <<s, y>> \in here(PageOf(c, s, y), SlotOf(c, y))
  <2>1. y \in 0..c.kv_lens[s] - 1
    BY CachedPlace
  <2>2. c.kv_lens[s] =< longest
    BY DEF Fits, FitsPages
  <2>3. longest \in Int /\ c.kv_lens[s] \in Int
    <3>1. PagesPerSeq(c) \in Nat /\ NumRanks(c) \in Nat /\ c.page \in Nat
      BY Ranks, Units DEF Fits, FitsPages, Positive
    <3>2. c.kv_lens[s] \in Nat
      <4> DEFINE S == 0..NumSeqs(c) - 1
      <4>1. c.kv_lens \in [S -> Nat] /\ s \in S
        BY DEF IsConfig, IsCall
      <4> HIDE DEF S
      <4> QED BY <4>1
    <3> QED BY <3>1, <3>2
  <2> HIDE DEF longest
  <2>4. y \in 0..longest - 1
    BY <2>1, <2>2, <2>3
  <2> QED BY <1>2, <2>4
<1> HIDE DEF here
<1>5. Stored(c, pages)
  BY <1>1 DEF Stored
<1>6. ASSUME NEW s \in 0..NumSeqs(c) - 1, NEW y \in CachedOf(c, s)
      PROVE  pages[PageOf(c, s, y)][SlotOf(c, y)] = <<s, y>>
  <2> DEFINE p == PageOf(c, s, y)
             l == SlotOf(c, y)
  <2>1. p \in 0..c.num_pages - 1 /\ l \in 0..c.page - 1
    BY CachedPlace
  <2>2. \A token \in here(p, l) : token = <<s, y>>
    BY <1>3, PlacesApart
  <2>3. here(p, l) = {<<s, y>>}
    BY <1>4, <2>2
  <2> QED BY <1>1, <2>1, <2>3
<1>7. ASSUME NEW p \in DOMAIN pages, NEW l \in DOMAIN pages[p],
             \A s \in 0..NumSeqs(c) - 1 : \A y \in 0..c.kv_lens[s] - 1 :
               Holds(c, y) => PageOf(c, s, y) # p
      PROVE  pages[p][l] = Unwritten
  <2>1. here(p, l) = {}
    <3> SUFFICES ASSUME NEW token \in here(p, l) PROVE FALSE
      OBVIOUS
    <3>1. PICK t \in 0..NumSeqs(c) - 1 : \E z \in CachedOf(c, t) : PageOf(c, t, z) = p
      BY <1>3
    <3>2. PICK z \in CachedOf(c, t) : PageOf(c, t, z) = p
      BY <3>1
    <3>3. z \in 0..c.kv_lens[t] - 1 /\ Holds(c, z)
      BY CachedPlace
    <3> QED BY <1>7, <3>2, <3>3
  <2> QED BY <1>1, <2>1
<1> QED BY <1>5, <1>6, <1>7 DEF Kept

LEMMA InitCacheInv == ASSUME GroupsUpdate, WholeKeyBlocks, Init PROVE CacheInv
<1>1. WaitInv
  BY InitWaitInv
<1>2. IsConfig(c)
  BY <1>1 DEF WaitInv
<1>3. Fits(c)
  <2>1. PICK args \in Calls : c = Config(args, 1)
    BY DEF Init
  <2>2. IsCall(args) /\ FitsPages(args) /\ Updates(args) /\ InWholePages(args) /\ 1 \in 1..3
    BY CallsAssumption, PagesAssumption DEF GroupsUpdate, WholeKeyBlocks
  <2> QED BY <2>1, <2>2, ConfigFits
<1>4. Stored(c, pages) /\ Kept(c, pages)
  BY <1>2, <1>3, InitKept
<1>5. pc = "schedule" /\ kvbuf = Starts(c).kvbuf
  BY DEF Init
<1>6. Buffered
  BY <1>5, StartBuffered
<1> QED BY <1>1, <1>3, <1>4, <1>5, <1>6 DEF CacheInv

-----------------------------------------------------------------------------
\* The steps.

LEMMA NextLaunchKeeps == CacheInv /\ NextLaunch => CacheInv'
<1> SUFFICES ASSUME CacheInv, NextLaunch PROVE CacheInv'
  OBVIOUS
<1>1. WaitInv' /\ IsConfig(c) /\ launch \in 1..3
  BY NextLaunchStep DEF CacheInv, WaitInv
<1>2. /\ launch < 3 /\ c' = Config(c, launch + 1) /\ pages' = pages /\ pc' = "schedule"
      /\ kvbuf' = Starts(c').kvbuf
  BY DEF NextLaunch
<1>3. Fits(c') /\ \A field \in Placement : (c')[field] = c[field]
  <2>1. launch + 1 \in 1..3 /\ IsCall(c) /\ FitsPages(c) /\ Updates(c) /\ InWholePages(c)
    BY <1>1, <1>2 DEF IsConfig, CacheInv, Fits
  <2> QED BY <1>2, <2>1, ConfigFits
<1>4. Stored(c', pages) /\ Kept(c', pages)
  BY <1>3, KeptMoves DEF CacheInv
<1>5. Buffered'
  BY <1>2, NextBuffered
<1>6. Fits(c)' /\ Stored(c, pages)' /\ Kept(c, pages)'
  BY <1>2, <1>3, <1>4
<1> QED BY <1>1, <1>2, <1>5, <1>6 DEF CacheInv

\* What does not touch the buffers or the pages keeps them.
LEMMA StillKept ==
  ASSUME CacheInv, WaitInv', c' = c, kvbuf' = kvbuf, pages' = pages, pc' = "run" => Held'
  PROVE  CacheInv'
<1>1. Buffered'
  BY DEF CacheInv, Buffered, Lanes
<1>2. Fits(c)' /\ Stored(c, pages)' /\ Kept(c, pages)'
  BY DEF CacheInv
<1> QED BY <1>1, <1>2 DEF CacheInv

LEMMA OutsideKeeps ==
  CacheInv /\ (Schedule \/ FinishSchedule \/ EndChunk \/ Finish \/ UNCHANGED vars) => CacheInv'
<1> SUFFICES ASSUME CacheInv, Schedule \/ FinishSchedule \/ EndChunk \/ Finish \/ UNCHANGED vars
             PROVE  CacheInv'
  OBVIOUS
<1>1. WaitInv
  BY DEF CacheInv
<1>2. CASE Schedule
  <2>1. c' = c /\ pc' = pc /\ pc = "schedule" /\ kvbuf' = kvbuf /\ pages' = pages
    BY <1>2 DEF Schedule, ScheduleBlock, pipeline
  <2> QED BY <1>1, <1>2, <2>1, ScheduleStep, StillKept
<1>3. CASE FinishSchedule
  <2>1. c' = c /\ pc' = "load" /\ kvbuf' = kvbuf /\ pages' = pages
    BY <1>3 DEF FinishSchedule, pipeline
  <2> QED BY <1>1, <1>3, <2>1, FinishScheduleStep, StillKept
<1>4. CASE EndChunk
  <2>1. c' = c /\ pc' = "load" /\ kvbuf' = kvbuf /\ pages' = pages
    BY <1>4 DEF EndChunk, pipeline
  <2> QED BY <1>1, <1>4, <2>1, EndChunkStep, StillKept
<1>5. CASE Finish
  <2>1. c' = c /\ pc' = "done" /\ kvbuf' = kvbuf /\ pages' = pages
    BY <1>5 DEF Finish, pipeline
  <2> QED BY <1>1, <1>5, <2>1, FinishStep, StillKept
<1>6. CASE UNCHANGED vars
  <2>1. /\ c' = c /\ pc' = pc /\ kvbuf' = kvbuf /\ pages' = pages /\ smem' = smem
        /\ retired' = retired /\ issued' = issued /\ flying' = flying
    BY <1>6 DEF vars, schedule, pipeline
  <2>2. Held => Held'
    BY <2>1 DEF Held, KvCopy, EntryAt, Lanes
  <2>3. pc' = "run" => Held'
    BY <2>1, <2>2 DEF CacheInv
  <2> QED BY <1>1, <1>6, <2>1, <2>3, FinishStep, StillKept
<1> QED BY <1>2, <1>3, <1>4, <1>5, <1>6

LEMMA LoadChunkKeeps == CacheInv /\ LoadChunk => CacheInv'
<1> SUFFICES ASSUME CacheInv, LoadChunk PROVE CacheInv'
  OBVIOUS
<1>1. /\ c' = c /\ kvbuf' = kvbuf /\ pages' = pages /\ issued' = 0 /\ retired' = 0
  BY DEF LoadChunk
<1>2. Held'
  <2>1. 0..0 - 1 = {}
    OBVIOUS
  <2> QED BY <1>1, <2>1 DEF Held
<1>3. WaitInv'
  BY LoadChunkStep DEF CacheInv
<1> QED BY <1>1, <1>2, <1>3, StillKept

\* The steps that hold a slot each hold one of their own.
LEMMA HeldApart ==
  ASSUME CacheInv, pc = "run"
  PROVE  /\ Held /\ Buffered /\ IsConfig(c) /\ Fits(c) /\ NBuffer \in Positive
         /\ \A a, b \in retired..issued - 1 : a # b => a % NBuffer # b % NBuffer
         /\ \A step \in retired..issued - 1 : step % NBuffer \in 0..NBuffer - 1
         /\ \A step \in retired..issued - 1 :
              step \in Nat /\ \A b \in Lanes : Filed(c, EntryAt(step, b))
<1>1. WaitInv /\ Held /\ Buffered /\ Fits(c)
  BY DEF CacheInv
<1>2. /\ IsConfig(c) /\ retired \in Nat /\ issued \in Nat /\ issued =< ChunkSteps /\ ChunkSteps \in Int
      /\ issued =< retired + NBuffer /\ \A j \in 0..ChunkSteps - 1 : StepOK(smem, j)
      /\ retired =< cur /\ cur =< issued /\ cur \in Nat
  BY <1>1, RunningIs
<1>3. NBuffer \in Positive /\ NBuffer \in Nat
  BY BufferAssumption DEF Positive
<1>4. ASSUME NEW a \in retired..issued - 1, NEW b \in retired..issued - 1, a # b
      PROVE  a % NBuffer # b % NBuffer
  <2>1. a \in Nat /\ b \in Nat
    BY <1>2
  <2>2. CASE a < b
    <3>1. b < a + NBuffer
      BY <1>2, <1>3
    <3> QED BY <1>3, <2>1, <2>2, <3>1, SlotsApart
  <2>3. CASE b < a
    <3>1. a < b + NBuffer
      BY <1>2, <1>3
    <3> QED BY <1>3, <2>1, <2>3, <3>1, SlotsApart
  <2> QED BY <1>4, <2>1, <2>2, <2>3
<1>5. ASSUME NEW step \in retired..issued - 1
      PROVE  step % NBuffer \in 0..NBuffer - 1 /\ step \in Nat /\ \A b \in Lanes : Filed(c, EntryAt(step, b))
  <2>1. step \in 0..ChunkSteps - 1 /\ step \in Nat /\ step \in Int
    BY <1>2
  <2> QED BY <1>2, <1>3, <2>1, Division DEF StepOK, EntryAt
<1> QED BY <1>1, <1>2, <1>3, <1>4, <1>5

\* In the pipeline: what is still known, and of what.
LEMMA StillHeld ==
  ASSUME c' = c, smem' = smem,
         \A step \in retired'..issued' - 1, b \in Lanes :
           KvCopy(step, b) \notin flying' => Merges(c, EntryAt(step, b), kvbuf'[step % NBuffer][b])
  PROVE  Held'
BY DEF Held, KvCopy, EntryAt, Lanes

LEMMA IssueKeeps == CacheInv /\ Issue => CacheInv'
<1> SUFFICES ASSUME CacheInv, Issue PROVE CacheInv'
  OBVIOUS
<1>1. /\ pc = "run" /\ flying' = flying \cup Copies(In, issued) /\ issued' = issued + 1
      /\ issued < ChunkSteps
      /\ c' = c /\ smem' = smem /\ retired' = retired /\ kvbuf' = kvbuf /\ pages' = pages
  BY DEF Issue, schedule
<1>2. Held /\ IsConfig(c) /\ Fits(c)
  BY <1>1, HeldApart
<1>3. /\ retired \in Nat /\ issued \in Nat /\ ChunkSteps \in Int
      /\ \A j \in 0..ChunkSteps - 1 : StepOK(smem, j)
  BY <1>1, RunningIs DEF CacheInv
<1>4. ASSUME NEW step \in retired'..issued' - 1, NEW b \in Lanes, KvCopy(step, b) \notin flying'
      PROVE  Merges(c, EntryAt(step, b), kvbuf'[step % NBuffer][b])
  <2>1. CASE step \in retired..issued - 1
    <3>1. KvCopy(step, b) \notin flying
      BY <1>1, <1>4
    <3> QED BY <1>1, <1>2, <2>1, <3>1 DEF Held
  <2>2. CASE step \notin retired..issued - 1
    <3>1. step = issued
      BY <1>1, <1>3, <2>2
    <3>2. StepOK(smem, issued)
      BY <1>1, <1>3
    <3> DEFINE e == EntryAt(issued, b)
    <3>3. Filed(c, e)
      BY <3>2 DEF StepOK, EntryAt
    <3>4. ~(Amount("kv", e) > 0)
      <4>1. KvCopy(issued, b) \notin Copies(In, issued)
        BY <1>1, <1>4, <3>1
      <4>2. "kv" \in In /\ In \subseteq Kinds
        BY KindsAre
      <4>3. ~(Moves(smem, "kv", issued)[b] > 0)
        BY <1>3, <4>1, <4>2, CopiesAre DEF KvCopy
      <4> QED BY <4>3 DEF Moves, EntryAt
    <3> HIDE DEF e
    <3>5. Merges(c, e, kvbuf'[step % NBuffer][b])
      BY <1>2, <3>3, <3>4, ZeroMerges
    <3> QED BY <3>1, <3>5 DEF e
  <2> QED BY <2>1, <2>2
<1>5. Held'
  BY <1>1, <1>4, StillHeld
<1>6. WaitInv'
  BY IssueStep DEF CacheInv
<1> QED BY <1>1, <1>5, <1>6, StillKept

LEMMA RetireKeeps == CacheInv /\ Retire => CacheInv'
<1> SUFFICES ASSUME CacheInv, Retire PROVE CacheInv'
  OBVIOUS
<1>1. /\ pc = "run" /\ flying' = flying /\ issued' = issued /\ retired' = retired + 1
      /\ c' = c /\ smem' = smem /\ kvbuf' = kvbuf /\ pages' = pages
  BY DEF Retire, schedule
<1>2. retired \in Nat /\ issued \in Nat
  BY <1>1, RunningIs DEF CacheInv
<1>3. retired'..issued' - 1 \subseteq retired..issued - 1
  BY <1>1, <1>2
<1>4. Held'
  BY <1>1, <1>3, StillHeld DEF Held, CacheInv
<1>5. WaitInv'
  BY RetireStep DEF CacheInv
<1> QED BY <1>1, <1>4, <1>5, StillKept

LEMMA ComputeKeeps == CacheInv /\ Compute => CacheInv'
<1> SUFFICES ASSUME CacheInv, Compute PROVE CacheInv'
  OBVIOUS
<1> DEFINE slot == cur % NBuffer
           lanes == LanesOf(smem, cur)
           v == [b \in Lanes |-> Stitch(c, kvbuf[slot][b], StepMeta(c, lanes[b]))]
<1>1. /\ pc = "run" /\ cur < issued
      /\ flying' = flying \cup Copies(Out, cur) /\ issued' = issued /\ retired' = retired
      /\ kvbuf' = [kvbuf EXCEPT ![slot] = v]
      /\ c' = c /\ smem' = smem /\ pages' = pages /\ pc' = pc
  BY DEF Compute, schedule
<1>2. /\ Held /\ Buffered /\ IsConfig(c) /\ Fits(c)
      /\ \A a, b \in retired..issued - 1 : a # b => a % NBuffer # b % NBuffer
      /\ \A step \in retired..issued - 1 : step % NBuffer \in 0..NBuffer - 1
      /\ \A step \in retired..issued - 1 : \A b \in Lanes : Filed(c, EntryAt(step, b))
  BY <1>1, HeldApart
<1>3. cur \in retired..issued - 1 /\ cur \in Nat
  <2>1. retired \in Nat /\ issued \in Nat /\ cur \in Nat /\ retired =< cur
    BY <1>1, RunningIs DEF CacheInv
  <2> QED BY <1>1, <2>1
<1>4. slot \in 0..NBuffer - 1
  BY <1>2, <1>3
<1>5. \A b \in Lanes : v[b] = Stitch(c, kvbuf[slot][b], StepMeta(c, EntryAt(cur, b)))
  BY DEF LanesOf, EntryAt
<1>6. DOMAIN v = Lanes
  OBVIOUS
<1> HIDE DEF slot, v
<1>7. Buffered'
  <2>1. \A b \in Lanes : IsBuffer(c, v[b])
    <3>1. \A b \in Lanes : IsBuffer(c, kvbuf[slot][b])
      BY <1>2, <1>4 DEF Buffered
    <3> QED BY <1>5, <3>1, StitchDomain DEF IsBuffer
  <2>2. DOMAIN kvbuf' = 0..NBuffer - 1 /\ kvbuf'[slot] = v
        /\ \A other \in 0..NBuffer - 1 : other # slot => kvbuf'[other] = kvbuf[other]
    BY <1>1, <1>2, <1>4 DEF Buffered
  <2>3. \A other \in 0..NBuffer - 1 :
          DOMAIN kvbuf'[other] = Lanes /\ \A b \in Lanes : IsBuffer(c, kvbuf'[other][b])
    BY <1>2, <1>6, <2>1, <2>2 DEF Buffered
  <2> QED BY <1>1, <2>2, <2>3 DEF Buffered, Lanes
<1>8. ASSUME NEW step \in retired'..issued' - 1, NEW b \in Lanes, KvCopy(step, b) \notin flying'
      PROVE  Merges(c, EntryAt(step, b), kvbuf'[step % NBuffer][b])
  <2>1. step \in retired..issued - 1 /\ KvCopy(step, b) \notin flying
    BY <1>1, <1>8
  <2>2. Merges(c, EntryAt(step, b), kvbuf[step % NBuffer][b])
    BY <1>2, <2>1 DEF Held
  <2>3. CASE step = cur
    <3>1. kvbuf'[slot][b] = Stitch(c, kvbuf[slot][b], StepMeta(c, EntryAt(cur, b)))
      BY <1>1, <1>2, <1>4, <1>5 DEF Buffered
    <3>2. IsBuffer(c, kvbuf[slot][b])
      BY <1>2, <1>4 DEF Buffered
    <3>3. Merges(c, EntryAt(cur, b), kvbuf[slot][b]) /\ Filed(c, EntryAt(cur, b))
      BY <1>2, <1>3, <2>2, <2>3 DEF slot
    <3>4. Merges(c, EntryAt(cur, b), Stitch(c, kvbuf[slot][b], StepMeta(c, EntryAt(cur, b))))
      BY <1>2, <3>2, <3>3, StitchMerges
    <3> QED BY <2>3, <3>1, <3>4 DEF slot
  <2>4. CASE step # cur
    <3>1. step % NBuffer # slot /\ step % NBuffer \in 0..NBuffer - 1
      BY <1>2, <1>3, <2>1, <2>4 DEF slot
    <3>2. kvbuf'[step % NBuffer] = kvbuf[step % NBuffer]
      BY <1>1, <1>2, <3>1 DEF Buffered
    <3> QED BY <2>2, <3>2
  <2> QED BY <2>3, <2>4
<1>9. Held'
  BY <1>1, <1>8, StillHeld
<1>10. WaitInv'
  BY ComputeStep DEF CacheInv
<1>11. Fits(c)' /\ Stored(c, pages)' /\ Kept(c, pages)'
  BY <1>1 DEF CacheInv
<1> QED BY <1>7, <1>9, <1>10, <1>11 DEF CacheInv

\* What is in flight of a step in the pipeline.
LEMMA FlyingIs ==
  ASSUME CacheInv, NEW copy \in flying
  PROVE  /\ pc = "run" /\ copy.kind \in Kinds /\ copy.lane \in Lanes /\ copy.step \in retired..issued - 1
         /\ copy = [kind |-> copy.kind, step |-> copy.step, lane |-> copy.lane]
         /\ EntryOf(copy) = EntryAt(copy.step, copy.lane)
         /\ Amount(copy.kind, EntryOf(copy)) > 0
         /\ copy.kind = "kv out" => KvCopy(copy.step, copy.lane) \notin flying
<1>1. WaitInv /\ pc = "run"
  BY DEF CacheInv, WaitInv, Quiet
<1>2. /\ flying \subseteq Copied /\ retired \in Nat /\ cur \in Nat /\ issued \in Nat
      /\ retired =< cur /\ cur =< issued
      /\ \A kind \in In : KindInv(kind, cur, issued, flying, sem[kind])
      /\ \A kind \in Out : KindInv(kind, retired, cur, flying, sem[kind])
  BY <1>1, RunningIs
<1>3. /\ copy.kind \in Kinds /\ copy.lane \in Lanes
      /\ copy = [kind |-> copy.kind, step |-> copy.step, lane |-> copy.lane]
  BY <1>2 DEF Copied
<1>4. EntryOf(copy) = EntryAt(copy.step, copy.lane)
  BY DEF EntryOf, EntryAt
<1>5. ASSUME NEW other \in flying, other.kind \in In
      PROVE  other.step \in cur..issued - 1 /\ Moves(smem, other.kind, other.step)[other.lane] > 0
  BY <1>2, <1>5 DEF KindInv
<1>6. ASSUME NEW other \in flying, other.kind \in Out
      PROVE  other.step \in retired..cur - 1 /\ Moves(smem, other.kind, other.step)[other.lane] > 0
  BY <1>2, <1>6 DEF KindInv
<1>7. copy.step \in retired..issued - 1 /\ Moves(smem, copy.kind, copy.step)[copy.lane] > 0
  <2>1. CASE copy.kind \in In
    BY <1>2, <1>5, <2>1
  <2>2. CASE copy.kind \in Out
    BY <1>2, <1>6, <2>2
  <2> QED BY <1>3, <2>1, <2>2 DEF Kinds
<1>8. Amount(copy.kind, EntryOf(copy)) > 0
  BY <1>3, <1>7 DEF Moves, EntryOf
<1>9. ASSUME copy.kind = "kv out", KvCopy(copy.step, copy.lane) \in flying PROVE FALSE
  <2>1. copy.kind \in Out /\ KvCopy(copy.step, copy.lane).kind \in In
    BY <1>9, KindsAre DEF KvCopy
  <2>2. copy.step \in retired..cur - 1
    BY <1>6, <2>1
  <2>3. KvCopy(copy.step, copy.lane).step \in cur..issued - 1
    BY <1>5, <1>9, <2>1
  <2>4. copy.step \in cur..issued - 1
    BY <2>3 DEF KvCopy
  <2> QED BY <1>2, <2>2, <2>4
<1> QED BY <1>1, <1>3, <1>4, <1>7, <1>8, <1>9

LEMMA LandKeeps == ASSUME CacheInv, NEW copy \in flying, Land(copy) PROVE CacheInv'
<1> DEFINE e == EntryOf(copy)
           at == copy.lane
           slot == Slot(copy.kind, copy.step)
<1>1. /\ pc = "run" /\ copy.kind \in Kinds /\ at \in Lanes /\ copy.step \in retired..issued - 1
      /\ copy = [kind |-> copy.kind, step |-> copy.step, lane |-> at]
      /\ e = EntryAt(copy.step, at) /\ Amount(copy.kind, e) > 0
      /\ copy.kind = "kv out" => KvCopy(copy.step, at) \notin flying
  BY FlyingIs
<1>2. /\ flying' = flying \ {copy} /\ issued' = issued /\ retired' = retired
      /\ c' = c /\ smem' = smem /\ pc' = pc
      /\ kvbuf' = IF copy.kind # "kv" THEN kvbuf ELSE [kvbuf EXCEPT ![slot][at] = Fetched(e, @)]
      /\ pages' = IF copy.kind # "kv out" THEN pages ELSE WrittenBack(e, kvbuf[slot][at])
  BY DEF Land, schedule
<1>3. /\ Held /\ Buffered /\ IsConfig(c) /\ Fits(c)
      /\ \A a, b \in retired..issued - 1 : a # b => a % NBuffer # b % NBuffer
      /\ \A step \in retired..issued - 1 : step % NBuffer \in 0..NBuffer - 1
      /\ \A step \in retired..issued - 1 : \A b \in Lanes : Filed(c, EntryAt(step, b))
      /\ Stored(c, pages) /\ Kept(c, pages)
  BY <1>1, HeldApart DEF CacheInv
<1>4. WaitInv'
  BY LandStep DEF CacheInv
<1>5. Filed(c, e)
  BY <1>1, <1>3
<1> HIDE DEF e, slot, at
<1>6. CASE copy.kind = "kv"
  <2> DEFINE new == Fetched(e, kvbuf[slot][at])
  <2>1. slot = copy.step % NBuffer /\ slot \in 0..NBuffer - 1
    BY <1>1, <1>3, <1>6 DEF Slot, slot
  <2>2. IsBuffer(c, kvbuf[slot][at])
    BY <1>1, <1>3, <2>1 DEF Buffered
  <2>3. Merges(c, e, new) /\ IsBuffer(c, new)
    BY <1>3, <1>5, <2>2, FetchMerges
  <2> HIDE DEF new
  <2>4. /\ DOMAIN kvbuf' = 0..NBuffer - 1
        /\ \A other \in 0..NBuffer - 1 : other # slot => kvbuf'[other] = kvbuf[other]
        /\ DOMAIN kvbuf'[slot] = Lanes /\ kvbuf'[slot][at] = new
        /\ \A b \in Lanes : b # at => kvbuf'[slot][b] = kvbuf[slot][b]
    <3>1. kvbuf' = [kvbuf EXCEPT ![slot] = [kvbuf[slot] EXCEPT ![at] = new]]
      BY <1>2, <1>6 DEF new
    <3>2. DOMAIN kvbuf = 0..NBuffer - 1 /\ DOMAIN kvbuf[slot] = Lanes
      BY <1>3, <2>1 DEF Buffered
    <3>3. kvbuf'[slot] = [kvbuf[slot] EXCEPT ![at] = new]
      BY <2>1, <3>1, <3>2
    <3> QED BY <1>1, <2>1, <3>1, <3>2, <3>3
  <2>5. Buffered'
    <3>1. \A other \in 0..NBuffer - 1 :
            DOMAIN kvbuf'[other] = Lanes /\ \A b \in Lanes : IsBuffer(c, kvbuf'[other][b])
      BY <1>3, <2>3, <2>4 DEF Buffered
    <3> QED BY <1>2, <2>4, <3>1 DEF Buffered, Lanes
  <2>6. ASSUME NEW step \in retired'..issued' - 1, NEW b \in Lanes, KvCopy(step, b) \notin flying'
        PROVE  Merges(c, EntryAt(step, b), kvbuf'[step % NBuffer][b])
    <3>1. CASE step = copy.step /\ b = at
      BY <1>1, <2>1, <2>3, <2>4, <3>1
    <3>2. CASE ~(step = copy.step /\ b = at)
      <4>1. KvCopy(step, b) # copy
        <5>1. KvCopy(step, b).step = step /\ KvCopy(step, b).lane = b
          BY DEF KvCopy
        <5> QED BY <3>2, <5>1 DEF at
      <4>2. KvCopy(step, b) \notin flying /\ step \in retired..issued - 1
        BY <1>2, <2>6, <4>1
      <4>3. Merges(c, EntryAt(step, b), kvbuf[step % NBuffer][b])
        BY <1>3, <4>2 DEF Held
      <4>4. kvbuf'[step % NBuffer][b] = kvbuf[step % NBuffer][b]
        <5>1. CASE step = copy.step
          BY <2>1, <2>4, <3>2, <5>1
        <5>2. CASE step # copy.step
          <6>1. step % NBuffer # slot /\ step % NBuffer \in 0..NBuffer - 1
            BY <1>1, <1>3, <2>1, <4>2, <5>2
          <6> QED BY <2>4, <6>1
        <5> QED BY <5>1, <5>2
      <4> QED BY <4>3, <4>4
    <3> QED BY <3>1, <3>2
  <2>7. Held'
    BY <1>2, <2>6, StillHeld
  <2>8. pages' = pages
    BY <1>2, <1>6
  <2>9. Fits(c)' /\ Stored(c, pages)' /\ Kept(c, pages)'
    BY <1>2, <1>3, <2>8
  <2> QED BY <1>4, <2>5, <2>7, <2>9 DEF CacheInv
<1>7. CASE copy.kind # "kv"
  <2>1. kvbuf' = kvbuf
    BY <1>2, <1>7
  <2>2. Held'
    <3>1. \A step, b : KvCopy(step, b) # copy
      BY <1>7 DEF KvCopy
    <3>2. \A step, b : KvCopy(step, b) \notin flying' => KvCopy(step, b) \notin flying
      BY <1>2, <3>1
    <3> QED BY <1>2, <1>3, <2>1, <3>2, StillHeld DEF Held
  <2>3. Buffered'
    BY <1>2, <1>3, <2>1 DEF Buffered, Lanes
  <2>4. Stored(c, pages') /\ Kept(c, pages')
    <3>1. CASE copy.kind # "kv out"
      BY <1>2, <1>3, <3>1
    <3>2. CASE copy.kind = "kv out"
      <4> DEFINE v == kvbuf[slot][at]
      <4>1. slot = copy.step % NBuffer
        BY <3>2 DEF Slot, slot
      <4>2. Merges(c, e, v)
        BY <1>1, <1>3, <3>2, <4>1 DEF Held
      <4>3. e.wb
        <5>1. Amount("kv out", e) > 0
          BY <1>1, <3>2
        <5> QED BY <5>1 DEF Amount
      <4>4. pages' = WrittenBack(e, v)
        BY <1>2, <3>2
      <4> HIDE DEF v
      <4> QED BY <1>3, <1>5, <4>2, <4>3, <4>4, BackKeeps
    <3> QED BY <3>1, <3>2
  <2>5. Fits(c)' /\ Stored(c, pages)' /\ Kept(c, pages)'
    BY <1>2, <1>3, <2>4
  <2> QED BY <1>4, <2>2, <2>3, <2>5 DEF CacheInv
<1> QED BY <1>6, <1>7

LEMMA NextCacheInv == CacheInv /\ [Next]_vars => CacheInv'
<1> SUFFICES ASSUME CacheInv, [Next]_vars PROVE CacheInv'
  OBVIOUS
<1>1. CASE Schedule \/ FinishSchedule \/ EndChunk \/ Finish \/ UNCHANGED vars
  BY <1>1, OutsideKeeps
<1>2. CASE LoadChunk
  BY <1>2, LoadChunkKeeps
<1>3. CASE Issue
  BY <1>3, IssueKeeps
<1>4. CASE Compute
  BY <1>4, ComputeKeeps
<1>5. CASE Retire
  BY <1>5, RetireKeeps
<1>6. CASE NextLaunch
  BY <1>6, NextLaunchKeeps
<1>7. CASE Done
  BY <1>7, OutsideKeeps DEF Done
<1>8. CASE \E copy \in flying : Land(copy)
  BY <1>8, LandKeeps
<1> QED BY <1>1, <1>2, <1>3, <1>4, <1>5, <1>6, <1>7, <1>8 DEF Next

\* No step takes a cached token from its place, and none changes a page that
\* is no sequence's own: a step that writes a page back has merged into its
\* buffer what the page held of cached tokens, and holds the buffer until it
\* is written (bref_override.py:118-144).  For all calls whose sequences have
\* pages of their own and whose key blocks are whole pages, of one device or of
\* any rank of a group, except a rank that attends to the new tokens of a layer
\* that does not update the cache; any block sizes, slots and room in SMEM.
THEOREM CacheStaysKept ==
  ASSUME GroupsUpdate, WholeKeyBlocks
  PROVE  Spec => []CacheKept
<1>1. Init => CacheInv
  BY InitCacheInv
<1>2. CacheInv /\ [Next]_vars => CacheInv'
  BY NextCacheInv
<1>3. CacheInv => CacheKept
  BY KeptIs DEF CacheInv
<1> QED BY <1>1, <1>2, <1>3, PTL DEF Spec
=============================================================================

--------------------------- MODULE PagedSchedule ---------------------------
(***************************************************************************)
(* The schedule of batched ragged paged attention                           *)
(* (tokamax/_src/ops/batched_rpa/kernel/schedule.py), as functions of the   *)
(* configuration c of a launch: the call's arguments, the launch's mode and *)
(* its block sizes.                                                         *)
(*                                                                          *)
(* Sequence s has QLen query tokens behind CacheLen cached ones.  Its       *)
(* queries are cut into blocks of c.bq, its keys into blocks of c.bkv.  An  *)
(* entry of the schedule is a query block and a key block: what to copy in, *)
(* from the pages of the cache and from the new tokens, and what to copy    *)
(* out.  A step takes c.batch entries, its lanes.  Sizes and offsets are in *)
(* tokens.                                                                  *)
(*                                                                          *)
(* With context parallelism (schedule_cp.py) the pages of each sequence's   *)
(* cache are dealt out to the c.cp_group_size devices of a group, and the   *)
(* launch is that of the device c.cp_rank; without it the size is 0.        *)
(***************************************************************************)
EXTENDS SetSums, Integers, Sequences, FiniteSets, FiniteSetsExt

CeilDiv(a, b) == -((-a) \div b)
Clip(x, low, high) == Max({low, Min({x, high})})
AlignDown(x, m) == (x \div m) * m

SeqAlongLane(c) == c.layout = "SEQ_ALONG_LANE"

-----------------------------------------------------------------------------
\* Lengths, and the sequences of a launch.

NumSeqs(c) == Cardinality(DOMAIN c.kv_lens)
QLen(c, s) == c.cu_q_lens[s + 1] - c.cu_q_lens[s]
GlobalCacheLen(c, s) == c.kv_lens[s] - QLen(c, s)

Sharded(c) == c.cp_group_size # 0
NumRanks(c) == IF Sharded(c) THEN c.cp_group_size ELSE 1
Owned(c, p) == p % NumRanks(c) = c.cp_rank

PagesPerSeq(c) == Cardinality(DOMAIN c.page_indices) \div NumSeqs(c)

\* Whether the rank holds position y of a sequence, and for s the page and
\* the slot in it.
Holds(c, y) == Owned(c, y \div c.page)
PageOf(c, s, y) == c.page_indices[s * PagesPerSeq(c) + ((y \div c.page) \div NumRanks(c))]
SlotOf(c, y) == y % c.page

\* cp_local_cache_len: what the rank owns of n cached tokens.
LocalLen(c, n) ==
  LET super == NumRanks(c) * c.page IN
  (n \div super) * c.page + Max({0, Min({c.page, (n % super) - c.cp_rank * c.page})})

CacheLen(c, s) ==
  IF c.scope = "CACHE_ONLY" /\ Sharded(c) THEN LocalLen(c, GlobalCacheLen(c, s))
  ELSE GlobalCacheLen(c, s)
NewLen(c, s) == IF c.scope = "CACHE_ONLY" THEN 0 ELSE QLen(c, s)
KLen(c, s) == CacheLen(c, s) + NewLen(c, s)

FirstSeq(c) ==
  IF c.mode = "DECODE" THEN 0 ELSE IF c.mode = "PREFILL" THEN c.distribution[1]
  ELSE c.distribution[2]
EndSeq(c) ==
  IF c.mode = "DECODE" THEN c.distribution[1] ELSE IF c.mode = "PREFILL" THEN c.distribution[2]
  ELSE c.distribution[3]

\* Pages of a key block, and slots for pages of new tokens.
BkvP(c) == CeilDiv(c.bkv, c.page)
MaxDecodeBkvPNew(c) == 1 + CeilDiv(c.decode_query_size - 1, c.page)

\* Mutant: no slot for new tokens that begin within a page of new_kv.
BkvPNew_NoExtra(c) ==
  IF c.mode = "DECODE" \/ c.bq = 1 THEN Min({MaxDecodeBkvPNew(c), BkvP(c)}) ELSE BkvP(c)

BkvPNew(c) ==
  IF c.mode = "DECODE" \/ c.bq = 1 THEN Min({MaxDecodeBkvPNew(c), BkvP(c)})
  ELSE IF SeqAlongLane(c) THEN BkvP(c) + 1 ELSE BkvP(c)

-----------------------------------------------------------------------------
\* seq_loop, q_loop: the blocks <<s, q, k>> a launch visits, and their order.

NumQ(c, s) == CeilDiv(QLen(c, s), c.bq)
NumK(c, s) == CeilDiv(KLen(c, s), c.bkv)
QSrc(c, s, q) == c.cu_q_lens[s] + q * c.bq
QSize(c, s, q) == Clip(c.cu_q_lens[s + 1] - QSrc(c, s, q), 0, c.bq)

\* The first key block in the sliding window of the block's first row.
WindowStart(c, s, q) ==
  IF c.window = 0 THEN 0
  ELSE Max({0, CacheLen(c, s) + q * c.bq - c.window + 1}) \div c.bkv

StartK(c, s, q) ==
  IF c.scope = "NEW_TOKENS_ONLY" THEN Max({WindowStart(c, s, q), CacheLen(c, s) \div c.bkv})
  ELSE WindowStart(c, s, q)

EndK(c, s, q) ==
  Min({NumK(c, s), (CacheLen(c, s) + q * c.bq + QSize(c, s, q) - 1) \div c.bkv + 1})

Blocks(c, s, q) == {<<s, q, k>> : k \in StartK(c, s, q)..EndK(c, s, q) - 1}
SeqWork(c, s) == UNION {Blocks(c, s, q) : q \in 0..NumQ(c, s) - 1}
Work(c) == UNION {SeqWork(c, s) : s \in FirstSeq(c)..EndSeq(c) - 1}

Before(a, b) ==
  \/ a[1] < b[1]
  \/ a[1] = b[1] /\ a[2] < b[2]
  \/ a[1] = b[1] /\ a[2] = b[2] /\ a[3] < b[3]

-----------------------------------------------------------------------------
\* k_loop: one entry.

KvLeft(c, s, k) == KLen(c, s) - k * c.bkv
KvLeftFromCache(c, s, k) ==
  IF c.skip_kv_update /\ ~Sharded(c) THEN KvLeft(c, s, k)
  ELSE Max({CacheLen(c, s) - k * c.bkv, 0})
KvLeftFromNew(c, s, k) == KvLeft(c, s, k) - KvLeftFromCache(c, s, k)
BkvFromCache(c, s, k) == Min({KvLeftFromCache(c, s, k), c.bkv})
NewSize(c, s, k) == Min({c.bkv - BkvFromCache(c, s, k), KvLeftFromNew(c, s, k)})

\* What a copy of n tokens moves: whole pages if the tokens lie along lanes.
Moved(c, n) == IF SeqAlongLane(c) /\ n > 0 THEN c.page ELSE n

\* Mutant: a rank that attends to the new tokens only fetches no page.
FetchesPage_None(c, p) == ~(Sharded(c) /\ c.scope = "NEW_TOKENS_ONLY")

\* A rank that attends to the new tokens only still fetches the pages it
\* owns if tokens lie along lanes: it may have to write the last one back.
FetchesPage(c, p) ==
  Sharded(c) /\ c.scope = "NEW_TOKENS_ONLY" => SeqAlongLane(c) /\ Owned(c, p)

SourcePage(c, s, p) ==
  IF Sharded(c) /\ SeqAlongLane(c) /\ c.scope = "NEW_TOKENS_ONLY"
  THEN s * PagesPerSeq(c) + Min({p \div NumRanks(c), PagesPerSeq(c) - 1})
  ELSE Min({s * PagesPerSeq(c) + p, Cardinality(DOMAIN c.page_indices) - 1})

CachePages(c, s, k, left) ==
  [i \in 0..BkvP(c) - 1 |->
     [page |-> SourcePage(c, s, k * BkvP(c) + i),
      at |-> i * c.page,
      n |-> IF FetchesPage(c, k * BkvP(c) + i)
            THEN Moved(c, Clip(left - i * c.page, 0, c.page)) ELSE 0]]

\* Each new key block is written back by the first query block that attends
\* to it.
WritesBack(c, s, q, k) ==
  NewSize(c, s, k) > 0 /\ q = Max({0, k * c.bkv - CacheLen(c, s)}) \div c.bq

\* The page of the block that slot i stands for: from the first new token on
\* if there are fewer slots than pages (the decode path).
SlotStart(c, cached, i) ==
  IF BkvPNew(c) < BkvP(c) THEN AlignDown(cached, c.page) + i * c.page ELSE i * c.page

SlotFrom(c, cached, i) == Max({SlotStart(c, cached, i), cached})
SlotSize(c, cached, size, i) ==
  Max({0, Min({SlotStart(c, cached, i) + c.page, cached + size}) - SlotFrom(c, cached, i)})

\* The page that block offset x of key block k lies on, and its page index
\* with the rank that owns it.
PageAt(c, k, x) == Min({(k * c.bkv + x) \div c.page, PagesPerSeq(c) * NumRanks(c) - 1})
PageIndexOf(c, s, k, x) == s * PagesPerSeq(c) + (PageAt(c, k, x) \div NumRanks(c))

\* What the rank writes back of n tokens there.
IfOwned(c, k, x, n) == IF Owned(c, PageAt(c, k, x)) THEN n ELSE 0

\* fill_dma_kv_new with the tokens along lanes: slot i fetches the i-th page
\* of new_kv that new tokens are on, behind the cached pages, and writes the
\* whole page of its slot.  src is the first new token.
LaneSlot(c, s, k, cached, size, src, i) ==
  [src |-> AlignDown(src, c.page) + i * c.page,
   at |-> (CeilDiv(cached, c.page) + i) * c.page,
   n |-> IF size > 0 /\ i <= ((src % c.page) + size - 1) \div c.page THEN c.page ELSE 0,
   page |-> PageIndexOf(c, s, k, SlotStart(c, cached, i)), offset |-> 0,
   from |-> SlotStart(c, cached, i),
   m |-> IfOwned(c, k, SlotStart(c, cached, i), Moved(c, SlotSize(c, cached, size, i)))]

\* Otherwise: the tokens of the slot.
SublaneSlot(c, s, k, cached, size, src, i) ==
  [src |-> src, at |-> SlotFrom(c, cached, i), n |-> SlotSize(c, cached, size, i),
   page |-> PageIndexOf(c, s, k, SlotFrom(c, cached, i)),
   offset |-> (k * c.bkv + SlotFrom(c, cached, i)) % c.page,
   from |-> SlotFrom(c, cached, i),
   m |-> IfOwned(c, k, SlotFrom(c, cached, i), SlotSize(c, cached, size, i))]

NewSlots(c, s, k, cached, size, src) ==
  [i \in 0..BkvPNew(c) - 1 |->
     IF SeqAlongLane(c) THEN LaneSlot(c, s, k, cached, size, src, i)
     ELSE SublaneSlot(c, s, k, cached, size, src, i)]

Entry(c, s, q, k) ==
  [s |-> s, q |-> q, k |-> k,
   last |-> k = EndK(c, s, q) - 1,
   q_src |-> QSrc(c, s, q), q_sz |-> QSize(c, s, q),
   cache |-> CachePages(c, s, k, KvLeftFromCache(c, s, k)),
   wb |-> WritesBack(c, s, q, k),
   new |-> NewSlots(c, s, k, BkvFromCache(c, s, k), NewSize(c, s, k),
                    c.cu_q_lens[s + 1] - KvLeftFromNew(c, s, k))]

\* _mask_out_steps: a lane without work.
MaskedEntry(c) ==
  [s |-> -1, q |-> 0, k |-> 0, last |-> FALSE, q_src |-> 0, q_sz |-> 0,
   cache |-> [i \in 0..BkvP(c) - 1 |-> [page |-> 0, at |-> 0, n |-> 0]],
   wb |-> FALSE,
   new |-> [i \in 0..BkvPNew(c) - 1 |->
     [src |-> 0, at |-> 0, n |-> 0, page |-> 0, offset |-> 0, from |-> 0, m |-> 0]]]

-----------------------------------------------------------------------------
\* _compute_waits: what a step's copies add up to; lanes is its entries.

\* The pieces of a copy together.
Sizes(pieces) == SumOf([i \in DOMAIN pieces |-> pieces[i].n], DOMAIN pieces)
CacheTokens(e) == Sizes(e.cache)

\* Mutant: one slot of new tokens.
FetchTokens_First(e) == e.new[0].n

FetchTokens(e) == Sizes(e.new)

\* Mutant: whether or not the step writes back.
BackTokens_Always(e) == SumOf([i \in DOMAIN e.new |-> e.new[i].m], DOMAIN e.new)

BackTokens(e) ==
  IF e.wb THEN SumOf([i \in DOMAIN e.new |-> e.new[i].m], DOMAIN e.new) ELSE 0
OutTokens(e) == IF e.last THEN e.q_sz ELSE 0

Waits(lanes) ==
  LET total(f) == SumOf(f, DOMAIN lanes) IN
  [kv_in |-> total([b \in DOMAIN lanes |-> CacheTokens(lanes[b]) + FetchTokens(lanes[b])]),
   kv_out |-> total([b \in DOMAIN lanes |-> BackTokens(lanes[b])]),
   q_in |-> total([b \in DOMAIN lanes |-> lanes[b].q_sz]),
   o_out |-> total([b \in DOMAIN lanes |-> OutTokens(lanes[b])])]
=============================================================================

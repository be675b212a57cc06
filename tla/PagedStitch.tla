---------------------------- MODULE PagedStitch ----------------------------
(***************************************************************************)
(* What the attention kernel does to one lane of a step once its copies     *)
(* have arrived (tokamax/_src/ops/batched_rpa/kernel/stitch_utils.py and    *)
(* kernel.py): with the tokens along lanes the new ones arrive in whole     *)
(* pages behind the cached ones, and are first moved next to them; then a   *)
(* mask says which keys a query row sees.                                   *)
(*                                                                          *)
(* v is the lane's key buffer, a function from buffer positions to tokens;  *)
(* NumLanes positions make a column, the unit the decode path moves.        *)
(***************************************************************************)
EXTENDS PagedSchedule

CONSTANT NumLanes

ASSUME LanesAssumption == NumLanes \in Nat \ {0}

\* What the stitch clears a position to, and a position nobody has written,
\* which may hold anything: not a number, at worst.
Zero == <<-1, 0>>
Unwritten == <<-1, 1>>

\* kv_vmem_shape
BufferLen(c) == IF SeqAlongLane(c) THEN c.bkv + 2 * c.page ELSE c.bkv

-----------------------------------------------------------------------------
\* fetch_step_metadata: what the kernel derives again from an entry.

\* Mutant: without the branch for a call that updates nothing.
FromCache_NoSkip(c, s, k) == Max({CacheLen(c, s) - k * c.bkv, 0})

FromCache(c, s, k) ==
  IF c.skip_kv_update THEN Max({KvLeft(c, s, k), 0})
  ELSE Max({CacheLen(c, s) - k * c.bkv, 0})

FromNew(c, s, k) == Max({Max({KvLeft(c, s, k), 0}) - FromCache(c, s, k), 0})

\* cached, new: the tokens of the block by origin; start: the first of the
\* new ones in new_kv; offset: the block's first key minus its first query;
\* edge: where the new tokens begin (local_k_start, local_k_end).
StepMeta(c, e) ==
  IF e.s = -1 THEN [cached |-> 0, new |-> 0, start |-> 0, offset |-> 0, edge |-> 0]
  ELSE
    [cached |-> Min({FromCache(c, e.s, e.k), c.bkv}),
     new |-> Min({Max({KvLeft(c, e.s, e.k), 0}), c.bkv}) - Min({FromCache(c, e.s, e.k), c.bkv}),
     start |-> c.cu_q_lens[e.s + 1] - FromNew(c, e.s, e.k),
     offset |-> e.k * c.bkv - (e.q * c.bq + CacheLen(c, e.s)),
     edge |-> CacheLen(c, e.s) - e.k * c.bkv]

\* generate_mask: row r of the query block sees position x of the key block.
Visible(c, m, r, x) ==
  /\ r - x >= m.offset
  /\ c.window # 0 => r - x < c.window + m.offset
  /\ c.scope = "NEW_TOKENS_ONLY" => x >= m.edge
  /\ c.scope = "CACHE_ONLY" => x < m.edge

-----------------------------------------------------------------------------
\* stitch_new_kv_lane

\* Where the first new token has arrived.
Arrived(c, m) == CeilDiv(m.cached, c.page) * c.page + (m.start % c.page)

\* _stitch_prefill_lane: the whole buffer is rolled.
StitchPrefill(c, v, m) ==
  [x \in DOMAIN v |->
     IF x \in m.cached..(c.bkv - 1)
     THEN v[(x - (m.cached - Arrived(c, m))) % BufferLen(c)] ELSE v[x]]

\* _stitch_decode_lane: the columns it merges, from the one of the first new
\* token on, and what it puts at lane l of the i-th of them.
FirstCol(m) == m.cached \div NumLanes
MaxCol(c) == (BufferLen(c) \div NumLanes) - 1
NumCols(c) == IF c.bq = 1 THEN 1 ELSE CeilDiv(NumLanes - 1 + c.bq, NumLanes)
MergedCol(c, m, i) == Min({FirstCol(m) + i, MaxCol(c)})

\* Lane l of the i-th column comes from "shift" lanes back, or, rolled, from
\* the column before.
Shift(c, m) == (m.cached - Arrived(c, m)) % NumLanes
SourceCol(c, m, i, l) ==
  Clip(FirstCol(m) + i - ((m.cached - Arrived(c, m)) \div NumLanes)
         - (IF l >= Shift(c, m) THEN 0 ELSE 1), 0, MaxCol(c))
Source(c, v, m, i, l) ==
  IF c.bq = 1 THEN v[Arrived(c, m)]
  ELSE v[SourceCol(c, m, i, l) * NumLanes + ((l - Shift(c, m)) % NumLanes)]

Placed(c, m) == IF c.bq = 1 THEN 1 ELSE m.new

Merged(c, v, m, i, l) ==
  LET rel == i * NumLanes + l - (m.cached % NumLanes) IN
  IF rel < 0 THEN v[MergedCol(c, m, i) * NumLanes + l]
  ELSE IF rel < Placed(c, m) THEN Source(c, v, m, i, l) ELSE Zero

\* store_new_kv_lane: the columns of the page, and those merged after it,
\* get the last merged column that is not behind them.
PageCols(c) == c.page \div NumLanes
StoredCols(c, m) ==
  LET first == AlignDown(FirstCol(m), PageCols(c)) IN
  first..(first + PageCols(c) + NumCols(c) - 2)

StitchDecode(c, v, m) ==
  [x \in DOMAIN v |->
     LET col == x \div NumLanes
         before == {i \in 0..NumCols(c) - 1 : MergedCol(c, m, i) <= col} IN
     IF col \in StoredCols(c, m) /\ before # {}
     THEN Merged(c, v, m, Max(before), x % NumLanes) ELSE v[x]]

\* rpa_body, step 2: the keys a lane computes with.
Stitch(c, v, m) ==
  IF ~SeqAlongLane(c) THEN v
  ELSE IF c.bq <= NumLanes THEN StitchDecode(c, v, m) ELSE StitchPrefill(c, v, m)
=============================================================================

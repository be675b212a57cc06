----------------------------- MODULE MoeRouting -----------------------------
(***************************************************************************)
(* The routing plan of the fused expert-parallel MoE layer                  *)
(* (tokamax/_src/ops/experimental/fused_moe/host.py).                       *)
(*                                                                          *)
(* Every token selects TopK experts.  A selection is a pair, numbered token *)
(* by token; shard d owns TLocal consecutive tokens and GLocal consecutive  *)
(* experts.  The plan places every pair on a row of its expert's slab,      *)
(* grouped by the shard that owns the token (a run), and on the row of that *)
(* shard's arrival buffer where the result comes back.  Runs are padded to  *)
(* RowBlk rows.  The scale of a row travels in a mirror of the buffer, one  *)
(* sublane of TileM lanes per tile the row was computed in.                 *)
(*                                                                          *)
(* The tables are pure functions of the routing r, which gives the expert   *)
(* of every pair.  Tables in block units are kept in rows: every entry is a *)
(* whole number of blocks.                                                  *)
(***************************************************************************)
EXTENDS SetSums, Integers, FiniteSets, FiniteSetsExt

CONSTANTS
  EP,        \* expert-parallel shards
  GLocal,    \* experts of a shard
  TLocal,    \* tokens of a shard
  TopK,      \* selections of a token
  RowBlk,    \* host.ROWBLK
  TileM,     \* the tile height, capacity
  Block,     \* pairs of a routing block
  Window,    \* pairs of a rank window, ROUTING_WINDOW
  SlotField  \* ALIGNMENT_SLOT_FIELD

Shards == 0..EP - 1
Experts == 0..EP * GLocal - 1
NumPairs == EP * TLocal * TopK
Pairs == 0..NumPairs - 1

Token(p) == p \div TopK
Owner(p) == p \div (TLocal * TopK)
ShardOf(e) == e \div GLocal
ExpertsOf(s) == {e \in Experts : ShardOf(e) = s}
PairsOf(d) == {p \in Pairs : Owner(p) = d}

\* What _refuse_bad_plan_args lets through.
ASSUME PlanArguments ==
  /\ {EP, GLocal, TLocal, TopK, RowBlk, TileM, Block, Window, SlotField} \subseteq Nat \ {0}
  /\ (RowBlk - 1) * (EP - 1) < SlotField
  /\ (TLocal * TopK) % Block = 0 /\ Block % Window = 0
  /\ TileM % RowBlk = 0

Routings == [Pairs -> Experts]

\* jnp.cumsum(f) - f.
ExclusiveSums(f) == [i \in DOMAIN f |-> SumOf(f, {j \in DOMAIN f : j < i})]

AlignUp(v, m) == -((-v) \div m) * m

-----------------------------------------------------------------------------
\* Sizes of the buffers.

\* Mutant: only the pairs of the shard's own tokens.
Stride_OwnPairs ==
  AlignUp(TLocal * TopK + (RowBlk - 1) * EP * GLocal + TileM, TileM)

\* ragged_stride_bound: the slab rows of a shard.
Stride ==
  AlignUp(NumPairs + (RowBlk - 1) * EP * GLocal + TileM, TileM)

\* The arrival buffer of a shard, as the layer sizes it.
RecvRows == AlignUp(TLocal * TopK + (RowBlk - 1) * EP * GLocal, RowBlk)

\* Mutant: one sublane of slack.
Slack_One == 1

\* Sublanes of slack per expert in the two mirrors.
Slack == 2

ContribMirrorRows == Stride \div TileM + Slack * GLocal + 2
ArrivalMirrorRows == RecvRows \div TileM + Slack * EP * GLocal + 2

\* mirror_run_tiles: the tiles the rows of a run fall in.
MirrorRunTiles(start, rows) ==
  IF rows = 0 THEN 0
  ELSE (start + rows - 1) \div TileM - start \div TileM + 1

\* off_shard_slab_row: beyond both slabs; Lanes is HIDDEN_LANE_BLOCK.
Lanes == 128
ActScaleSlabRows == AlignUp(Stride, Lanes) \div Lanes + 1
OffShardSlabRow == EP * Stride + ActScaleSlabRows * Lanes

-----------------------------------------------------------------------------
\* Ranks and histograms.

Hist(r, P, e) == Cardinality({p \in P : r[p] = e})
AlignDown(v, m) == (v \div m) * m

\* Pairs before p, in its aligned group of `width`, that select p's expert.
RankWithin(r, p, width) == Hist(r, AlignDown(p, width)..p - 1, r[p])

\* block_off: the pairs of e in the blocks from `first` up to that of p.
BlockOff(r, p, e, first) == Hist(r, first..AlignDown(p, Block) - 1, e)

\* Mutant: earlier windows are forgotten.
WindowOff_Dropped(r, p, e) == 0

\* _window_table: the pairs of e in the earlier windows of p's block.
WindowOff(r, p, e) == Hist(r, AlignDown(p, Block)..AlignDown(p, Window) - 1, e)

-----------------------------------------------------------------------------
\* The tables of runs, which both builders reconstruct from the pairs of
\* every expert that every shard owns.

AlignedRuns(run_rows) ==
  [e \in Experts |-> [d \in Shards |-> AlignUp(run_rows[e][d], RowBlk)]]

TablesOf(run_rows, aligned, expert_rows, start) ==
  [run_rows |-> run_rows,
   aligned |-> aligned,
   start_aligned |-> start,
   expert_rows |-> expert_rows,
   expert_base |-> [e \in Experts |-> ShardOf(e) * Stride +
                      SumOf(expert_rows, {f \in ExpertsOf(ShardOf(e)) : f < e})],
   recv_base |-> [d \in Shards |-> ExclusiveSums([e \in Experts |-> aligned[e][d]])],
   recv_rows |-> [d \in Shards |-> MapThenSumSet(LAMBDA e : aligned[e][d], Experts)],
   run_tiles |-> [e \in Experts |-> [d \in Shards |->
                    MirrorRunTiles(start[e][d], aligned[e][d])]]]

SlabRuns(run_rows, aligned) ==
  TablesOf(run_rows, aligned, [e \in Experts |-> SumOf(aligned[e], Shards)],
           [e \in Experts |-> ExclusiveSums(aligned[e])])

RunTables(run_rows) == SlabRuns(run_rows, AlignedRuns(run_rows))

CountRows(r) == [e \in Experts |-> [d \in Shards |-> Hist(r, PairsOf(d), e)]]

\* Where the mirror of the run (e, d) starts, as an element: its sublane in
\* the arrival mirror, and the lane of its first row in the source tile.
MirrorStart(t, e, d) ==
  (t.recv_base[d][e] \div TileM + Slack * e) * TileM + (t.start_aligned[e][d] % TileM)

-----------------------------------------------------------------------------
\* build_routing_tables: every pair's rows, computed by every shard.  Two
\* shifts share a word: the position is the high part, the slot the low one.

PackedWord(pos_shift, slot_shift) == pos_shift * SlotField + slot_shift
HighPart(word) == word \div SlotField
LowPart(word) == word % SlotField

Word(r, t, run_start, p) ==
  PackedWord(t.recv_base[Owner(p)][r[p]] - run_start[r[p]][Owner(p)],
             t.start_aligned[r[p]][Owner(p)] - run_start[r[p]][Owner(p)])

PairRows(r, t, run_start, rank) ==
  [runs |-> t,
   arrival_row |-> [p \in Pairs |-> rank[p] + HighPart(Word(r, t, run_start, p))],
   mirror_row |-> [p \in Pairs |->
     rank[p] + MirrorStart(t, r[p], Owner(p)) - run_start[r[p]][Owner(p)]],
   slab_row |-> [p \in Pairs |->
     t.expert_base[r[p]] + rank[p] + LowPart(Word(r, t, run_start, p))]]

RankedRows(r, t) ==
  PairRows(r, t, [e \in Experts |-> ExclusiveSums(t.run_rows[e])],
           [p \in Pairs |-> BlockOff(r, p, r[p], 0) + RankWithin(r, p, Block)])

BuildRoutingTables(r) == RankedRows(r, RunTables(CountRows(r)))

-----------------------------------------------------------------------------
\* build_routing_tables_sharded: the arrival rows of the tokens of `me`, and
\* the slab rows of its experts.

OwnRank(r, p) == BlockOff(r, p, r[p], Owner(p) * TLocal * TopK) + RankWithin(r, p, Block)
WindowedRank(r, p) ==
  BlockOff(r, p, r[p], Owner(p) * TLocal * TopK) + WindowOff(r, p, r[p])
    + RankWithin(r, p, Window)

ShardRows(r, me, t) ==
  [runs |-> t,
   pos |-> [p \in PairsOf(me) |-> t.recv_base[me][r[p]] + OwnRank(r, p)],
   mirror_pos |-> [p \in PairsOf(me) |-> MirrorStart(t, r[p], me) + OwnRank(r, p)],
   slab_row |-> [p \in Pairs |->
     IF ShardOf(r[p]) = me
     THEN t.expert_base[r[p]] + t.start_aligned[r[p]][Owner(p)] + WindowedRank(r, p)
     ELSE OffShardSlabRow]]

BuildRoutingTablesSharded(r, me) == ShardRows(r, me, RunTables(CountRows(r)))

-----------------------------------------------------------------------------
\* What the layer cuts out of the tables t for the kernel of shard `me`.

\* shard_expert_slabs: where an expert's slab starts within the shard.
SlabBase(t, e) == t.expert_base[e] - t.expert_base[ShardOf(e) * GLocal]

\* local_slab_rows: rows of other shards go past the end, and are dropped.
LocalSlabRow(row, me) == IF row < me * Stride THEN Stride ELSE row - me * Stride

\* shard_token_gather: a scatter-add of the token numbers, clipped.
TokenGather(slab_row) ==
  LET added(x) == SumOf([p \in Pairs |-> Token(p)], {p \in Pairs : slab_row[p] = x})
      high == Max({EP * TLocal - 1, 0}) IN
  [x \in 0..Stride - 1 |-> Min({added(x), high})]

\* Mutant: the experts by number.
VisitKey_ByNumber(t, e) == e % GLocal

\* expert_visit_list: the experts by rows, most first, then by number; each
\* key is ranked once.
VisitKey(t, e) == (e % GLocal) - t.expert_rows[e] * GLocal

VisitRank(t, e) ==
  Cardinality({f \in ExpertsOf(ShardOf(e)) : VisitKey(t, f) < VisitKey(t, e)})
NumVisits(t, me) == Cardinality({e \in ExpertsOf(me) : t.expert_rows[e] > 0})
Visit(t, me, i) == CHOOSE e \in ExpertsOf(me) : VisitRank(t, e) = i
Visited(t, me) == {Visit(t, me, i) : i \in 0..NumVisits(t, me) - 1}

SumRuns(table, E, D) == MapThenSumSet(LAMBDA e : SumOf(table[e], D), E)

\* shard_transport_tables_in_blocks: contributions are packed by
\* destination, then by expert.
ContribOff(t, e, d) ==
  SumRuns(t.aligned, ExpertsOf(ShardOf(e)), 0..d - 1)
    + SumOf([f \in Experts |-> t.aligned[f][d]], {f \in ExpertsOf(ShardOf(e)) : f < e})

\* push_dst: recv_base, read by the source.
PushDst(t, e, d) == t.recv_base[d][e]

\* Mutant: rows are counted with their padding.
Counts_Padded(t, me) ==
  LET mine == ExpertsOf(me)
      others == Shards \ {me} IN
  [send |-> SumRuns(t.aligned, mine, others),
   recv |-> SumRuns(t.aligned, Experts, {me}) - SumRuns(t.aligned, mine, {me}),
   send_mirror |-> SumRuns(t.run_tiles, mine, others),
   recv_mirror |-> SumRuns(t.run_tiles, Experts, {me}) - SumRuns(t.run_tiles, mine, {me}),
   self |-> SumRuns(t.aligned, mine, {me}),
   self_mirror |-> SumRuns(t.run_tiles, mine, {me})]

\* shard_count_vector: sums over the runs of `me` to and from other shards.
Counts(t, me) ==
  LET mine == ExpertsOf(me)
      others == Shards \ {me} IN
  [send |-> SumRuns(t.run_rows, mine, others),
   recv |-> SumRuns(t.run_rows, Experts, {me}) - SumRuns(t.run_rows, mine, {me}),
   send_mirror |-> SumRuns(t.run_tiles, mine, others),
   recv_mirror |-> SumRuns(t.run_tiles, Experts, {me}) - SumRuns(t.run_tiles, mine, {me}),
   self |-> SumRuns(t.aligned, mine, {me}),
   self_mirror |-> SumRuns(t.run_tiles, mine, {me})]

\* push_from_vmem: is a tile shipped from where it was computed?
PushFromVmem == Stride <= EP * GLocal * TileM
=============================================================================

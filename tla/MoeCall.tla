------------------------------ MODULE MoeCall ------------------------------
(***************************************************************************)
(* One call of the fused expert-parallel MoE layer on all shards in lock    *)
(* step (tokamax/_src/ops/experimental/fused_moe/layer.py:380-655): plan    *)
(* the routing, compute the tiles of every visited expert, move their rows  *)
(* and scales to the shards that own the tokens, combine there.             *)
(*                                                                          *)
(* A row is the pair <<expert, token>> of what was computed for whom, and   *)
(* so is its scale.  MoeExchange has the shards run at their own pace.      *)
(***************************************************************************)
EXTENDS MoeRouting

CONSTANT RoutingSet  \* the routings to call the layer with

ASSUME RoutingsAssumption == RoutingSet \subseteq Routings

VARIABLES
  routing,   \* the expert of every pair
  stage,     \* how far the call is
  plan,      \* plan[s]: the tables of shard s
  tiles,     \* tiles[s][e][k]: the rows of tile k of expert e
  arrived,   \* copies of rows: the shard and row they land on, and the row
  mirrored,  \* copies of sublanes: the shard and sublane, and the lanes
  out        \* out[p]: the row and the scale combined for the pair p

callVars == <<routing, stage, plan, tiles, arrived, mirrored, out>>

Garbage == <<-1, -1>>

-----------------------------------------------------------------------------
\* The tiles of shard s, and the runs they intersect.

Runs(s) == plan[s].runs
NumTiles(s, e) == -((-Runs(s).expert_rows[e]) \div TileM)
LiveRows(s, e, k) == Min({Runs(s).expert_rows[e] - k * TileM, TileM})

\* Row i of a tile, fetched by the token gather.
TileRows(s) ==
  LET gather == TokenGather(plan[s].slab_row) IN
  [e \in Visited(Runs(s), s) |-> [k \in 0..NumTiles(s, e) - 1 |->
    [i \in 0..LiveRows(s, e, k) - 1 |->
      <<e, gather[SlabBase(Runs(s), e) + k * TileM + i]>>]]]

TileIds(s) ==
  UNION {{<<e, k>> : k \in DOMAIN tiles[s][e]} : e \in DOMAIN tiles[s]}

\* The rows lo..hi-1 of the expert's slab that tile k and the run to d share.
Start(s, e, d) == Runs(s).start_aligned[e][d]
Lo(s, e, d, k) == Max({Start(s, e, d), k * TileM})
Hi(s, e, d, k) ==
  Min({Start(s, e, d) + Runs(s).aligned[e][d], k * TileM + LiveRows(s, e, k)})
Overlaps(s) ==
  {o \in Experts \X Shards \X (0..Stride \div TileM) :
     <<o[1], o[3]>> \in TileIds(s) /\ Lo(s, o[1], o[2], o[3]) < Hi(s, o[1], o[2], o[3])}

Copy(d, at, what) == [to |-> d, at |-> at, what |-> what]
Sublane(s, e, k) ==
  [i \in 0..TileM - 1 |-> IF i < LiveRows(s, e, k) THEN tiles[s][e][k][i] ELSE Garbage]

-----------------------------------------------------------------------------
\* ship_tile: straight from the tile, at its true length unless d is s.

ShippedLength(s, e, d, k) ==
  LET overlap == Hi(s, e, d, k) - Lo(s, e, d, k)
      left == Runs(s).run_rows[e][d] - (Lo(s, e, d, k) - Start(s, e, d)) IN
  IF d = s THEN overlap ELSE Max({0, Min({left, overlap})})

\* Mutant: a tile lands at the start of its run.
ShippedRows_RunStart(s) == UNION
  {LET e == o[1] d == o[2] k == o[3] lo == Lo(s, e, d, k) IN
   {Copy(d, PushDst(Runs(s), e, d) + i, tiles[s][e][k][lo - k * TileM + i])
      : i \in 0..ShippedLength(s, e, d, k) - 1} : o \in Overlaps(s)}

ShippedRows(s) == UNION
  {LET e == o[1] d == o[2] k == o[3] lo == Lo(s, e, d, k) IN
   {Copy(d, PushDst(Runs(s), e, d) + lo - Start(s, e, d) + i, tiles[s][e][k][lo - k * TileM + i])
      : i \in 0..ShippedLength(s, e, d, k) - 1} : o \in Overlaps(s)}

\* The sublane that tile k of the run (e, d) has at its destination.
ArrivalSublane(s, e, d, k) ==
  PushDst(Runs(s), e, d) \div TileM + Slack * e + k - Start(s, e, d) \div TileM

ShippedSublanes(s) ==
  {LET e == o[1] d == o[2] k == o[3] IN
   Copy(d, ArrivalSublane(s, e, d, k), Sublane(s, e, k)) : o \in Overlaps(s)}

-----------------------------------------------------------------------------
\* commit_tile and push_expert: through the slab of contributions.

Committed(s) == UNION
  {LET e == o[1] d == o[2] k == o[3] lo == Lo(s, e, d, k) IN
   {Copy(s, ContribOff(Runs(s), e, d) + lo - Start(s, e, d) + i,
         tiles[s][e][k][lo - k * TileM + i]) : i \in 0..Hi(s, e, d, k) - lo - 1}
   : o \in Overlaps(s)}

MirrorBase(s, e) == SlabBase(Runs(s), e) \div TileM + Slack * (e % GLocal)

CommittedSublanes(s) ==
  {Copy(s, MirrorBase(s, t[1]) + t[2], Sublane(s, t[1], t[2])) : t \in TileIds(s)}

PushedLength(s, e, d) ==
  IF d = s THEN Runs(s).aligned[e][d] ELSE Runs(s).run_rows[e][d]

Moved(copies, from, n, d, to) ==
  {Copy(d, c.at - from + to, c.what) : c \in {c \in copies : c.at \in from..from + n - 1}}

PushedRuns(s) ==
  {p \in Visited(Runs(s), s) \X Shards : Runs(s).aligned[p[1]][p[2]] > 0}

PushedRows(s) ==
  LET contrib == Committed(s) IN
  UNION {Moved(contrib, ContribOff(Runs(s), p[1], p[2]), PushedLength(s, p[1], p[2]),
               p[2], PushDst(Runs(s), p[1], p[2])) : p \in PushedRuns(s)}

\* _run_tiles: the sublanes of a run at the source and at the destination.
PushedSublanes(s) ==
  LET mirror == CommittedSublanes(s) IN
  UNION {LET e == p[1] d == p[2] first == Start(s, e, d) \div TileM IN
         Moved(mirror, MirrorBase(s, e) + first,
               MirrorRunTiles(Start(s, e, d), Runs(s).aligned[e][d]), d,
               ArrivalSublane(s, e, d, first)) : p \in PushedRuns(s)}

-----------------------------------------------------------------------------
CallInit ==
  /\ routing \in RoutingSet
  /\ stage = "routed"
  /\ plan = <<>> /\ tiles = <<>> /\ arrived = {} /\ mirrored = {} /\ out = <<>>

\* Every shard plans, with the builder that sharded_plan names, and rebases
\* the rows of the slab onto its own.
CutFull(full, s) ==
  [runs |-> full.runs, slab_row |-> full.slab_row,
   pos |-> [p \in PairsOf(s) |-> full.arrival_row[p]],
   mirror_pos |-> [p \in PairsOf(s) |-> full.mirror_row[p]]]

ShardPlan(s, sharded) ==
  [(IF sharded THEN BuildRoutingTablesSharded(routing, s)
    ELSE CutFull(BuildRoutingTables(routing), s))
   EXCEPT !.slab_row = [p \in Pairs |-> LocalSlabRow(@[p], s)]]

Plan ==
  /\ stage = "routed" /\ stage' = "planned"
  /\ \E sharded \in BOOLEAN : plan' = [s \in Shards |-> ShardPlan(s, sharded)]
  /\ UNCHANGED <<routing, tiles, arrived, mirrored, out>>

\* The tile loops of the kernel.
Compute ==
  /\ stage = "planned" /\ stage' = "computed"
  /\ tiles' = [s \in Shards |-> TileRows(s)]
  /\ UNCHANGED <<routing, plan, arrived, mirrored, out>>

\* The all-to-all of the kernel, on the path the build has.
Transport ==
  /\ stage = "computed" /\ stage' = "arrived"
  /\ arrived' = UNION {IF PushFromVmem THEN ShippedRows(s) ELSE PushedRows(s) : s \in Shards}
  /\ mirrored' = UNION {IF PushFromVmem THEN ShippedSublanes(s) ELSE PushedSublanes(s)
                          : s \in Shards}
  /\ UNCHANGED <<routing, plan, tiles, out>>

\* _combine_arrivals: positions are clamped into the buffers.
At(copies, d, at) ==
  LET there == {c \in copies : c.to = d /\ c.at = at} IN
  IF there = {} THEN Garbage ELSE (CHOOSE c \in there : TRUE).what

CombinedRow(p) == At(arrived, Owner(p), Min({plan[Owner(p)].pos[p], RecvRows - 1}))
CombinedScale(p) ==
  LET scl == Min({plan[Owner(p)].mirror_pos[p], ArrivalMirrorRows * TileM - 1})
      lanes == At(mirrored, Owner(p), scl \div TileM) IN
  IF lanes = Garbage THEN Garbage ELSE lanes[scl % TileM]

CombineArrivals ==
  /\ stage = "arrived" /\ stage' = "combined"
  /\ out' = [p \in Pairs |-> <<CombinedRow(p), CombinedScale(p)>>]
  /\ UNCHANGED <<routing, plan, tiles, arrived, mirrored>>

Done == stage = "combined" /\ UNCHANGED callVars

CallNext == Plan \/ Compute \/ Transport \/ CombineArrivals \/ Done

CallSpec == CallInit /\ [][CallNext]_callVars

-----------------------------------------------------------------------------
SamePlan(s, a, b) ==
  /\ a.runs = b.runs /\ a.pos = b.pos /\ a.mirror_pos = b.mirror_pos
  /\ \A p \in Pairs : IF ShardOf(routing[p]) = s THEN a.slab_row[p] = b.slab_row[p]
                      ELSE Min({a.slab_row[p], b.slab_row[p]}) >= Stride

\* "Every table below is identical either way" (build_routing_tables_sharded):
\* the two builders agree on the tables of runs, on the arrival and mirror
\* rows of the shard's own pairs, and on the rows of its slab; every other
\* pair is dropped from the slab.
PlansAgree ==
  stage = "routed" => \A s \in Shards : SamePlan(s, ShardPlan(s, TRUE), ShardPlan(s, FALSE))

\* The slabs hold together (expert_tiles reads and commits with bounds checks
\* off): no two pairs share a slab row, and every tile, read at full height,
\* and every contribution lie within what was allocated.
SlabsInBounds ==
  stage = "computed" => \A s \in Shards :
    /\ \A p, q \in {p \in Pairs : ShardOf(routing[p]) = s} :
         p # q => plan[s].slab_row[p] # plan[s].slab_row[q]
    /\ \A t \in TileIds(s) : SlabBase(Runs(s), t[1]) + (t[2] + 1) * TileM <= Stride
    /\ \A c \in Committed(s) : c.at < Stride
    /\ \A c \in CommittedSublanes(s) : c.at < ContribMirrorRows
    /\ \A c1, c2 \in CommittedSublanes(s) : c1.at = c2.at => c1 = c2

\* "Every offset here is the one the two-hop path would have used"
\* (ship_tile): shipping tiles and pushing runs from the slab of
\* contributions put the same rows and sublanes in the same places.
TransportsAgree ==
  stage = "computed" => \A s \in Shards :
    ShippedRows(s) = PushedRows(s) /\ ShippedSublanes(s) = PushedSublanes(s)

\* No two copies of the exchange land on one row or one sublane, whatever
\* their sources, and all land within the arrival buffers
\* (contrib_mirror_rows, arrival_mirror_rows: two sublanes of slack suffice).
LandApart ==
  stage = "arrived" =>
    /\ \A c \in arrived : c.at < RecvRows
    /\ \A c \in mirrored : c.at < ArrivalMirrorRows
    /\ \A copies \in {arrived, mirrored} : \A c1, c2 \in copies :
         c1.to = c2.to /\ c1.at = c2.at => c1 = c2

\* The kernel's final waits count bytes (drain_transport): what a shard waits
\* to receive is what the others send it, and what it waits to have sent is
\* what it sends.
CountsBalance ==
  stage = "computed" => \A s \in Shards :
    LET count == Counts(Runs(s), s)
        rows(a, b) == Cardinality({c \in ShippedRows(a) : c.to = b})
        subs(a, b) == Cardinality({c \in ShippedSublanes(a) : c.to = b})
        others == Shards \ {s} IN
    /\ count.send = SumOf([d \in others |-> rows(s, d)], others)
    /\ count.recv = SumOf([d \in others |-> rows(d, s)], others)
    /\ count.send_mirror = SumOf([d \in others |-> subs(s, d)], others)
    /\ count.recv_mirror = SumOf([d \in others |-> subs(d, s)], others)
    /\ count.self = rows(s, s) /\ count.self_mirror = subs(s, s)

\* Every selection gets back the row, and the scale, that its expert computed
\* for its token.
PairsReturn ==
  stage = "combined" =>
    \A p \in Pairs : out[p] = <<<<routing[p], Token(p)>>, <<routing[p], Token(p)>>>>
=============================================================================

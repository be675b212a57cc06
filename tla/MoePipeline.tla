---------------------------- MODULE MoePipeline ----------------------------
(***************************************************************************)
(* The schedule of the fused MoE kernel on one core: it visits its experts, *)
(* computes each of them a tile at a time, and feeds itself by asynchronous *)
(* copies into a few buffers that it uses in turns                          *)
(* (tokamax/_src/ops/experimental/fused_moe/kernel.py:900-1844).            *)
(*                                                                          *)
(*   w1, w2, scales   the weights of an expert, in Nbuf slots by visit      *)
(*   window           the token numbers of a tile, two slots that alternate *)
(*                    over the whole visit list                             *)
(*   lhs, out, oscl   the rows of a tile, its result and its result's       *)
(*                    scales, by the parity of the number of tiles so far   *)
(*   contrib, cscl    the results in HBM, pushed expert by expert           *)
(*   recv, rscl       what is delivered; a tile may ship itself from out    *)
(*                                                                          *)
(* The core is sequential: an action runs from one wait to the next.  A     *)
(* copy reads its source and writes its target when it lands, any time      *)
(* after its start and in any order.  Semaphores count what has landed.     *)
(* The copies of one tile, or one push, are one copy here: MoeCall splits   *)
(* them by destination.  A visit is a number from 0, a tile <<visit, t>>.   *)
(***************************************************************************)
EXTENDS Integers, Sequences, FiniteSetsExt

CONSTANT Schedules  \* the builds and visit lists to choose from

ASSUME ScheduleTypes == Schedules \subseteq
  [distance : 0..2, streams : BOOLEAN, ship : BOOLEAN, tiles : Seq(Nat \ {0})]

VARIABLES
  schedule,  \* the build, and the number of tiles of every visit
  pc, visit, t,
  count,     \* the tiles computed so far
  wslot,     \* the window slot of the visit's first tile
  owed,      \* owed[parity]: the rows that out[parity] still has to give
  act,       \* the tile whose gate product the core holds
  mem,       \* mem[place]: what a buffer holds
  flying,    \* the copies that have started and not landed
  sem

vars == <<schedule, pc, visit, t, count, wslot, owed, act, mem, flying, sem>>

Nothing == <<>>
Slots == 0..1  \* OUT_PARITIES, and the two windows

\* Mutant: as many slots as experts ahead.
Nbuf_Distance == schedule.distance + (IF schedule.distance = 0 THEN 1 ELSE 0)

\* nbuf_for.
Nbuf == schedule.distance + 1

Prefetches == schedule.distance > 0
StartsNext == schedule.streams /\ ~Prefetches
NumVisits == Len(schedule.tiles)
Visits == 0..NumVisits - 1
NumTiles(i) == schedule.tiles[i + 1]
TilesOf(i) == {i} \X (0..NumTiles(i) - 1)
Tiles == UNION {TilesOf(i) : i \in Visits}

\* The last tile of an expert is half empty.
Blocks(tile) == IF tile[2] = NumTiles(tile[1]) - 1 THEN 1 ELSE 2

WeightSlot(i) == i % Nbuf

Places ==
  ({"w1", "w2", "scales"} \X (0..2)) \cup ({"window", "lhs", "out", "oscl"} \X Slots)
    \cup ({"contrib", "cscl", "recv", "rscl"} \X Tiles)

\* What waits tell apart: the buffer whose copies are counted.
Sems ==
  ({"w1", "w2", "scales"} \X (0..2)) \cup ({"window", "lhs", "out", "oscl"} \X Slots)
    \cup ({"push", "push scl"} \X {0})

-----------------------------------------------------------------------------
\* Copies.  "moves" gives every target its source: a place, or data in HBM.
Only(key, value) == [k \in {key} |-> value]  \* one target, or one semaphore

Load(place, data, amount) ==
  [moves |-> Only(place, <<"hbm", data>>), sem |-> place, amount |-> amount]

Move(moves, s, amount) == [moves |-> moves, sem |-> s, amount |-> amount]

Content(source) == IF source[1] = "hbm" THEN source[2] ELSE mem[source]

Land(copy) ==
  /\ copy \in flying
  /\ flying' = flying \ {copy}
  /\ mem' = [place \in Places |->
       IF place \in DOMAIN copy.moves THEN Content(copy.moves[place]) ELSE mem[place]]
  /\ sem' = [sem EXCEPT ![copy.sem] = @ + copy.amount]
  /\ UNCHANGED <<schedule, pc, visit, t, count, wslot, owed, act>>

Start(copies) == flying' = flying \cup copies

\* Waiting for the amounts in "need", a function of semaphores.
Wait(need) ==
  /\ \A s \in DOMAIN need : sem[s] >= need[s]
  /\ sem' = [s \in Sems |-> IF s \in DOMAIN need THEN sem[s] - need[s] ELSE sem[s]]

Load1(kind, i) == Load(<<kind, WeightSlot(i)>>, <<i>>, 1)

\* weight_starts
WeightStarts(i) == {Load1(kind, i) : kind \in {"w1", "w2", "scales"}}

\* weight_waits
AtHead == IF schedule.streams THEN {"scales"} ELSE {"w1", "w2", "scales"}

\* issue_gather_window and lhs_issue_tile: the rows are those of the tile
\* whose token numbers the window holds.
Window(tile, slot) == Load(<<"window", slot>>, tile, 1)
Rows(tile, parity, slot) == Load(<<"lhs", parity>>, mem[<<"window", slot>>], Blocks(tile))

-----------------------------------------------------------------------------
Parity == count % 2
Tile == <<visit, t>>
LastTile == t = NumTiles(visit) - 1
AnotherVisit == visit + 1 < NumVisits

\* The slot the next expert's windows begin with.
NextWslot == (wslot + NumTiles(visit)) % 2

\* prologue, after which the first expert's token numbers are asked for.
Prologue ==
  /\ pc = "prologue"
  /\ Start((UNION {WeightStarts(i) : i \in {j \in Visits : j < schedule.distance}}) \cup
           (IF NumVisits > 0 THEN {Window(<<0, 0>>, 0)} ELSE {}))
  /\ pc' = IF NumVisits > 0 THEN "prime" ELSE "transport"
  /\ UNCHANGED <<schedule, visit, t, count, wslot, owed, act, mem, sem>>

\* prime_expert, for the expert after this one.
Prime ==
  LET next == visit + 1 IN
  /\ pc = "prime"
  /\ Wait(Only(<<"window", wslot>>, 1))
  /\ Start({Rows(<<next, 0>>, Parity, wslot)} \cup
           (IF NumTiles(next) > 1 THEN {Window(<<next, 1>>, 1 - wslot)} ELSE {}))
  /\ pc' = IF visit < 0 THEN "head" ELSE "flush"
  /\ visit' = IF visit < 0 THEN 0 ELSE visit
  /\ UNCHANGED <<schedule, t, count, wslot, owed, act, mem>>

\* The head of expert_tiles: with nobody to start the weights ahead, the
\* visit does so itself.
VisitHead ==
  /\ pc = "head"
  /\ Start(IF ~Prefetches /\ (StartsNext => visit = 0) THEN WeightStarts(visit) ELSE {})
  /\ pc' = "weights"
  /\ UNCHANGED <<schedule, visit, t, count, wslot, owed, act, mem, sem>>

\* weight_waits, then the refill of the slot for the expert "distance" ahead.
WeightWaits ==
  LET ahead == visit + schedule.distance IN
  /\ pc = "weights"
  /\ Wait([s \in AtHead \X {WeightSlot(visit)} |-> 1])
  /\ Start(IF Prefetches /\ ahead < NumVisits THEN WeightStarts(ahead) ELSE {})
  /\ t' = 0
  /\ pc' = "guard"
  /\ UNCHANGED <<schedule, visit, count, wslot, owed, act, mem>>

\* What the copies out of a parity's staging buffers owe: wait_commits, wait_shipped.
Owing(parities) ==
  LET owing == {p \in parities : owed[p] > 0} IN
  [s \in {"out", "oscl"} \X owing |-> IF s[1] = "out" THEN owed[s[2]] ELSE 1]

\* Mutant: the staging buffer is written over whatever still leaves it.
ReuseGuard_Skipped ==
  /\ pc = "guard"
  /\ pc' = "rows"
  /\ UNCHANGED <<schedule, visit, t, count, wslot, owed, act, mem, flying, sem>>

\* tile_body, from its reuse guard to the staging of its result.
ReuseGuard ==
  /\ pc = "guard"
  /\ Wait(Owing({Parity}))
  /\ pc' = "rows"
  /\ UNCHANGED <<schedule, visit, t, count, wslot, owed, act, mem, flying>>

\* Mutant: the next expert's first window goes where the last one's is.
RowsReady_SameSlot ==
  /\ pc = "rows"
  /\ Wait(Only(<<"lhs", Parity>>, Blocks(Tile)))
  /\ Start(IF LastTile /\ AnotherVisit THEN {Window(<<visit + 1, 0>>, wslot)} ELSE {})
  /\ pc' = IF LastTile THEN "gate" ELSE "next"
  /\ UNCHANGED <<schedule, visit, t, count, wslot, owed, act, mem>>

\* lhs_ready_tile; on the last tile the next expert's window is asked for.
RowsReady ==
  /\ pc = "rows"
  /\ Wait(Only(<<"lhs", Parity>>, Blocks(Tile)))
  /\ Start(IF LastTile /\ AnotherVisit THEN {Window(<<visit + 1, 0>>, NextWslot)} ELSE {})
  /\ pc' = IF LastTile THEN "gate" ELSE "next"
  /\ UNCHANGED <<schedule, visit, t, count, wslot, owed, act, mem>>

\* The window of the tile after this one, whose rows it fetches into the
\* other parity; the retired window slot is refilled for the tile after that.
NextTile ==
  LET slot == (wslot + t + 1) % 2 IN
  /\ pc = "next"
  /\ Wait(Only(<<"window", slot>>, 1))
  /\ Start({Rows(<<visit, t + 1>>, 1 - Parity, slot)} \cup
           (IF t + 2 < NumTiles(visit) THEN {Window(<<visit, t + 2>>, 1 - slot)} ELSE {}))
  /\ pc' = "gate"
  /\ UNCHANGED <<schedule, visit, t, count, wslot, owed, act, mem>>

\* A streamed slab is waited for by the block that opens it, on the first tile.
SlabWait(kind) ==
  Wait(IF schedule.streams /\ t = 0 THEN Only(<<kind, WeightSlot(visit)>>, 1) ELSE <<>>)

\* A product of rows and weights: of the tile, when all are of one expert.
Product(rows, kinds) ==
  IF rows # Nothing /\ \A k \in kinds : mem[<<k, WeightSlot(visit)>>] = <<rows[1]>>
  THEN rows ELSE Nothing

\* Mutant: every tile starts the next expert's gate slab.
Gate_EveryTile ==
  /\ pc = "gate"
  /\ SlabWait("w1")
  /\ act' = Product(mem[<<"lhs", Parity>>], {"w1", "scales"})
  /\ Start(IF StartsNext /\ AnotherVisit THEN {Load1("w1", visit + 1)} ELSE {})
  /\ pc' = "down"
  /\ UNCHANGED <<schedule, visit, t, count, wslot, owed, mem>>

\* The gate/up product; the last tile retires the slab and starts the next one's.
Gate ==
  /\ pc = "gate"
  /\ SlabWait("w1")
  /\ act' = Product(mem[<<"lhs", Parity>>], {"w1", "scales"})
  /\ Start(IF StartsNext /\ LastTile /\ AnotherVisit THEN {Load1("w1", visit + 1)} ELSE {})
  /\ pc' = "down"
  /\ UNCHANGED <<schedule, visit, t, count, wslot, owed, mem>>

\* ship_tile, commit_tile: the rows and scales leave the staging buffers.
Leave(rowsTo, sclTo) ==
  {Move(Only(<<rowsTo, Tile>>, <<"out", Parity>>), <<"out", Parity>>, Blocks(Tile)),
   Move(Only(<<sclTo, Tile>>, <<"oscl", Parity>>), <<"oscl", Parity>>, 1)}

\* The down product, its staging, and the tile on its way.
Down ==
  LET result == Product(act, {"w2", "scales"}) IN
  /\ pc = "down"
  /\ SlabWait("w2")
  /\ mem' = [mem EXCEPT ![<<"out", Parity>>] = result, ![<<"oscl", Parity>>] = result]
  /\ Start(IF schedule.ship THEN Leave("recv", "rscl") ELSE Leave("contrib", "cscl"))
  /\ owed' = [owed EXCEPT ![Parity] = Blocks(Tile)]
  /\ count' = count + 1
  /\ act' = Nothing
  /\ t' = IF LastTile THEN 0 ELSE t + 1
  /\ pc' = IF LastTile THEN "tail" ELSE "guard"
  /\ UNCHANGED <<schedule, visit, wslot>>

\* The end of expert_tiles: the next expert's other weights.
VisitTail ==
  /\ pc = "tail"
  /\ Start(IF StartsNext /\ AnotherVisit
           THEN {Load1(kind, visit + 1) : kind \in {"scales", "w2"}} ELSE {})
  /\ wslot' = NextWslot
  /\ pc' = IF AnotherVisit THEN "prime" ELSE "flush"
  /\ UNCHANGED <<schedule, visit, t, count, owed, act, mem, sem>>

\* push_expert
Push(i) ==
  {Move([p \in {"recv"} \X TilesOf(i) |-> <<"contrib", p[2]>>], <<"push", 0>>,
        MapThenSumSet(Blocks, TilesOf(i))),
   Move([p \in {"rscl"} \X TilesOf(i) |-> <<"cscl", p[2]>>], <<"push scl", 0>>,
        NumTiles(i))}

\* The end of visit_step: drain_commits and push_expert.
Flush ==
  /\ pc = "flush"
  /\ \/ /\ schedule.ship
        /\ UNCHANGED <<owed, flying, sem>>
     \/ /\ ~schedule.ship
        /\ Wait(Owing(Slots))
        /\ Start(Push(visit))
        /\ owed' = [p \in Slots |-> 0]
  /\ visit' = visit + 1
  /\ pc' = IF AnotherVisit THEN "head" ELSE "transport"
  /\ UNCHANGED <<schedule, t, count, wslot, act, mem>>

\* drain_shipped, or the sends of drain_transport.
Transport ==
  /\ pc = "transport"
  /\ IF schedule.ship THEN Wait(Owing(Slots))
     ELSE Wait([s \in {"push", "push scl"} \X {0} |->
                 IF s[1] = "push" THEN MapThenSumSet(Blocks, Tiles) ELSE Cardinality(Tiles)])
  /\ pc' = "done"
  /\ UNCHANGED <<schedule, visit, t, count, wslot, owed, act, mem, flying>>

Done == pc = "done" /\ UNCHANGED vars

Init ==
  /\ schedule \in Schedules
  /\ pc = "prologue" /\ visit = -1 /\ t = 0 /\ count = 0 /\ wslot = 0 /\ act = Nothing
  /\ owed = [p \in Slots |-> 0]
  /\ mem = [place \in Places |-> Nothing]
  /\ flying = {}
  /\ sem = [s \in Sems |-> 0]

Next ==
  \/ Prologue \/ Prime \/ VisitHead \/ WeightWaits
  \/ ReuseGuard \/ RowsReady \/ NextTile \/ Gate \/ Down
  \/ VisitTail \/ Flush \/ Transport \/ Done
  \/ \E copy \in flying : Land(copy)

\* A copy that has started lands, and the core runs on when it need not wait.
Spec == Init /\ [][Next]_vars /\ WF_vars(Next)

-----------------------------------------------------------------------------
\* The product at hand is that of the current tile, and what is on its way
\* to a tile's place is that tile's result: a copy leaves a staging buffer,
\* or the contributions, before anything else is put there, and the weights
\* and rows of a product have arrived (kernel.py:1196-1219, 1715-1728).
RightTiles ==
  /\ pc = "down" => act = Tile
  /\ \A copy \in flying : \A to \in DOMAIN copy.moves :
       to[1] \in {"contrib", "cscl", "recv", "rscl"} => Content(copy.moves[to]) = to[2]

\* No two copies in flight have a target in common, and none writes what
\* another one reads: a slot is refilled when it has retired
\* (kernel.py:1283-1294, 1300-1305).
NoClash ==
  \A one, other \in flying : one # other =>
    /\ DOMAIN one.moves \cap DOMAIN other.moves = {}
    /\ \A to \in DOMAIN one.moves : one.moves[to] \notin DOMAIN other.moves

\* When the kernel is done every tile and its scales are delivered, no copy
\* is in flight and no semaphore has anything left for the next call
\* (kernel.py:1730-1738, 1819-1844).
NothingLeft ==
  pc = "done" =>
    /\ flying = {} /\ \A s \in Sems : sem[s] = 0
    /\ \A tile \in Tiles : mem[<<"recv", tile>>] = tile /\ mem[<<"rscl", tile>>] = tile

\* The core is never left waiting for a copy that nobody has started.
Terminates == <>(pc = "done")
=============================================================================

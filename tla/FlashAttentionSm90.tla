------------------------- MODULE FlashAttentionSm90 -------------------------
(***************************************************************************)
(* The synchronisation of one thread block (CTA) of the SM90 flash          *)
(* attention kernel (tokamax/_src/ops/attention/                            *)
(* pallas_mosaic_gpu_kernel_sm90.py:254-612).                               *)
(*                                                                          *)
(* Two compute warpgroups and two warps of a memory warpgroup share rings   *)
(* of Stages slots in shared memory.  The K/V warp has the TMA engine copy  *)
(* K, bias, mask and V blocks into the rings; a copy lands later and then   *)
(* counts on an mbarrier, which the compute warpgroups wait on by parity.   *)
(* The warpgroups free a slot, and take turns on the tensor cores, through  *)
(* named barriers, which count threads: bar.arrive only counts, bar.sync    *)
(* also waits.  wgmma instructions read their operands from the rings until *)
(* they are waited for.                                                     *)
(*                                                                          *)
(* A warpgroup is one actor; arithmetic on registers is left out.           *)
(***************************************************************************)
EXTENDS Integers, FiniteSets

CONSTANTS
  Stages,   \* config.num_stages
  Launches  \* the launches of the kernel, see Launch

WGs == {"wg0", "wg1"}
Actors == WGs \cup {"kv", "q"}
Other(w) == IF w = "wg0" THEN "wg1" ELSE "wg0"

\* get_kv_ranges: blocks lb..ub-1, and q_base \div block_kv of each warpgroup.
KvRange == [lb : Nat, ub : Nat, diagonal : [WGs -> Nat]]

\* What the host gives a launch: the (head, q tile) steps of the block, the KV
\* ranges they may have, config.persistent, is_causal, which splits the loop of
\* the compute warpgroups, and whether there are a bias and a mask.  A "row"
\* mask is filled on k_bias_produced, a "full" one has barriers of its own.
\* A kernel that is not persistent has its output and residuals in the memory of
\* Q and K (RefUnion): under[w] is what of q_smem and k_smem those of w cover.
Slots == 0..Stages - 1
Rows(w) == <<"q", w>>
Covered == {Rows(w) : w \in WGs} \cup {"k"} \X Slots

Launch == [tiles : Nat \ {0}, ranges : SUBSET KvRange, persistent : BOOLEAN,
           causal : BOOLEAN, bias : BOOLEAN, mask : {"none", "row", "full"},
           under : [WGs -> SUBSET Covered]]

ASSUME KernelAssumption ==
  /\ Stages \in Nat \ {0}
  /\ \A l \in Launches :
       /\ l \in Launch
       /\ IF l.persistent THEN \A w \in WGs : l.under[w] = {} ELSE l.tiles = 1

VARIABLES
  launch,    \* the launch
  range,     \* range[n]: the KV range of the tile n
  pc, tile, ki, prev,  \* of each actor: its place, its tile (local_index + 1),
                       \* its loop counter, and prev_iters
  arrivals,  \* arrivals[b][a]: times a has arrived at the named barrier b
  landed,    \* landed[m]: copies that have arrived at the mbarrier m
  waits,     \* waits[w][m]: phases of m that w has waited for
  smem,      \* smem[b]: what a buffer holds, <<tile, block>>
  copying,   \* copies on their way: pairs of a buffer and what it will hold
  overlaid   \* what of Q and K an output or residuals have been written over

work == <<launch, range>>
position == <<pc, tile, ki, prev>>
vars == <<work, position, arrivals, landed, waits, smem, copying, overlaid>>

Tiles == launch.tiles
Persistent == launch.persistent
Mask == launch.mask

-----------------------------------------------------------------------------
\* Shared memory and barriers.

Streams == {"k", "v"} \cup (IF launch.bias THEN {"bias"} ELSE {})
                      \cup (IF Mask # "none" THEN {"mask"} ELSE {})
Q == <<"q", 0>>
Buffers == {Q} \cup Streams \X Slots
Nothing == <<0, 0>>

\* k_bias_produced has one more arrival for the bias and for a row mask.
OnK == {"bias"} \cup (IF Mask = "row" THEN {"mask"} ELSE {})
Produces(kind) == IF kind \in OnK THEN "k" ELSE kind
MBarriers == {<<Produces(b[1]), b[2]>> : b \in Buffers}
NumArrivals(m) == Cardinality({b \in Buffers : <<Produces(b[1]), b[2]>> = m})
Phases(m) == landed[m] \div NumArrivals(m)

\* barrier_wait tests the parity of the phase.
Ready(w, m) == Phases(m) % 2 # waits[w][m] % 2
Waited(w, M) ==
  waits' = [waits EXCEPT ![w] = [m \in MBarriers |->
              IF m \in M THEN @[m] + 1 ELSE @[m]]]

\* The schedule barriers, q_consumed, and {k, v, mask}_consumed.
Turn(w) == <<"turn", IF w = "wg0" THEN 0 ELSE 1>>
Named == {Turn(w) : w \in WGs} \cup {Q} \cup (Streams \ {"bias"}) \X Slots
NumThreads(b) == CASE b[1] = "turn" -> 256 [] b = Q -> 160 [] OTHER -> 288

Completed(b) ==
  (128 * (arrivals[b]["wg0"] + arrivals[b]["wg1"])
     + 32 * (arrivals[b]["kv"] + arrivals[b]["q"])) \div NumThreads(b)
Passed(b, a) == Completed(b) >= arrivals[b][a]

ArriveAll(a, B) ==
  arrivals' = [b \in Named |-> IF b \in B THEN [arrivals[b] EXCEPT ![a] = @ + 1]
                               ELSE arrivals[b]]
Arrive(a, b) == ArriveAll(a, {b})

-----------------------------------------------------------------------------
\* The loops.

Iterations(r) == IF r.ub > r.lb THEN r.ub - r.lb ELSE 0

\* With causality the loop of w is split where masking starts, at
\* min(ub, q_base \div block_kv).
LoopStart(w, r) ==
  LET split == IF r.ub < r.diagonal[w] THEN r.ub ELSE r.diagonal[w] IN
  IF launch.causal /\ split < r.lb THEN split ELSE r.lb

FirstKi(a, r) == IF a \in WGs THEN LoopStart(a, r) ELSE r.lb

\* lax.rem takes the sign of the dividend.
Rem(x, n) == IF x >= 0 THEN x % n ELSE -((-x) % n)

TileRange(a) == range[tile[a]]
Slot(a, k) == Rem(prev[a] + k - TileRange(a).lb, Stages)
Here(a, kind) == <<kind, Slot(a, ki[a])>>
Looping(a) == pc[a] = "loop" /\ ki[a] < TileRange(a).ub
Looped(a) == pc[a] = "loop" /\ ki[a] >= TileRange(a).ub

Goto(a, where) == pc' = [pc EXCEPT ![a] = where]
Step(a, from, to) ==
  /\ pc[a] = from /\ Goto(a, to)
  /\ UNCHANGED <<tile, ki, prev>>

\* The grid loop goes on with the next tile.
NextTile(a) ==
  /\ prev' = [prev EXCEPT ![a] = @ + Iterations(TileRange(a))]
  /\ tile' = [tile EXCEPT ![a] = @ + 1]
  /\ IF tile[a] = Tiles
       THEN Goto(a, "done") /\ UNCHANGED ki
       ELSE /\ Goto(a, IF a \in WGs THEN "await" ELSE "loop")
            /\ ki' = [ki EXCEPT ![a] = FirstKi(a, range[tile[a] + 1])]

Init ==
  /\ launch \in Launches /\ range \in [1..Tiles -> launch.ranges]
  /\ pc = [a \in Actors |-> CASE a \in WGs -> "prologue"
                              [] a = "q" /\ ~Persistent -> "done"
                              [] OTHER -> "loop"]
  /\ tile = [a \in Actors |-> 1]
  /\ ki = [a \in Actors |-> FirstKi(a, range[1])]
  /\ prev = [a \in Actors |-> 0]
  /\ arrivals = [b \in Named |-> [a \in Actors |-> 0]]
  /\ landed = [m \in MBarriers |-> 0]
  /\ waits = [w \in WGs |-> [m \in MBarriers |-> 0]]
  /\ smem = [b \in Buffers |-> Nothing]
  /\ copying = {}
  /\ overlaid = {}

-----------------------------------------------------------------------------
\* TMA: a copy lands, and arrives at its mbarrier.

Land(c) ==
  /\ c \in copying
  /\ copying' = copying \ {c}
  /\ smem' = [smem EXCEPT ![c[1]] = c[2]]
  /\ landed' = [landed EXCEPT ![<<Produces(c[1][1]), c[1][2]>>] = @ + 1]
  /\ UNCHANGED <<work, overlaid, position, arrivals, waits>>

Copy(C) == copying' = copying \cup C

\* The K/V warp: for each block wait until the slot is free, then copy.

SyncK ==
  /\ Looping("kv") /\ Step("kv", "loop", "load_k")
  /\ Arrive("kv", Here("kv", "k"))
  /\ UNCHANGED <<work, overlaid, landed, waits, smem, copying>>

Block(kinds) == {<<Here("kv", kind), <<tile["kv"], ki["kv"]>>>> : kind \in kinds}

LoadK ==
  /\ Step("kv", "load_k", IF Mask = "none" THEN "sync_v" ELSE "sync_mask")
  /\ Passed(Here("kv", "k"), "kv")
  /\ Copy(Block({"k", "bias"} \cap Streams))
  /\ UNCHANGED <<work, overlaid, arrivals, landed, waits, smem>>

SyncMask ==
  /\ Step("kv", "sync_mask", "load_mask")
  /\ Arrive("kv", Here("kv", "mask"))
  /\ UNCHANGED <<work, overlaid, landed, waits, smem, copying>>

LoadMask ==
  /\ Step("kv", "load_mask", "sync_v")
  /\ Passed(Here("kv", "mask"), "kv")
  /\ Copy(Block({"mask"}))
  /\ UNCHANGED <<work, overlaid, arrivals, landed, waits, smem>>

SyncV ==
  /\ Step("kv", "sync_v", "load_v")
  /\ Arrive("kv", Here("kv", "v"))
  /\ UNCHANGED <<work, overlaid, landed, waits, smem, copying>>

LoadV ==
  /\ pc["kv"] = "load_v" /\ Passed(Here("kv", "v"), "kv")
  /\ Copy(Block({"v"}))
  /\ Goto("kv", "loop")
  /\ ki' = [ki EXCEPT !["kv"] = @ + 1]
  /\ UNCHANGED <<work, overlaid, tile, prev, arrivals, landed, waits, smem>>

KvTileDone ==
  /\ Looped("kv") /\ NextTile("kv")
  /\ UNCHANGED <<work, overlaid, arrivals, landed, waits, smem, copying>>

\* The Q warp loads every tile but the first, once q_smem is free.

SkipQ ==
  /\ pc["q"] = "loop" /\ tile["q"] = 1 /\ NextTile("q")
  /\ UNCHANGED <<work, overlaid, arrivals, landed, waits, smem, copying>>

SyncQ ==
  /\ tile["q"] > 1 /\ Step("q", "loop", "load_q")
  /\ Arrive("q", Q)
  /\ UNCHANGED <<work, overlaid, landed, waits, smem, copying>>

LoadQ ==
  /\ pc["q"] = "load_q" /\ Passed(Q, "q")
  /\ Copy({<<Q, <<tile["q"], 0>>>>})
  /\ NextTile("q")
  /\ UNCHANGED <<work, overlaid, arrivals, landed, waits, smem>>

-----------------------------------------------------------------------------
\* A compute warpgroup.

\* Mutant: the V slots are not handed over.
Prologue_KeepsV(w) ==
  /\ Step(w, "prologue", "await")
  /\ ArriveAll(w, (Streams \ {"bias", "v"}) \X Slots)
  /\ IF w = "wg0" THEN Copy({<<Q, <<1, 0>>>>}) ELSE UNCHANGED copying
  /\ UNCHANGED <<work, overlaid, landed, waits, smem>>

\* local_index = 0: wg0 loads the first Q, and all slots are free.
Prologue(w) ==
  /\ Step(w, "prologue", "await")
  /\ ArriveAll(w, (Streams \ {"bias"}) \X Slots)
  /\ IF w = "wg0" THEN Copy({<<Q, <<1, 0>>>>}) ELSE UNCHANGED copying
  /\ UNCHANGED <<work, overlaid, landed, waits, smem>>

\* Mutant: Q is not waited for when there is no block.
Await_NothingForNoBlocks(w) ==
  LET r == TileRange(w)
      M == IF r.ub > r.lb THEN {Q, <<"k", Rem(prev[w], Stages)>>} ELSE {} IN
  /\ pc[w] = "await" /\ \A m \in M : Ready(w, m)
  /\ Waited(w, M)
  /\ IF w = "wg1"
       THEN Step(w, "await", "first_turn") /\ Arrive(w, Turn(w))
       ELSE Step(w, "await", "loop") /\ UNCHANGED arrivals
  /\ UNCHANGED <<work, overlaid, landed, smem, copying>>

\* Mutant: wg1 does not wait for its first turn.
Await_NoFirstTurn(w) ==
  LET r == TileRange(w)
      M == {Q} \cup IF r.ub > r.lb THEN {<<"k", Rem(prev[w], Stages)>>} ELSE {} IN
  /\ pc[w] = "await" /\ \A m \in M : Ready(w, m)
  /\ Waited(w, M)
  /\ Step(w, "await", "loop")
  /\ UNCHANGED <<work, overlaid, arrivals, landed, smem, copying>>

\* Wait for Q and, if there is one, for the first K block, in either order;
\* wg1 then syncs with wg0 on its schedule barrier.
Await(w) ==
  LET r == TileRange(w)
      M == {Q} \cup IF r.ub > r.lb THEN {<<"k", Rem(prev[w], Stages)>>} ELSE {} IN
  /\ pc[w] = "await" /\ \A m \in M : Ready(w, m)
  /\ Waited(w, M)
  /\ IF w = "wg1"
       THEN Step(w, "await", "first_turn") /\ Arrive(w, Turn(w))
       ELSE Step(w, "await", "loop") /\ UNCHANGED arrivals
  /\ UNCHANGED <<work, overlaid, landed, smem, copying>>

FirstTurn(w) ==
  /\ Step(w, "first_turn", "loop")
  /\ Passed(Turn(w), w)
  /\ UNCHANGED <<work, overlaid, arrivals, landed, waits, smem, copying>>

\* The wgmma of Q and K is issued, ...
IssueQK(w) ==
  /\ Looping(w) /\ Step(w, "loop", "qk_issued")
  /\ UNCHANGED <<work, overlaid, arrivals, landed, waits, smem, copying>>

\* Mutant: the K slot is freed together with the turn.
PassTurn_FreesK(w) ==
  /\ Step(w, "qk_issued", "qk_passed")
  /\ ArriveAll(w, {Turn(Other(w)), Here(w, "k")})
  /\ UNCHANGED <<work, overlaid, landed, waits, smem, copying>>

\* ... the other warpgroup gets its turn while it runs, ...
PassTurn(w) ==
  /\ Step(w, "qk_issued", "qk_passed")
  /\ Arrive(w, Turn(Other(w)))
  /\ UNCHANGED <<work, overlaid, landed, waits, smem, copying>>

\* ... and once it is done and the bias is read the K slot is free.
FinishQK(w) ==
  /\ Step(w, "qk_passed", IF Mask = "none" THEN "softmax" ELSE "mask")
  /\ Arrive(w, Here(w, "k"))
  /\ UNCHANGED <<work, overlaid, landed, waits, smem, copying>>

ReadMask(w) ==
  /\ Step(w, "mask", "mask_read")
  /\ IF Mask = "full"
       THEN Ready(w, Here(w, "mask")) /\ Waited(w, {Here(w, "mask")})
       ELSE UNCHANGED waits
  /\ UNCHANGED <<work, overlaid, arrivals, landed, smem, copying>>

FreeMask(w) ==
  /\ Step(w, "mask_read", "softmax")
  /\ Arrive(w, Here(w, "mask"))
  /\ UNCHANGED <<work, overlaid, landed, waits, smem, copying>>

\* Wait for V, then for the turn.
AwaitV(w) ==
  /\ Step(w, "softmax", "turn")
  /\ Ready(w, Here(w, "v")) /\ Waited(w, {Here(w, "v")})
  /\ Arrive(w, Turn(w))
  /\ UNCHANGED <<work, overlaid, landed, smem, copying>>

IssuePV(w) ==
  /\ Step(w, "turn", "pv")
  /\ Passed(Turn(w), w)
  /\ UNCHANGED <<work, overlaid, arrivals, landed, waits, smem, copying>>

\* Mutant: the next K block is not waited for.
FinishPV_NoWait(w) ==
  /\ pc[w] = "pv" /\ Goto(w, "loop")
  /\ Arrive(w, Here(w, "v"))
  /\ ki' = [ki EXCEPT ![w] = @ + 1]
  /\ UNCHANGED <<work, overlaid, tile, prev, landed, waits, smem, copying>>

\* The next K block is waited for while the wgmma of P and V runs; then the V
\* slot is free.
FinishPV(w) ==
  LET next == <<"k", Slot(w, ki[w] + 1)>> IN
  /\ pc[w] = "pv" /\ Goto(w, "loop")
  /\ IF ki[w] + 1 < TileRange(w).ub
       THEN Ready(w, next) /\ Waited(w, {next})
       ELSE UNCHANGED waits
  /\ Arrive(w, Here(w, "v"))
  /\ ki' = [ki EXCEPT ![w] = @ + 1]
  /\ UNCHANGED <<work, overlaid, tile, prev, landed, smem, copying>>

\* Mutant: wg1 arrives as well.
Finish_Both(w) ==
  /\ Looped(w)
  /\ Arrive(w, Turn("wg1"))
  /\ Step(w, "loop", IF Persistent /\ w = "wg0" THEN "free_q" ELSE "output")
  /\ UNCHANGED <<work, overlaid, landed, waits, smem, copying>>

\* After its last block wg0 gives wg1 its last turn, and in a persistent kernel
\* waits for wg1 to come to it ...
Finish(w) ==
  /\ Looped(w)
  /\ IF w = "wg0" THEN Arrive(w, Turn("wg1")) ELSE UNCHANGED arrivals
  /\ Step(w, "loop", IF Persistent /\ w = "wg0" THEN "free_q" ELSE "output")
  /\ UNCHANGED <<work, overlaid, landed, waits, smem, copying>>

\* ... before it frees q_smem.
FreeQ(w) ==
  /\ Step(w, "free_q", "output")
  /\ Passed(Turn("wg1"), w)
  /\ Arrive(w, Q)
  /\ UNCHANGED <<work, overlaid, landed, waits, smem, copying>>

\* The residuals and the output have been written to shared memory and copied
\* out of it.
Output(w) ==
  /\ pc[w] = "output" /\ NextTile(w)
  /\ overlaid' = overlaid \cup launch.under[w]
  /\ UNCHANGED <<work, arrivals, landed, waits, smem, copying>>

-----------------------------------------------------------------------------
KvWarp == SyncK \/ LoadK \/ SyncMask \/ LoadMask \/ SyncV \/ LoadV \/ KvTileDone
QWarp == SkipQ \/ SyncQ \/ LoadQ
Compute(w) ==
  \/ Prologue(w) \/ Await(w) \/ FirstTurn(w)
  \/ IssueQK(w) \/ PassTurn(w) \/ FinishQK(w) \/ ReadMask(w) \/ FreeMask(w)
  \/ AwaitV(w) \/ IssuePV(w) \/ FinishPV(w)
  \/ Finish(w) \/ FreeQ(w) \/ Output(w)
Tma == \E c \in copying : Land(c)

AllDone == \A a \in Actors : pc[a] = "done"
Done == AllDone /\ UNCHANGED vars

Next == KvWarp \/ QWarp \/ (\E w \in WGs : Compute(w)) \/ Tma \/ Done

\* Warps of a block run independently, and every copy lands.
Fairness ==
  /\ WF_vars(KvWarp) /\ WF_vars(QWarp) /\ WF_vars(Tma)
  /\ \A w \in WGs : WF_vars(Compute(w))

Spec == Init /\ [][Next]_vars /\ Fairness

-----------------------------------------------------------------------------
\* Properties.

\* The buffers an instruction of w is reading.
Reads(w) ==
  CASE pc[w] \in {"qk_issued", "qk_passed"} ->
         {Q} \cup {Here(w, kind) : kind \in {"k", "bias"} \cap Streams}
    [] pc[w] = "mask_read" -> {Here(w, "mask")}
    [] pc[w] = "pv" -> {Here(w, "v")}
    [] OTHER -> {}

Wanted(w, b) == IF b = Q THEN <<tile[w], 0>> ELSE <<tile[w], ki[w]>>

\* While a warpgroup reads a buffer it holds the block of its own iteration and
\* no copy is on its way into it: no slot is overwritten too early or read too
\* early, across tiles, empty ranges and wrap-arounds of the ring.
StableReads ==
  \A w \in WGs : \A b \in Reads(w) :
    /\ smem[b] = Wanted(w, b)
    /\ \A c \in copying : c[1] # b

\* Two copies are never on their way into one buffer, and every phase of a
\* named barrier consists of one arrival of each of its parties, so that the
\* thread counts stand for the right threads (pallas_..._sm90.py:310-325).
Parties(b) == CASE b[1] = "turn" -> WGs [] b = Q -> {"wg0", "q"}
                [] OTHER -> WGs \cup {"kv"}

FullPhases ==
  /\ \A c, d \in copying : c[1] = d[1] => c = d
  /\ \A b \in Named, a \in Actors :
       IF a \in Parties(b)
         THEN arrivals[b][a] - Completed(b) \in {0, 1}
         ELSE arrivals[b][a] = 0

\* No warpgroup falls a whole phase behind an mbarrier, where the parity it
\* waits on would read as not completed.
NoPhaseMissed ==
  \A w \in WGs, m \in MBarriers : Phases(m) - waits[w][m] \in {0, 1}

\* The tensor core work a warpgroup has issued.
InIteration == {"qk_issued", "qk_passed", "mask", "mask_read", "softmax",
                "turn", "pv"}
Before(w) == IF pc[w] = "done" \/ ki[w] < TileRange(w).lb THEN prev[w]
             ELSE prev[w] + ki[w] - TileRange(w).lb
IssuedQK(w) == Before(w) + (IF pc[w] \in InIteration THEN 1 ELSE 0)
IssuedPV(w) == Before(w) + (IF pc[w] = "pv" THEN 1 ELSE 0)

\* The warpgroups alternate: wg0 is first with every QK, and it starts a PV
\* only after wg1 has started the QK of the same block, so that one computes
\* its softmax while the other has the tensor cores.
TakeTurns ==
  /\ IssuedQK("wg0") - IssuedQK("wg1") \in {0, 1}
  /\ IssuedPV("wg0") =< IssuedQK("wg1")
  /\ pc["wg1"] = "pv" =>
       \/ IssuedPV("wg1") < IssuedQK("wg0")
       \/ pc["wg0"] \in {"free_q", "output"} \/ tile["wg0"] > tile["wg1"]

\* The parts of shared memory w is reading, and those a copy will fill: each
\* warpgroup reads its own rows of Q.
Held(w) == {IF b = Q THEN Rows(w) ELSE b : b \in Reads(w)}
Filled(c) == IF c[1] = Q THEN {Rows(w) : w \in WGs} ELSE {c[1]}

\* Where the output and the residuals share their memory with Q and K, they are
\* written when nothing is on its way into it any more and no product reads it:
\* the other warpgroup may be at work, on what they do not cover
\* (pallas_..._sm90.py:99-105).
OutputAlone ==
  /\ \A w \in WGs : Held(w) \cap overlaid = {}
  /\ \A c \in copying : Filled(c) \cap overlaid = {}

\* The block ends.
Terminates == <>AllDone
=============================================================================

---------------------------- MODULE MoeExchange ----------------------------
(***************************************************************************)
(* The all-to-all of the fused expert-parallel MoE kernel: the shards run   *)
(* at their own pace and write into each other's memory by remote DMA       *)
(* (tokamax/_src/ops/experimental/fused_moe/kernel.py:474-489, 1744-1847).  *)
(*                                                                          *)
(* A shard gathers the routing, enters the kernel, meets all others in a    *)
(* barrier, computes its experts, pushes each run of rows, and their        *)
(* scales, to the shard that owns the tokens, waits for its copies and for  *)
(* what others send, meets them again, leaves and combines.  Semaphores     *)
(* count rows.  A copy first reads its source, which counts at the sender,  *)
(* and lands later, which counts at the receiver; signals of the barrier    *)
(* take their time as well.                                                 *)
(*                                                                          *)
(* The rows of a run share one cell, which holds the round they were        *)
(* computed in; MoeCall shows where the rows of a run lie.                  *)
(***************************************************************************)
EXTENDS MoeRouting

CONSTANTS
  Rounds,    \* the calls of the layer in a row
  CallLists  \* the routings of the calls, to choose from

ASSUME RoundsAssumption ==
  Rounds \in Nat \ {0} /\ CallLists \subseteq [1..Rounds -> Routings]

VARIABLES
  calls,     \* the kernel's operands in every round
  pc, round, visit,  \* of each shard: its place, its round, its next visit
  signalled, \* signalled[b][s]: signals on their way to s for the phase b
  sem,       \* sem[x][s]: the semaphore x of shard s
  contrib,   \* contrib[e]: the round of the rows in e's contributions
  recv,      \* recv[what][d][e]: the round that the run of e to d is from
  queued,    \* copies whose source is yet to be read
  sent       \* copies that are yet to land

vars == <<calls, pc, round, visit, signalled, sem, contrib, recv, queued, sent>>

Phases == {"barrier", "second"}
Whats == {"rows", "scales"}
RemoteSems == {"send", "recv", "send_scl", "recv_scl"}
Sems == Phases \cup RemoteSems \cup {"mehop", "mehop_scl"}

\* Mutant: the scales of other shards are not waited for.
Owed_NoScales(t, s) ==
  LET count == Counts(t, s) IN
  [send |-> count.send, recv |-> count.recv, send_scl |-> count.send_mirror,
   recv_scl |-> 0, mehop |-> count.self, mehop_scl |-> count.self_mirror]

\* Mutant: the padding of the rows to send is waited for.
Owed_Padded(t, s) ==
  LET count == Counts(t, s) IN
  [send |-> SumRuns(t.aligned, ExpertsOf(s), Shards \ {s}), recv |-> count.recv,
   send_scl |-> count.send_mirror, recv_scl |-> count.recv_mirror,
   mehop |-> count.self, mehop_scl |-> count.self_mirror]

\* What drain_transport waits for.
Owed(t, s) ==
  LET count == Counts(t, s) IN
  [send |-> count.send, recv |-> count.recv, send_scl |-> count.send_mirror,
   recv_scl |-> count.recv_mirror, mehop |-> count.self, mehop_scl |-> count.self_mirror]

\* What the kernel gets for one call.
Operands(r) ==
  LET t == RunTables(CountRows(r)) IN
  [runs |-> t,
   visit |-> [s \in Shards |-> [i \in 0..NumVisits(t, s) - 1 |-> Visit(t, s, i)]],
   owed |-> [s \in Shards |-> Owed(t, s)]]

Table(s) == calls[round[s]].runs
Visits(s) == calls[round[s]].visit[s]
Awaited(s) == calls[round[s]].owed[s]
VisitsLeft(s) == visit[s] \in DOMAIN Visits(s)

Goto(s, where) == pc' = [pc EXCEPT ![s] = where]

-----------------------------------------------------------------------------
\* _all_pairs_barrier.  A phase signals every shard, itself too, and waits
\* for one signal of each.

\* Mutant: the signal to oneself is forgotten when waiting.
NumSignals_Others == EP - 1

NumSignals == EP

SignalOthers(s, b) ==
  signalled' = [signalled EXCEPT ![b] = [d \in Shards |-> IF d = s THEN @[d] ELSE @[d] + 1]]

\* The layer's all-gather of the routing and the activations.
Gather(s) ==
  /\ pc[s] = "layer"
  /\ Goto(s, "gathering")
  /\ UNCHANGED <<calls, round, visit, signalled, sem, contrib, recv, queued, sent>>

Gathered(s) ==
  \A d \in Shards : round[d] > round[s] \/ (round[d] = round[s] /\ pc[d] # "layer")

\* Entering the kernel: the signals of the first phase.
Enter(s) ==
  /\ pc[s] = "gathering" /\ Gathered(s) /\ Goto(s, "entry1")
  /\ SignalOthers(s, "barrier")
  /\ sem' = [sem EXCEPT !["barrier"][s] = @ + 1]
  /\ UNCHANGED <<calls, round, visit, contrib, recv, queued, sent>>

PassFirst(s) ==
  /\ \/ pc[s] = "entry1" /\ Goto(s, "entry2")
     \/ pc[s] = "exit1" /\ Goto(s, "exit2")
  /\ sem["barrier"][s] >= NumSignals
  /\ SignalOthers(s, "second")
  /\ sem' = [sem EXCEPT !["barrier"][s] = @ - NumSignals, !["second"][s] = @ + 1]
  /\ UNCHANGED <<calls, round, visit, contrib, recv, queued, sent>>

\* Mutant: the second phase does not wait.
PassSecond_NoWait(s) ==
  /\ \/ pc[s] = "entry2" /\ Goto(s, "inside")
     \/ pc[s] = "exit2" /\ Goto(s, "out")
  /\ UNCHANGED <<calls, round, visit, signalled, sem, contrib, recv, queued, sent>>

PassSecond(s) ==
  /\ \/ pc[s] = "entry2" /\ Goto(s, "inside")
     \/ pc[s] = "exit2" /\ Goto(s, "out")
  /\ sem["second"][s] >= NumSignals
  /\ sem' = [sem EXCEPT !["second"][s] = @ - NumSignals]
  /\ UNCHANGED <<calls, round, visit, signalled, contrib, recv, queued, sent>>

Signal(b, d) ==
  /\ signalled[b][d] > 0
  /\ signalled' = [signalled EXCEPT ![b][d] = @ - 1]
  /\ sem' = [sem EXCEPT ![b][d] = @ + 1]
  /\ UNCHANGED <<calls, pc, round, visit, contrib, recv, queued, sent>>

-----------------------------------------------------------------------------
\* visit_step: compute the expert, then push_expert its runs.

\* Mutant: runs to other shards move at their padded length.
Amount_Padded(t, e, d, what) ==
  IF what = "scales" THEN t.run_tiles[e][d] ELSE t.aligned[e][d]

\* The copies of a visit.  The shard's own run moves at its padded length.
Amount(t, e, d, what) ==
  IF what = "scales" THEN t.run_tiles[e][d]
  ELSE IF ShardOf(e) = d THEN t.aligned[e][d] ELSE t.run_rows[e][d]

PushExpert(s, e) ==
  {[e |-> e, to |-> d, what |-> w, amount |-> Amount(Table(s), e, d, w), round |-> round[s]]
     : d \in {d \in Shards : Table(s).aligned[e][d] > 0}, w \in Whats}

VisitStep(s) ==
  /\ pc[s] = "inside" /\ VisitsLeft(s)
  /\ LET e == Visits(s)[visit[s]] IN
     /\ contrib' = [contrib EXCEPT ![e] = round[s]]
     /\ queued' = queued \cup PushExpert(s, e)
  /\ visit' = [visit EXCEPT ![s] = @ + 1]
  /\ UNCHANGED <<calls, pc, round, signalled, sem, recv, sent>>

\* A copy within the shard counts on a semaphore of its own.
Own(c) == ShardOf(c.e) = c.to
Receipt(c) ==
  IF c.what = "rows" THEN (IF Own(c) THEN "mehop" ELSE "recv")
  ELSE (IF Own(c) THEN "mehop_scl" ELSE "recv_scl")

\* A remote copy reads its source, and the sender may go on.
Read(c) ==
  /\ c \in queued /\ ~Own(c)
  /\ queued' = queued \ {c}
  /\ sent' = sent \cup {[c EXCEPT !.round = contrib[c.e]]}
  /\ sem' = [sem EXCEPT ![IF c.what = "rows" THEN "send" ELSE "send_scl"][ShardOf(c.e)]
                          = @ + c.amount]
  /\ UNCHANGED <<calls, pc, round, visit, signalled, contrib, recv>>

Lands(c, from) ==
  /\ recv' = [recv EXCEPT ![c.what][c.to][c.e] = from]
  /\ sem' = [sem EXCEPT ![Receipt(c)][c.to] = @ + c.amount]
  /\ UNCHANGED <<calls, pc, round, visit, signalled, contrib>>

Hop(c) ==
  /\ c \in queued /\ Own(c)
  /\ queued' = queued \ {c} /\ UNCHANGED sent
  /\ Lands(c, contrib[c.e])

Land(c) ==
  /\ c \in sent
  /\ sent' = sent \ {c} /\ UNCHANGED queued
  /\ Lands(c, c.round)

-----------------------------------------------------------------------------
\* drain_transport: six waits in a row.

\* Mutant: there is no barrier at the exit.
DrainTransport_NoExit(s) ==
  /\ pc[s] = "inside" /\ ~VisitsLeft(s)
  /\ \A x \in Sems \ Phases : sem[x][s] >= Awaited(s)[x]
  /\ sem' = [x \in Sems |->
       IF x \in Phases THEN sem[x] ELSE [sem[x] EXCEPT ![s] = @ - Awaited(s)[x]]]
  /\ Goto(s, "out")
  /\ UNCHANGED <<calls, round, visit, signalled, contrib, recv, queued, sent>>

\* The waits, and the signals of the barrier at the exit.
DrainTransport(s) ==
  /\ pc[s] = "inside" /\ ~VisitsLeft(s)
  /\ \A x \in Sems \ Phases : sem[x][s] >= Awaited(s)[x]
  /\ sem' = [x \in Sems |->
       [sem[x] EXCEPT ![s] = CASE x = "barrier" -> @ + 1
                               [] x = "second" -> @
                               [] OTHER -> @ - Awaited(s)[x]]]
  /\ SignalOthers(s, "barrier")
  /\ Goto(s, "exit1")
  /\ UNCHANGED <<calls, round, visit, contrib, recv, queued, sent>>

\* _combine_arrivals, and the next call of the layer.
Combine(s) ==
  /\ pc[s] = "out"
  /\ Goto(s, IF round[s] < Rounds THEN "layer" ELSE "done")
  /\ round' = [round EXCEPT ![s] = IF @ < Rounds THEN @ + 1 ELSE @]
  /\ visit' = [visit EXCEPT ![s] = 0]
  /\ UNCHANGED <<calls, signalled, sem, contrib, recv, queued, sent>>

-----------------------------------------------------------------------------
Init ==
  /\ \E l \in CallLists : calls = [i \in 1..Rounds |-> Operands(l[i])]
  /\ pc = [s \in Shards |-> "layer"]
  /\ round = [s \in Shards |-> 1]
  /\ visit = [s \in Shards |-> 0]
  /\ signalled = [b \in Phases |-> [s \in Shards |-> 0]]
  /\ sem = [x \in Sems |-> [s \in Shards |-> 0]]
  /\ contrib = [e \in Experts |-> 0]
  /\ recv = [w \in Whats |-> [d \in Shards |-> [e \in Experts |-> 0]]]
  /\ queued = {} /\ sent = {}

Step(s) ==
  \/ Gather(s) \/ Enter(s) \/ PassFirst(s) \/ PassSecond(s)
  \/ VisitStep(s) \/ DrainTransport(s) \/ Combine(s)

Deliver ==
  \/ \E b \in Phases, d \in Shards : Signal(b, d)
  \/ \E c \in queued : Read(c) \/ Hop(c)
  \/ \E c \in sent : Land(c)

AllDone == (\A s \in Shards : pc[s] = "done") /\ UNCHANGED vars

Next == (\E s \in Shards : Step(s)) \/ Deliver \/ AllDone

\* Something that can happen happens: no step can be repeated for ever.
Spec == Init /\ [][Next]_vars /\ WF_vars(Next)

-----------------------------------------------------------------------------
\* Where a shard may be.
Places == {"layer", "gathering", "entry1", "entry2", "inside",
           "exit1", "exit2", "out", "done"}

\* Bounds checks are off and the arrival buffer belongs to one call: a copy is
\* under way only once its receiver is in the same call of the kernel and has
\* met all the others at its entry, the first phase of the barrier there, and
\* only until it has drained.  The receiver may still wait for the second
\* phase.  No source is read after its shard has drained.
LandsInside ==
  \A c \in queued \cup sent :
    /\ round[c.to] = c.round
    /\ pc[c.to] \in {"entry2", "inside"}
    /\ pc[ShardOf(c.e)] = "inside" \/ c \in sent

\* What a shard combines is this round's: every run of its tokens has arrived,
\* with its scales, and the rows are those its expert computed in this round.
RowsThisRound ==
  \A s \in Shards : pc[s] = "out" =>
    \A e \in Experts, w \in Whats :
      Table(s).run_rows[e][s] > 0 => recv[w][s][e] = round[s]

\* A shard leaves nothing behind: when it is out of the kernel its own
\* semaphores are spent, and no copy from or to it is under way.
NothingLeft ==
  \A s \in Shards : pc[s] \in {"out", "layer", "gathering", "done"} =>
    /\ \A x \in Sems \ {"barrier"} : sem[x][s] = 0
    /\ \A c \in queued \cup sent : ShardOf(c.e) # s /\ c.to # s

\* The first phase counts on the semaphore of the collective id, which other
\* kernels use as well, hence the second: once a shard is out, all have done
\* with that semaphore and no signal for it is on its way.
BarrierFree ==
  (\E s \in Shards : pc[s] = "out") =>
    \A d \in Shards : sem["barrier"][d] = 0 /\ signalled["barrier"][d] = 0

\* All rounds end on all shards.
Terminates == <>(\A s \in Shards : pc[s] = "done")

\* The exchange implements the all-to-all.  A shard has given a round when it
\* has drained, so that all it pushed has been read and all it is due has
\* arrived, and has taken it when it leaves.
Given(s) ==
  IF pc[s] \in {"exit1", "exit2", "out", "done"}
  THEN round[s] ELSE round[s] - 1
Taken(s) == IF pc[s] \in {"out", "done"} THEN round[s] ELSE round[s] - 1

Abstract == INSTANCE AllToAll WITH
  Members <- Shards, Rounds <- Rounds,
  given <- [s \in Shards |-> Given(s)], taken <- [s \in Shards |-> Taken(s)]

ImplementsAllToAll == Abstract!Spec
=============================================================================

---------------------- MODULE FlashAttentionSm90Proofs ----------------------
(***************************************************************************)
(* Proofs of the safety invariants of FlashAttentionSm90, for every number  *)
(* of stages and every launch that SplitInRange allows.                     *)
(*                                                                         *)
(* The blocks of all tiles are numbered in the order the kernel takes them; *)
(* the block with the number n uses the slot n % Stages.  The invariant     *)
(* counts, from the place an actor is at, how many blocks it has asked for, *)
(* loaded, waited for and freed, and says that the barriers count the same. *)
(***************************************************************************)
EXTENDS FlashAttentionSm90, FiniteSums, FiniteSetTheorems, TLAPS

\* With causality the compute warpgroups start at the first block that is
\* loaded, or have no block at all.  The tiles that start before it are those
\* of the run sm90_left_padded, where the kernel does not end.
SplitInRange ==
  \A l \in Launches : l.causal =>
    \A r \in l.ranges, w \in WGs :
      r.diagonal[w] >= r.lb \/ r.diagonal[w] >= r.ub

\* What wg0 writes while wg1 may still multiply Q and K covers its own rows of Q
\* at most.  With residuals it may cover more: see MCSm90Residuals.cfg.
OverlayOwn == \A l \in Launches : l.under["wg0"] \subseteq {Rows("wg0")}

-----------------------------------------------------------------------------
\* The number of blocks before the tile n, and the number of the block k of it.
PriorTo(T, r) ==
  LET P[n \in 1..T + 1] == IF n = 1 THEN 0 ELSE P[n - 1] + Iterations(r[n - 1])
  IN P
Prior == PriorTo(Tiles, range)
Number(t, k) == Prior[t] + k - range[t].lb

\* How many of the first n blocks use the slot s.
Uses(n, s) == (n + Stages - 1 - s) \div Stages

In(a, places) == IF pc[a] \in places THEN 1 ELSE 0

\* The blocks whose slot the K/V warp has asked for, and those it has loaded.
Synced(kind) == Before("kv") + In("kv",
  CASE kind = "v" -> {"load_v"}
    [] kind = "mask" -> {"load_mask", "sync_v", "load_v"}
    [] OTHER -> {"load_k", "sync_mask", "load_mask", "sync_v", "load_v"})
Loaded(kind) == Before("kv") + In("kv",
  CASE kind = "v" -> {}
    [] kind = "mask" -> {"sync_v", "load_v"}
    [] OTHER -> {"sync_mask", "load_mask", "sync_v", "load_v"})

\* The blocks w has freed, and those it has waited for on the mbarriers of p.
Freed(w, kind) == Before(w) + In(w,
  CASE kind = "v" -> {}
    [] kind = "mask" -> {"softmax", "turn", "pv"}
    [] OTHER -> {"mask", "mask_read", "softmax", "turn", "pv"})
FirstHalf == {"first_turn", "loop", "qk_issued", "qk_passed", "mask",
              "mask_read", "softmax", "turn", "pv"}
Got(w, p) ==
  CASE p = "v" -> Before(w) + In(w, {"turn", "pv"})
    [] p = "mask" -> Before(w) + In(w, {"mask_read", "softmax", "turn", "pv"})
    [] OTHER -> IF pc[w] \in FirstHalf /\ ki[w] < TileRange(w).ub
                  THEN Before(w) + 1 ELSE Before(w)

\* Q: the tiles loaded, waited for, freed and asked for.
LoadedQ == IF tile["q"] > 1 THEN tile["q"] - 2 ELSE 0
IssuedQ == LoadedQ + (IF pc["wg0"] = "prologue" THEN 0 ELSE 1)
GotQ(w) == tile[w] - In(w, {"prologue", "await", "done"})
FreedQ == IF Persistent THEN tile["wg0"] - 1 + In("wg0", {"output"}) ELSE 0
SyncedQ == LoadedQ + In("q", {"load_q"})

\* The arrivals at the schedule barriers, and the turns they were passed for.
PastQK == {"qk_passed", "mask", "mask_read", "softmax", "turn", "pv"}
Gave(w) == Before(w) + In(w, PastQK)
               + (IF w = "wg0" THEN tile[w] - 1 + In(w, {"free_q", "output"})
                               ELSE 0)
Asked(w) == Before(w) + In(w, {"turn", "pv"})
               + (IF w = "wg1"
                    THEN tile[w] - In(w, {"prologue", "await", "done"})
                    ELSE 0)
Took(w) == Asked(w) - In(w, {"turn", "first_turn"})

-----------------------------------------------------------------------------
\* The invariant.

Kinds == {"k", "v", "bias", "mask"}
Ring == Streams \ {"bias"}

PCs(a) ==
  CASE a = "kv" -> {"loop", "load_k", "sync_mask", "load_mask", "sync_v",
                    "load_v", "done"}
    [] a = "q" -> {"loop", "load_q", "done"}
    [] a = "wg0" -> {"prologue", "await", "loop", "free_q", "output", "done"}
                      \cup InIteration
    [] OTHER -> {"prologue", "await", "first_turn", "loop", "output", "done"}
                      \cup InIteration

WorkTypes ==
  /\ launch \in Launches
  /\ range \in [1..Tiles -> launch.ranges]

PositionTypes ==
  /\ DOMAIN pc = Actors /\ \A a \in Actors : pc[a] \in PCs(a)
  /\ tile \in [Actors -> 1..Tiles + 1]
  /\ ki \in [Actors -> Nat]
  /\ prev \in [Actors -> Nat]

MemoryTypes ==
  /\ arrivals \in [Named -> [Actors -> Nat]]
  /\ landed \in [MBarriers -> Nat]
  /\ waits \in [WGs -> [MBarriers -> Nat]]
  /\ DOMAIN smem = Buffers
  /\ copying \subseteq Buffers \X (Nat \X Nat)

Types == WorkTypes /\ PositionTypes /\ MemoryTypes

\* Where an actor is determines which blocks it has done.
InBlock == InIteration \cup {"load_k", "sync_mask", "load_mask", "sync_v",
                             "load_v"}
Place(a) ==
  /\ prev[a] = Prior[tile[a]]
  /\ pc[a] = "done" <=> tile[a] = Tiles + 1
  /\ pc[a] = "prologue" => tile[a] = 1
  /\ pc[a] \in {"mask", "mask_read", "sync_mask", "load_mask"} => Mask # "none"
  /\ pc[a] = "free_q" => Persistent
  /\ pc[a] \in {"prologue", "await", "first_turn"} =>
       ki[a] = FirstKi(a, TileRange(a))
  /\ pc[a] \in InBlock => TileRange(a).lb =< ki[a] /\ ki[a] < TileRange(a).ub
  /\ pc[a] = "loop" =>
       \/ TileRange(a).lb =< ki[a] /\ ki[a] =< TileRange(a).ub
       \/ TileRange(a).ub =< TileRange(a).lb /\ TileRange(a).ub =< ki[a]
            /\ ki[a] =< TileRange(a).lb
  /\ pc[a] \in {"free_q", "output"} =>
       \/ TileRange(a).lb =< ki[a] /\ ki[a] = TileRange(a).ub
       \/ TileRange(a).ub =< TileRange(a).lb /\ TileRange(a).ub =< ki[a]
            /\ ki[a] =< TileRange(a).lb
Places ==
  /\ \A a \in WGs \cup {"kv"} : Place(a)
  /\ IF Persistent
       THEN /\ pc["q"] = "done" <=> tile["q"] = Tiles + 1
            /\ pc["q"] = "load_q" => tile["q"] > 1
       ELSE pc["q"] = "done" /\ tile["q"] = 1

\* The warpgroups take turns.
Turns ==
  /\ Took("wg0") =< Gave("wg1") /\ Took("wg1") =< Gave("wg0")
  /\ Gave("wg0") =< Asked("wg1") + 1 /\ Gave("wg1") =< Asked("wg0") + 1
  /\ FreedQ > 0 => Asked("wg1") >= FreedQ + Prior[FreedQ + 1]
  /\ \A w \in WGs, a \in Actors : arrivals[Turn(w)][a] =
       CASE a = w -> Asked(w) [] a = Other(w) -> Gave(a) [] OTHER -> 0

Flying(b) == IF \E c \in copying : c[1] = b THEN 1 ELSE 0

\* The Q buffer.
QSlot ==
  /\ LoadedQ =< FreedQ /\ FreedQ =< LoadedQ + 1
  /\ SyncedQ =< FreedQ + 1
  /\ \A w \in WGs : GotQ(w) =< IssuedQ /\ waits[w][Q] = GotQ(w)
  /\ \A a \in Actors : arrivals[Q][a] =
       CASE a = "wg0" -> FreedQ [] a = "q" -> SyncedQ [] OTHER -> 0
  /\ landed[Q] = IssuedQ - Flying(Q)
  /\ \A c \in copying : c[1] = Q =>
       c[2] = <<IssuedQ, 0>> /\ \A w \in WGs : GotQ(w) < IssuedQ
  /\ IssuedQ > 0 =>
       <<Q, <<IssuedQ, 0>>>> \in copying \/ smem[Q] = <<IssuedQ, 0>>

\* A ring: no more than Stages blocks are loaded and not freed.
Window ==
  \A kind \in Streams, w \in WGs :
    /\ Freed(w, kind) =< Got(w, Produces(kind))
    /\ Got(w, Produces(kind)) =< Loaded(kind)
    /\ Loaded(kind) =< Freed(w, kind) + Stages
    /\ pc[w] = "prologue" => Loaded(kind) = 0

Consumed ==
  \A kind \in Ring, s \in Slots, a \in Actors : arrivals[<<kind, s>>][a] =
    CASE a \in WGs -> Uses(Freed(a, kind), s)
                        + (IF pc[a] = "prologue" THEN 0 ELSE 1)
      [] a = "kv" -> Uses(Synced(kind), s)
      [] OTHER -> 0

Counted(kind, any, s) ==
  IF kind \in Streams /\ Produces(kind) = Produces(any)
    THEN Uses(Loaded(kind), s) - Flying(<<kind, s>>) ELSE 0
Produced ==
  \A any \in Streams, s \in Slots :
    /\ landed[<<Produces(any), s>>] = Counted("k", any, s)
         + Counted("bias", any, s) + Counted("mask", any, s) + Counted("v", any, s)
    /\ \A w \in WGs : waits[w][<<Produces(any), s>>] = Uses(Got(w, Produces(any)), s)

Block1(c) == Number(c[2][1], c[2][2])
IsBlock(b) == b[1] \in 1..Tiles /\ range[b[1]].lb =< b[2] /\ b[2] < range[b[1]].ub
InFlight ==
  \A c \in copying : c[1] # Q =>
    /\ IsBlock(c[2])
    /\ c[1][2] = Block1(c) % Stages
    /\ Block1(c) < Loaded(c[1][1])
    /\ \A w \in WGs : Got(w, Produces(c[1][1])) =< Block1(c)

Contents ==
  \A kind \in Streams : \A t \in 1..Tiles :
    \A k \in range[t].lb..range[t].ub - 1 :
      Number(t, k) < Loaded(kind) /\ Loaded(kind) =< Number(t, k) + Stages =>
        LET b == <<kind, Number(t, k) % Stages>> IN
        <<b, <<t, k>>>> \in copying \/ smem[b] = <<t, k>>

IInv == Types /\ Places /\ Turns /\ QSlot /\ Window /\ Consumed /\ Produced
          /\ InFlight /\ Contents
-----------------------------------------------------------------------------
\* Slots.

LEMMA SlotOf ==
  ASSUME NEW n \in Nat
  PROVE  /\ n % Stages \in Slots /\ n \div Stages \in Nat
         /\ n = Stages * (n \div Stages) + (n % Stages)
BY KernelAssumption DEF Slots

LEMMA Quotient ==
  ASSUME NEW q \in Nat, NEW r \in Slots
  PROVE  (Stages * q + r) \div Stages = q /\ (Stages * q + r) % Stages = r
<1>1. Stages * q + r \in Nat
  BY KernelAssumption DEF Slots
<1> DEFINE p == (Stages * q + r) \div Stages
           t == (Stages * q + r) % Stages
<1>2. p \in Nat /\ t \in Slots /\ Stages * q + r = Stages * p + t
  BY <1>1, SlotOf
<1> HIDE DEF p, t
<1>3. p = q
  <2>1. CASE p < q
    <3>1. PICK d \in Nat : q = p + 1 + d
      <4>1. q - p - 1 \in Nat /\ q = p + 1 + (q - p - 1)
        BY <1>2, <2>1
      <4> QED BY <4>1
    <3>2. Stages * q = Stages * p + Stages + Stages * d
      BY <3>1, <1>2, KernelAssumption
    <3>3. Stages * d >= 0
      BY KernelAssumption
    <3> QED BY <1>2, <3>2, <3>3, KernelAssumption DEF Slots
  <2>2. CASE q < p
    <3>1. PICK d \in Nat : p = q + 1 + d
      <4>1. p - q - 1 \in Nat /\ p = q + 1 + (p - q - 1)
        BY <1>2, <2>2
      <4> QED BY <4>1
    <3>2. Stages * p = Stages * q + Stages + Stages * d
      BY <3>1, <1>2, KernelAssumption
    <3>3. Stages * d >= 0
      BY KernelAssumption
    <3> QED BY <1>2, <3>2, <3>3, KernelAssumption DEF Slots
  <2> QED BY <1>2, <2>1, <2>2
<1>4. t = r
  BY <1>2, <1>3, KernelAssumption DEF Slots
<1> QED BY <1>3, <1>4 DEF p, t

LEMMA UsesIs ==
  ASSUME NEW q \in Nat, NEW r \in Slots, NEW s \in Slots
  PROVE  Uses(Stages * q + r, s) = q + (IF s < r THEN 1 ELSE 0)
<1>1. CASE s < r
  <2>1. Stages * q + r + Stages - 1 - s = Stages * (q + 1) + (r - 1 - s)
    BY KernelAssumption DEF Slots
  <2>2. r - 1 - s \in Slots
    BY <1>1, KernelAssumption DEF Slots
  <2> QED BY <1>1, <2>1, <2>2, Quotient DEF Uses
<1>2. CASE ~(s < r)
  <2>1. Stages * q + r + Stages - 1 - s = Stages * q + (r + Stages - 1 - s)
    BY KernelAssumption DEF Slots
  <2>2. r + Stages - 1 - s \in Slots
    BY <1>2, KernelAssumption DEF Slots
  <2> QED BY <1>2, <2>1, <2>2, Quotient DEF Uses
<1> QED BY <1>1, <1>2

LEMMA UsesStep ==
  ASSUME NEW n \in Nat, NEW s \in Slots
  PROVE  /\ Uses(n, s) \in Nat
         /\ Uses(n + 1, s) = Uses(n, s) + (IF n % Stages = s THEN 1 ELSE 0)
<1> DEFINE q == n \div Stages
           r == n % Stages
<1>1. q \in Nat /\ r \in Slots /\ n = Stages * q + r
  BY SlotOf
<1> HIDE DEF q, r
<1>2. Uses(n, s) = q + (IF s < r THEN 1 ELSE 0)
  BY <1>1, UsesIs
<1>3. CASE r + 1 \in Slots
  <2>1. n + 1 = Stages * q + (r + 1)
    BY <1>1, KernelAssumption DEF Slots
  <2>2. Uses(n + 1, s) = q + (IF s < r + 1 THEN 1 ELSE 0)
    BY <1>1, <1>3, <2>1, UsesIs
  <2> QED BY <1>1, <1>2, <2>2 DEF r, Slots
<1>4. CASE r + 1 \notin Slots
  <2>1. r = Stages - 1
    BY <1>1, <1>4, KernelAssumption DEF Slots
  <2>2. n + 1 = Stages * (q + 1) + 0
    BY <1>1, <2>1, KernelAssumption
  <2>3. 0 \in Slots
    BY KernelAssumption DEF Slots
  <2>4. Uses(n + 1, s) = (q + 1) + (IF s < 0 THEN 1 ELSE 0)
    BY <1>1, <2>2, <2>3, UsesIs
  <2> QED BY <1>1, <1>2, <2>1, <2>4, KernelAssumption DEF r, Slots
<1> QED BY <1>3, <1>4

LEMMA UsesNone ==
  ASSUME NEW s \in Slots
  PROVE  Uses(0, s) = 0
<1>1. 0 \in Slots /\ 0 = Stages * 0 + 0
  BY KernelAssumption DEF Slots
<1> QED BY <1>1, UsesIs DEF Slots

LEMMA UsesRound ==
  ASSUME NEW n \in Nat, NEW s \in Slots
  PROVE  /\ Uses(n + Stages, s) = Uses(n, s) + 1
         /\ (n + Stages) % Stages = n % Stages
<1> DEFINE q == n \div Stages
           r == n % Stages
<1>1. q \in Nat /\ r \in Slots /\ n = Stages * q + r
  BY SlotOf
<1>2. n + Stages = Stages * (q + 1) + r
  BY <1>1, KernelAssumption
<1> HIDE DEF q, r
<1>3. (n + Stages) % Stages = r
  BY <1>1, <1>2, Quotient
<1> QED BY <1>1, <1>2, <1>3, UsesIs DEF r

LEMMA UsesMonotone ==
  ASSUME NEW m \in Nat, NEW n \in Nat, NEW s \in Slots, m =< n
  PROVE  Uses(m, s) =< Uses(n, s)
<1> DEFINE Bad == {d \in Nat : Uses(m, s) > Uses(m + d, s)}
<1>1. SUFFICES ASSUME Bad # {} PROVE FALSE
  <2>1. n - m \in Nat /\ m + (n - m) = n
    OBVIOUS
  <2>2. n - m \notin Bad => ~(Uses(m, s) > Uses(m + (n - m), s))
    BY <2>1
  <2>3. Bad = {} => ~(Uses(m, s) > Uses(n, s))
    BY <2>1, <2>2
  <2>4. Uses(m, s) \in Nat /\ Uses(n, s) \in Nat
    BY UsesStep
  <2> QED BY <2>3, <2>4
<1>2. PICK d \in Bad : \A e \in Bad : d =< e
  <2>1. Bad \subseteq Nat
    OBVIOUS
  <2> HIDE DEF Bad
  <2> QED BY <1>1, <2>1, Least
<1>3. d # 0
  BY <1>2, UsesStep
<1>4. d - 1 \in Nat /\ d - 1 \notin Bad /\ m + (d - 1) \in Nat /\ m + (d - 1) + 1 = m + d
  BY <1>2, <1>3
<1>5. ~(Uses(m, s) > Uses(m + (d - 1), s))
  BY <1>4
<1>6. Uses(m + d, s) >= Uses(m + (d - 1), s)
  <2>1. Uses((m + (d - 1)) + 1, s) >= Uses(m + (d - 1), s)
    BY <1>4, UsesStep
  <2> QED BY <1>4, <2>1
<1> QED BY <1>2, <1>4, <1>5, <1>6, UsesStep

\* n blocks use s at most once more than m if there are Stages or less between.
LEMMA UsesWithin ==
  ASSUME NEW m \in Nat, NEW n \in Nat, NEW s \in Slots, n =< m + Stages
  PROVE  Uses(n, s) =< Uses(m, s) + 1
<1>1. m + Stages \in Nat
  BY KernelAssumption
<1>2. Uses(n, s) =< Uses(m + Stages, s)
  BY <1>1, UsesMonotone
<1> QED BY <1>2, UsesRound

LEMMA UsesPast ==
  ASSUME NEW m \in Nat, NEW n \in Nat, m < n
  PROVE  Uses(n, m % Stages) >= Uses(m, m % Stages) + 1
<1>1. m + 1 \in Nat /\ m % Stages \in Slots
  BY SlotOf
<1>2. Uses(m + 1, m % Stages) =< Uses(n, m % Stages)
  BY <1>1, UsesMonotone
<1>3. Uses(m + 1, m % Stages) = Uses(m, m % Stages) + 1
  BY <1>1, UsesStep
<1> QED BY <1>1, <1>2, <1>3, UsesStep

LEMMA UsesFreed ==
  ASSUME NEW m \in Nat, NEW n \in Nat, Uses(m, n % Stages) >= Uses(n, n % Stages)
  PROVE  n < m + Stages
<1> SUFFICES ASSUME m + Stages =< n PROVE FALSE
  BY KernelAssumption
<1>1. m + Stages \in Nat /\ n % Stages \in Slots
  BY KernelAssumption, SlotOf
<1>2. Uses(m + Stages, n % Stages) =< Uses(n, n % Stages)
  BY <1>1, UsesMonotone
<1>3. Uses(m + Stages, n % Stages) = Uses(m, n % Stages) + 1
  BY <1>1, UsesRound
<1> QED BY <1>1, <1>2, <1>3, UsesStep

\* Two blocks less than Stages apart are in two slots.
LEMMA SameSlot ==
  ASSUME NEW m \in Nat, NEW n \in Nat, m < n, m % Stages = n % Stages
  PROVE  m + Stages =< n
<1> SUFFICES ASSUME n < m + Stages PROVE FALSE
  BY KernelAssumption
<1> DEFINE s == m % Stages
<1>1. s \in Slots
  BY SlotOf
<1>2. Uses(n, s) >= Uses(m, s) + 1
  BY UsesPast
<1>3. n + 1 \in Nat /\ n + 1 =< m + Stages
  BY KernelAssumption
<1>4. Uses(n + 1, s) =< Uses(m, s) + 1
  BY <1>1, <1>3, UsesWithin
<1>5. Uses(n + 1, s) = Uses(n, s) + 1
  BY <1>1, UsesStep
<1> QED BY <1>1, <1>2, <1>4, <1>5, UsesStep
-----------------------------------------------------------------------------
\* The blocks of the tiles.

LEMMA PriorIs ==
  ASSUME NEW T \in Nat, NEW r \in [1..T -> KvRange]
  PROVE  /\ PriorTo(T, r) \in [1..T + 1 -> Nat]
         /\ PriorTo(T, r)[1] = 0
         /\ \A n \in 1..T : PriorTo(T, r)[n + 1] = PriorTo(T, r)[n] + Iterations(r[n])
<1> DEFINE E(P) == [n \in 1..T + 1 |-> IF n = 1 THEN 0 ELSE P[n - 1] + Iterations(r[n - 1])]
<1>0. \A n \in 1..T : Iterations(r[n]) \in Nat
  BY DEF Iterations, KvRange
<1>1. PICK P \in [1..T + 1 -> Nat] : 
         /\ P[1] = 0
         /\ \A n \in 1..T : P[n + 1] = P[n] + Iterations(r[n])
  <2> DEFINE f == [n \in 1..T |-> Iterations(r[n])]
  <2>1. f \in [1..T -> Nat] /\ \A n \in 1..T : f[n] = Iterations(r[n])
    BY <1>0
  <2> HIDE DEF f
  <2>2. \E P \in [1..T + 1 -> Nat] : 
            /\ P[1] = 0
            /\ \A n \in 1..T : P[n + 1] = P[n] + f[n]
    BY <2>1, PrefixSums
  <2> QED BY <2>1, <2>2
<1>2. P = E(P)
  <2>1. \A n \in 1..T + 1 : P[n] = E(P)[n]
    <3> SUFFICES ASSUME NEW n \in 1..T + 1 PROVE P[n] = E(P)[n]
      OBVIOUS
    <3>1. CASE n = 1
      BY <1>1, <3>1
    <3>2. CASE n # 1
      <4>1. n - 1 \in 1..T /\ (n - 1) + 1 = n
        BY <3>2
      <4> QED BY <1>1, <3>2, <4>1
    <3> QED BY <3>1, <3>2
  <2> QED BY <2>1
<1>3. PriorTo(T, r) = CHOOSE f : f = E(f)
  BY DEF PriorTo
<1>4. PriorTo(T, r) = E(PriorTo(T, r))
  <2> HIDE DEF E
  <2> QED BY <1>2, <1>3
<1>5. \A n \in 1..T + 1 : PriorTo(T, r)[n] = P[n]
  <2> DEFINE R == PriorTo(T, r)
             Bad == {n \in 1..T + 1 : R[n] # P[n]}
  <2> SUFFICES ASSUME Bad # {} PROVE FALSE
    OBVIOUS
  <2>0. /\ R[1] = 0
        /\ \A n \in 2..T + 1 : R[n] = R[n - 1] + Iterations(r[n - 1])
    <3>1. R = E(R)
      BY <1>4
    <3> HIDE DEF R
    <3>2. \A n \in 1..T + 1 : E(R)[n] = IF n = 1 THEN 0 ELSE R[n - 1] + Iterations(r[n - 1])
      OBVIOUS
    <3> HIDE DEF E
    <3>3. \A n \in 1..T + 1 : R[n] = IF n = 1 THEN 0 ELSE R[n - 1] + Iterations(r[n - 1])
      BY <3>1, <3>2, Zenon
    <3> QED BY <3>3
  <2> HIDE DEF R
  <2>1. PICK n \in Bad : \A m \in Bad : n =< m
    <3>1. Bad \subseteq Nat
      OBVIOUS
    <3> HIDE DEF Bad
    <3> QED BY <3>1, Least
  <2>2. n # 1
    BY <1>1, <2>0, <2>1
  <2>3. n - 1 \in 1..T + 1 /\ n - 1 \notin Bad /\ n - 1 \in 1..T /\ (n - 1) + 1 = n
    BY <2>1, <2>2
  <2>4. R[n - 1] = P[n - 1]
    BY <2>3
  <2>5. P[n] = P[n - 1] + Iterations(r[n - 1])
    BY <1>1, <2>3
  <2> QED BY <2>0, <2>1, <2>2, <2>3, <2>4, <2>5
<1>6. PriorTo(T, r) = P
  <2>1. E(PriorTo(T, r)) = [n \in 1..T + 1 |-> E(PriorTo(T, r))[n]]
    OBVIOUS
  <2> HIDE DEF E
  <2>2. PriorTo(T, r) = [n \in 1..T + 1 |-> PriorTo(T, r)[n]]
    BY <1>4, <2>1
  <2>3. P = [n \in 1..T + 1 |-> P[n]]
    OBVIOUS
  <2> QED BY <1>5, <2>2, <2>3
<1> QED BY <1>1, <1>6

\* Later tiles have at least the blocks of the tiles before them.
LEMMA PriorMonotone ==
  ASSUME NEW T \in Nat, NEW r \in [1..T -> KvRange],
         NEW m \in 1..T + 1, NEW n \in 1..T + 1, m =< n
  PROVE  PriorTo(T, r)[m] =< PriorTo(T, r)[n]
<1> DEFINE P == PriorTo(T, r)
           Bad == {i \in m..T + 1 : ~(P[m] =< P[i])}
<1>1. /\ P \in [1..T + 1 -> Nat]
      /\ \A i \in 1..T : P[i + 1] = P[i] + Iterations(r[i])
  BY PriorIs
<1>2. \A i \in 1..T : Iterations(r[i]) \in Nat
  BY DEF Iterations, KvRange
<1> HIDE DEF P
<1>3. SUFFICES ASSUME Bad # {} PROVE FALSE
  <2>1. n \in m..T + 1 /\ (n \notin Bad => P[m] =< P[n])
    OBVIOUS
  <2> QED BY <2>1 DEF P
<1>4. PICK i \in Bad : \A j \in Bad : i =< j
  <2>1. Bad \subseteq Nat
    OBVIOUS
  <2> HIDE DEF Bad
  <2> QED BY <1>3, <2>1, Least
<1>5. i # m
  BY <1>1, <1>4
<1>6. i - 1 \in m..T + 1 /\ i - 1 \notin Bad /\ i - 1 \in 1..T /\ (i - 1) + 1 = i
  BY <1>4, <1>5
<1>7. P[m] =< P[i - 1] /\ P[i] = P[i - 1] + Iterations(r[i - 1])
  BY <1>1, <1>6
<1> QED BY <1>1, <1>2, <1>4, <1>6, <1>7

\* What the types say of the tiles.
LEMMA Work ==
  ASSUME Types
  PROVE  /\ Tiles \in Nat \ {0}
         /\ range \in [1..Tiles -> KvRange]
         /\ \A n \in 1..Tiles : range[n] \in launch.ranges
         /\ Prior \in [1..Tiles + 1 -> Nat]
         /\ Prior[1] = 0
         /\ \A n \in 1..Tiles : /\ Prior[n + 1] = Prior[n] + Iterations(range[n])
                                 /\ Iterations(range[n]) \in Nat
                                 /\ range[n].lb \in Nat /\ range[n].ub \in Nat
         /\ \A m, n \in 1..Tiles + 1 : m =< n => Prior[m] =< Prior[n]
         /\ \A m \in 1..Tiles, n \in 1..Tiles + 1 :
              m < n => Prior[m] + Iterations(range[m]) =< Prior[n]
<1>1. /\ Tiles \in Nat \ {0} /\ range \in [1..Tiles -> KvRange]
      /\ \A n \in 1..Tiles : range[n] \in launch.ranges
  BY KernelAssumption DEF Types, WorkTypes, PositionTypes, Tiles, Launch
<1>2. /\ Prior \in [1..Tiles + 1 -> Nat] /\ Prior[1] = 0
      /\ \A n \in 1..Tiles : Prior[n + 1] = Prior[n] + Iterations(range[n])
  BY <1>1, PriorIs DEF Prior
<1>3. \A m, n \in 1..Tiles + 1 : m =< n => Prior[m] =< Prior[n]
  BY <1>1, PriorMonotone DEF Prior
<1>4. \A n \in 1..Tiles : /\ range[n].lb \in Nat /\ range[n].ub \in Nat
                          /\ Iterations(range[n]) \in Nat
  BY <1>1 DEF KvRange, Iterations
<1>5. ASSUME NEW m \in 1..Tiles, NEW n \in 1..Tiles + 1, m < n
      PROVE  Prior[m] + Iterations(range[m]) =< Prior[n]
  <2>1. m + 1 \in 1..Tiles + 1 /\ m + 1 =< n
    BY <1>1, <1>5
  <2> QED BY <1>2, <1>3, <2>1
<1> QED BY <1>1, <1>2, <1>3, <1>4, <1>5

\* The numbers of the blocks of a tile.
LEMMA BlockNumber ==
  ASSUME Types, NEW t \in 1..Tiles, NEW k \in range[t].lb..range[t].ub - 1
  PROVE  /\ Number(t, k) \in Nat /\ k \in Nat /\ t + 1 \in 1..Tiles + 1
         /\ Prior[t] =< Number(t, k) /\ Number(t, k) < Prior[t + 1]
<1>0. /\ Tiles \in Nat /\ Prior \in [1..Tiles + 1 -> Nat]
      /\ range[t].lb \in Nat /\ range[t].ub \in Nat
      /\ Prior[t + 1] = Prior[t] + Iterations(range[t])
  BY Work
<1>1. /\ range[t].lb \in Nat /\ range[t].ub \in Nat
      /\ Prior[t] \in Nat /\ t + 1 \in 1..Tiles + 1
      /\ Prior[t + 1] = Prior[t] + Iterations(range[t])
  <2>1. t \in 1..Tiles + 1 /\ t + 1 \in 1..Tiles + 1
    BY <1>0
  <2> QED BY <1>0, <2>1
<1>2. k \in Nat /\ range[t].lb =< k /\ k < range[t].ub
  BY <1>1
<1>3. Iterations(range[t]) = range[t].ub - range[t].lb
  BY <1>1, <1>2 DEF Iterations
<1> QED BY <1>1, <1>2, <1>3 DEF Number

\* A block is known by its number.
LEMMA SameBlock ==
  ASSUME Types, NEW t \in 1..Tiles, NEW u \in 1..Tiles,
         NEW k \in range[t].lb..range[t].ub - 1,
         NEW l \in range[u].lb..range[u].ub - 1, Number(t, k) = Number(u, l)
  PROVE  t = u /\ k = l
<1>1. /\ Tiles \in Nat /\ Prior \in [1..Tiles + 1 -> Nat]
      /\ \A m, n \in 1..Tiles + 1 : m =< n => Prior[m] =< Prior[n]
      /\ range[t].lb \in Nat /\ range[t].ub \in Nat
      /\ range[u].lb \in Nat /\ range[u].ub \in Nat
  BY Work
<1>2. /\ Number(t, k) \in Nat /\ t + 1 \in 1..Tiles + 1
      /\ Prior[t] =< Number(t, k) /\ Number(t, k) < Prior[t + 1]
  BY BlockNumber
<1>3. /\ Number(u, l) \in Nat /\ u + 1 \in 1..Tiles + 1
      /\ Prior[u] =< Number(u, l) /\ Number(u, l) < Prior[u + 1]
  BY BlockNumber
<1>4. t = u
  <2>1. t < u => Prior[t + 1] =< Prior[u]
    BY <1>1, <1>2
  <2>2. u < t => Prior[u + 1] =< Prior[t]
    BY <1>1, <1>3
  <2>3. Prior[t] \in Nat /\ Prior[u] \in Nat /\ Prior[t + 1] \in Nat /\ Prior[u + 1] \in Nat
    BY <1>1, <1>2, <1>3
  <2>4. ~(t < u) /\ ~(u < t)
    BY <1>2, <1>3, <2>1, <2>2, <2>3
  <2> QED BY <1>1, <2>4
<1>5. k = l
  <2> DEFINE first == Prior[t]
             lb == range[t].lb
  <2>1. first \in Nat /\ lb \in Nat /\ k \in Nat /\ l \in Nat
    BY <1>1, BlockNumber
  <2>2. first + k - lb = first + l - lb
    BY <1>4 DEF Number
  <2> HIDE DEF first, lb
  <2> QED BY <2>1, <2>2
<1> QED BY <1>4, <1>5

-----------------------------------------------------------------------------
\* Where an actor is, and what it has done.

\* A loop starts at the first block, or where it has none it starts after the
\* last one.
LEMMA LoopStarts ==
  ASSUME SplitInRange, Types, NEW a \in WGs \cup {"kv"}, NEW n \in 1..Tiles
  PROVE  LET r == range[n] IN
         /\ FirstKi(a, r) \in Nat
         /\ \/ FirstKi(a, r) = r.lb
            \/ r.ub < r.lb /\ FirstKi(a, r) = r.ub
<1>1. range[n] \in KvRange /\ range[n] \in launch.ranges
  BY Work
<1>2. launch \in Launches
  BY DEF Types, WorkTypes, PositionTypes
<1>3. CASE a \in WGs
  <2>1. /\ range[n].lb \in Nat /\ range[n].ub \in Nat
        /\ range[n].diagonal[a] \in Nat
    BY <1>1, <1>3 DEF KvRange
  <2>2. launch.causal => range[n].diagonal[a] >= range[n].lb
                           \/ range[n].diagonal[a] >= range[n].ub
    BY <1>1, <1>2, <1>3 DEF SplitInRange
  <2> QED BY <1>3, <2>1, <2>2 DEF FirstKi, LoopStart
<1>4. CASE a = "kv"
  BY <1>1, <1>4 DEF FirstKi, KvRange, WGs
<1> QED BY <1>3, <1>4

LEMMA Whereabouts ==
  ASSUME SplitInRange, Types, NEW a \in WGs \cup {"kv"}, Place(a)
  PROVE  /\ Before(a) \in Nat
         /\ pc[a] = "done" =>
              tile[a] = Tiles + 1 /\ Before(a) = Prior[tile[a]]
         /\ pc[a] # "done" =>
              /\ tile[a] \in 1..Tiles
              /\ Prior[tile[a]] =< Before(a)
              /\ Before(a) =< Prior[tile[a] + 1]
              /\ prev[a] = Prior[tile[a]]
         /\ pc[a] \in InBlock \/ Looping(a) =>
              /\ Before(a) = Number(tile[a], ki[a])
              /\ Before(a) < Prior[tile[a] + 1]
              /\ ki[a] \in TileRange(a).lb..TileRange(a).ub - 1
         /\ pc[a] \in {"prologue", "await", "first_turn"} =>
              Before(a) = Prior[tile[a]]
         /\ pc[a] \in {"free_q", "output"} \/ Looped(a) =>
              Before(a) = Prior[tile[a] + 1]
<1>1. CASE pc[a] = "done"
  BY <1>1, Work DEF Types, WorkTypes, PositionTypes, Place, Before, InBlock, InIteration, Looping, Looped
<1>2. CASE pc[a] # "done"
  <2> DEFINE r == TileRange(a)
             n == tile[a]
  <2>1. a \in Actors /\ n \in 1..Tiles + 1 /\ ki[a] \in Nat /\ prev[a] = Prior[n]
    BY DEF Types, WorkTypes, PositionTypes, Place, Actors
  <2>2. Tiles \in Nat /\ n \in 1..Tiles
    BY <1>2, <2>1, Work DEF Place
  <2>3. /\ r.lb \in Nat /\ r.ub \in Nat
        /\ Prior[n] \in Nat /\ Prior[n + 1] = Prior[n] + Iterations(r)
    BY <2>2, Work DEF TileRange
  <2>4. Iterations(r) = IF r.ub > r.lb THEN r.ub - r.lb ELSE 0
    BY DEF Iterations
  <2>5. Number(n, ki[a]) = Prior[n] + ki[a] - r.lb
    BY DEF Number, TileRange
  <2>6. Before(a) = IF ki[a] < r.lb THEN Prior[n] ELSE Prior[n] + ki[a] - r.lb
    BY <1>2, <2>1 DEF Before
  <2>7. pc[a] \in InBlock \/ Looping(a) =>
          /\ Before(a) = Number(n, ki[a]) /\ Before(a) < Prior[n + 1]
          /\ ki[a] \in r.lb..r.ub - 1
    <3>1. pc[a] \in InBlock \/ Looping(a) => r.lb =< ki[a] /\ ki[a] < r.ub
      BY <2>1, <2>3 DEF Place, Looping
    <3> QED BY <2>1, <2>3, <2>4, <2>5, <2>6, <3>1
  <2>8. pc[a] \in {"prologue", "await", "first_turn"} => Before(a) = Prior[n]
    <3>1. pc[a] \in {"prologue", "await", "first_turn"} => ki[a] =< r.lb
      BY <2>1, <2>2, <2>3, LoopStarts DEF Place, TileRange
    <3> QED BY <2>1, <2>3, <2>6, <3>1
  <2>9. pc[a] \in {"free_q", "output"} \/ Looped(a) => Before(a) = Prior[n + 1]
    <3>1. pc[a] \in {"free_q", "output"} \/ Looped(a) =>
            \/ r.lb =< ki[a] /\ ki[a] = r.ub
            \/ r.ub =< r.lb /\ r.ub =< ki[a] /\ ki[a] =< r.lb
      BY <2>1, <2>3 DEF Place, Looped
    <3> QED BY <2>1, <2>3, <2>4, <2>6, <3>1
  <2>10. Before(a) \in Nat /\ Prior[n] =< Before(a) /\ Before(a) =< Prior[n + 1]
    <3>1. pc[a] \in InBlock \cup {"prologue", "await", "first_turn", "free_q",
                                  "output", "loop"}
      BY <1>2, <2>1 DEF Types, WorkTypes, PositionTypes, PCs, InBlock, InIteration, WGs
    <3>2. pc[a] = "loop" => Looping(a) \/ Looped(a)
      BY <2>1, <2>3 DEF Looping, Looped
    <3>3. Number(n, ki[a]) >= Prior[n] \/ ~(pc[a] \in InBlock \/ Looping(a))
      BY <2>1, <2>3, <2>5, <2>7
    <3> QED BY <2>1, <2>3, <2>4, <2>6, <2>7, <2>8, <2>9, <3>1, <3>2, <3>3
  <2> QED BY <1>2, <2>1, <2>2, <2>7, <2>8, <2>9, <2>10
<1> QED BY <1>1, <1>2

-----------------------------------------------------------------------------
\* How a step moves the counts.

LEMMA SameWork ==
  ASSUME UNCHANGED work
  PROVE  /\ launch' = launch /\ range' = range /\ Tiles' = Tiles
         /\ Persistent' = Persistent /\ Mask' = Mask /\ Streams' = Streams
         /\ Ring' = Ring /\ Prior' = Prior /\ Buffers' = Buffers
         /\ Named' = Named /\ MBarriers' = MBarriers
         /\ \A t, k : Number(t, k)' = Number(t, k)
         /\ \A kind : Produces(kind)' = Produces(kind)
         /\ \A a, r : FirstKi(a, r)' = FirstKi(a, r)
         /\ \A m : NumArrivals(m)' = NumArrivals(m)
<1>1. launch' = launch /\ range' = range
  BY DEF work
<1>2. /\ Tiles' = Tiles /\ Persistent' = Persistent /\ Mask' = Mask
      /\ Streams' = Streams /\ Ring' = Ring
  BY <1>1 DEF Tiles, Persistent, Mask, Streams, Ring
<1>3. Prior' = Prior
  BY <1>1, <1>2 DEF Prior
<1>4. \A kind : Produces(kind)' = Produces(kind)
  BY <1>2 DEF Produces, OnK
<1>5. Buffers' = Buffers /\ Named' = Named
  BY <1>2 DEF Buffers, Named
<1>6. MBarriers' = MBarriers /\ \A m : NumArrivals(m)' = NumArrivals(m)
  BY <1>4, <1>5 DEF MBarriers, NumArrivals
<1>7. \A a, r : FirstKi(a, r)' = FirstKi(a, r)
  BY <1>1 DEF FirstKi, LoopStart
<1> QED BY <1>1, <1>2, <1>3, <1>4, <1>5, <1>6, <1>7 DEF Number

Others(a) == \A b \in Actors \ {a} :
  pc'[b] = pc[b] /\ tile'[b] = tile[b] /\ ki'[b] = ki[b] /\ prev'[b] = prev[b]

\* A step within a tile and a block.
LEMMA StepMoves ==
  ASSUME Types, UNCHANGED work, NEW a \in Actors, NEW from, NEW to,
         from # "done", to # "done", Step(a, from, to)
  PROVE  /\ pc[a] = from /\ pc'[a] = to /\ DOMAIN pc' = Actors
         /\ tile' = tile /\ ki' = ki /\ prev' = prev
         /\ Others(a)
         /\ \A b \in Actors : Before(b)' = Before(b)
<1>1. /\ pc[a] = from /\ pc' = [pc EXCEPT ![a] = to]
      /\ tile' = tile /\ ki' = ki /\ prev' = prev
  BY DEF Step, Goto
<1>2. DOMAIN pc = Actors
  BY DEF Types, WorkTypes, PositionTypes
<1>3. range' = range
  BY SameWork
<1>4. \A b \in Actors : Before(b)' = Before(b)
  BY <1>1, <1>2, <1>3 DEF Before, TileRange
<1> QED BY <1>1, <1>2, <1>4 DEF Others

\* The last step of a block.
LEMMA BlockMoves ==
  ASSUME SplitInRange, Types, UNCHANGED work, NEW a \in WGs \cup {"kv"}, Place(a),
         pc[a] \in InBlock, Goto(a, "loop"), ki' = [ki EXCEPT ![a] = @ + 1],
         tile' = tile, prev' = prev
  PROVE  /\ pc'[a] = "loop" /\ DOMAIN pc' = Actors /\ ki' \in [Actors -> Nat]
         /\ ki'[a] = ki[a] + 1 /\ Others(a)
         /\ Before(a)' = Before(a) + 1
         /\ \A b \in Actors \ {a} : Before(b)' = Before(b)
<1>1. /\ DOMAIN pc = Actors /\ ki \in [Actors -> Nat] /\ a \in Actors
  BY DEF Types, WorkTypes, PositionTypes, Actors
<1>2. /\ pc' = [pc EXCEPT ![a] = "loop"] /\ range' = range
  BY SameWork DEF Goto
<1>3. /\ pc'[a] = "loop" /\ DOMAIN pc' = Actors /\ ki' \in [Actors -> Nat]
      /\ ki'[a] = ki[a] + 1 /\ Others(a)
  BY <1>1, <1>2 DEF Others
<1>4. \A b \in Actors \ {a} : Before(b)' = Before(b)
  BY <1>1, <1>2 DEF Before, TileRange
<1>5. Before(a)' = Before(a) + 1
  <2>1. /\ ki[a] \in TileRange(a).lb..TileRange(a).ub - 1
        /\ tile[a] \in 1..Tiles /\ pc[a] # "done"
    BY Whereabouts DEF InBlock, InIteration
  <2>2. /\ TileRange(a).lb \in Nat /\ TileRange(a).ub \in Nat /\ prev[a] \in Nat
    BY <1>1, <2>1, Work DEF TileRange, Types, WorkTypes, PositionTypes
  <2>3. TileRange(a)' = TileRange(a)
    BY <1>2 DEF TileRange
  <2> QED BY <1>1, <1>2, <1>3, <2>1, <2>2, <2>3 DEF Before
<1> QED BY <1>3, <1>4, <1>5

\* The step from one tile to the next.
LEMMA TileMoves ==
  ASSUME SplitInRange, Types, UNCHANGED work, NEW a \in WGs \cup {"kv"}, Place(a),
         pc[a] = "output" \/ Looped(a), NextTile(a)
  PROVE  /\ tile'[a] = tile[a] + 1 /\ tile[a] \in 1..Tiles
         /\ tile' \in [Actors -> 1..Tiles + 1]
         /\ prev' \in [Actors -> Nat]
         /\ ki' \in [Actors -> Nat]
         /\ DOMAIN pc' = Actors
         /\ pc'[a] = (IF tile[a] = Tiles THEN "done"
                      ELSE IF a \in WGs THEN "await" ELSE "loop")
         /\ Others(a)
         /\ \A b \in Actors : Before(b)' = Before(b)
         /\ Place(a)'
<1>1. /\ DOMAIN pc = Actors /\ ki \in [Actors -> Nat] /\ a \in Actors
      /\ tile \in [Actors -> 1..Tiles + 1] /\ prev \in [Actors -> Nat]
  BY DEF Types, WorkTypes, PositionTypes, Actors
<1>2. /\ tile[a] \in 1..Tiles /\ Before(a) = Prior[tile[a] + 1]
      /\ prev[a] = Prior[tile[a]]
  BY Whereabouts DEF Looped
<1>3. /\ Prior[tile[a] + 1] = Prior[tile[a]] + Iterations(TileRange(a))
      /\ Iterations(TileRange(a)) \in Nat /\ Tiles \in Nat
  BY <1>2, Work DEF TileRange
<1>4. /\ prev' = [prev EXCEPT ![a] = @ + Iterations(TileRange(a))]
      /\ tile' = [tile EXCEPT ![a] = @ + 1]
      /\ IF tile[a] = Tiles
           THEN Goto(a, "done") /\ UNCHANGED ki
           ELSE /\ Goto(a, IF a \in WGs THEN "await" ELSE "loop")
                /\ ki' = [ki EXCEPT ![a] = FirstKi(a, range[tile[a] + 1])]
  BY DEF NextTile
<1>5. /\ tile'[a] = tile[a] + 1 /\ tile' \in [Actors -> 1..Tiles + 1]
      /\ prev'[a] = Prior[tile[a] + 1] /\ prev' \in [Actors -> Nat]
  BY <1>1, <1>2, <1>3, <1>4
<1>6. /\ DOMAIN pc' = Actors
      /\ pc'[a] = (IF tile[a] = Tiles THEN "done"
                   ELSE IF a \in WGs THEN "await" ELSE "loop")
      /\ Others(a)
  BY <1>1, <1>4 DEF Goto, Others
<1>7. \A b \in Actors \ {a} : Before(b)' = Before(b)
  BY <1>6, SameWork DEF Before, TileRange, Others
<1>8. CASE tile[a] = Tiles
  <2>1. ki' = ki /\ pc'[a] = "done"
    BY <1>4, <1>6, <1>8
  <2>2. Before(a)' = Before(a)
    BY <1>2, <1>5, <2>1 DEF Before
  <2>3. Place(a)'
    BY <1>5, <1>8, <2>1, SameWork DEF Place, InBlock, InIteration
  <2> QED BY <1>1, <1>2, <1>5, <1>6, <1>7, <2>1, <2>2, <2>3
<1>9. CASE tile[a] # Tiles
  <2> DEFINE r == range[tile[a] + 1]
  <2>1. tile[a] + 1 \in 1..Tiles
    BY <1>2, <1>3, <1>9
  <2>2. /\ FirstKi(a, r) \in Nat
        /\ FirstKi(a, r) = r.lb \/ (r.ub < r.lb /\ FirstKi(a, r) = r.ub)
        /\ r.lb \in Nat /\ r.ub \in Nat
    BY <2>1, LoopStarts, Work
  <2>3. /\ ki' = [ki EXCEPT ![a] = FirstKi(a, r)]
        /\ pc'[a] = IF a \in WGs THEN "await" ELSE "loop"
    BY <1>4, <1>6, <1>9
  <2>4. ki'[a] = FirstKi(a, r) /\ ki' \in [Actors -> Nat]
    BY <1>1, <2>2, <2>3
  <2>5. TileRange(a)' = r
    BY <1>5, SameWork DEF TileRange
  <2>6. Before(a)' = prev'[a]
    <3>1. Before(a)' = IF ki'[a] < r.lb THEN prev'[a] ELSE prev'[a] + ki'[a] - r.lb
      BY <2>3, <2>5 DEF Before
    <3>2. prev'[a] \in Nat
      BY <1>1, <1>5
    <3> QED BY <2>2, <2>4, <3>1, <3>2
  <2>7. Place(a)'
    <3>1. tile'[a] # Tiles + 1 /\ pc'[a] \in {"await", "loop"}
      BY <1>3, <1>5, <2>1, <2>3
    <3>2. prev'[a] = Prior'[tile'[a]]
      BY <1>5, SameWork
    <3>3. ki'[a] = FirstKi(a, TileRange(a))'
      BY <2>4, <2>5, SameWork DEF FirstKi, LoopStart
    <3>4. pc'[a] = "loop" => a \notin WGs
      BY <2>3
    <3>5. a \notin WGs => ki'[a] = r.lb
      BY <2>4 DEF FirstKi
    <3> QED BY <2>2, <2>4, <2>5, <3>1, <3>2, <3>3, <3>4, <3>5, SameWork
            DEF Place, InBlock, InIteration
  <2> QED BY <1>1, <1>2, <1>5, <1>6, <1>7, <2>4, <2>6, <2>7
<1> QED BY <1>8, <1>9

-----------------------------------------------------------------------------
\* What a step adds to the counts: those of the K/V warp, those of a warpgroup
\* at the rings, at the schedule barriers and at Q, and those of the Q warp.
One(condition) == IF condition THEN 1 ELSE 0

KvStep(L, A) ==
  \A kind \in Streams :
    /\ Loaded(kind)' = Loaded(kind) + One(kind \in L)
    /\ Synced(kind)' = Synced(kind) + One(kind \in A)

WgStep(w, F, G) ==
  \A v \in WGs, kind \in Streams :
    /\ Freed(v, kind)' = Freed(v, kind) + One(v = w /\ kind \in F)
    /\ Got(v, Produces(kind))' =
         Got(v, Produces(kind)) + One(v = w /\ Produces(kind) \in G)

TurnStep(w, gave, asked, took) ==
  \A v \in WGs :
    /\ Gave(v)' = Gave(v) + (IF v = w THEN gave ELSE 0)
    /\ Asked(v)' = Asked(v) + (IF v = w THEN asked ELSE 0)
    /\ Took(v)' = Took(v) + (IF v = w THEN took ELSE 0)

QStep(w, got, freed, loaded, asked) ==
  /\ \A v \in WGs : GotQ(v)' = GotQ(v) + (IF v = w THEN got ELSE 0)
  /\ FreedQ' = FreedQ + freed
  /\ LoadedQ' = LoadedQ + loaded /\ SyncedQ' = SyncedQ + asked

SamePrologues == \A w \in WGs : pc'[w] = "prologue" <=> pc[w] = "prologue"

LEMMA StreamFacts ==
  ASSUME WorkTypes
  PROVE  /\ Streams \subseteq Kinds /\ {"k", "v"} \subseteq Streams
         /\ "bias" \in Streams <=> launch.bias
         /\ "mask" \in Streams <=> Mask # "none"
         /\ Mask \in {"none", "row", "full"}
         /\ Produces("k") = "k" /\ Produces("v") = "v" /\ Produces("bias") = "k"
         /\ Mask = "row" => Produces("mask") = "k"
         /\ Mask = "full" => Produces("mask") = "mask"
         /\ Produces("q") = "q"
         /\ Ring = {"k", "v"} \cup (IF Mask # "none" THEN {"mask"} ELSE {})
         /\ Stages \in Nat \ {0}
<1>1. Mask \in {"none", "row", "full"} /\ launch.bias \in BOOLEAN
  BY KernelAssumption DEF WorkTypes, Launch, Mask
<1> QED BY <1>1, KernelAssumption DEF Streams, Kinds, Produces, OnK, Ring

LEMMA OtherPlaces ==
  ASSUME UNCHANGED work, NEW a \in Actors, Others(a),
         NEW b \in Actors \ {a}, Place(b)
  PROVE  Place(b)'
<1>1. pc'[b] = pc[b] /\ tile'[b] = tile[b] /\ ki'[b] = ki[b] /\ prev'[b] = prev[b]
  BY DEF Others
<1>2. TileRange(b)' = TileRange(b)
  BY <1>1, SameWork DEF TileRange
<1> QED BY <1>1, <1>2, SameWork DEF Place

\* A step of another actor leaves the counts of the K/V warp alone, ...
LEMMA KvFrame ==
  ASSUME UNCHANGED work, pc'["kv"] = pc["kv"], Before("kv")' = Before("kv"),
         WorkTypes
  PROVE  \A kind \in Streams : Loaded(kind)' = Loaded(kind) /\ Synced(kind)' = Synced(kind)
BY DEF Loaded, Synced, In

\* ... those of a warpgroup, ...
LEMMA WgFrame ==
  ASSUME UNCHANGED work, NEW a \in Actors, Others(a),
         NEW v \in WGs \ {a}, Before(v)' = Before(v)
  PROVE  /\ \A kind \in Streams : /\ Freed(v, kind)' = Freed(v, kind)
                                  /\ Got(v, Produces(kind))' = Got(v, Produces(kind))
         /\ Gave(v)' = Gave(v) /\ Asked(v)' = Asked(v) /\ Took(v)' = Took(v)
         /\ GotQ(v)' = GotQ(v) /\ (v = "wg0" => FreedQ' = FreedQ)
         /\ pc'[v] = pc[v]
<1>1. pc'[v] = pc[v] /\ tile'[v] = tile[v] /\ ki'[v] = ki[v]
  BY DEF Others, Actors
<1>2. TileRange(v)' = TileRange(v) /\ Persistent' = Persistent
  BY <1>1, SameWork DEF TileRange
<1>3. \A kind \in Streams : Freed(v, kind)' = Freed(v, kind)
  BY <1>1 DEF Freed, In
<1>4. \A kind \in Streams : Got(v, Produces(kind))' = Got(v, Produces(kind))
  BY <1>1, <1>2, SameWork DEF Got, In
<1>5. Gave(v)' = Gave(v) /\ Asked(v)' = Asked(v) /\ Took(v)' = Took(v)
  BY <1>1 DEF Gave, Asked, Took, In
<1>6. GotQ(v)' = GotQ(v) /\ (v = "wg0" => FreedQ' = FreedQ)
  BY <1>1, <1>2 DEF GotQ, FreedQ, In
<1> QED BY <1>1, <1>3, <1>4, <1>5, <1>6

\* ... and those of the Q warp.
LEMMA QFrame ==
  ASSUME pc'["q"] = pc["q"], tile'["q"] = tile["q"]
  PROVE  LoadedQ' = LoadedQ /\ SyncedQ' = SyncedQ
BY DEF LoadedQ, SyncedQ, In

\* All actors are where they were but a.
LEMMA PlacesStep ==
  ASSUME Types, Places, UNCHANGED work, NEW a \in WGs \cup {"kv"}, Others(a), Place(a)'
  PROVE  Places'
<1>1. \A b \in (WGs \cup {"kv"}) \ {a} : Place(b)'
  <2> SUFFICES ASSUME NEW b \in (WGs \cup {"kv"}) \ {a} PROVE Place(b)'
    OBVIOUS
  <2> QED BY OtherPlaces DEF Places, Actors
<1>2. pc'["q"] = pc["q"] /\ tile'["q"] = tile["q"]
  BY DEF Others, Actors, WGs
<1> QED BY <1>1, <1>2, SameWork DEF Places

\* A step of the K/V warp moves nobody else.
Idle == /\ WgStep("wg0", {}, {}) /\ TurnStep("wg0", 0, 0, 0)
        /\ QStep("wg0", 0, 0, 0, 0) /\ SamePrologues

LEMMA CountTypes ==
  ASSUME SplitInRange, Types, Places
  PROVE  /\ \A w \in WGs : Before(w) \in Nat /\ GotQ(w) \in Nat
         /\ \A w \in WGs : Gave(w) \in Nat /\ Asked(w) \in Nat /\ Took(w) \in Int
         /\ \A w \in WGs, kind \in Streams :
              Freed(w, kind) \in Nat /\ Got(w, Produces(kind)) \in Nat
         /\ \A kind \in Streams : Loaded(kind) \in Nat /\ Synced(kind) \in Nat
         /\ FreedQ \in Nat /\ LoadedQ \in Nat /\ SyncedQ \in Nat /\ IssuedQ \in Nat
<1>1. \A a \in WGs \cup {"kv"} : Before(a) \in Nat
  BY Whereabouts DEF Places
<1>2. \A a \in Actors : tile[a] \in Nat \ {0}
  BY Work DEF Types, PositionTypes
<1>3. \A a, S : In(a, S) \in {0, 1}
  BY DEF In
<1>4. WGs \subseteq Actors /\ "q" \in Actors /\ "wg0" \in WGs
  BY DEF Actors, WGs
<1>5. \A w \in WGs : GotQ(w) \in Nat
  BY <1>2, <1>3, <1>4 DEF GotQ
<1>6. \A w \in WGs : Gave(w) \in Nat /\ Asked(w) \in Nat /\ Took(w) \in Int
  BY <1>1, <1>2, <1>3, <1>4 DEF Gave, Asked, Took
<1>7. \A w \in WGs, kind \in Streams :
        Freed(w, kind) \in Nat /\ Got(w, Produces(kind)) \in Nat
  BY <1>1, <1>3 DEF Freed, Got
<1>8. \A kind \in Streams : Loaded(kind) \in Nat /\ Synced(kind) \in Nat
  BY <1>1, <1>3 DEF Loaded, Synced
<1>9. FreedQ \in Nat /\ LoadedQ \in Nat /\ SyncedQ \in Nat /\ IssuedQ \in Nat
  BY <1>2, <1>3, <1>4 DEF FreedQ, LoadedQ, SyncedQ, IssuedQ
<1> QED BY <1>1, <1>5, <1>6, <1>7, <1>8, <1>9

LEMMA KvIdle ==
  ASSUME SplitInRange, Types, Places, UNCHANGED work, Others("kv"),
         \A w \in WGs : Before(w)' = Before(w)
  PROVE  Idle
<1>1. \A w \in WGs : w \in WGs \ {"kv"} /\ "kv" \in Actors
  BY DEF WGs, Actors
<1>2. \A w \in WGs :
        /\ \A kind \in Streams : /\ Freed(w, kind)' = Freed(w, kind)
                                 /\ Got(w, Produces(kind))' = Got(w, Produces(kind))
        /\ Gave(w)' = Gave(w) /\ Asked(w)' = Asked(w) /\ Took(w)' = Took(w)
        /\ GotQ(w)' = GotQ(w) /\ (w = "wg0" => FreedQ' = FreedQ)
        /\ pc'[w] = pc[w]
  BY <1>1, WgFrame
<1>3. LoadedQ' = LoadedQ /\ SyncedQ' = SyncedQ
  BY QFrame DEF Others, Actors
<1> QED BY <1>2, <1>3, CountTypes
        DEF Idle, WgStep, TurnStep, QStep, SamePrologues, One, WGs

\* Where a step within a tile may lead.
LEMMA StepPlace ==
  ASSUME SplitInRange, Types, UNCHANGED work, NEW a \in WGs \cup {"kv"}, Place(a),
         NEW to, pc'[a] = to, tile' = tile, ki' = ki, prev' = prev,
         pc[a] # "done", to \notin {"done", "prologue", "await"},
         to \in InBlock => pc[a] \in InBlock \/ Looping(a),
         to \in {"mask", "mask_read", "sync_mask", "load_mask"} => Mask # "none",
         to = "free_q" => Persistent,
         to = "first_turn" => pc[a] = "await",
         to = "loop" => pc[a] \in {"await", "first_turn"},
         to \in {"free_q", "output"} => Looped(a) \/ pc[a] = "free_q"
  PROVE  Place(a)'
<1> DEFINE r == TileRange(a)
<1>1. /\ a \in Actors /\ ki[a] \in Nat /\ tile[a] \in 1..Tiles
      /\ prev[a] = Prior[tile[a]]
  BY Whereabouts DEF Types, PositionTypes, Actors
<1>2. /\ r.lb \in Nat /\ r.ub \in Nat /\ Tiles \in Nat
  BY <1>1, Work DEF TileRange
<1>3. /\ r' = r /\ Prior' = Prior /\ Tiles' = Tiles /\ Mask' = Mask
      /\ Persistent' = Persistent /\ FirstKi(a, r)' = FirstKi(a, r)
  <2>1. range' = range /\ launch' = launch
    BY DEF work
  <2>2. r' = r
    BY <2>1 DEF TileRange
  <2> QED BY <2>1, <2>2, SameWork DEF FirstKi, LoopStart
<1>4. to \in InBlock => r.lb =< ki[a] /\ ki[a] < r.ub
  <2>1. pc[a] \in InBlock \/ Looping(a) => ki[a] \in r.lb..r.ub - 1
    BY Whereabouts
  <2> QED BY <1>1, <1>2, <2>1
<1>5. to = "first_turn" => ki[a] = FirstKi(a, r)
  BY DEF Place
<1>6. to = "loop" => \/ r.lb =< ki[a] /\ ki[a] =< r.ub
                     \/ r.ub =< r.lb /\ r.ub =< ki[a] /\ ki[a] =< r.lb
  <2>1. to = "loop" => ki[a] = FirstKi(a, r)
    BY DEF Place
  <2>2. FirstKi(a, r) = r.lb \/ (r.ub < r.lb /\ FirstKi(a, r) = r.ub)
    BY <1>1, LoopStarts DEF TileRange
  <2> QED BY <1>1, <1>2, <2>1, <2>2
<1>7. to \in {"free_q", "output"} =>
        \/ r.lb =< ki[a] /\ ki[a] = r.ub
        \/ r.ub =< r.lb /\ r.ub =< ki[a] /\ ki[a] =< r.lb
  BY <1>1, <1>2 DEF Place, Looped
<1> HIDE DEF r
<1>8. /\ prev'[a] = Prior'[tile'[a]] /\ pc'[a] # "done"
      /\ tile'[a] # Tiles' + 1 /\ pc'[a] # "prologue"
  BY <1>1, <1>2, <1>3
<1> QED BY <1>1, <1>3, <1>4, <1>5, <1>6, <1>7, <1>8 DEF Place, r

\* The end of a block.
LEMMA BlockPlace ==
  ASSUME SplitInRange, Types, UNCHANGED work, NEW a \in WGs \cup {"kv"}, Place(a),
         pc[a] \in InBlock, pc'[a] = "loop", ki'[a] = ki[a] + 1,
         tile' = tile, prev' = prev
  PROVE  Place(a)'
<1> DEFINE r == TileRange(a)
<1>1. /\ ki[a] \in r.lb..r.ub - 1 /\ tile[a] \in 1..Tiles
      /\ prev[a] = Prior[tile[a]]
  BY Whereabouts DEF InBlock, InIteration
<1>2. r.lb \in Nat /\ r.ub \in Nat /\ Tiles \in Nat
  BY <1>1, Work DEF TileRange
<1>3. r' = r /\ Prior' = Prior /\ Tiles' = Tiles
  BY SameWork DEF TileRange
<1> HIDE DEF r
<1>4. r.lb =< ki'[a] /\ ki'[a] =< r.ub
  BY <1>1, <1>2
<1>5. prev'[a] = Prior'[tile'[a]] /\ tile'[a] # Tiles' + 1
  BY <1>1, <1>2, <1>3
<1> QED BY <1>3, <1>4, <1>5 DEF Place, InBlock, InIteration, r

\* A step of the K/V warp within a tile.
LEMMA KvStepMoves ==
  ASSUME SplitInRange, Types, Places, UNCHANGED work,
         NEW from \in PCs("kv") \ {"done"},
         NEW to \in PCs("kv") \ {"done", "loop"}, Step("kv", from, to),
         from # "loop" \/ Looping("kv"),
         to \in {"sync_mask", "load_mask"} => Mask # "none"
  PROVE  /\ PositionTypes' /\ Places' /\ Idle
         /\ pc["kv"] = from /\ pc'["kv"] = to
         /\ Before("kv")' = Before("kv") /\ Before("kv") \in Nat
         /\ Streams \subseteq Kinds
<1> DEFINE a == "kv"
<1>1. a \in Actors /\ a \in WGs \cup {"kv"} /\ Place(a)
  BY DEF Actors, Places
<1>2. /\ pc[a] = from /\ pc'[a] = to /\ DOMAIN pc' = Actors
      /\ tile' = tile /\ ki' = ki /\ prev' = prev /\ Others(a)
      /\ \A b \in Actors : Before(b)' = Before(b)
  BY <1>1, StepMoves
<1>3. PositionTypes'
  <2>1. Tiles' = Tiles
    BY SameWork
  <2> QED BY <1>2, <2>1 DEF Types, PositionTypes, Others
<1>4. from \in InBlock \cup {"loop"} /\ to \in InBlock
  BY DEF PCs, InBlock
<1>5. Place(a)'
  <2>1. to \notin {"done", "prologue", "await", "mask", "mask_read", "free_q",
                  "first_turn", "loop", "output"}
    BY DEF PCs
  <2>2. pc[a] \in InBlock \/ Looping(a)
    BY <1>2, <1>4
  <2> QED BY <1>1, <1>2, <2>1, <2>2, StepPlace
<1>6. Idle
  BY <1>1, <1>2, KvIdle DEF WGs, Actors
<1>7. Before(a) \in Nat /\ Streams \subseteq Kinds
  BY <1>1, Whereabouts, StreamFacts DEF Types
<1> QED BY <1>1, <1>2, <1>3, <1>5, <1>6, <1>7, PlacesStep

LEMMA SyncKMoves ==
  ASSUME SplitInRange, Types, Places, SyncK
  PROVE  PositionTypes' /\ Places' /\ Idle /\ KvStep({}, {"k", "bias"})
<1>1. /\ PositionTypes' /\ Places' /\ Idle
      /\ pc["kv"] = "loop" /\ pc'["kv"] = "load_k"
      /\ Before("kv")' = Before("kv") /\ Before("kv") \in Nat
      /\ Streams \subseteq Kinds
  BY KvStepMoves DEF SyncK, PCs
<1> QED BY <1>1 DEF KvStep, Loaded, Synced, In, One, Kinds

LEMMA LoadKMoves ==
  ASSUME SplitInRange, Types, Places, LoadK
  PROVE  PositionTypes' /\ Places' /\ Idle /\ KvStep({"k", "bias"}, {})
<1> DEFINE to == IF Mask = "none" THEN "sync_v" ELSE "sync_mask"
<1>1. /\ PositionTypes' /\ Places' /\ Idle
      /\ pc["kv"] = "load_k" /\ pc'["kv"] = to
      /\ Before("kv")' = Before("kv") /\ Before("kv") \in Nat
      /\ Streams \subseteq Kinds
  BY KvStepMoves DEF LoadK, PCs
<1>2. "mask" \in Streams <=> Mask # "none"
  BY StreamFacts DEF Types
<1> QED BY <1>1, <1>2 DEF KvStep, Loaded, Synced, In, One, Kinds

LEMMA SyncMaskMoves ==
  ASSUME SplitInRange, Types, Places, SyncMask
  PROVE  PositionTypes' /\ Places' /\ Idle /\ KvStep({}, {"mask"})
<1>1. Place("kv")
  BY DEF Places
<1>2. Mask # "none"
  BY <1>1 DEF Place, SyncMask, Step
<1>3. /\ PositionTypes' /\ Places' /\ Idle
      /\ pc["kv"] = "sync_mask" /\ pc'["kv"] = "load_mask"
      /\ Before("kv")' = Before("kv") /\ Before("kv") \in Nat
      /\ Streams \subseteq Kinds
  BY <1>2, KvStepMoves DEF SyncMask, PCs
<1> QED BY <1>3 DEF KvStep, Loaded, Synced, In, One, Kinds

LEMMA LoadMaskMoves ==
  ASSUME SplitInRange, Types, Places, LoadMask
  PROVE  PositionTypes' /\ Places' /\ Idle /\ KvStep({"mask"}, {})
<1>1. /\ PositionTypes' /\ Places' /\ Idle
      /\ pc["kv"] = "load_mask" /\ pc'["kv"] = "sync_v"
      /\ Before("kv")' = Before("kv") /\ Before("kv") \in Nat
      /\ Streams \subseteq Kinds
  BY KvStepMoves DEF LoadMask, PCs
<1> QED BY <1>1 DEF KvStep, Loaded, Synced, In, One, Kinds

LEMMA SyncVMoves ==
  ASSUME SplitInRange, Types, Places, SyncV
  PROVE  PositionTypes' /\ Places' /\ Idle /\ KvStep({}, {"v"})
<1>1. /\ PositionTypes' /\ Places' /\ Idle
      /\ pc["kv"] = "sync_v" /\ pc'["kv"] = "load_v"
      /\ Before("kv")' = Before("kv") /\ Before("kv") \in Nat
      /\ Streams \subseteq Kinds
  BY KvStepMoves DEF SyncV, PCs
<1> QED BY <1>1 DEF KvStep, Loaded, Synced, In, One, Kinds

LEMMA LoadVMoves ==
  ASSUME SplitInRange, Types, Places, LoadV
  PROVE  PositionTypes' /\ Places' /\ Idle /\ KvStep({"v"}, {})
<1> DEFINE a == "kv"
<1>1. /\ a \in Actors /\ a \in WGs \cup {"kv"} /\ Place(a) /\ UNCHANGED work
      /\ pc[a] = "load_v" /\ pc[a] \in InBlock /\ Goto(a, "loop")
      /\ ki' = [ki EXCEPT ![a] = @ + 1] /\ tile' = tile /\ prev' = prev
  BY DEF Actors, Places, LoadV, InBlock
<1>2. /\ pc'[a] = "loop" /\ DOMAIN pc' = Actors /\ ki' \in [Actors -> Nat]
      /\ ki'[a] = ki[a] + 1 /\ Others(a)
      /\ Before(a)' = Before(a) + 1
      /\ \A b \in Actors \ {a} : Before(b)' = Before(b)
  BY <1>1, BlockMoves
<1>3. PositionTypes'
  <2>1. Tiles' = Tiles
    BY <1>1, SameWork
  <2>2. \A b \in Actors : pc'[b] \in PCs(b)
    BY <1>2 DEF Types, PositionTypes, Others, PCs
  <2> QED BY <1>1, <1>2, <2>1, <2>2 DEF Types, PositionTypes
<1>4. Place(a)'
  BY <1>1, <1>2, BlockPlace
<1>5. Idle
  BY <1>1, <1>2, KvIdle DEF WGs, Actors
<1>6. Before(a) \in Nat /\ Streams \subseteq Kinds
  BY <1>1, Whereabouts, StreamFacts DEF Types
<1>7. KvStep({"v"}, {})
  BY <1>1, <1>2, <1>6 DEF KvStep, Loaded, Synced, In, One, Kinds
<1> QED BY <1>1, <1>2, <1>3, <1>4, <1>5, <1>7, PlacesStep

LEMMA KvTileDoneMoves ==
  ASSUME SplitInRange, Types, Places, KvTileDone
  PROVE  PositionTypes' /\ Places' /\ Idle /\ KvStep({}, {})
<1> DEFINE a == "kv"
<1>1. /\ a \in Actors /\ a \in WGs \cup {"kv"} /\ Place(a) /\ UNCHANGED work
      /\ Looped(a) /\ NextTile(a) /\ a \notin WGs
  BY DEF Actors, Places, KvTileDone, WGs
<1>2. /\ tile' \in [Actors -> 1..Tiles + 1]
      /\ prev' \in [Actors -> Nat] /\ ki' \in [Actors -> Nat]
      /\ DOMAIN pc' = Actors /\ pc'[a] \in {"done", "loop"} /\ Others(a)
      /\ \A b \in Actors : Before(b)' = Before(b)
      /\ Place(a)'
  BY <1>1, TileMoves
<1>3. PositionTypes'
  <2>1. Tiles' = Tiles
    BY <1>1, SameWork
  <2>2. \A b \in Actors : pc'[b] \in PCs(b)
    BY <1>2 DEF Types, PositionTypes, Others, PCs
  <2> QED BY <1>2, <2>1, <2>2 DEF PositionTypes
<1>4. Idle
  BY <1>1, <1>2, KvIdle DEF WGs, Actors
<1>5. KvStep({}, {})
  <2>1. Before(a) \in Nat /\ Streams \subseteq Kinds /\ Before(a)' = Before(a)
    BY <1>1, <1>2, Whereabouts, StreamFacts DEF Types
  <2>2. pc[a] = "loop"
    BY <1>1 DEF Looped
  <2> QED BY <1>2, <2>1, <2>2 DEF KvStep, Loaded, Synced, In, One, Kinds
<1> QED BY <1>1, <1>2, <1>3, <1>4, <1>5, PlacesStep

\* A step of a warpgroup moves its own counts only.
Own(w, F, G, gave, asked, took, got, freed) ==
  /\ \A kind \in Streams :
       /\ Freed(w, kind)' = Freed(w, kind) + One(kind \in F)
       /\ Got(w, Produces(kind))' = Got(w, Produces(kind)) + One(Produces(kind) \in G)
  /\ Gave(w)' = Gave(w) + gave /\ Asked(w)' = Asked(w) + asked
  /\ Took(w)' = Took(w) + took /\ GotQ(w)' = GotQ(w) + got
  /\ FreedQ' = FreedQ + freed

LEMMA WgAlone ==
  ASSUME SplitInRange, Types, Places, UNCHANGED work, NEW w \in WGs, Others(w),
         \A b \in Actors \ {w} : Before(b)' = Before(b),
         NEW F, NEW G, NEW gave, NEW asked, NEW took, NEW got, NEW freed,
         Own(w, F, G, gave, asked, took, got, freed)
  PROVE  /\ KvStep({}, {}) /\ WgStep(w, F, G) /\ TurnStep(w, gave, asked, took)
         /\ QStep(w, got, freed, 0, 0)
<1>1. /\ w \in Actors /\ "kv" \in Actors \ {w} /\ "q" \in Actors \ {w}
      /\ \A v \in WGs \ {w} : v \in Actors \ {w}
  BY DEF Actors, WGs
<1>2. \A kind \in Streams : Loaded(kind)' = Loaded(kind) /\ Synced(kind)' = Synced(kind)
  BY <1>1, KvFrame DEF Others, Types
<1>3. \A v \in WGs \ {w} :
        /\ \A kind \in Streams : /\ Freed(v, kind)' = Freed(v, kind)
                                 /\ Got(v, Produces(kind))' = Got(v, Produces(kind))
        /\ Gave(v)' = Gave(v) /\ Asked(v)' = Asked(v) /\ Took(v)' = Took(v)
        /\ GotQ(v)' = GotQ(v)
  BY <1>1, WgFrame
<1>4. LoadedQ' = LoadedQ /\ SyncedQ' = SyncedQ
  BY <1>1, QFrame DEF Others
<1>5. /\ \A v \in WGs : GotQ(v) \in Nat /\ Gave(v) \in Nat /\ Asked(v) \in Nat
                          /\ Took(v) \in Int
      /\ \A v \in WGs, kind \in Streams :
           Freed(v, kind) \in Nat /\ Got(v, Produces(kind)) \in Nat
      /\ \A kind \in Streams : Loaded(kind) \in Nat /\ Synced(kind) \in Nat
      /\ LoadedQ \in Nat /\ SyncedQ \in Nat
  BY CountTypes
<1>6. KvStep({}, {})
  BY <1>2, <1>5 DEF KvStep, One
<1>7. WgStep(w, F, G)
  BY <1>3, <1>5 DEF WgStep, Own, One
<1>8. TurnStep(w, gave, asked, took)
  BY <1>3, <1>5 DEF TurnStep, Own
<1>9. QStep(w, got, freed, 0, 0)
  BY <1>3, <1>4, <1>5 DEF QStep, Own
<1> QED BY <1>6, <1>7, <1>8, <1>9

\* A step of a warpgroup within a tile.
LEMMA WgStepMoves ==
  ASSUME SplitInRange, Types, Places, UNCHANGED work, NEW w \in WGs,
         NEW from \in PCs(w) \ {"done", "prologue"},
         NEW to \in PCs(w) \ {"done", "prologue", "await"}, Step(w, from, to),
         to \in InBlock => from \in InBlock \/ Looping(w),
         to \in {"mask", "mask_read"} => Mask # "none",
         to = "free_q" => Persistent,
         to = "first_turn" => from = "await",
         to = "loop" => from \in {"await", "first_turn"},
         to \in {"free_q", "output"} => Looped(w) \/ from = "free_q"
  PROVE  /\ PositionTypes' /\ Places' /\ SamePrologues
         /\ pc[w] = from /\ pc'[w] = to /\ Others(w)
         /\ tile' = tile /\ ki' = ki /\ TileRange(w)' = TileRange(w)
         /\ tile[w] \in 1..Tiles /\ tile[w] \in Nat /\ ki[w] \in Nat
         /\ TileRange(w).ub \in Nat /\ TileRange(w).lb \in Nat
         /\ \A b \in Actors : Before(b)' = Before(b)
         /\ Before(w)' = Before(w) /\ Before(w) \in Nat
         /\ Persistent' = Persistent
<1>1. w \in Actors /\ w \in WGs \cup {"kv"} /\ Place(w) /\ w \in {"wg0", "wg1"}
  BY DEF Actors, Places, WGs
<1>2. /\ pc[w] = from /\ pc'[w] = to /\ DOMAIN pc' = Actors
      /\ tile' = tile /\ ki' = ki /\ prev' = prev /\ Others(w)
      /\ \A b \in Actors : Before(b)' = Before(b)
  BY <1>1, StepMoves
<1>3. PositionTypes'
  <2>1. Tiles' = Tiles
    BY SameWork
  <2> QED BY <1>2, <2>1 DEF Types, PositionTypes, Others
<1>4. to \notin {"sync_mask", "load_mask"}
  BY <1>1 DEF PCs, InIteration
<1>5. Place(w)'
  BY <1>1, <1>2, <1>4, StepPlace
<1>6. SamePrologues
  BY <1>1, <1>2 DEF SamePrologues, Others, Actors
<1>7. /\ Before(w) \in Nat /\ tile[w] \in 1..Tiles /\ ki[w] \in Nat
  BY <1>1, <1>2, Whereabouts DEF Types, PositionTypes
<1>8. /\ tile[w] \in Nat /\ TileRange(w).ub \in Nat /\ TileRange(w).lb \in Nat
      /\ TileRange(w)' = TileRange(w) /\ Persistent' = Persistent
  BY <1>2, <1>7, Work, SameWork DEF TileRange
<1> QED BY <1>1, <1>2, <1>3, <1>5, <1>6, <1>7, <1>8, PlacesStep

LEMMA OwnFacts ==
  ASSUME SplitInRange, Types, Places
  PROVE  /\ \A kind \in Streams :
              /\ kind \in Kinds
              /\ Produces(kind) = "v" <=> kind = "v"
              /\ Produces(kind) \in {"k", "v", "mask"}
              /\ kind = "mask" => Mask # "none"
              /\ Produces(kind) = "mask" => Mask = "full"
         /\ tile["wg0"] \in Nat /\ tile["wg1"] \in Nat
<1>1. /\ \A kind \in Streams :
           /\ kind \in Kinds
           /\ Produces(kind) = "v" <=> kind = "v"
           /\ Produces(kind) \in {"k", "v", "mask"}
           /\ kind = "mask" => Mask # "none"
           /\ Produces(kind) = "mask" => Mask = "full"
  <2>1. WorkTypes
    BY DEF Types
  <2> QED BY <2>1, StreamFacts DEF Kinds
<1>2. /\ tile["wg0"] \in 1..Tiles + 1 /\ tile["wg1"] \in 1..Tiles + 1
  BY DEF Types, PositionTypes, Actors, WGs
<1>3. Tiles \in Nat
  BY Work
<1>4. tile["wg0"] \in Nat /\ tile["wg1"] \in Nat
  BY <1>2, <1>3
<1> QED BY <1>1, <1>4

LEMMA IssueQKMoves ==
  ASSUME SplitInRange, Types, Places, NEW w \in WGs, IssueQK(w)
  PROVE  /\ PositionTypes' /\ Places' /\ SamePrologues /\ KvStep({}, {})
         /\ WgStep(w, {}, {}) /\ TurnStep(w, 0, 0, 0) /\ QStep(w, 0, 0, 0, 0)
<1>1. /\ PositionTypes' /\ Places' /\ SamePrologues
      /\ pc[w] = "loop" /\ pc'[w] = "qk_issued" /\ Others(w)
      /\ tile' = tile /\ ki' = ki /\ TileRange(w)' = TileRange(w)
      /\ \A b \in Actors : Before(b)' = Before(b)
      /\ Before(w)' = Before(w) /\ Before(w) \in Nat
      /\ Persistent' = Persistent /\ UNCHANGED work
  BY WgStepMoves DEF IssueQK, PCs, InBlock, InIteration, WGs
<1>2. w \in {"wg0", "wg1"} /\ tile["wg0"] \in Nat /\ tile["wg1"] \in Nat
  BY OwnFacts DEF WGs
<1>3. ASSUME NEW kind \in Streams
      PROVE  /\ Freed(w, kind)' = Freed(w, kind) + One(kind \in {})
             /\ Got(w, Produces(kind))' = Got(w, Produces(kind)) + One(Produces(kind) \in {})
  <2>1. /\ kind \in Kinds /\ Produces(kind) \in {"k", "v", "mask"}
        /\ kind = "mask" => Mask # "none"
        /\ Produces(kind) = "mask" => Mask = "full"
        /\ Produces(kind)' = Produces(kind)
    BY <1>1, OwnFacts, SameWork
  <2> QED BY <1>1, <2>1 DEF Freed, Got, In, One, FirstHalf, Kinds
<1>4. /\ Gave(w)' = Gave(w) + 0 /\ Asked(w)' = Asked(w) + 0
      /\ Took(w)' = Took(w) + 0
  BY <1>1, <1>2 DEF Gave, Asked, Took, In, PastQK
<1>5. GotQ(w)' = GotQ(w) + 0 /\ FreedQ' = FreedQ + 0
  <2>1. pc'["wg0"] = pc["wg0"] \/ w = "wg0"
    BY <1>1, <1>2 DEF Others, Actors, WGs
  <2> QED BY <1>1, <1>2, <2>1 DEF GotQ, FreedQ, In
<1>6. Own(w, {}, {}, 0, 0, 0, 0, 0)
  BY <1>3, <1>4, <1>5 DEF Own
<1> QED BY <1>1, <1>6, WgAlone

LEMMA PassTurnMoves ==
  ASSUME SplitInRange, Types, Places, NEW w \in WGs, PassTurn(w)
  PROVE  /\ PositionTypes' /\ Places' /\ SamePrologues /\ KvStep({}, {})
         /\ WgStep(w, {}, {}) /\ TurnStep(w, 1, 0, 0) /\ QStep(w, 0, 0, 0, 0)
<1>1. /\ PositionTypes' /\ Places' /\ SamePrologues
      /\ pc[w] = "qk_issued" /\ pc'[w] = "qk_passed" /\ Others(w)
      /\ tile' = tile /\ ki' = ki /\ TileRange(w)' = TileRange(w)
      /\ \A b \in Actors : Before(b)' = Before(b)
      /\ Before(w)' = Before(w) /\ Before(w) \in Nat
      /\ Persistent' = Persistent /\ UNCHANGED work
  BY WgStepMoves DEF PassTurn, PCs, InBlock, InIteration, WGs
<1>2. w \in {"wg0", "wg1"} /\ tile["wg0"] \in Nat /\ tile["wg1"] \in Nat
  BY OwnFacts DEF WGs
<1>3. ASSUME NEW kind \in Streams
      PROVE  /\ Freed(w, kind)' = Freed(w, kind) + One(kind \in {})
             /\ Got(w, Produces(kind))' = Got(w, Produces(kind)) + One(Produces(kind) \in {})
  <2>1. /\ kind \in Kinds /\ Produces(kind) \in {"k", "v", "mask"}
        /\ kind = "mask" => Mask # "none"
        /\ Produces(kind) = "mask" => Mask = "full"
        /\ Produces(kind)' = Produces(kind)
    BY <1>1, OwnFacts, SameWork
  <2> QED BY <1>1, <2>1 DEF Freed, Got, In, One, FirstHalf, Kinds
<1>4. /\ Gave(w)' = Gave(w) + 1 /\ Asked(w)' = Asked(w) + 0
      /\ Took(w)' = Took(w) + 0
  BY <1>1, <1>2 DEF Gave, Asked, Took, In, PastQK
<1>5. GotQ(w)' = GotQ(w) + 0 /\ FreedQ' = FreedQ + 0
  <2>1. pc'["wg0"] = pc["wg0"] \/ w = "wg0"
    BY <1>1, <1>2 DEF Others, Actors, WGs
  <2> QED BY <1>1, <1>2, <2>1 DEF GotQ, FreedQ, In
<1>6. Own(w, {}, {}, 1, 0, 0, 0, 0)
  BY <1>3, <1>4, <1>5 DEF Own
<1> QED BY <1>1, <1>6, WgAlone

LEMMA FinishQKMoves ==
  ASSUME SplitInRange, Types, Places, NEW w \in WGs, FinishQK(w)
  PROVE  /\ PositionTypes' /\ Places' /\ SamePrologues /\ KvStep({}, {})
         /\ WgStep(w, {"k", "bias"}, {}) /\ TurnStep(w, 0, 0, 0) /\ QStep(w, 0, 0, 0, 0)
<1> DEFINE to == IF Mask = "none" THEN "softmax" ELSE "mask"
<1>1. /\ PositionTypes' /\ Places' /\ SamePrologues
      /\ pc[w] = "qk_passed" /\ pc'[w] = to /\ Others(w)
      /\ tile' = tile /\ ki' = ki /\ TileRange(w)' = TileRange(w)
      /\ \A b \in Actors : Before(b)' = Before(b)
      /\ Before(w)' = Before(w) /\ Before(w) \in Nat
      /\ Persistent' = Persistent /\ UNCHANGED work
  BY WgStepMoves DEF FinishQK, PCs, InBlock, InIteration, WGs
<1>2. w \in {"wg0", "wg1"} /\ tile["wg0"] \in Nat /\ tile["wg1"] \in Nat
  BY OwnFacts DEF WGs
<1>3. ASSUME NEW kind \in Streams
      PROVE  /\ Freed(w, kind)' = Freed(w, kind) + One(kind \in {"k", "bias"})
             /\ Got(w, Produces(kind))' = Got(w, Produces(kind)) + One(Produces(kind) \in {})
  <2>1. /\ kind \in Kinds /\ Produces(kind) \in {"k", "v", "mask"}
        /\ kind = "mask" => Mask # "none"
        /\ Produces(kind) = "mask" => Mask = "full"
        /\ Produces(kind)' = Produces(kind)
    BY <1>1, OwnFacts, SameWork
  <2> QED BY <1>1, <2>1 DEF Freed, Got, In, One, FirstHalf, Kinds
<1>4. /\ Gave(w)' = Gave(w) + 0 /\ Asked(w)' = Asked(w) + 0
      /\ Took(w)' = Took(w) + 0
  BY <1>1, <1>2 DEF Gave, Asked, Took, In, PastQK
<1>5. GotQ(w)' = GotQ(w) + 0 /\ FreedQ' = FreedQ + 0
  <2>1. pc'["wg0"] = pc["wg0"] \/ w = "wg0"
    BY <1>1, <1>2 DEF Others, Actors, WGs
  <2> QED BY <1>1, <1>2, <2>1 DEF GotQ, FreedQ, In
<1>6. Own(w, {"k", "bias"}, {}, 0, 0, 0, 0, 0)
  BY <1>3, <1>4, <1>5 DEF Own
<1> QED BY <1>1, <1>6, WgAlone

LEMMA ReadMaskMoves ==
  ASSUME SplitInRange, Types, Places, NEW w \in WGs, ReadMask(w)
  PROVE  /\ PositionTypes' /\ Places' /\ SamePrologues /\ KvStep({}, {})
         /\ WgStep(w, {}, {"mask"}) /\ TurnStep(w, 0, 0, 0) /\ QStep(w, 0, 0, 0, 0)
<1>0. Mask # "none"
  BY DEF Places, Place, ReadMask, Step
<1>1. /\ PositionTypes' /\ Places' /\ SamePrologues
      /\ pc[w] = "mask" /\ pc'[w] = "mask_read" /\ Others(w)
      /\ tile' = tile /\ ki' = ki /\ TileRange(w)' = TileRange(w)
      /\ \A b \in Actors : Before(b)' = Before(b)
      /\ Before(w)' = Before(w) /\ Before(w) \in Nat
      /\ Persistent' = Persistent /\ UNCHANGED work
  BY <1>0, WgStepMoves DEF ReadMask, PCs, InBlock, InIteration, WGs
<1>2. w \in {"wg0", "wg1"} /\ tile["wg0"] \in Nat /\ tile["wg1"] \in Nat
  BY <1>0, OwnFacts DEF WGs
<1>3. ASSUME NEW kind \in Streams
      PROVE  /\ Freed(w, kind)' = Freed(w, kind) + One(kind \in {})
             /\ Got(w, Produces(kind))' = Got(w, Produces(kind)) + One(Produces(kind) \in {"mask"})
  <2>1. /\ kind \in Kinds /\ Produces(kind) \in {"k", "v", "mask"}
        /\ kind = "mask" => Mask # "none"
        /\ Produces(kind) = "mask" => Mask = "full"
        /\ Produces(kind)' = Produces(kind)
    BY <1>1, OwnFacts, SameWork
  <2> QED BY <1>1, <2>1 DEF Freed, Got, In, One, FirstHalf, Kinds
<1>4. /\ Gave(w)' = Gave(w) + 0 /\ Asked(w)' = Asked(w) + 0
      /\ Took(w)' = Took(w) + 0
  BY <1>1, <1>2 DEF Gave, Asked, Took, In, PastQK
<1>5. GotQ(w)' = GotQ(w) + 0 /\ FreedQ' = FreedQ + 0
  <2>1. pc'["wg0"] = pc["wg0"] \/ w = "wg0"
    BY <1>1, <1>2 DEF Others, Actors, WGs
  <2> QED BY <1>1, <1>2, <2>1 DEF GotQ, FreedQ, In
<1>6. Own(w, {}, {"mask"}, 0, 0, 0, 0, 0)
  BY <1>3, <1>4, <1>5 DEF Own
<1> QED BY <1>1, <1>6, WgAlone

LEMMA FreeMaskMoves ==
  ASSUME SplitInRange, Types, Places, NEW w \in WGs, FreeMask(w)
  PROVE  /\ PositionTypes' /\ Places' /\ SamePrologues /\ KvStep({}, {})
         /\ WgStep(w, {"mask"}, {}) /\ TurnStep(w, 0, 0, 0) /\ QStep(w, 0, 0, 0, 0)
<1>1. /\ PositionTypes' /\ Places' /\ SamePrologues
      /\ pc[w] = "mask_read" /\ pc'[w] = "softmax" /\ Others(w)
      /\ tile' = tile /\ ki' = ki /\ TileRange(w)' = TileRange(w)
      /\ \A b \in Actors : Before(b)' = Before(b)
      /\ Before(w)' = Before(w) /\ Before(w) \in Nat
      /\ Persistent' = Persistent /\ UNCHANGED work
  BY WgStepMoves DEF FreeMask, PCs, InBlock, InIteration, WGs
<1>2. w \in {"wg0", "wg1"} /\ tile["wg0"] \in Nat /\ tile["wg1"] \in Nat
  BY OwnFacts DEF WGs
<1>3. ASSUME NEW kind \in Streams
      PROVE  /\ Freed(w, kind)' = Freed(w, kind) + One(kind \in {"mask"})
             /\ Got(w, Produces(kind))' = Got(w, Produces(kind)) + One(Produces(kind) \in {})
  <2>1. /\ kind \in Kinds /\ Produces(kind) \in {"k", "v", "mask"}
        /\ kind = "mask" => Mask # "none"
        /\ Produces(kind) = "mask" => Mask = "full"
        /\ Produces(kind)' = Produces(kind)
    BY <1>1, OwnFacts, SameWork
  <2> QED BY <1>1, <2>1 DEF Freed, Got, In, One, FirstHalf, Kinds
<1>4. /\ Gave(w)' = Gave(w) + 0 /\ Asked(w)' = Asked(w) + 0
      /\ Took(w)' = Took(w) + 0
  BY <1>1, <1>2 DEF Gave, Asked, Took, In, PastQK
<1>5. GotQ(w)' = GotQ(w) + 0 /\ FreedQ' = FreedQ + 0
  <2>1. pc'["wg0"] = pc["wg0"] \/ w = "wg0"
    BY <1>1, <1>2 DEF Others, Actors, WGs
  <2> QED BY <1>1, <1>2, <2>1 DEF GotQ, FreedQ, In
<1>6. Own(w, {"mask"}, {}, 0, 0, 0, 0, 0)
  BY <1>3, <1>4, <1>5 DEF Own
<1> QED BY <1>1, <1>6, WgAlone

LEMMA AwaitVMoves ==
  ASSUME SplitInRange, Types, Places, NEW w \in WGs, AwaitV(w)
  PROVE  /\ PositionTypes' /\ Places' /\ SamePrologues /\ KvStep({}, {})
         /\ WgStep(w, {}, {"v"}) /\ TurnStep(w, 0, 1, 0) /\ QStep(w, 0, 0, 0, 0)
<1>1. /\ PositionTypes' /\ Places' /\ SamePrologues
      /\ pc[w] = "softmax" /\ pc'[w] = "turn" /\ Others(w)
      /\ tile' = tile /\ ki' = ki /\ TileRange(w)' = TileRange(w)
      /\ \A b \in Actors : Before(b)' = Before(b)
      /\ Before(w)' = Before(w) /\ Before(w) \in Nat
      /\ Persistent' = Persistent /\ UNCHANGED work
  BY WgStepMoves DEF AwaitV, PCs, InBlock, InIteration, WGs
<1>2. w \in {"wg0", "wg1"} /\ tile["wg0"] \in Nat /\ tile["wg1"] \in Nat
  BY OwnFacts DEF WGs
<1>3. ASSUME NEW kind \in Streams
      PROVE  /\ Freed(w, kind)' = Freed(w, kind) + One(kind \in {})
             /\ Got(w, Produces(kind))' = Got(w, Produces(kind)) + One(Produces(kind) \in {"v"})
  <2>1. /\ kind \in Kinds /\ Produces(kind) \in {"k", "v", "mask"}
        /\ kind = "mask" => Mask # "none"
        /\ Produces(kind) = "mask" => Mask = "full"
        /\ Produces(kind)' = Produces(kind)
    BY <1>1, OwnFacts, SameWork
  <2> QED BY <1>1, <2>1 DEF Freed, Got, In, One, FirstHalf, Kinds
<1>4. /\ Gave(w)' = Gave(w) + 0 /\ Asked(w)' = Asked(w) + 1
      /\ Took(w)' = Took(w) + 0
  BY <1>1, <1>2 DEF Gave, Asked, Took, In, PastQK
<1>5. GotQ(w)' = GotQ(w) + 0 /\ FreedQ' = FreedQ + 0
  <2>1. pc'["wg0"] = pc["wg0"] \/ w = "wg0"
    BY <1>1, <1>2 DEF Others, Actors, WGs
  <2> QED BY <1>1, <1>2, <2>1 DEF GotQ, FreedQ, In
<1>6. Own(w, {}, {"v"}, 0, 1, 0, 0, 0)
  BY <1>3, <1>4, <1>5 DEF Own
<1> QED BY <1>1, <1>6, WgAlone

LEMMA IssuePVMoves ==
  ASSUME SplitInRange, Types, Places, NEW w \in WGs, IssuePV(w)
  PROVE  /\ PositionTypes' /\ Places' /\ SamePrologues /\ KvStep({}, {})
         /\ WgStep(w, {}, {}) /\ TurnStep(w, 0, 0, 1) /\ QStep(w, 0, 0, 0, 0)
<1>1. /\ PositionTypes' /\ Places' /\ SamePrologues
      /\ pc[w] = "turn" /\ pc'[w] = "pv" /\ Others(w)
      /\ tile' = tile /\ ki' = ki /\ TileRange(w)' = TileRange(w)
      /\ \A b \in Actors : Before(b)' = Before(b)
      /\ Before(w)' = Before(w) /\ Before(w) \in Nat
      /\ Persistent' = Persistent /\ UNCHANGED work
  BY WgStepMoves DEF IssuePV, PCs, InBlock, InIteration, WGs
<1>2. w \in {"wg0", "wg1"} /\ tile["wg0"] \in Nat /\ tile["wg1"] \in Nat
  BY OwnFacts DEF WGs
<1>3. ASSUME NEW kind \in Streams
      PROVE  /\ Freed(w, kind)' = Freed(w, kind) + One(kind \in {})
             /\ Got(w, Produces(kind))' = Got(w, Produces(kind)) + One(Produces(kind) \in {})
  <2>1. /\ kind \in Kinds /\ Produces(kind) \in {"k", "v", "mask"}
        /\ kind = "mask" => Mask # "none"
        /\ Produces(kind) = "mask" => Mask = "full"
        /\ Produces(kind)' = Produces(kind)
    BY <1>1, OwnFacts, SameWork
  <2> QED BY <1>1, <2>1 DEF Freed, Got, In, One, FirstHalf, Kinds
<1>4. /\ Gave(w)' = Gave(w) + 0 /\ Asked(w)' = Asked(w) + 0
      /\ Took(w)' = Took(w) + 1
  BY <1>1, <1>2 DEF Gave, Asked, Took, In, PastQK
<1>5. GotQ(w)' = GotQ(w) + 0 /\ FreedQ' = FreedQ + 0
  <2>1. pc'["wg0"] = pc["wg0"] \/ w = "wg0"
    BY <1>1, <1>2 DEF Others, Actors, WGs
  <2> QED BY <1>1, <1>2, <2>1 DEF GotQ, FreedQ, In
<1>6. Own(w, {}, {}, 0, 0, 1, 0, 0)
  BY <1>3, <1>4, <1>5 DEF Own
<1> QED BY <1>1, <1>6, WgAlone

LEMMA FirstTurnMoves ==
  ASSUME SplitInRange, Types, Places, NEW w \in WGs, FirstTurn(w)
  PROVE  /\ PositionTypes' /\ Places' /\ SamePrologues /\ KvStep({}, {})
         /\ WgStep(w, {}, {}) /\ TurnStep(w, 0, 0, 1) /\ QStep(w, 0, 0, 0, 0)
<1>0. w = "wg1"
  BY DEF Types, PositionTypes, PCs, InIteration, FirstTurn, Step, WGs, Actors
<1>1. /\ PositionTypes' /\ Places' /\ SamePrologues
      /\ pc[w] = "first_turn" /\ pc'[w] = "loop" /\ Others(w)
      /\ tile' = tile /\ ki' = ki /\ TileRange(w)' = TileRange(w)
      /\ \A b \in Actors : Before(b)' = Before(b)
      /\ Before(w)' = Before(w) /\ Before(w) \in Nat
      /\ Persistent' = Persistent /\ UNCHANGED work
  BY <1>0, WgStepMoves DEF FirstTurn, PCs, InBlock, InIteration, WGs
<1>2. w = "wg1" /\ w \in {"wg0", "wg1"} /\ tile["wg0"] \in Nat /\ tile["wg1"] \in Nat
  BY <1>0, OwnFacts DEF WGs
<1>3. ASSUME NEW kind \in Streams
      PROVE  /\ Freed(w, kind)' = Freed(w, kind) + One(kind \in {})
             /\ Got(w, Produces(kind))' = Got(w, Produces(kind)) + One(Produces(kind) \in {})
  <2>1. /\ kind \in Kinds /\ Produces(kind) \in {"k", "v", "mask"}
        /\ kind = "mask" => Mask # "none"
        /\ Produces(kind) = "mask" => Mask = "full"
        /\ Produces(kind)' = Produces(kind)
    BY <1>1, OwnFacts, SameWork
  <2> QED BY <1>1, <2>1 DEF Freed, Got, In, One, FirstHalf, Kinds
<1>4. /\ Gave(w)' = Gave(w) + 0 /\ Asked(w)' = Asked(w) + 0
      /\ Took(w)' = Took(w) + 1
  BY <1>1, <1>2 DEF Gave, Asked, Took, In, PastQK
<1>5. GotQ(w)' = GotQ(w) + 0 /\ FreedQ' = FreedQ + 0
  <2>1. pc'["wg0"] = pc["wg0"] \/ w = "wg0"
    BY <1>1, <1>2 DEF Others, Actors, WGs
  <2> QED BY <1>1, <1>2, <2>1 DEF GotQ, FreedQ, In
<1>6. Own(w, {}, {}, 0, 0, 1, 0, 0)
  BY <1>3, <1>4, <1>5 DEF Own
<1> QED BY <1>1, <1>6, WgAlone

LEMMA FreeQMoves ==
  ASSUME SplitInRange, Types, Places, NEW w \in WGs, FreeQ(w)
  PROVE  /\ PositionTypes' /\ Places' /\ SamePrologues /\ KvStep({}, {})
         /\ WgStep(w, {}, {}) /\ TurnStep(w, 0, 0, 0) /\ QStep(w, 0, 1, 0, 0)
         /\ w = "wg0" /\ Persistent
<1>0. w = "wg0" /\ Persistent
  BY DEF Types, PositionTypes, PCs, InIteration, FreeQ, Step, WGs, Actors, Places, Place
<1>1. /\ PositionTypes' /\ Places' /\ SamePrologues
      /\ pc[w] = "free_q" /\ pc'[w] = "output" /\ Others(w)
      /\ tile' = tile /\ ki' = ki /\ TileRange(w)' = TileRange(w)
      /\ \A b \in Actors : Before(b)' = Before(b)
      /\ Before(w)' = Before(w) /\ Before(w) \in Nat
      /\ Persistent' = Persistent /\ UNCHANGED work
  BY <1>0, WgStepMoves DEF FreeQ, PCs, InBlock, InIteration, WGs
<1>2. tile["wg0"] \in Nat
  BY OwnFacts
<1>3. ASSUME NEW kind \in Streams
      PROVE  /\ Freed(w, kind)' = Freed(w, kind) + One(kind \in {})
             /\ Got(w, Produces(kind))' = Got(w, Produces(kind)) + One(Produces(kind) \in {})
  <2>1. Produces(kind)' = Produces(kind)
    BY <1>1, SameWork
  <2> QED BY <1>1, <2>1 DEF Freed, Got, In, One, FirstHalf
<1>4. /\ Gave(w)' = Gave(w) + 0 /\ Asked(w)' = Asked(w) + 0
      /\ Took(w)' = Took(w) + 0
  BY <1>0, <1>1, <1>2 DEF Gave, Asked, Took, In, PastQK
<1>5. GotQ(w)' = GotQ(w) + 0 /\ FreedQ' = FreedQ + 1
  BY <1>0, <1>1, <1>2 DEF GotQ, FreedQ, In
<1>6. Own(w, {}, {}, 0, 0, 0, 0, 1)
  BY <1>3, <1>4, <1>5 DEF Own
<1> QED BY <1>0, <1>1, <1>6, WgAlone

LEMMA FinishMoves ==
  ASSUME SplitInRange, Types, Places, NEW w \in WGs, Finish(w)
  PROVE  /\ PositionTypes' /\ Places' /\ SamePrologues /\ KvStep({}, {})
         /\ WgStep(w, {}, {}) /\ QStep(w, 0, 0, 0, 0)
         /\ TurnStep(w, IF w = "wg0" THEN 1 ELSE 0, 0, 0)
<1> DEFINE to == IF Persistent /\ w = "wg0" THEN "free_q" ELSE "output"
           gave == IF w = "wg0" THEN 1 ELSE 0
<1>1. /\ PositionTypes' /\ Places' /\ SamePrologues
      /\ pc[w] = "loop" /\ pc'[w] = to /\ Others(w)
      /\ tile' = tile /\ ki' = ki /\ TileRange(w)' = TileRange(w)
      /\ ki[w] \in Nat /\ TileRange(w).ub \in Nat
      /\ \A b \in Actors : Before(b)' = Before(b)
      /\ Before(w)' = Before(w) /\ Before(w) \in Nat
      /\ Persistent' = Persistent /\ UNCHANGED work
  BY WgStepMoves DEF Finish, PCs, InBlock, InIteration, WGs
<1>2. w \in {"wg0", "wg1"} /\ tile["wg0"] \in Nat /\ tile["wg1"] \in Nat
  BY OwnFacts DEF WGs
<1>3. ASSUME NEW kind \in Streams
      PROVE  /\ Freed(w, kind)' = Freed(w, kind) + One(kind \in {})
             /\ Got(w, Produces(kind))' = Got(w, Produces(kind)) + One(Produces(kind) \in {})
  <2>1. Produces(kind)' = Produces(kind)
    BY <1>1, SameWork
  <2>2. ki[w] >= TileRange(w).ub
    BY DEF Finish, Looped
  <2> QED BY <1>1, <2>1, <2>2 DEF Freed, Got, In, One, FirstHalf
<1>4. /\ Gave(w)' = Gave(w) + gave /\ Asked(w)' = Asked(w) + 0
      /\ Took(w)' = Took(w) + 0
  BY <1>1, <1>2 DEF Gave, Asked, Took, In, PastQK
<1>5. GotQ(w)' = GotQ(w) + 0 /\ FreedQ' = FreedQ + 0
  <2>1. pc'["wg0"] = pc["wg0"] \/ w = "wg0"
    BY <1>1, <1>2 DEF Others, Actors, WGs
  <2> QED BY <1>1, <1>2, <2>1 DEF GotQ, FreedQ, In
<1>6. Own(w, {}, {}, gave, 0, 0, 0, 0)
  BY <1>3, <1>4, <1>5 DEF Own
<1> QED BY <1>1, <1>6, WgAlone

\* Before its first block of a tile a warpgroup waits for Q, and for K if there
\* is a block.
LEMMA AwaitMoves ==
  ASSUME SplitInRange, Types, Places, NEW w \in WGs, Await(w)
  PROVE  LET r == TileRange(w)
             G == IF r.ub > r.lb THEN {"k"} ELSE {} IN
         /\ PositionTypes' /\ Places' /\ SamePrologues /\ KvStep({}, {})
         /\ WgStep(w, {}, G)
         /\ TurnStep(w, 0, IF w = "wg1" THEN 1 ELSE 0, 0) /\ QStep(w, 1, 0, 0, 0)
         /\ pc[w] = "await" /\ r.ub \in Nat /\ r.lb \in Nat
         /\ prev[w] \in Nat /\ Before(w) = prev[w]
         /\ (r.ub > r.lb => prev[w] = Got(w, "k"))
<1> DEFINE r == TileRange(w)
           G == IF r.ub > r.lb THEN {"k"} ELSE {}
           to == IF w = "wg1" THEN "first_turn" ELSE "loop"
           asked == IF w = "wg1" THEN 1 ELSE 0
<1>1. /\ PositionTypes' /\ Places' /\ SamePrologues
      /\ pc[w] = "await" /\ pc'[w] = to /\ Others(w)
      /\ tile' = tile /\ ki' = ki /\ r' = r
      /\ tile[w] \in 1..Tiles /\ ki[w] \in Nat /\ r.ub \in Nat /\ r.lb \in Nat
      /\ \A b \in Actors : Before(b)' = Before(b)
      /\ Before(w)' = Before(w) /\ Before(w) \in Nat
      /\ Persistent' = Persistent /\ UNCHANGED work
  <2>1. Step(w, "await", to) /\ UNCHANGED work
    BY DEF Await
  <2> QED BY <2>1, WgStepMoves DEF PCs, InBlock, InIteration, WGs
<1>2. w \in {"wg0", "wg1"} /\ tile["wg0"] \in Nat /\ tile["wg1"] \in Nat
  BY OwnFacts DEF WGs
<1>3. ki[w] < r.ub <=> r.ub > r.lb
  <2>1. ki[w] = FirstKi(w, r)
    BY <1>1 DEF Places, Place
  <2>2. FirstKi(w, r) = r.lb \/ (r.ub < r.lb /\ FirstKi(w, r) = r.ub)
    BY <1>1, LoopStarts DEF TileRange, Types
  <2> QED BY <1>1, <2>1, <2>2
<1>4. Before(w) = prev[w]
  <2>1. Place(w)
    BY DEF Places
  <2> QED BY <1>1, <2>1, Whereabouts
<1> HIDE DEF r
<1>5. ASSUME NEW kind \in Streams
      PROVE  /\ Freed(w, kind)' = Freed(w, kind) + One(kind \in {})
             /\ Got(w, Produces(kind))' = Got(w, Produces(kind)) + One(Produces(kind) \in G)
  <2>1. Produces(kind)' = Produces(kind) /\ Produces(kind) \in {"k", "v", "mask"}
    BY <1>1, SameWork, OwnFacts
  <2>2. Freed(w, kind)' = Freed(w, kind) + One(kind \in {})
    BY <1>1 DEF Freed, In, One
  <2>3. CASE Produces(kind) = "k"
    <3>1. Got(w, "k") = Before(w)
      BY <1>1 DEF Got, FirstHalf
    <3>2. Got(w, "k")' = IF ki[w] < r.ub THEN Before(w) + 1 ELSE Before(w)
      BY <1>1 DEF Got, FirstHalf, r
    <3> QED BY <1>1, <1>3, <2>1, <2>2, <2>3, <3>1, <3>2 DEF One
  <2>4. CASE Produces(kind) # "k"
    <3>1. Got(w, Produces(kind))' = Got(w, Produces(kind))
      BY <1>1, <2>1, <2>4 DEF Got, In
    <3>2. Got(w, Produces(kind)) = Before(w)
      BY <1>1, <2>1, <2>4 DEF Got, In
    <3> QED BY <1>1, <2>2, <2>4, <3>1, <3>2 DEF One
  <2> QED BY <2>3, <2>4
<1>6. /\ Gave(w)' = Gave(w) + 0 /\ Asked(w)' = Asked(w) + asked
      /\ Took(w)' = Took(w) + 0
  BY <1>1, <1>2 DEF Gave, Asked, Took, In, PastQK
<1>7. GotQ(w)' = GotQ(w) + 1 /\ FreedQ' = FreedQ + 0
  <2>1. pc'["wg0"] = pc["wg0"] \/ w = "wg0"
    BY <1>1, <1>2 DEF Others, Actors, WGs
  <2> QED BY <1>1, <1>2, <2>1 DEF GotQ, FreedQ, In
<1>8. Own(w, {}, G, 0, asked, 0, 1, 0)
  BY <1>5, <1>6, <1>7 DEF Own
<1>9. /\ KvStep({}, {}) /\ WgStep(w, {}, G) /\ TurnStep(w, 0, asked, 0)
      /\ QStep(w, 1, 0, 0, 0)
  BY <1>1, <1>8, WgAlone
<1>10. Got(w, "k") = Before(w)
  BY <1>1 DEF Got, FirstHalf
<1> QED BY <1>1, <1>4, <1>9, <1>10 DEF r

LEMMA FinishPVMoves ==
  ASSUME SplitInRange, Types, Places, NEW w \in WGs, FinishPV(w)
  PROVE  LET G == IF ki[w] + 1 < TileRange(w).ub THEN {"k"} ELSE {} IN
         /\ PositionTypes' /\ Places' /\ SamePrologues /\ KvStep({}, {})
         /\ WgStep(w, {"v"}, G) /\ TurnStep(w, 0, 0, 0) /\ QStep(w, 0, 0, 0, 0)
         /\ pc[w] = "pv"
<1> DEFINE r == TileRange(w)
           G == IF ki[w] + 1 < r.ub THEN {"k"} ELSE {}
<1>1. /\ w \in Actors /\ w \in WGs \cup {"kv"} /\ Place(w) /\ UNCHANGED work
      /\ pc[w] = "pv" /\ pc[w] \in InBlock /\ Goto(w, "loop")
      /\ ki' = [ki EXCEPT ![w] = @ + 1] /\ tile' = tile /\ prev' = prev
  BY DEF Actors, Places, FinishPV, InBlock, InIteration
<1>2. /\ pc'[w] = "loop" /\ DOMAIN pc' = Actors /\ ki' \in [Actors -> Nat]
      /\ ki'[w] = ki[w] + 1 /\ Others(w)
      /\ Before(w)' = Before(w) + 1
      /\ \A b \in Actors \ {w} : Before(b)' = Before(b)
  BY <1>1, BlockMoves
<1>3. PositionTypes'
  <2>1. Tiles' = Tiles
    BY <1>1, SameWork
  <2>2. \A b \in Actors : pc'[b] \in PCs(b)
    BY <1>1, <1>2 DEF Types, PositionTypes, Others, PCs, WGs
  <2> QED BY <1>1, <1>2, <2>1, <2>2 DEF Types, PositionTypes
<1>4. Place(w)'
  BY <1>1, <1>2, BlockPlace
<1>5. Places' /\ SamePrologues
  <2>1. SamePrologues
    BY <1>1, <1>2 DEF SamePrologues, Others, Actors
  <2> QED BY <1>1, <1>2, <1>4, <2>1, PlacesStep
<1>6. /\ Before(w) \in Nat /\ ki[w] \in r.lb..r.ub - 1 /\ tile[w] \in 1..Tiles
  BY <1>1, Whereabouts
<1>7. /\ r.ub \in Nat /\ r.lb \in Nat /\ r' = r /\ Persistent' = Persistent
  BY <1>1, <1>6, Work, SameWork DEF TileRange
<1>8. w \in {"wg0", "wg1"} /\ tile["wg0"] \in Nat /\ tile["wg1"] \in Nat
  BY OwnFacts DEF WGs
<1> HIDE DEF r
<1>9. ASSUME NEW kind \in Streams
      PROVE  /\ Freed(w, kind)' = Freed(w, kind) + One(kind \in {"v"})
             /\ Got(w, Produces(kind))' = Got(w, Produces(kind)) + One(Produces(kind) \in G)
  <2>1. /\ Produces(kind)' = Produces(kind) /\ Produces(kind) \in {"k", "v", "mask"}
        /\ kind \in Kinds
    BY <1>1, SameWork, OwnFacts
  <2>2. Freed(w, kind)' = Freed(w, kind) + One(kind \in {"v"})
    BY <1>1, <1>2, <1>6, <2>1 DEF Freed, In, One, Kinds
  <2>3. CASE Produces(kind) = "k"
    <3>1. Got(w, "k") = Before(w) + 1
      BY <1>1, <1>6, <1>7 DEF Got, FirstHalf, r
    <3>2. Got(w, "k")' = IF ki[w] + 1 < r.ub THEN Before(w) + 2 ELSE Before(w) + 1
      BY <1>1, <1>2, <1>6, <1>7 DEF Got, FirstHalf, r
    <3> QED BY <1>6, <2>1, <2>2, <2>3, <3>1, <3>2 DEF One
  <2>4. CASE Produces(kind) # "k"
    <3>1. Got(w, Produces(kind))' = Got(w, Produces(kind))
      BY <1>1, <1>2, <1>6, <2>1, <2>4 DEF Got, In
    <3>2. Got(w, Produces(kind)) = Before(w) + 1
      BY <1>1, <2>1, <2>4 DEF Got, In
    <3> QED BY <1>6, <2>2, <2>4, <3>1, <3>2 DEF One
  <2> QED BY <2>3, <2>4
<1>10. /\ Gave(w)' = Gave(w) + 0 /\ Asked(w)' = Asked(w) + 0
       /\ Took(w)' = Took(w) + 0
  BY <1>1, <1>2, <1>6, <1>8 DEF Gave, Asked, Took, In, PastQK
<1>11. GotQ(w)' = GotQ(w) + 0 /\ FreedQ' = FreedQ + 0
  <2>1. pc'["wg0"] = pc["wg0"] \/ w = "wg0"
    BY <1>2, <1>8 DEF Others, Actors, WGs
  <2> QED BY <1>1, <1>2, <1>7, <1>8, <2>1 DEF GotQ, FreedQ, In
<1>12. Own(w, {"v"}, G, 0, 0, 0, 0, 0)
  BY <1>9, <1>10, <1>11 DEF Own
<1>13. /\ KvStep({}, {}) /\ WgStep(w, {"v"}, G) /\ TurnStep(w, 0, 0, 0)
       /\ QStep(w, 0, 0, 0, 0)
  BY <1>1, <1>2, <1>12, WgAlone
<1> QED BY <1>1, <1>3, <1>5, <1>13 DEF r

LEMMA OutputMoves ==
  ASSUME SplitInRange, Types, Places, NEW w \in WGs, Output(w)
  PROVE  /\ PositionTypes' /\ Places' /\ SamePrologues /\ KvStep({}, {})
         /\ WgStep(w, {}, {}) /\ TurnStep(w, 0, 0, 0) /\ QStep(w, 0, 0, 0, 0)
<1>1. /\ w \in Actors /\ w \in WGs \cup {"kv"} /\ Place(w) /\ UNCHANGED work
      /\ pc[w] = "output" /\ NextTile(w)
  BY DEF Actors, Places, Output
<1>2. /\ tile'[w] = tile[w] + 1 /\ tile[w] \in 1..Tiles
      /\ tile' \in [Actors -> 1..Tiles + 1]
      /\ prev' \in [Actors -> Nat] /\ ki' \in [Actors -> Nat]
      /\ DOMAIN pc' = Actors /\ pc'[w] \in {"done", "await"} /\ Others(w)
      /\ \A b \in Actors : Before(b)' = Before(b)
      /\ Place(w)'
  BY <1>1, TileMoves
<1>3. PositionTypes'
  <2>1. Tiles' = Tiles
    BY <1>1, SameWork
  <2>2. \A b \in Actors : pc'[b] \in PCs(b)
    BY <1>1, <1>2 DEF Types, PositionTypes, Others, PCs, WGs
  <2> QED BY <1>2, <2>1, <2>2 DEF PositionTypes
<1>4. Places' /\ SamePrologues
  <2>1. SamePrologues
    BY <1>1, <1>2 DEF SamePrologues, Others, Actors
  <2> QED BY <1>1, <1>2, <2>1, PlacesStep
<1>5. /\ Before(w) \in Nat /\ Before(w)' = Before(w) /\ Persistent' = Persistent
  BY <1>1, <1>2, Whereabouts, SameWork
<1>6. w \in {"wg0", "wg1"} /\ tile["wg0"] \in Nat /\ tile["wg1"] \in Nat
  BY OwnFacts DEF WGs
<1>7. ASSUME NEW kind \in Streams
      PROVE  /\ Freed(w, kind)' = Freed(w, kind) + One(kind \in {})
             /\ Got(w, Produces(kind))' = Got(w, Produces(kind)) + One(Produces(kind) \in {})
  <2>1. Produces(kind)' = Produces(kind)
    BY <1>1, SameWork
  <2>2. Freed(w, kind)' = Freed(w, kind) + One(kind \in {})
    BY <1>1, <1>2, <1>5 DEF Freed, In, One
  <2>3. Got(w, Produces(kind))' = Before(w)
    BY <1>1, <1>2, <1>5, <2>1 DEF Got, In, FirstHalf
  <2>4. Got(w, Produces(kind)) = Before(w)
    BY <1>1, <1>5 DEF Got, In, FirstHalf
  <2> QED BY <1>5, <2>2, <2>3, <2>4 DEF One
<1>8. /\ Gave(w)' = Gave(w) + 0 /\ Asked(w)' = Asked(w) + 0
      /\ Took(w)' = Took(w) + 0
  BY <1>1, <1>2, <1>5, <1>6 DEF Gave, Asked, Took, In, PastQK
<1>9. GotQ(w)' = GotQ(w) + 0 /\ FreedQ' = FreedQ + 0
  <2>1. (pc'["wg0"] = pc["wg0"] /\ tile'["wg0"] = tile["wg0"]) \/ w = "wg0"
    BY <1>2, <1>6 DEF Others, Actors, WGs
  <2> QED BY <1>1, <1>2, <1>5, <1>6, <2>1 DEF GotQ, FreedQ, In
<1>10. Own(w, {}, {}, 0, 0, 0, 0, 0)
  BY <1>7, <1>8, <1>9 DEF Own
<1>11. /\ KvStep({}, {}) /\ WgStep(w, {}, {}) /\ TurnStep(w, 0, 0, 0)
       /\ QStep(w, 0, 0, 0, 0)
  BY <1>1, <1>2, <1>10, WgAlone
<1> QED BY <1>3, <1>4, <1>11

LEMMA PrologueMoves ==
  ASSUME SplitInRange, Types, Places, NEW w \in WGs, Prologue(w)
  PROVE  /\ PositionTypes' /\ Places' /\ KvStep({}, {})
         /\ WgStep(w, {}, {}) /\ TurnStep(w, 0, 0, 0) /\ QStep(w, 0, 0, 0, 0)
         /\ pc[w] = "prologue" /\ pc'[w] # "prologue" /\ Others(w)
         /\ tile[w] = 1 /\ Before(w) = 0
<1>1. /\ w \in Actors /\ w \in WGs \cup {"kv"} /\ Place(w) /\ UNCHANGED work
      /\ pc[w] = "prologue" /\ Step(w, "prologue", "await")
  BY DEF Actors, Places, Prologue, Step
<1>2. /\ pc'[w] = "await" /\ DOMAIN pc' = Actors
      /\ tile' = tile /\ ki' = ki /\ prev' = prev /\ Others(w)
      /\ \A b \in Actors : Before(b)' = Before(b)
  BY <1>1, StepMoves
<1>3. PositionTypes'
  <2>1. Tiles' = Tiles
    BY <1>1, SameWork
  <2>2. \A b \in Actors : pc'[b] \in PCs(b)
    BY <1>1, <1>2 DEF Types, PositionTypes, Others, PCs, WGs
  <2> QED BY <1>2, <2>1, <2>2 DEF Types, PositionTypes
<1>4. Place(w)'
  <2>1. TileRange(w)' = TileRange(w) /\ Prior' = Prior /\ Tiles' = Tiles
    BY <1>1, <1>2, SameWork DEF TileRange
  <2>2. FirstKi(w, TileRange(w))' = FirstKi(w, TileRange(w))
    <3>1. launch' = launch
      BY <1>1, SameWork
    <3> QED BY <2>1, <3>1 DEF FirstKi, LoopStart
  <2>3. /\ prev[w] = Prior[tile[w]] /\ tile[w] # Tiles + 1
        /\ ki[w] = FirstKi(w, TileRange(w))
    BY <1>1 DEF Place
  <2> QED BY <1>2, <2>1, <2>2, <2>3 DEF Place, InBlock, InIteration
<1>5. Places'
  BY <1>1, <1>2, <1>4, PlacesStep
<1>6. /\ Before(w) \in Nat /\ Before(w)' = Before(w) /\ Persistent' = Persistent
      /\ tile[w] = 1 /\ Before(w) = 0
  BY <1>1, <1>2, Whereabouts, SameWork, Work DEF Place
<1>7. w \in {"wg0", "wg1"} /\ tile["wg0"] \in Nat /\ tile["wg1"] \in Nat
  BY OwnFacts DEF WGs
<1>8. ASSUME NEW kind \in Streams
      PROVE  /\ Freed(w, kind)' = Freed(w, kind) + One(kind \in {})
             /\ Got(w, Produces(kind))' = Got(w, Produces(kind)) + One(Produces(kind) \in {})
  <2>1. Produces(kind)' = Produces(kind)
    BY <1>1, SameWork
  <2>2. Freed(w, kind)' = Freed(w, kind) + One(kind \in {})
    BY <1>1, <1>2, <1>6 DEF Freed, In, One
  <2>3. Got(w, Produces(kind))' = Before(w)
    BY <1>1, <1>2, <1>6, <2>1 DEF Got, In, FirstHalf
  <2>4. Got(w, Produces(kind)) = Before(w)
    BY <1>1, <1>6 DEF Got, In, FirstHalf
  <2> QED BY <1>6, <2>2, <2>3, <2>4 DEF One
<1>9. /\ Gave(w)' = Gave(w) + 0 /\ Asked(w)' = Asked(w) + 0
      /\ Took(w)' = Took(w) + 0
  BY <1>1, <1>2, <1>6, <1>7 DEF Gave, Asked, Took, In, PastQK
<1>10. GotQ(w)' = GotQ(w) + 0 /\ FreedQ' = FreedQ + 0
  <2>1. pc'["wg0"] = pc["wg0"] \/ w = "wg0"
    BY <1>2, <1>7 DEF Others, Actors, WGs
  <2> QED BY <1>1, <1>2, <1>6, <1>7, <2>1 DEF GotQ, FreedQ, In
<1>11. Own(w, {}, {}, 0, 0, 0, 0, 0)
  BY <1>8, <1>9, <1>10 DEF Own
<1>12. /\ KvStep({}, {}) /\ WgStep(w, {}, {}) /\ TurnStep(w, 0, 0, 0)
       /\ QStep(w, 0, 0, 0, 0)
  BY <1>1, <1>2, <1>11, WgAlone
<1> QED BY <1>1, <1>2, <1>3, <1>5, <1>6, <1>12

\* A step of the Q warp moves nobody else.
LEMMA QAlone ==
  ASSUME SplitInRange, Types, Places, UNCHANGED work, Others("q"),
         \A b \in Actors \ {"q"} : Before(b)' = Before(b)
  PROVE  /\ KvStep({}, {}) /\ WgStep("wg0", {}, {}) /\ TurnStep("wg0", 0, 0, 0)
         /\ SamePrologues /\ FreedQ' = FreedQ
         /\ \A w \in WGs : GotQ(w)' = GotQ(w)
<1>1. /\ "q" \in Actors /\ "kv" \in Actors \ {"q"}
      /\ \A w \in WGs : w \in WGs \ {"q"} /\ w \in Actors \ {"q"}
  BY DEF WGs, Actors
<1>2. \A kind \in Streams : Loaded(kind)' = Loaded(kind) /\ Synced(kind)' = Synced(kind)
  BY <1>1, KvFrame DEF Others, Types
<1>3. \A w \in WGs :
        /\ \A kind \in Streams : /\ Freed(w, kind)' = Freed(w, kind)
                                 /\ Got(w, Produces(kind))' = Got(w, Produces(kind))
        /\ Gave(w)' = Gave(w) /\ Asked(w)' = Asked(w) /\ Took(w)' = Took(w)
        /\ GotQ(w)' = GotQ(w) /\ (w = "wg0" => FreedQ' = FreedQ)
        /\ pc'[w] = pc[w]
  BY <1>1, WgFrame
<1>4. KvStep({}, {})
  BY <1>2, CountTypes DEF KvStep, One
<1> QED BY <1>3, <1>4, CountTypes
        DEF WgStep, TurnStep, SamePrologues, One, WGs

\* The Q warp goes on with the next tile.
LEMMA QTileMoves ==
  ASSUME SplitInRange, Types, Places, UNCHANGED work, pc["q"] # "done", NextTile("q")
  PROVE  /\ PositionTypes' /\ Places' /\ Persistent /\ tile["q"] \in 1..Tiles
         /\ tile'["q"] = tile["q"] + 1 /\ pc'["q"] \in {"done", "loop"}
         /\ KvStep({}, {}) /\ WgStep("wg0", {}, {}) /\ TurnStep("wg0", 0, 0, 0)
         /\ SamePrologues /\ FreedQ' = FreedQ
         /\ \A w \in WGs : GotQ(w)' = GotQ(w)
<1> DEFINE a == "q"
<1>1. /\ DOMAIN pc = Actors /\ ki \in [Actors -> Nat] /\ a \in Actors /\ a \notin WGs
      /\ tile \in [Actors -> 1..Tiles + 1] /\ prev \in [Actors -> Nat]
  BY DEF Types, PositionTypes, Actors, WGs
<1>2. Persistent /\ tile[a] \in 1..Tiles /\ Tiles \in Nat
  BY <1>1, Work DEF Places
<1>3. Iterations(TileRange(a)) \in Nat
  BY <1>2, Work DEF TileRange
<1>4. /\ prev' = [prev EXCEPT ![a] = @ + Iterations(TileRange(a))]
      /\ tile' = [tile EXCEPT ![a] = @ + 1]
      /\ IF tile[a] = Tiles
           THEN Goto(a, "done") /\ UNCHANGED ki
           ELSE /\ Goto(a, "loop")
                /\ ki' = [ki EXCEPT ![a] = FirstKi(a, range[tile[a] + 1])]
  BY <1>1 DEF NextTile
<1>5. /\ tile'[a] = tile[a] + 1 /\ tile' \in [Actors -> 1..Tiles + 1]
      /\ prev' \in [Actors -> Nat]
  BY <1>1, <1>2, <1>3, <1>4
<1>6. /\ DOMAIN pc' = Actors /\ Others(a)
      /\ pc'[a] = (IF tile[a] = Tiles THEN "done" ELSE "loop")
  BY <1>1, <1>4 DEF Goto, Others
<1>7. ki' \in [Actors -> Nat]
  <2>1. tile[a] # Tiles => FirstKi(a, range[tile[a] + 1]) \in Nat
    BY <1>1, <1>2, Work DEF FirstKi
  <2> QED BY <1>1, <1>4, <2>1
<1>8. \A b \in Actors \ {a} : Before(b)' = Before(b)
  BY <1>6, SameWork DEF Before, TileRange, Others
<1>9. PositionTypes'
  <2>1. Tiles' = Tiles
    BY SameWork
  <2>2. \A b \in Actors : pc'[b] \in PCs(b)
    BY <1>6 DEF Types, PositionTypes, Others, PCs, WGs
  <2> QED BY <1>5, <1>6, <1>7, <2>1, <2>2 DEF PositionTypes
<1>10. Places'
  <2>1. \A b \in WGs \cup {"kv"} : Place(b)'
    <3> SUFFICES ASSUME NEW b \in WGs \cup {"kv"} PROVE Place(b)'
      OBVIOUS
    <3>1. b \in Actors \ {a}
      BY DEF WGs, Actors
    <3> QED BY <1>1, <1>6, <3>1, OtherPlaces DEF Places
  <2>2. Persistent' = Persistent /\ Tiles' = Tiles
    BY SameWork
  <2> QED BY <1>2, <1>5, <1>6, <2>1, <2>2 DEF Places
<1> QED BY <1>2, <1>5, <1>6, <1>8, <1>9, <1>10, QAlone

LEMMA SkipQMoves ==
  ASSUME SplitInRange, Types, Places, SkipQ
  PROVE  /\ PositionTypes' /\ Places' /\ SamePrologues /\ KvStep({}, {})
         /\ WgStep("wg0", {}, {}) /\ TurnStep("wg0", 0, 0, 0)
         /\ QStep("wg0", 0, 0, 0, 0) /\ LoadedQ' = LoadedQ
<1>1. /\ PositionTypes' /\ Places' /\ SamePrologues /\ KvStep({}, {})
      /\ WgStep("wg0", {}, {}) /\ TurnStep("wg0", 0, 0, 0)
      /\ tile'["q"] = tile["q"] + 1 /\ pc'["q"] \in {"done", "loop"}
      /\ FreedQ' = FreedQ /\ \A w \in WGs : GotQ(w)' = GotQ(w)
  BY QTileMoves DEF SkipQ
<1>2. LoadedQ' = 0 /\ LoadedQ = 0 /\ SyncedQ' = 0 /\ SyncedQ = 0
  BY <1>1 DEF SkipQ, LoadedQ, SyncedQ, In
<1> QED BY <1>1, <1>2, CountTypes DEF QStep

LEMMA SyncQMoves ==
  ASSUME SplitInRange, Types, Places, SyncQ
  PROVE  /\ PositionTypes' /\ Places' /\ SamePrologues /\ KvStep({}, {})
         /\ WgStep("wg0", {}, {}) /\ TurnStep("wg0", 0, 0, 0)
         /\ QStep("wg0", 0, 0, 0, 1) /\ SyncedQ = LoadedQ /\ Persistent
<1>1. "q" \in Actors /\ UNCHANGED work /\ tile["q"] > 1 /\ Step("q", "loop", "load_q")
  BY DEF Actors, SyncQ
<1>2. /\ pc["q"] = "loop" /\ pc'["q"] = "load_q" /\ DOMAIN pc' = Actors
      /\ tile' = tile /\ ki' = ki /\ prev' = prev /\ Others("q")
      /\ \A b \in Actors : Before(b)' = Before(b)
  BY <1>1, StepMoves
<1>3. PositionTypes'
  <2>1. Tiles' = Tiles
    BY <1>1, SameWork
  <2>2. \A b \in Actors : pc'[b] \in PCs(b)
    BY <1>2 DEF Types, PositionTypes, Others, PCs, WGs
  <2> QED BY <1>2, <2>1, <2>2 DEF Types, PositionTypes
<1>4. Places' /\ Persistent
  <2>1. \A b \in WGs \cup {"kv"} : Place(b)'
    <3> SUFFICES ASSUME NEW b \in WGs \cup {"kv"} PROVE Place(b)'
      OBVIOUS
    <3>1. b \in Actors \ {"q"}
      BY DEF WGs, Actors
    <3> QED BY <1>1, <1>2, <3>1, OtherPlaces DEF Places
  <2>2. Persistent' = Persistent /\ Tiles' = Tiles
    BY <1>1, SameWork
  <2> QED BY <1>1, <1>2, <2>1, <2>2 DEF Places
<1>5. /\ KvStep({}, {}) /\ WgStep("wg0", {}, {}) /\ TurnStep("wg0", 0, 0, 0)
      /\ SamePrologues /\ FreedQ' = FreedQ
      /\ \A w \in WGs : GotQ(w)' = GotQ(w)
  BY <1>1, <1>2, QAlone
<1>6. LoadedQ \in Nat /\ LoadedQ' = LoadedQ /\ SyncedQ' = SyncedQ + 1 /\ SyncedQ = LoadedQ
  <2>1. LoadedQ \in Nat /\ LoadedQ' = LoadedQ
    BY <1>2, CountTypes DEF LoadedQ
  <2> QED BY <1>2, <2>1 DEF SyncedQ, In
<1> QED BY <1>3, <1>4, <1>5, <1>6, CountTypes DEF QStep

LEMMA LoadQMoves ==
  ASSUME SplitInRange, Types, Places, LoadQ
  PROVE  /\ PositionTypes' /\ Places' /\ SamePrologues /\ KvStep({}, {})
         /\ WgStep("wg0", {}, {}) /\ TurnStep("wg0", 0, 0, 0)
         /\ QStep("wg0", 0, 0, 1, 0)
         /\ tile["q"] = LoadedQ + 2 /\ SyncedQ = LoadedQ + 1 /\ Persistent
<1>1. /\ PositionTypes' /\ Places' /\ SamePrologues /\ KvStep({}, {})
      /\ WgStep("wg0", {}, {}) /\ TurnStep("wg0", 0, 0, 0)
      /\ tile'["q"] = tile["q"] + 1 /\ pc'["q"] \in {"done", "loop"}
      /\ tile["q"] \in 1..Tiles /\ Persistent
      /\ FreedQ' = FreedQ /\ \A w \in WGs : GotQ(w)' = GotQ(w)
  BY QTileMoves DEF LoadQ
<1>2. pc["q"] = "load_q" /\ tile["q"] > 1
  BY <1>1 DEF LoadQ, Places
<1>3. LoadedQ = tile["q"] - 2 /\ LoadedQ' = tile["q"] - 1
  BY <1>1, <1>2 DEF LoadedQ
<1>4. SyncedQ = LoadedQ + 1 /\ SyncedQ' = LoadedQ'
  <2>1. In("q", {"load_q"}) = 1 /\ In("q", {"load_q"})' = 0
    BY <1>1, <1>2 DEF In
  <2> QED BY <1>1, <1>3, <2>1 DEF SyncedQ
<1> QED BY <1>1, <1>2, <1>3, <1>4, CountTypes DEF QStep

-----------------------------------------------------------------------------
\* The barriers.

LEMMA Barriers ==
  ASSUME WorkTypes
  PROVE  /\ Q \in MBarriers /\ Q \in Named /\ Q \in Buffers
         /\ \A w \in WGs : Turn(w) \in Named
         /\ \A kind \in Ring, s \in Slots : <<kind, s>> \in Named
         /\ \A b \in Named : \/ b = Q \/ b = Turn("wg0") \/ b = Turn("wg1")
                             \/ \E kind \in Ring, s \in Slots : b = <<kind, s>>
         /\ \A kind \in Streams, s \in Slots :
              <<kind, s>> \in Buffers /\ <<Produces(kind), s>> \in MBarriers
         /\ \A b \in Buffers : b = Q \/ \E kind \in Streams, s \in Slots : b = <<kind, s>>
         /\ \A m \in MBarriers \ {Q} :
              \E kind \in Streams, s \in Slots : m = <<Produces(kind), s>>
<1>1. Produces("q") = "q" /\ Ring \subseteq Streams
  BY StreamFacts DEF Ring
<1>2. Q \in Buffers /\ Q[1] = "q" /\ Q[2] = 0
  BY DEF Buffers, Q
<1>3. \A b \in Buffers : <<Produces(b[1]), b[2]>> \in MBarriers
  BY DEF MBarriers
<1>4. Q \in MBarriers
  <2>1. <<Produces(Q[1]), Q[2]>> = Q
    BY <1>1, <1>2 DEF Q
  <2> QED BY <1>2, <1>3, <2>1
<1>5. \A kind \in Streams, s \in Slots :
        <<kind, s>> \in Buffers /\ <<Produces(kind), s>> \in MBarriers
  <2> SUFFICES ASSUME NEW kind \in Streams, NEW s \in Slots
               PROVE  <<kind, s>> \in Buffers /\ <<Produces(kind), s>> \in MBarriers
    OBVIOUS
  <2>1. <<kind, s>> \in Buffers /\ <<kind, s>>[1] = kind /\ <<kind, s>>[2] = s
    BY DEF Buffers
  <2> QED BY <1>3, <2>1
<1>6. \A b \in Buffers : b = Q \/ \E kind \in Streams, s \in Slots : b = <<kind, s>>
  BY DEF Buffers
<1>7. ASSUME NEW m \in MBarriers \ {Q}
      PROVE  \E kind \in Streams, s \in Slots : m = <<Produces(kind), s>>
  <2>1. PICK b \in Buffers : m = <<Produces(b[1]), b[2]>>
    BY DEF MBarriers
  <2>2. b # Q
    BY <1>1, <1>2, <2>1 DEF Q
  <2> QED BY <1>6, <2>1, <2>2
<1>8. /\ Q \in Named /\ \A w \in WGs : Turn(w) \in Named
      /\ \A kind \in Ring, s \in Slots : <<kind, s>> \in Named
      /\ \A b \in Named : \/ b = Q \/ b = Turn("wg0") \/ b = Turn("wg1")
                          \/ \E kind \in Ring, s \in Slots : b = <<kind, s>>
  BY DEF Named, Ring, WGs
<1> QED BY <1>2, <1>4, <1>5, <1>6, <1>7, <1>8

\* The copies that arrive at a barrier: those of a kind of its own, and the
\* bias and a row mask together with K.
LEMMA Arrivals ==
  ASSUME WorkTypes, NEW s \in Slots
  PROVE  /\ NumArrivals(Q) = 1
         /\ NumArrivals(<<"v", s>>) = 1
         /\ (Mask = "full" => NumArrivals(<<"mask", s>>) = 1)
         /\ NumArrivals(<<"k", s>>) = 1 + One("bias" \in Streams) + One(Mask = "row")
<1>0. /\ Produces("k") = "k" /\ Produces("v") = "v" /\ Produces("bias") = "k"
      /\ (Mask = "row" => Produces("mask") = "k")
      /\ (Mask = "full" => Produces("mask") = "mask")
      /\ Produces("q") = "q" /\ Streams \subseteq Kinds
      /\ "k" \in Streams /\ "v" \in Streams
      /\ ("mask" \in Streams <=> Mask # "none")
      /\ Mask \in {"none", "row", "full"}
  BY StreamFacts
<1> DEFINE Arrive1(m) == {b \in Buffers : <<Produces(b[1]), b[2]>> = m}
<1>1. \A m : NumArrivals(m) = Cardinality(Arrive1(m))
  BY DEF NumArrivals
<1>2. \A b \in Buffers : b = Q \/ \E kind \in Streams, i \in Slots : b = <<kind, i>>
  BY Barriers
<1>3. /\ Q \in Buffers
      /\ \A kind \in Streams : <<kind, s>> \in Buffers
  BY Barriers
<1>4. Arrive1(Q) = {Q}
  BY <1>0, <1>2, <1>3 DEF Q, Kinds
<1>5. Arrive1(<<"v", s>>) = {<<"v", s>>}
  BY <1>0, <1>2, <1>3 DEF Q, Kinds
<1>6. Mask = "full" => Arrive1(<<"mask", s>>) = {<<"mask", s>>}
  BY <1>0, <1>2, <1>3 DEF Q, Kinds
<1>7. Arrive1(<<"k", s>>) =
        {<<"k", s>>} \cup (IF "bias" \in Streams THEN {<<"bias", s>>} ELSE {})
                     \cup (IF Mask = "row" THEN {<<"mask", s>>} ELSE {})
  BY <1>0, <1>2, <1>3 DEF Q, Kinds
<1>8. Cardinality(Arrive1(<<"k", s>>)) = 1 + One("bias" \in Streams) + One(Mask = "row")
  <2> DEFINE K == {<<"k", s>>}
             KB == K \cup (IF "bias" \in Streams THEN {<<"bias", s>>} ELSE {})
             KBM == KB \cup (IF Mask = "row" THEN {<<"mask", s>>} ELSE {})
  <2>1. IsFiniteSet(K) /\ Cardinality(K) = 1 
    BY FS_Singleton
  <2>2. IsFiniteSet(KB) /\ Cardinality(KB) = 1 + One("bias" \in Streams)
    <3>1. <<"bias", s>> \notin K
      OBVIOUS
    <3>2. CASE "bias" \in Streams
      <4>1. KB = K \cup {<<"bias", s>>}
        BY <3>2
      <4> HIDE DEF K, KB
      <4> QED BY <2>1, <3>1, <3>2, <4>1, FS_AddElement DEF One
    <3>3. CASE "bias" \notin Streams
      <4>1. KB = K
        BY <3>3
      <4> HIDE DEF K, KB
      <4> QED BY <2>1, <3>3, <4>1 DEF One
    <3> QED BY <3>2, <3>3
  <2>3. Cardinality(KBM) = 1 + One("bias" \in Streams) + One(Mask = "row")
    <3>1. <<"mask", s>> \notin KB
      OBVIOUS
    <3>2. CASE Mask = "row"
      <4>1. KBM = KB \cup {<<"mask", s>>}
        BY <3>2
      <4> HIDE DEF KB, KBM
      <4> QED BY <2>2, <3>1, <3>2, <4>1, FS_AddElement DEF One
    <3>3. CASE Mask # "row"
      <4>1. KBM = KB
        BY <3>3
      <4> HIDE DEF KB, KBM
      <4> QED BY <2>2, <3>3, <4>1 DEF One
    <3> QED BY <3>2, <3>3
  <2> QED BY <1>7, <2>3
<1> HIDE DEF Arrive1
<1> QED BY <1>1, <1>4, <1>5, <1>6, <1>8, FS_Singleton

\* The phases of a named barrier, when none of its parties is a whole phase
\* ahead of another.
LEMMA ThreeParties ==
  ASSUME NEW x \in Nat, NEW y \in Nat, NEW z \in Nat,
         x =< y + 1, x =< z + 1, y =< x + 1, y =< z + 1, z =< x + 1, z =< y + 1
  PROVE  LET c == (128 * (x + y) + 32 * (z + 0)) \div 288 IN
         x - c \in {0, 1} /\ y - c \in {0, 1} /\ z - c \in {0, 1} /\ c \in Nat
<1>1. PICK m \in Nat : /\ x \in {m, m + 1} /\ y \in {m, m + 1} /\ z \in {m, m + 1}
                       /\ (x = m \/ y = m \/ z = m)
  <2>1. CASE x =< y /\ x =< z
    BY <2>1
  <2>2. CASE y =< x /\ y =< z
    BY <2>2
  <2>3. CASE z =< x /\ z =< y
    BY <2>3
  <2> QED BY <2>1, <2>2, <2>3
<1> DEFINE sum == 128 * (x + y) + 32 * (z + 0)
<1>2. sum \in Nat /\ 288 * m =< sum /\ sum < 288 * m + 288
  BY <1>1
<1> HIDE DEF sum
<1>3. sum \div 288 = m
  BY <1>1, <1>2
<1> QED BY <1>1, <1>3 DEF sum

LEMMA TwoParties ==
  ASSUME NEW x \in Nat, NEW y \in Nat, x =< y + 1, y =< x + 1
  PROVE  /\ LET c == (128 * (x + y) + 32 * (0 + 0)) \div 256 IN
              x - c \in {0, 1} /\ y - c \in {0, 1} /\ c \in Nat
         /\ LET c == (128 * (x + 0) + 32 * (0 + y)) \div 160 IN
              x - c \in {0, 1} /\ y - c \in {0, 1} /\ c \in Nat
<1>1. PICK m \in Nat : /\ x \in {m, m + 1} /\ y \in {m, m + 1} /\ (x = m \/ y = m)
  <2>1. CASE x =< y
    BY <2>1
  <2>2. CASE y =< x
    BY <2>2
  <2> QED BY <2>1, <2>2
<1> DEFINE turns == 128 * (x + y) + 32 * (0 + 0)
           qs == 128 * (x + 0) + 32 * (0 + y)
<1>2. turns \in Nat /\ 256 * m =< turns /\ turns < 256 * m + 256
  BY <1>1
<1>3. qs \in Nat /\ 160 * m =< qs /\ qs < 160 * m + 160
  BY <1>1
<1> HIDE DEF turns, qs
<1>4. turns \div 256 = m /\ qs \div 160 = m
  BY <1>1, <1>2, <1>3
<1> QED BY <1>1, <1>4 DEF turns, qs

\* The K/V warp asks for a slot at most one block ahead of what it has loaded.
LEMMA SyncedIs ==
  ASSUME SplitInRange, Types, Places, NEW kind \in Streams
  PROVE  Synced(kind) = Loaded(kind) \/ Synced(kind) = Loaded(kind) + 1
<1>1. Before("kv") \in Nat
  BY Whereabouts DEF Places
<1>2. kind \in Kinds
  BY StreamFacts DEF Types
<1> QED BY <1>1, <1>2 DEF Synced, Loaded, In, Kinds

\* A slot is free when all three have arrived at its barrier.
LEMMA RingPhases ==
  ASSUME SplitInRange, Types, Places, Window, Consumed,
         NEW kind \in Ring, NEW s \in Slots
  PROVE  LET b == <<kind, s>> IN
         /\ Completed(b) \in Nat
         /\ \A a \in WGs \cup {"kv"} : arrivals[b][a] - Completed(b) \in {0, 1}
         /\ arrivals[b]["q"] = 0
<1> DEFINE b == <<kind, s>>
           x(w) == Uses(Freed(w, kind), s) + (IF pc[w] = "prologue" THEN 0 ELSE 1)
           z == Uses(Synced(kind), s)
<1>1. kind \in Streams /\ kind \in Kinds /\ kind # "bias" /\ Stages \in Nat \ {0}
  BY StreamFacts DEF Ring, Types
<1>2. /\ Loaded(kind) \in Nat /\ Synced(kind) \in Nat
      /\ \A w \in WGs : Freed(w, kind) \in Nat
  BY <1>1, CountTypes
<1>3. /\ \A w \in WGs : arrivals[b][w] = x(w)
      /\ arrivals[b]["kv"] = z /\ arrivals[b]["q"] = 0
  BY DEF Consumed, Actors, WGs
<1>4. /\ \A w \in WGs : Uses(Freed(w, kind), s) \in Nat
      /\ z \in Nat /\ Uses(Loaded(kind), s) \in Nat
  BY <1>2, UsesStep
<1>5. ASSUME NEW w \in WGs
      PROVE  /\ x(w) =< Uses(Loaded(kind), s) + 1 /\ x(w) =< z + 1
             /\ Uses(Loaded(kind), s) =< x(w) /\ z =< x(w) + 1
             /\ pc[w] = "prologue" => Uses(Loaded(kind), s) = 0 /\ x(w) = 0
  <2>1. /\ Freed(w, kind) =< Loaded(kind) /\ Loaded(kind) =< Freed(w, kind) + Stages
        /\ pc[w] = "prologue" => Loaded(kind) = 0
    <3>1. Got(w, Produces(kind)) \in Nat
      BY <1>1, CountTypes
    <3> QED BY <1>1, <1>2, <3>1 DEF Window
  <2>2. Loaded(kind) =< Synced(kind) /\ Synced(kind) =< Loaded(kind) + 1
    BY <1>1, <1>2, SyncedIs
  <2>3. /\ Uses(Freed(w, kind), s) =< Uses(Loaded(kind), s)
        /\ Uses(Loaded(kind), s) =< Uses(Freed(w, kind), s) + 1
        /\ Uses(Loaded(kind), s) =< z
    BY <1>2, <2>1, <2>2, UsesMonotone, UsesWithin
  <2>4. z =< Uses(Loaded(kind), s) + 1
    <3>1. Synced(kind) =< Loaded(kind) + Stages
      BY <1>1, <1>2, <2>2
    <3> QED BY <1>2, <3>1, UsesWithin
  <2>5. CASE pc[w] = "prologue"
    <3>1. Loaded(kind) = 0 /\ Freed(w, kind) = 0
      BY <1>2, <2>1, <2>5
    <3> QED BY <1>4, <2>3, <2>4, <2>5, <3>1, UsesNone
  <2>6. CASE pc[w] # "prologue"
    BY <1>2, <1>4, <2>3, <2>4, <2>6
  <2> QED BY <2>5, <2>6
<1>6. \A w \in WGs : x(w) \in Nat
  BY <1>4
<1>7. /\ x("wg0") \in Nat /\ x("wg1") \in Nat /\ z \in Nat
      /\ x("wg0") =< x("wg1") + 1 /\ x("wg0") =< z + 1
      /\ x("wg1") =< x("wg0") + 1 /\ x("wg1") =< z + 1
      /\ z =< x("wg0") + 1 /\ z =< x("wg1") + 1
  BY <1>4, <1>5, <1>6 DEF WGs
<1>8. Completed(b) = (128 * (x("wg0") + x("wg1")) + 32 * (z + 0)) \div 288
  <2>1. NumThreads(b) = 288
    BY <1>1 DEF NumThreads, Q, Kinds
  <2> QED BY <1>3, <2>1 DEF Completed, WGs
<1> HIDE DEF x, z, b
<1>9. /\ x("wg0") - Completed(b) \in {0, 1} /\ x("wg1") - Completed(b) \in {0, 1}
      /\ z - Completed(b) \in {0, 1} /\ Completed(b) \in Nat
  BY <1>7, <1>8, ThreeParties
<1> QED BY <1>3, <1>9 DEF WGs, b

\* A copy into a ring is one of the last Stages blocks, which nobody has yet.
LEMMA Flight ==
  ASSUME SplitInRange, Types, Places, Window, InFlight,
         NEW c \in copying, NEW kind \in Streams, NEW s \in Slots, c[1] = <<kind, s>>
  PROVE  /\ Block1(c) \in Nat /\ Block1(c) % Stages = s
         /\ Block1(c) < Loaded(kind) /\ Loaded(kind) =< Block1(c) + Stages
         /\ \A w \in WGs : Got(w, Produces(kind)) =< Block1(c)
         /\ c = <<c[1], c[2]>> /\ c[2] = <<c[2][1], c[2][2]>>
         /\ c[2][1] \in 1..Tiles /\ c[2][2] \in range[c[2][1]].lb..range[c[2][1]].ub - 1
         /\ Block1(c) = Number(c[2][1], c[2][2])
<1>1. kind # "q" /\ Stages \in Nat \ {0}
  BY StreamFacts DEF Types, Kinds
<1>2. c[1] # Q /\ c[1][1] = kind /\ c[1][2] = s
  BY <1>1 DEF Q
<1>3. /\ IsBlock(c[2]) /\ s = Block1(c) % Stages /\ Block1(c) < Loaded(kind)
      /\ \A w \in WGs : Got(w, Produces(kind)) =< Block1(c)
  BY <1>2 DEF InFlight
<1>4. c \in Buffers \X (Nat \X Nat)
  BY DEF Types, MemoryTypes
<1>5. c = <<c[1], c[2]>> /\ c[2] \in Nat \X Nat /\ c[2] = <<c[2][1], c[2][2]>>
  BY <1>4
<1>6. c[2][1] \in 1..Tiles /\ c[2][2] \in range[c[2][1]].lb..range[c[2][1]].ub - 1
  BY <1>3, <1>5, Work DEF IsBlock
<1>7. Block1(c) \in Nat
  BY <1>6, BlockNumber DEF Block1
<1>8. Loaded(kind) =< Block1(c) + Stages
  <2>1. "wg0" \in WGs
    BY DEF WGs
  <2>2. /\ Freed("wg0", kind) =< Got("wg0", Produces(kind))
        /\ Loaded(kind) =< Freed("wg0", kind) + Stages
    BY <2>1 DEF Window
  <2>3. /\ Freed("wg0", kind) \in Nat /\ Got("wg0", Produces(kind)) \in Nat
        /\ Loaded(kind) \in Nat
    BY <2>1, CountTypes
  <2> QED BY <1>1, <1>3, <1>7, <2>1, <2>2, <2>3
<1> QED BY <1>3, <1>5, <1>6, <1>7, <1>8 DEF Block1

\* Of two copies into one buffer, or a copy and a block that is not freed, the
\* blocks are the same.
LEMMA OneFlight ==
  ASSUME SplitInRange, Types, Places, Window, InFlight,
         NEW c \in copying, NEW kind \in Streams, NEW s \in Slots, c[1] = <<kind, s>>,
         NEW t \in 1..Tiles, NEW k \in range[t].lb..range[t].ub - 1,
         Number(t, k) % Stages = s, Number(t, k) < Loaded(kind),
         Loaded(kind) =< Number(t, k) + Stages
  PROVE  c = <<<<kind, s>>, <<t, k>>>>
<1> DEFINE n == Number(t, k)
           i == Block1(c)
<1>1. /\ i \in Nat /\ i % Stages = s /\ i < Loaded(kind)
      /\ Loaded(kind) =< i + Stages
      /\ c = <<c[1], c[2]>> /\ c[2] = <<c[2][1], c[2][2]>>
      /\ c[2][1] \in 1..Tiles /\ c[2][2] \in range[c[2][1]].lb..range[c[2][1]].ub - 1
      /\ i = Number(c[2][1], c[2][2])
  BY Flight
<1>2. n \in Nat /\ Loaded(kind) \in Nat /\ Stages \in Nat
  BY BlockNumber, CountTypes, KernelAssumption
<1>3. n < i => n + Stages =< i
  BY <1>1, <1>2, SameSlot
<1>4. i < n => i + Stages =< n
  BY <1>1, <1>2, SameSlot
<1>5. i = n
  <2> HIDE DEF i, n
  <2> QED BY <1>1, <1>2, <1>3, <1>4 DEF n
<1>6. c[2][1] = t /\ c[2][2] = k
  <2>1. PICK u \in 1..Tiles : u = c[2][1]
    BY <1>1
  <2>2. PICK l \in range[u].lb..range[u].ub - 1 : l = c[2][2]
    BY <1>1, <2>1
  <2>3. Number(t, k) = Number(u, l)
    BY <1>1, <1>5, <2>1, <2>2
  <2>4. t = u /\ k = l
    BY <2>3, SameBlock
  <2> QED BY <2>1, <2>2, <2>4
<1> QED BY <1>1, <1>6

\* What has arrived of a kind, in phases of the barrier.
LEMMA KindArrived ==
  ASSUME SplitInRange, Types, Places, Window, InFlight,
         NEW kind \in Streams, NEW s \in Slots, NEW w \in WGs
  PROVE  LET u == Uses(Got(w, Produces(kind)), s)
             x == Uses(Loaded(kind), s) - Flying(<<kind, s>>)
         IN  /\ u \in Nat /\ x \in {u, u + 1}
             /\ x = u + 1 => /\ Uses(Loaded(kind), s) = u + 1
                             /\ Flying(<<kind, s>>) = 0
<1> DEFINE u == Uses(Got(w, Produces(kind)), s)
           v == Uses(Loaded(kind), s)
           f == Flying(<<kind, s>>)
<1>1. /\ Got(w, Produces(kind)) \in Nat /\ Loaded(kind) \in Nat
      /\ Freed(w, kind) \in Nat /\ Stages \in Nat
  BY CountTypes, KernelAssumption
<1>2. /\ Got(w, Produces(kind)) =< Loaded(kind)
      /\ Freed(w, kind) =< Got(w, Produces(kind))
      /\ Loaded(kind) =< Freed(w, kind) + Stages
  BY DEF Window
<1>3. Loaded(kind) =< Got(w, Produces(kind)) + Stages
  BY <1>1, <1>2
<1>4. u \in Nat /\ v \in Nat /\ u =< v /\ v =< u + 1
  BY <1>1, <1>2, <1>3, UsesStep, UsesMonotone, UsesWithin
<1>5. f \in {0, 1}
  BY DEF Flying
<1>6. f = 1 => v = u + 1
  <2> SUFFICES ASSUME f = 1 PROVE v = u + 1
    OBVIOUS
  <2>1. PICK c \in copying : c[1] = <<kind, s>>
    BY DEF Flying
  <2> DEFINE i == Block1(c)
  <2>2. i \in Nat /\ i % Stages = s /\ i < Loaded(kind) /\ Got(w, Produces(kind)) =< i
    BY <2>1, Flight
  <2>3. v >= Uses(i, s) + 1
    BY <1>1, <2>2, UsesPast
  <2>4. u =< Uses(i, s) /\ Uses(i, s) \in Nat
    BY <1>1, <2>2, UsesMonotone, UsesStep
  <2> QED BY <1>4, <2>3, <2>4
<1> HIDE DEF u, v, f
<1>7. u \in Nat /\ v - f \in {u, u + 1} /\ (v - f = u + 1 => v = u + 1 /\ f = 0)
  BY <1>4, <1>5, <1>6
<1> QED BY <1>7 DEF u, v, f

\* A phase is over when the copies of all kinds have arrived.
LEMMA AllArrived ==
  ASSUME NEW u \in Nat, NEW x \in {u, u + 1},
         NEW b \in {0, 1}, NEW y \in Nat, y = 0 \/ b = 1, b = 1 => y \in {u, u + 1},
         NEW r \in {0, 1}, NEW z \in Nat, z = 0 \/ r = 1, r = 1 => z \in {u, u + 1}
  PROVE  LET p == (x + y + z) \div (1 + b + r) IN
         /\ p \in {u, u + 1}
         /\ p = u + 1 => x = u + 1 /\ (b = 1 => y = u + 1) /\ (r = 1 => z = u + 1)
<1>1. CASE b = 0 /\ r = 0
  <2>1. (x + y + z) \div (1 + b + r) = x
    BY <1>1
  <2> QED BY <1>1, <2>1
<1>2. CASE b = 1 /\ r = 0
  <2>1. (x + y + z) \div (1 + b + r) = (x + y) \div 2
    BY <1>2
  <2>2. (x + y) \div 2 \in {u, u + 1} /\ ((x + y) \div 2 = u + 1 => x = u + 1 /\ y = u + 1)
    BY <1>2
  <2> QED BY <1>2, <2>1, <2>2
<1>3. CASE b = 0 /\ r = 1
  <2>1. (x + y + z) \div (1 + b + r) = (x + z) \div 2
    BY <1>3
  <2>2. (x + z) \div 2 \in {u, u + 1} /\ ((x + z) \div 2 = u + 1 => x = u + 1 /\ z = u + 1)
    BY <1>3
  <2> QED BY <1>3, <2>1, <2>2
<1>4. CASE b = 1 /\ r = 1
  <2>1. (x + y + z) \div (1 + b + r) = (x + y + z) \div 3
    BY <1>4
  <2>2. /\ (x + y + z) \div 3 \in {u, u + 1}
        /\ ((x + y + z) \div 3 = u + 1 => x = u + 1 /\ y = u + 1 /\ z = u + 1)
    BY <1>4
  <2> QED BY <1>4, <2>1, <2>2
<1> QED BY <1>1, <1>2, <1>3, <1>4

\* A warpgroup waits for one phase after another, and when the one it waits for
\* is over all of its block has been loaded.
LEMMA RingWaits ==
  ASSUME SplitInRange, Types, Places, Window, InFlight, Produced,
         NEW any \in Streams, NEW s \in Slots, NEW w \in WGs
  PROVE  LET m == <<Produces(any), s>> IN
         /\ waits[w][m] = Uses(Got(w, Produces(any)), s) /\ waits[w][m] \in Nat
         /\ Phases(m) \in {waits[w][m], waits[w][m] + 1}
         /\ Phases(m) = waits[w][m] + 1 =>
              \A kind \in Streams : Produces(kind) = Produces(any) =>
                /\ Uses(Loaded(kind), s) = waits[w][m] + 1
                /\ Flying(<<kind, s>>) = 0
<1> DEFINE p == Produces(any)
           m == <<p, s>>
           u == Uses(Got(w, p), s)
           X(kind) == Uses(Loaded(kind), s) - Flying(<<kind, s>>)
<1>0. /\ Streams \subseteq Kinds /\ "k" \in Streams /\ "v" \in Streams
      /\ Produces("k") = "k" /\ Produces("v") = "v" /\ Produces("bias") = "k"
      /\ ("mask" \in Streams <=> Mask # "none")
      /\ (Mask = "row" => Produces("mask") = "k")
      /\ (Mask = "full" => Produces("mask") = "mask")
      /\ Mask \in {"none", "row", "full"}
  BY StreamFacts DEF Types
<1>1. m \in MBarriers \ {Q} /\ p \in {"k", "v", "mask"} /\ (p = "mask" => Mask = "full")
  BY <1>0, Barriers DEF Types, Q, Kinds
<1>2. \A kind \in Streams : Produces(kind) = p =>
        /\ u \in Nat /\ X(kind) \in {u, u + 1}
        /\ X(kind) = u + 1 => Uses(Loaded(kind), s) = u + 1 /\ Flying(<<kind, s>>) = 0
  BY KindArrived
<1>3. waits[w][m] = u /\ u \in Nat
  BY <1>1, <1>2 DEF Produced
<1>4. \A kind : Counted(kind, any, s) = IF kind \in Streams /\ Produces(kind) = p
                                     THEN X(kind) ELSE 0
  BY DEF Counted
<1>5. landed[m] = Counted("k", any, s) + Counted("bias", any, s) + Counted("mask", any, s) + Counted("v", any, s)
  BY <1>1 DEF Produced
<1>6. SUFFICES
        /\ Phases(m) \in {u, u + 1}
        /\ Phases(m) = u + 1 =>
             \A kind \in Streams : Produces(kind) = p => X(kind) = u + 1
  BY <1>2, <1>3
<1> HIDE DEF X, u
<1>7. CASE p = "v"
  <2>1. landed[m] = X("v") /\ X("v") \in {u, u + 1}
    BY <1>0, <1>2, <1>3, <1>4, <1>5, <1>7
  <2>2. NumArrivals(m) = 1
    BY <1>7, Arrivals DEF Types
  <2>3. Phases(m) = X("v")
    BY <1>3, <2>1, <2>2 DEF Phases
  <2> QED BY <1>0, <1>3, <1>7, <2>1, <2>3 DEF Kinds
<1>8. CASE p = "mask"
  <2>1. landed[m] = X("mask") /\ X("mask") \in {u, u + 1}
    BY <1>0, <1>1, <1>2, <1>3, <1>4, <1>5, <1>8
  <2>2. NumArrivals(m) = 1
    BY <1>1, <1>8, Arrivals DEF Types
  <2>3. Phases(m) = X("mask")
    BY <1>3, <2>1, <2>2 DEF Phases
  <2> QED BY <1>0, <1>3, <1>8, <2>1, <2>3 DEF Kinds
<1>9. CASE p = "k"
  <2> DEFINE b == One("bias" \in Streams)
             r == One(Mask = "row")
             x == X("k")
             y == IF "bias" \in Streams THEN X("bias") ELSE 0
             z == IF Mask = "row" THEN X("mask") ELSE 0
  <2>1. /\ b \in {0, 1} /\ r \in {0, 1} /\ x \in {u, u + 1}
        /\ y \in Nat /\ z \in Nat
        /\ (y = 0 \/ b = 1) /\ (b = 1 => y \in {u, u + 1})
        /\ (z = 0 \/ r = 1) /\ (r = 1 => z \in {u, u + 1})
    <3>1. /\ X("k") \in {u, u + 1}
          /\ "bias" \in Streams => X("bias") \in {u, u + 1}
          /\ Mask = "row" => X("mask") \in {u, u + 1}
      BY <1>0, <1>2, <1>9
    <3>2. "bias" \in Streams => X("bias") \in Nat
      BY <1>3, <3>1
    <3>3. Mask = "row" => X("mask") \in Nat
      BY <1>3, <3>1
    <3> QED BY <3>1, <3>2, <3>3 DEF One
  <2>2. Counted("k", any, s) = x /\ Counted("bias", any, s) = y /\ Counted("mask", any, s) = z
          /\ Counted("v", any, s) = 0
    BY <1>0, <1>4, <1>9
  <2>3. NumArrivals(m) = 1 + b + r
    BY <1>9, Arrivals DEF Types
  <2>4. \A kind \in Streams : Produces(kind) = p =>
          \/ kind = "k" \/ (kind = "bias" /\ b = 1 /\ X(kind) = y)
          \/ (kind = "mask" /\ r = 1 /\ X(kind) = z)
    BY <1>0, <1>9 DEF Kinds, One
  <2> HIDE DEF b, r, y, z
  <2>5. landed[m] = x + y + z
    BY <1>3, <1>5, <2>1, <2>2
  <2>6. Phases(m) = (x + y + z) \div (1 + b + r)
    BY <2>3, <2>5 DEF Phases
  <2>7. /\ Phases(m) \in {u, u + 1}
        /\ Phases(m) = u + 1 => x = u + 1 /\ (b = 1 => y = u + 1) /\ (r = 1 => z = u + 1)
    <3> HIDE DEF x
    <3>1. LET p1 == (x + y + z) \div (1 + b + r) IN
          /\ p1 \in {u, u + 1}
          /\ p1 = u + 1 => x = u + 1 /\ (b = 1 => y = u + 1) /\ (r = 1 => z = u + 1)
      BY <1>3, <2>1, AllArrived
    <3> QED BY <2>6, <3>1
  <2> QED BY <2>4, <2>7
<1> QED BY <1>1, <1>7, <1>8, <1>9

-----------------------------------------------------------------------------
\* The rings.

Arrives(a, B) == \A b \in Named, x \in Actors :
  arrivals'[b][x] = arrivals[b][x] + One(x = a /\ b \in B)
Waits(w, M) == \A v \in WGs, m \in MBarriers :
  waits'[v][m] = waits[v][m] + One(v = w /\ m \in M)

LEMMA ArrivalsMove ==
  ASSUME Types, UNCHANGED work, NEW a \in Actors, NEW B, ArriveAll(a, B)
  PROVE  arrivals' \in [Named -> [Actors -> Nat]] /\ Arrives(a, B)
<1>1. arrivals \in [Named -> [Actors -> Nat]]
  BY DEF Types, MemoryTypes
<1>2. arrivals' = [b \in Named |-> IF b \in B THEN [arrivals[b] EXCEPT ![a] = @ + 1]
                                   ELSE arrivals[b]]
  BY DEF ArriveAll
<1>3. \A b \in Named : /\ arrivals'[b] \in [Actors -> Nat]
                       /\ \A x \in Actors : arrivals'[b][x] =
                            arrivals[b][x] + One(x = a /\ b \in B)
  BY <1>1, <1>2 DEF One
<1>4. arrivals' \in [Named -> [Actors -> Nat]]
  BY <1>2, <1>3
<1> QED BY <1>3, <1>4 DEF Arrives

LEMMA WaitsMove ==
  ASSUME Types, UNCHANGED work, NEW w \in WGs, NEW M, Waited(w, M)
  PROVE  waits' \in [WGs -> [MBarriers -> Nat]] /\ Waits(w, M)
<1>1. waits \in [WGs -> [MBarriers -> Nat]]
  BY DEF Types, MemoryTypes
<1>2. waits' = [waits EXCEPT ![w] = [m \in MBarriers |->
                  IF m \in M THEN waits[w][m] + 1 ELSE waits[w][m]]]
  BY DEF Waited
<1>3. \A v \in WGs : /\ waits'[v] \in [MBarriers -> Nat]
                     /\ \A m \in MBarriers : waits'[v][m] =
                          waits[v][m] + One(v = w /\ m \in M)
  BY <1>1, <1>2 DEF One
<1>4. waits' \in [WGs -> [MBarriers -> Nat]]
  BY <1>1, <1>2, <1>3
<1> QED BY <1>3, <1>4 DEF Waits

\* A block that a warpgroup finds ready has been loaded, all of it.
LEMMA Fresh ==
  ASSUME SplitInRange, Types, Places, Window, InFlight, Produced,
         NEW any \in Streams, NEW w \in WGs,
         Ready(w, <<Produces(any), Got(w, Produces(any)) % Stages>>)
  PROVE  \A kind \in Streams : Produces(kind) = Produces(any) =>
           /\ Got(w, Produces(kind)) < Loaded(kind)
           /\ \A c \in copying : c[1] # <<kind, Got(w, Produces(kind)) % Stages>>
<1> DEFINE n == Got(w, Produces(any))
           s == n % Stages
           m == <<Produces(any), s>>
<1>1. n \in Nat /\ s \in Slots
  BY CountTypes, SlotOf
<1>2. /\ waits[w][m] = Uses(n, s) /\ waits[w][m] \in Nat
      /\ Phases(m) \in {waits[w][m], waits[w][m] + 1}
      /\ Phases(m) = waits[w][m] + 1 =>
           \A kind \in Streams : Produces(kind) = Produces(any) =>
             /\ Uses(Loaded(kind), s) = waits[w][m] + 1
             /\ Flying(<<kind, s>>) = 0
  BY <1>1, RingWaits
<1>3. Phases(m) = waits[w][m] + 1
  <2>1. Phases(m) % 2 # waits[w][m] % 2
    BY DEF Ready
  <2> HIDE DEF m
  <2> QED BY <1>2, <2>1
<1> SUFFICES ASSUME NEW kind \in Streams, Produces(kind) = Produces(any)
             PROVE  n < Loaded(kind) /\ \A c \in copying : c[1] # <<kind, s>>
  OBVIOUS
<1>4. Uses(Loaded(kind), s) = Uses(n, s) + 1 /\ Flying(<<kind, s>>) = 0
  BY <1>2, <1>3
<1>5. Loaded(kind) \in Nat /\ Uses(n, s) \in Nat
  BY <1>1, CountTypes, UsesStep
<1>6. n < Loaded(kind)
  <2>1. Loaded(kind) =< n => Uses(Loaded(kind), s) =< Uses(n, s)
    BY <1>1, <1>5, UsesMonotone
  <2> QED BY <1>1, <1>4, <1>5, <2>1
<1>7. \A c \in copying : c[1] # <<kind, s>>
  BY <1>4 DEF Flying
<1> QED BY <1>6, <1>7

Rings == Window /\ Consumed /\ Produced /\ InFlight /\ Contents

\* The arrivals at the rings: w frees F, the K/V warp asks for A, and a warpgroup
\* that leaves its prologue frees all slots.
RingArrivals(w, F, A) == \A kind \in Ring, s \in Slots, x \in Actors :
  arrivals'[<<kind, s>>][x] = arrivals[<<kind, s>>][x]
    + One(x = w /\ kind \in F /\ s = Freed(w, kind) % Stages)
    + One(x = "kv" /\ kind \in A /\ s = Synced(kind) % Stages)
    + One(x \in WGs /\ pc[x] = "prologue" /\ pc'[x] # "prologue")
\* w waits for its next block of the barriers G.
RingGets(w, G) == \A v \in WGs, kind \in Streams, s \in Slots :
  waits'[v][<<Produces(kind), s>>] = waits[v][<<Produces(kind), s>>]
    + One(v = w /\ Produces(kind) \in G /\ s = Got(w, Produces(kind)) % Stages)

\* What is freed, asked for and waited for leaves the rings as they should be.
LEMMA RingUse ==
  ASSUME SplitInRange, Types, Places, Rings, UNCHANGED <<work, smem>>,
         \A v \in WGs : pc'[v] = "prologue" => pc[v] = "prologue",
         NEW w \in WGs, NEW F, NEW G, NEW A, KvStep({}, A), WgStep(w, F, G),
         RingArrivals(w, F, A), RingGets(w, G),
         \A kind \in Streams : kind \in F => Freed(w, kind) < Got(w, Produces(kind)),
         \A kind \in Streams : Produces(kind) \in G =>
           Ready(w, <<Produces(kind), Got(w, Produces(kind)) % Stages>>),
         \A m \in MBarriers \ {Q} : landed'[m] = landed[m],
         copying \subseteq copying', \A c \in copying' \ copying : c[1] = Q
  PROVE  Rings'
<1>1. /\ Streams' = Streams /\ Ring' = Ring /\ Tiles' = Tiles /\ range' = range
      /\ \A kind : Produces(kind)' = Produces(kind)
      /\ \A t, k : Number(t, k)' = Number(t, k)
  BY SameWork
<1>2. \A kind \in Streams : /\ Loaded(kind)' = Loaded(kind)
                            /\ Synced(kind)' = Synced(kind) + One(kind \in A)
  BY CountTypes DEF KvStep, One
<1>3. \A v \in WGs, kind \in Streams :
        /\ Freed(v, kind) \in Nat /\ Got(v, Produces(kind)) \in Nat
        /\ Freed(v, kind)' = Freed(v, kind) + One(v = w /\ kind \in F)
        /\ Got(v, Produces(kind))' = Got(v, Produces(kind)) + One(v = w /\ Produces(kind) \in G)
  BY CountTypes DEF WgStep
<1>4. \A kind \in Streams : Produces(kind) \in G =>
        /\ Got(w, Produces(kind)) < Loaded(kind)
        /\ \A c \in copying : c[1] # <<kind, Got(w, Produces(kind)) % Stages>>
  BY Fresh DEF Rings
<1>5. \A kind \in Streams : Loaded(kind) \in Nat /\ kind # "q" /\ Stages \in Nat
  BY CountTypes, StreamFacts DEF Types, Kinds
<1>6. Window'
  <2> SUFFICES ASSUME NEW kind \in Streams, NEW v \in WGs
               PROVE  /\ Freed(v, kind)' =< Got(v, Produces(kind))'
                      /\ Got(v, Produces(kind))' =< Loaded(kind)'
                      /\ Loaded(kind)' =< Freed(v, kind)' + Stages
                      /\ pc'[v] = "prologue" => Loaded(kind)' = 0
    BY <1>1 DEF Window
  <2>1. /\ Freed(v, kind) =< Got(v, Produces(kind))
        /\ Got(v, Produces(kind)) =< Loaded(kind)
        /\ Loaded(kind) =< Freed(v, kind) + Stages
        /\ pc[v] = "prologue" => Loaded(kind) = 0
    BY DEF Rings, Window
  <2>2. Loaded(kind)' = Loaded(kind) /\ (pc'[v] = "prologue" => pc[v] = "prologue")
    BY <1>2
  <2> QED BY <1>3, <1>4, <1>5, <2>1, <2>2 DEF One
<1>7. Consumed'
  <2> SUFFICES ASSUME NEW kind \in Ring, NEW s \in Slots, NEW a \in Actors
               PROVE  arrivals'[<<kind, s>>][a] =
                        CASE a \in WGs -> Uses(Freed(a, kind)', s)
                                            + (IF pc'[a] = "prologue" THEN 0 ELSE 1)
                          [] a = "kv" -> Uses(Synced(kind)', s)
                          [] OTHER -> 0
    BY <1>1 DEF Consumed, Uses
  <2>1. arrivals[<<kind, s>>][a] =
          CASE a \in WGs -> Uses(Freed(a, kind), s)
                              + (IF pc[a] = "prologue" THEN 0 ELSE 1)
            [] a = "kv" -> Uses(Synced(kind), s)
            [] OTHER -> 0
    BY DEF Rings, Consumed
  <2>2. kind \in Streams
    BY DEF Ring
  <2> DEFINE free == One(a = w /\ kind \in F /\ s = Freed(w, kind) % Stages)
             ask == One(a = "kv" /\ kind \in A /\ s = Synced(kind) % Stages)
             first == One(a \in WGs /\ pc[a] = "prologue" /\ pc'[a] # "prologue")
  <2>3. /\ arrivals'[<<kind, s>>][a] = arrivals[<<kind, s>>][a] + free + ask + first
        /\ free \in {0, 1} /\ ask \in {0, 1} /\ first \in {0, 1}
    BY DEF RingArrivals, One
  <2>4. CASE a \in WGs
    <3>1. a # "kv" /\ ask = 0
      BY <2>4 DEF WGs, One
    <3>2. Uses(Freed(a, kind)', s) = Uses(Freed(a, kind), s) + free
      BY <1>3, <2>2, <2>4, UsesStep DEF One
    <3>3. (IF pc'[a] = "prologue" THEN 0 ELSE 1) =
            (IF pc[a] = "prologue" THEN 0 ELSE 1) + first
      BY <2>4 DEF One
    <3>4. Uses(Freed(a, kind), s) \in Nat
      BY <1>3, <2>2, <2>4, UsesStep
    <3> HIDE DEF Uses, free, ask, first
    <3>5. arrivals[<<kind, s>>][a] =
            Uses(Freed(a, kind), s) + (IF pc[a] = "prologue" THEN 0 ELSE 1)
      BY <2>1, <2>4, <3>1
    <3>6. arrivals'[<<kind, s>>][a] =
            Uses(Freed(a, kind)', s) + (IF pc'[a] = "prologue" THEN 0 ELSE 1)
      BY <2>3, <3>1, <3>2, <3>3, <3>4, <3>5
    <3> QED BY <2>4, <3>1, <3>6
  <2>5. CASE a = "kv"
    <3>1. a \notin WGs /\ free = 0 /\ first = 0
      BY <2>5 DEF WGs, One
    <3>2. Uses(Synced(kind)', s) = Uses(Synced(kind), s) + ask
      BY <1>2, <2>2, <2>5, CountTypes, UsesStep DEF One
    <3>3. Uses(Synced(kind), s) \in Nat
      BY <2>2, CountTypes, UsesStep
    <3> HIDE DEF free, ask, first
    <3> QED BY <2>1, <2>3, <2>5, <3>1, <3>2, <3>3
  <2>6. CASE a \notin WGs /\ a # "kv"
    <3>1. free = 0 /\ ask = 0 /\ first = 0
      BY <2>6 DEF One
    <3> HIDE DEF free, ask, first
    <3> QED BY <2>1, <2>3, <2>6, <3>1
  <2> QED BY <2>4, <2>5, <2>6
<1>8. \A b : b # Q => Flying(b)' = Flying(b)
  BY DEF Flying
<1>9. Produced'
  <2> SUFFICES ASSUME NEW any \in Streams, NEW s \in Slots
               PROVE  /\ landed'[<<Produces(any), s>>] = Counted("k", any, s)'
                           + Counted("bias", any, s)' + Counted("mask", any, s)'
                           + Counted("v", any, s)'
                      /\ \A v \in WGs : waits'[v][<<Produces(any), s>>] =
                           Uses(Got(v, Produces(any))', s)
    BY <1>1 DEF Produced, Uses
  <2>1. <<Produces(any), s>> \in MBarriers \ {Q}
    BY Barriers, StreamFacts DEF Types, Q, Kinds
  <2>2. \A kind \in Kinds : Counted(kind, any, s)' = Counted(kind, any, s)
    <3> SUFFICES ASSUME NEW kind \in Kinds
                 PROVE  Counted(kind, any, s)' = Counted(kind, any, s)
      OBVIOUS
    <3>1. Flying(<<kind, s>>)' = Flying(<<kind, s>>)
      BY <1>8 DEF Q, Kinds
    <3>2. kind \in Streams => Loaded(kind)' = Loaded(kind)
      BY <1>2
    <3> QED BY <1>1, <3>1, <3>2 DEF Counted, Uses
  <2>3. \A v \in WGs : waits'[v][<<Produces(any), s>>] = Uses(Got(v, Produces(any))', s)
    <3> SUFFICES ASSUME NEW v \in WGs
                 PROVE  waits'[v][<<Produces(any), s>>] = Uses(Got(v, Produces(any))', s)
      OBVIOUS
    <3>1. waits[v][<<Produces(any), s>>] = Uses(Got(v, Produces(any)), s)
      BY DEF Rings, Produced
    <3>2. Uses(Got(v, Produces(any))', s) = Uses(Got(v, Produces(any)), s)
            + One(v = w /\ Produces(any) \in G /\ s = Got(w, Produces(any)) % Stages)
      BY <1>3, UsesStep DEF One
    <3> QED BY <3>1, <3>2 DEF RingGets
  <2>4. landed'[<<Produces(any), s>>] = landed[<<Produces(any), s>>]
    BY <2>1
  <2>5. landed[<<Produces(any), s>>] = Counted("k", any, s)
          + Counted("bias", any, s) + Counted("mask", any, s) + Counted("v", any, s)
    BY DEF Rings, Produced
  <2> QED BY <2>2, <2>3, <2>4, <2>5 DEF Kinds
<1>10. InFlight'
  <2> SUFFICES ASSUME NEW c \in copying', c[1] # Q
               PROVE  /\ IsBlock(c[2])' /\ c[1][2] = Block1(c)' % Stages
                      /\ Block1(c)' < Loaded(c[1][1])'
                      /\ \A v \in WGs : Got(v, Produces(c[1][1]))' =< Block1(c)'
    BY DEF InFlight
  <2>1. c \in copying
    OBVIOUS
  <2>2. PICK kind \in Streams, s \in Slots : c[1] = <<kind, s>>
    BY <2>1, Barriers DEF Types, MemoryTypes
  <2>3. /\ Block1(c) \in Nat /\ Block1(c) % Stages = s /\ Block1(c) < Loaded(kind)
        /\ \A v \in WGs : Got(v, Produces(kind)) =< Block1(c)
    BY <2>1, <2>2, Flight DEF Rings
  <2>4. Block1(c)' = Block1(c) /\ IsBlock(c[2])' /\ c[1][1] = kind /\ c[1][2] = s
    <3>1. c[1][1] = kind /\ c[1][2] = s
      BY <2>2
    <3>2. IsBlock(c[2])
      BY <2>1 DEF Rings, InFlight
    <3>3. Prior' = Prior
      BY SameWork
    <3> QED BY <1>1, <3>1, <3>2, <3>3 DEF Block1, IsBlock, Number
  <2>5. \A v \in WGs : Got(v, Produces(kind))' =< Block1(c)
    <3> SUFFICES ASSUME NEW v \in WGs PROVE Got(v, Produces(kind))' =< Block1(c)
      OBVIOUS
    <3>1. CASE v = w /\ Produces(kind) \in G
      <4>1. Got(w, Produces(kind)) # Block1(c)
        BY <1>4, <2>1, <2>2, <2>3, <3>1
      <4> QED BY <1>3, <2>3, <3>1, <4>1 DEF One
    <3>2. CASE ~(v = w /\ Produces(kind) \in G)
      BY <1>3, <2>3, <3>2 DEF One
    <3> QED BY <3>1, <3>2
  <2>6. Loaded(c[1][1])' = Loaded(kind)
    BY <1>2, <2>4 DEF Loaded
  <2>7. \A v \in WGs : Got(v, Produces(c[1][1]))' = Got(v, Produces(kind))'
    BY <1>1, <2>4
  <2> QED BY <2>3, <2>4, <2>5, <2>6, <2>7
<1>11. Contents'
  BY <1>1, <1>2 DEF Contents, Rings
<1> QED BY <1>6, <1>7, <1>9, <1>10, <1>11 DEF Rings

\* The slot an actor is at is that of its next block.
LEMMA HereIs ==
  ASSUME SplitInRange, Types, NEW a \in WGs \cup {"kv"}, Place(a),
         pc[a] \in InBlock \/ Looping(a), NEW kind
  PROVE  Here(a, kind) = <<kind, Before(a) % Stages>>
<1>1. /\ Before(a) \in Nat /\ Before(a) = Number(tile[a], ki[a])
      /\ prev[a] = Prior[tile[a]]
  BY Whereabouts DEF InBlock, InIteration, Looping
<1>2. prev[a] + ki[a] - TileRange(a).lb = Before(a)
  BY <1>1 DEF Number, TileRange
<1> QED BY <1>1, <1>2 DEF Here, Slot, Rem

\* The copies of a block that is loaded into free slots.
LEMMA RingLoad ==
  ASSUME SplitInRange, Types, Places, Rings, SamePrologues,
         UNCHANGED <<work, arrivals, landed, waits, smem>>,
         NEW L, KvStep(L, {}), WgStep("wg0", {}, {}), pc["kv"] \in InBlock,
         copying' = copying \cup Block(L \cap Streams),
         \A kind \in Streams : kind \in L =>
           /\ Loaded(kind) = Before("kv")
           /\ \A w \in WGs : pc[w] # "prologue" /\ Before("kv") < Freed(w, kind) + Stages
  PROVE  Rings'
<1> DEFINE n == Before("kv")
           t == tile["kv"]
           k == ki["kv"]
<1>1. /\ Streams' = Streams /\ Ring' = Ring /\ Tiles' = Tiles /\ range' = range
      /\ Prior' = Prior
      /\ \A kind : Produces(kind)' = Produces(kind)
      /\ \A u, l : Number(u, l)' = Number(u, l)
  BY SameWork
<1>2. /\ n \in Nat /\ t \in 1..Tiles /\ k \in range[t].lb..range[t].ub - 1
      /\ n = Number(t, k)
  BY Whereabouts DEF Places, TileRange, InBlock, InIteration
<1>3. Block(L \cap Streams) = {<<<<kind, n % Stages>>, <<t, k>>>> : kind \in L \cap Streams}
  <2>1. \A kind : Here("kv", kind) = <<kind, n % Stages>>
    BY HereIs DEF Places
  <2> QED BY <2>1 DEF Block
<1>3b. \A kind, s : (\E c \in copying' : c[1] = <<kind, s>>) <=>
          \/ \E c \in copying : c[1] = <<kind, s>>
          \/ kind \in L \cap Streams /\ s = n % Stages
  <2> SUFFICES ASSUME NEW kind, NEW s
               PROVE  (\E c \in copying' : c[1] = <<kind, s>>) <=>
                        \/ \E c \in copying : c[1] = <<kind, s>>
                        \/ kind \in L \cap Streams /\ s = n % Stages
    OBVIOUS
  <2>1. ASSUME NEW c \in Block(L \cap Streams), c[1] = <<kind, s>>
        PROVE  kind \in L \cap Streams /\ s = n % Stages
    <3>1. PICK i \in L \cap Streams : c = <<<<i, n % Stages>>, <<t, k>>>>
      BY <1>3
    <3>2. c[1] = <<i, n % Stages>>
      BY <3>1
    <3> QED BY <2>1, <3>1, <3>2
  <2>2. ASSUME kind \in L \cap Streams, s = n % Stages
        PROVE  \E c \in copying' : c[1] = <<kind, s>>
    <3>1. <<<<kind, s>>, <<t, k>>>> \in copying'
      BY <1>3, <2>2
    <3>2. <<<<kind, s>>, <<t, k>>>>[1] = <<kind, s>>
      OBVIOUS
    <3> QED BY <3>1, <3>2
  <2> QED BY <2>1, <2>2
<1>4. \A kind \in Streams :
        /\ Loaded(kind) \in Nat /\ Synced(kind) \in Nat
        /\ Loaded(kind)' = Loaded(kind) + One(kind \in L)
        /\ Synced(kind)' = Synced(kind)
  BY CountTypes DEF KvStep, One
<1>5. \A v \in WGs, kind \in Streams :
        /\ Freed(v, kind) \in Nat /\ Got(v, Produces(kind)) \in Nat
        /\ Freed(v, kind)' = Freed(v, kind)
        /\ Got(v, Produces(kind))' = Got(v, Produces(kind))
  BY CountTypes DEF WgStep, One
<1>6. /\ Stages \in Nat \ {0} /\ n % Stages \in Slots
      /\ \A kind \in Streams : kind # "q"
  BY <1>2, SlotOf, StreamFacts DEF Types, Kinds
<1>7. \A v \in WGs, kind \in Streams :
        /\ Freed(v, kind) =< Got(v, Produces(kind))
        /\ Got(v, Produces(kind)) =< Loaded(kind)
        /\ Loaded(kind) =< Freed(v, kind) + Stages
        /\ pc[v] = "prologue" => Loaded(kind) = 0
  BY DEF Rings, Window
<1>8. \A c \in copying, kind \in Streams : kind \in L => c[1] # <<kind, n % Stages>>
  <2> SUFFICES ASSUME NEW c \in copying, NEW kind \in Streams, kind \in L,
                      c[1] = <<kind, n % Stages>>
               PROVE  FALSE
    OBVIOUS
  <2> DEFINE i == Block1(c)
  <2>1. i \in Nat /\ i % Stages = n % Stages /\ i < n /\ Got("wg0", Produces(kind)) =< i
    BY <1>6, Flight DEF Rings, WGs
  <2> HIDE DEF i
  <2>2. i + Stages =< n
    BY <1>2, <2>1, SameSlot
  <2>3. Freed("wg0", kind) =< i /\ n < Freed("wg0", kind) + Stages
    BY <1>5, <1>7, <2>1 DEF WGs
  <2> QED BY <1>2, <1>5, <1>6, <2>1, <2>2, <2>3 DEF WGs
<1>9. Window'
  <2> SUFFICES ASSUME NEW kind \in Streams, NEW v \in WGs
               PROVE  /\ Freed(v, kind)' =< Got(v, Produces(kind))'
                      /\ Got(v, Produces(kind))' =< Loaded(kind)'
                      /\ Loaded(kind)' =< Freed(v, kind)' + Stages
                      /\ pc'[v] = "prologue" => Loaded(kind)' = 0
    BY <1>1 DEF Window
  <2>1. pc'[v] = "prologue" => pc[v] = "prologue" /\ kind \notin L
    BY DEF SamePrologues
  <2> QED BY <1>2, <1>4, <1>5, <1>6, <1>7, <2>1 DEF One
<1>10. Consumed'
  <2> SUFFICES ASSUME NEW kind \in Ring, NEW s \in Slots, NEW a \in Actors
               PROVE  arrivals[<<kind, s>>][a] =
                        CASE a \in WGs -> Uses(Freed(a, kind)', s)
                                            + (IF pc'[a] = "prologue" THEN 0 ELSE 1)
                          [] a = "kv" -> Uses(Synced(kind)', s)
                          [] OTHER -> 0
    BY <1>1 DEF Consumed, Uses
  <2>1. arrivals[<<kind, s>>][a] =
          CASE a \in WGs -> Uses(Freed(a, kind), s)
                              + (IF pc[a] = "prologue" THEN 0 ELSE 1)
            [] a = "kv" -> Uses(Synced(kind), s)
            [] OTHER -> 0
    BY DEF Rings, Consumed
  <2>2. kind \in Streams
    BY DEF Ring
  <2>3. a \in WGs => (Freed(a, kind)' = Freed(a, kind) /\ (pc'[a] = "prologue" <=> pc[a] = "prologue"))
    BY <1>5, <2>2 DEF SamePrologues
  <2>4. Synced(kind)' = Synced(kind)
    BY <1>4, <2>2
  <2> QED BY <2>1, <2>3, <2>4
<1>11. Produced'
  <2>1. ASSUME NEW kind \in Kinds, NEW any \in Streams, NEW s \in Slots
        PROVE  Counted(kind, any, s)' = Counted(kind, any, s)
    <3>1. CASE kind \in Streams /\ kind \in L
      <4>1. Loaded(kind)' = n + 1 /\ Loaded(kind) = n
        BY <1>4, <3>1 DEF One
      <4>2. Flying(<<kind, s>>)' = Flying(<<kind, s>>) + One(n % Stages = s)
        <5>1. CASE n % Stages = s
          <6>1. <<<<kind, s>>, <<t, k>>>> \in copying'
            BY <1>3, <3>1, <5>1
          <6> QED BY <1>8, <3>1, <5>1, <6>1 DEF Flying, One
        <5>2. CASE n % Stages # s
          <6>1. Flying(<<kind, s>>)' = Flying(<<kind, s>>)
            BY <1>3b, <5>2 DEF Flying
          <6>2. Flying(<<kind, s>>) \in Nat /\ One(n % Stages = s) = 0
            BY <5>2 DEF Flying, One
          <6> QED BY <6>1, <6>2
        <5> QED BY <5>1, <5>2
      <4>3. Uses(n + 1, s) = Uses(n, s) + One(n % Stages = s) /\ Uses(n, s) \in Nat
        BY <1>2, UsesStep DEF One
      <4>4. Uses(Loaded(kind)', s) - Flying(<<kind, s>>)' =
              Uses(Loaded(kind), s) - Flying(<<kind, s>>)
        <5>1. Flying(<<kind, s>>) \in {0, 1} /\ One(n % Stages = s) \in {0, 1}
          BY DEF Flying, One
        <5> HIDE DEF n
        <5> QED BY <4>1, <4>2, <4>3, <5>1
      <4> QED BY <1>1, <4>4 DEF Counted, Uses
    <3>2. CASE kind \in Streams /\ kind \notin L
      <4>1. Loaded(kind)' = Loaded(kind)
        BY <1>4, <3>2 DEF One
      <4>2. Flying(<<kind, s>>)' = Flying(<<kind, s>>)
        BY <1>3b, <3>2 DEF Flying
      <4> QED BY <1>1, <4>1, <4>2 DEF Counted, Uses
    <3>3. CASE kind \notin Streams
      BY <1>1, <3>3 DEF Counted
    <3> QED BY <3>1, <3>2, <3>3
  <2> SUFFICES ASSUME NEW any \in Streams, NEW s \in Slots
               PROVE  /\ landed[<<Produces(any), s>>] = Counted("k", any, s)'
                           + Counted("bias", any, s)' + Counted("mask", any, s)'
                           + Counted("v", any, s)'
                      /\ \A v \in WGs : waits[v][<<Produces(any), s>>] =
                           Uses(Got(v, Produces(any))', s)
    BY <1>1 DEF Produced, Uses
  <2> QED BY <1>5, <2>1 DEF Rings, Produced, Kinds
<1>12. InFlight'
  <2> SUFFICES ASSUME NEW c \in copying', c[1] # Q
               PROVE  /\ IsBlock(c[2])' /\ c[1][2] = Block1(c)' % Stages
                      /\ Block1(c)' < Loaded(c[1][1])'
                      /\ \A v \in WGs : Got(v, Produces(c[1][1]))' =< Block1(c)'
    BY DEF InFlight
  <2> SUFFICES \E kind \in Streams :
                 /\ c[1][1] = kind /\ IsBlock(c[2]) /\ c[1][2] = Block1(c) % Stages
                 /\ Block1(c) < Loaded(kind)'
                 /\ \A v \in WGs : Got(v, Produces(kind)) =< Block1(c)
    <3>1. PICK kind \in Streams :
                 /\ c[1][1] = kind /\ IsBlock(c[2]) /\ c[1][2] = Block1(c) % Stages
                 /\ Block1(c) < Loaded(kind)'
                 /\ \A v \in WGs : Got(v, Produces(kind)) =< Block1(c)
      OBVIOUS
    <3>2. Block1(c)' = Block1(c) /\ IsBlock(c[2])'
      BY <1>1, <3>1 DEF Block1, IsBlock, Number
    <3>3. Loaded(c[1][1])' = Loaded(kind)'
      BY <3>1 DEF Loaded
    <3>4. \A v \in WGs : Got(v, Produces(c[1][1]))' = Got(v, Produces(kind))'
      BY <1>1, <3>1
    <3> QED BY <1>5, <3>1, <3>2, <3>3, <3>4
  <2>1. CASE c \in copying
    <3>1. PICK kind \in Streams, s \in Slots : c[1] = <<kind, s>>
      BY <2>1, Barriers DEF Types, MemoryTypes
    <3>2. /\ Block1(c) \in Nat /\ Block1(c) % Stages = s /\ Block1(c) < Loaded(kind)
          /\ \A v \in WGs : Got(v, Produces(kind)) =< Block1(c)
      BY <2>1, <3>1, Flight DEF Rings
    <3>3. IsBlock(c[2]) /\ c[1][1] = kind /\ c[1][2] = s
      <4>1. c[1][1] = kind /\ c[1][2] = s
        BY <3>1
      <4>2. IsBlock(c[2])
        BY <2>1 DEF Rings, InFlight
      <4> QED BY <4>1, <4>2
    <3>4. Block1(c) < Loaded(kind)'
      BY <1>4, <3>2 DEF One
    <3> QED BY <3>2, <3>3, <3>4
  <2>2. CASE c \notin copying
    <3>1. PICK kind \in L \cap Streams : c = <<<<kind, n % Stages>>, <<t, k>>>>
      BY <1>3, <2>2
    <3>2. c[1] = <<kind, n % Stages>> /\ c[2] = <<t, k>>
      BY <3>1
    <3>3. c[1][1] = kind /\ c[1][2] = n % Stages /\ c[2][1] = t /\ c[2][2] = k
      BY <3>2
    <3>4. Block1(c) = n
      BY <1>2, <3>3 DEF Block1
    <3>5. IsBlock(c[2])
      <4>1. t \in 1..Tiles /\ range[t].lb =< k /\ k < range[t].ub
        BY <1>2, Work
      <4> QED BY <3>3, <4>1 DEF IsBlock
    <3>6. Loaded(kind)' = n + 1 /\ Loaded(kind) = n
      BY <1>4, <3>1 DEF One
    <3> HIDE DEF n, t, k
    <3>7. \A v \in WGs : Got(v, Produces(kind)) =< n
      BY <1>7, <3>1, <3>6
    <3> QED BY <1>2, <3>1, <3>3, <3>4, <3>5, <3>6, <3>7
  <2> QED BY <2>1, <2>2
<1>13. ASSUME NEW kind \in Streams, NEW u \in 1..Tiles,
              NEW l \in range[u].lb..range[u].ub - 1,
              Number(u, l) < Loaded(kind)',
              Loaded(kind)' =< Number(u, l) + Stages
       PROVE  LET b == <<kind, Number(u, l) % Stages>> IN
              <<b, <<u, l>>>> \in copying' \/ smem[b] = <<u, l>>
  <2>1. Number(u, l) \in Nat
    BY BlockNumber
  <2>2. CASE Number(u, l) < Loaded(kind)
    <3>1. Loaded(kind) =< Number(u, l) + Stages
      BY <1>4, <1>6, <1>13, <2>1 DEF One
    <3> QED BY <2>2, <3>1 DEF Rings, Contents
  <2>3. CASE ~(Number(u, l) < Loaded(kind))
    <3>1. kind \in L /\ Number(u, l) = n
      BY <1>2, <1>4, <1>13, <2>1, <2>3 DEF One
    <3>2. u = t /\ l = k
      <4>1. PICK x \in 1..Tiles : x = t
        BY <1>2
      <4>2. PICK y \in range[x].lb..range[x].ub - 1 : y = k
        BY <1>2, <4>1
      <4>3. Number(u, l) = Number(x, y)
        BY <1>2, <3>1, <4>1, <4>2
      <4>4. u = x /\ l = y
        BY <4>3, SameBlock
      <4> QED BY <4>1, <4>2, <4>4
    <3>3. <<<<kind, n % Stages>>, <<t, k>>>> \in copying'
      BY <1>3, <3>1
    <3> QED BY <3>1, <3>2, <3>3
  <2> QED BY <2>2, <2>3
<1>14. Contents'
  <2> SUFFICES ASSUME NEW kind \in Streams', NEW u \in 1..Tiles',
                      NEW l \in range'[u].lb..range'[u].ub - 1,
                      Number(u, l)' < Loaded(kind)',
                      Loaded(kind)' =< Number(u, l)' + Stages
               PROVE  LET b == <<kind, Number(u, l)' % Stages>> IN
                      <<b, <<u, l>>>> \in copying' \/ smem'[b] = <<u, l>>
    BY DEF Contents
  <2> DEFINE num == Number(u, l)
  <2>1. /\ kind \in Streams /\ u \in 1..Tiles /\ l \in range[u].lb..range[u].ub - 1
        /\ Number(u, l)' = num /\ num < Loaded(kind)' /\ Loaded(kind)' =< num + Stages
    BY <1>1
  <2>2. <<<<kind, num % Stages>>, <<u, l>>>> \in copying' \/ smem[<<kind, num % Stages>>] = <<u, l>>
    BY <1>13, <2>1
  <2> HIDE DEF num
  <2> QED BY <2>1, <2>2
<1> QED BY <1>9, <1>10, <1>11, <1>12, <1>14 DEF Rings

\* A copy lands.
LEMMA RingLand ==
  ASSUME SplitInRange, Types, Places, Rings, NEW c \in copying, Land(c)
  PROVE  Rings'
<1>1. /\ Streams' = Streams /\ Ring' = Ring /\ Tiles' = Tiles /\ range' = range
      /\ Prior' = Prior
      /\ \A kind : Produces(kind)' = Produces(kind)
      /\ \A u, l : Number(u, l)' = Number(u, l)
  BY SameWork DEF Land
<1>2. /\ copying' = copying \ {c}
      /\ smem' = [smem EXCEPT ![c[1]] = c[2]]
      /\ landed' = [landed EXCEPT ![<<Produces(c[1][1]), c[1][2]>>] = @ + 1]
      /\ arrivals' = arrivals /\ waits' = waits
      /\ pc' = pc /\ tile' = tile /\ ki' = ki /\ prev' = prev
  BY DEF Land, position
<1>3. /\ DOMAIN smem = Buffers /\ landed \in [MBarriers -> Nat]
      /\ c[1] \in Buffers
  BY DEF Types, MemoryTypes
<1>4. /\ \A a : Before(a)' = Before(a)
      /\ \A kind : Loaded(kind)' = Loaded(kind) /\ Synced(kind)' = Synced(kind)
      /\ \A w, kind : Freed(w, kind)' = Freed(w, kind)
      /\ \A w, kind : Got(w, Produces(kind))' = Got(w, Produces(kind))
  <2>1. \A a : Before(a)' = Before(a)
    BY <1>1, <1>2 DEF Before, TileRange
  <2>2. \A a, S : In(a, S)' = In(a, S)
    BY <1>2 DEF In
  <2>3. \A kind : Loaded(kind)' = Loaded(kind) /\ Synced(kind)' = Synced(kind)
    BY <2>1, <1>2 DEF Loaded, Synced, In
  <2>4. \A w, kind : Freed(w, kind)' = Freed(w, kind)
    BY <2>1, <1>2 DEF Freed, In
  <2>5. \A w, kind : Got(w, Produces(kind))' = Got(w, Produces(kind))
    BY <1>1, <2>1, <1>2 DEF Got, In, TileRange
  <2> QED BY <2>1, <2>3, <2>4, <2>5
<1>5. Window'
  BY <1>1, <1>2, <1>4 DEF Rings, Window
<1>6. Consumed'
  <2> SUFFICES ASSUME NEW kind \in Ring, NEW s \in Slots, NEW a \in Actors
               PROVE  arrivals'[<<kind, s>>][a] =
                        CASE a \in WGs -> Uses(Freed(a, kind)', s)
                                            + (IF pc'[a] = "prologue" THEN 0 ELSE 1)
                          [] a = "kv" -> Uses(Synced(kind)', s)
                          [] OTHER -> 0
    BY <1>1 DEF Consumed, Uses
  <2>1. Freed(a, kind)' = Freed(a, kind) /\ Synced(kind)' = Synced(kind)
    BY <1>4
  <2> QED BY <1>2, <2>1 DEF Rings, Consumed
<1>7. ASSUME NEW kind \in Streams, NEW s \in Slots
      PROVE  Flying(<<kind, s>>)' = Flying(<<kind, s>>) - One(c[1] = <<kind, s>>)
  <2>1. CASE c[1] = <<kind, s>>
    <3>1. ASSUME NEW d \in copying, d[1] = <<kind, s>> PROVE d = c
      <4>1. /\ Block1(d) \in Nat /\ Block1(d) % Stages = s
            /\ Block1(d) < Loaded(kind) /\ Loaded(kind) =< Block1(d) + Stages
            /\ d = <<d[1], d[2]>> /\ d[2] = <<d[2][1], d[2][2]>>
            /\ d[2][1] \in 1..Tiles /\ d[2][2] \in range[d[2][1]].lb..range[d[2][1]].ub - 1
            /\ Block1(d) = Number(d[2][1], d[2][2])
        BY <3>1, Flight DEF Rings
      <4>2. PICK t \in 1..Tiles : t = d[2][1]
        BY <4>1
      <4>3. PICK k \in range[t].lb..range[t].ub - 1 : k = d[2][2]
        BY <4>1, <4>2
      <4>4. /\ Number(t, k) % Stages = s /\ Number(t, k) < Loaded(kind)
            /\ Loaded(kind) =< Number(t, k) + Stages
        BY <4>1, <4>2, <4>3
      <4>5. c = <<<<kind, s>>, <<t, k>>>>
        BY <2>1, <4>4, OneFlight DEF Rings
      <4> QED BY <3>1, <4>1, <4>2, <4>3, <4>5
    <3>2. Flying(<<kind, s>>) = 1 /\ Flying(<<kind, s>>)' = 0
      BY <1>2, <2>1, <3>1 DEF Flying
    <3> QED BY <2>1, <3>2 DEF One
  <2>2. CASE c[1] # <<kind, s>>
    <3>1. Flying(<<kind, s>>)' = Flying(<<kind, s>>) /\ Flying(<<kind, s>>) \in Nat
      BY <1>2, <2>2 DEF Flying
    <3> QED BY <2>2, <3>1 DEF One
  <2> QED BY <2>1, <2>2
<1>8. Produced'
  <2>1. ASSUME NEW kind \in Kinds, NEW any \in Streams, NEW s \in Slots
        PROVE  /\ Counted(kind, any, s)' = Counted(kind, any, s)
                 + One(kind \in Streams /\ Produces(kind) = Produces(any) /\ c[1] = <<kind, s>>)
               /\ Counted(kind, any, s) \in Int
    <3>1. CASE kind \in Streams /\ Produces(kind) = Produces(any)
      <4>1. Flying(<<kind, s>>)' = Flying(<<kind, s>>) - One(c[1] = <<kind, s>>)
        BY <1>7, <3>1
      <4>2. Uses(Loaded(kind), s) \in Nat /\ Uses(Loaded(kind)', s) = Uses(Loaded(kind), s)
        BY <1>4, <3>1, CountTypes, UsesStep
      <4>3. Flying(<<kind, s>>) \in Nat /\ One(c[1] = <<kind, s>>) \in Nat
        BY DEF Flying, One
      <4>4. Counted(kind, any, s)' = Uses(Loaded(kind)', s) - Flying(<<kind, s>>)'
        BY <1>1, <3>1 DEF Counted, Uses
      <4>5. Counted(kind, any, s) = Uses(Loaded(kind), s) - Flying(<<kind, s>>)
        BY <3>1 DEF Counted
      <4>6. One(kind \in Streams /\ Produces(kind) = Produces(any) /\ c[1] = <<kind, s>>) =
              One(c[1] = <<kind, s>>)
        BY <3>1
      <4> QED BY <4>1, <4>2, <4>3, <4>4, <4>5, <4>6
    <3>2. CASE ~(kind \in Streams /\ Produces(kind) = Produces(any))
      BY <1>1, <3>2 DEF Counted, One
    <3> QED BY <3>1, <3>2
  <2> SUFFICES ASSUME NEW any \in Streams, NEW s \in Slots
               PROVE  /\ landed'[<<Produces(any), s>>] = Counted("k", any, s)'
                           + Counted("bias", any, s)' + Counted("mask", any, s)'
                           + Counted("v", any, s)'
                      /\ \A v \in WGs : waits'[v][<<Produces(any), s>>] =
                           Uses(Got(v, Produces(any))', s)
    BY <1>1 DEF Produced, Uses
  <2> DEFINE m == <<Produces(any), s>>
             of(kind) == kind \in Streams /\ Produces(kind) = Produces(any) /\ c[1] = <<kind, s>>
  <2>2. m \in MBarriers /\ m # Q /\ Produces("q") = "q" /\ Streams \subseteq Kinds
    BY Barriers, StreamFacts DEF Types, Q, Kinds
  <2>3. landed'[m] = landed[m] + One(<<Produces(c[1][1]), c[1][2]>> = m)
    BY <1>2, <1>3, <2>2 DEF One
  <2>4. One(<<Produces(c[1][1]), c[1][2]>> = m) =
          One(of("k")) + One(of("bias")) + One(of("mask")) + One(of("v"))
    <3>1. CASE c[1] = Q
      <4>1. <<Produces(c[1][1]), c[1][2]>> = Q
        BY <2>2, <3>1 DEF Q
      <4>2. \A kind \in Kinds : ~of(kind)
        BY <3>1 DEF Q, Kinds
      <4> QED BY <2>2, <4>1, <4>2 DEF One, Kinds
    <3>2. CASE c[1] # Q
      <4>1. PICK kind \in Streams, i \in Slots : c[1] = <<kind, i>>
        BY <1>3, <3>2, Barriers DEF Types
      <4>2. c[1][1] = kind /\ c[1][2] = i
        BY <4>1
      <4>3. <<Produces(c[1][1]), c[1][2]>> = m <=> of(kind)
        BY <4>1, <4>2
      <4>4. \A x \in Kinds : x # kind => ~of(x)
        BY <4>1
      <4>5. kind \in Kinds
        BY <2>2
      <4> HIDE DEF of, m
      <4> QED BY <4>3, <4>4, <4>5 DEF One, Kinds
    <3> QED BY <3>1, <3>2
  <2>5. /\ landed[m] = Counted("k", any, s)
             + Counted("bias", any, s) + Counted("mask", any, s) + Counted("v", any, s)
        /\ \A v \in WGs : waits[v][m] = Uses(Got(v, Produces(any)), s)
    BY DEF Rings, Produced
  <2>6. \A v \in WGs : waits'[v][m] = Uses(Got(v, Produces(any))', s)
    BY <1>2, <1>4, <2>5
  <2>7. \A kind \in Kinds : /\ Counted(kind, any, s)' = Counted(kind, any, s) + One(of(kind))
                            /\ Counted(kind, any, s) \in Int /\ One(of(kind)) \in Nat
    BY <2>1 DEF One
  <2> HIDE DEF of
  <2>8. landed'[m] = Counted("k", any, s)' + Counted("bias", any, s)'
                       + Counted("mask", any, s)' + Counted("v", any, s)'
    <3>1. "k" \in Kinds /\ "bias" \in Kinds /\ "mask" \in Kinds /\ "v" \in Kinds
      BY DEF Kinds
    <3> HIDE DEF m
    <3> QED BY <2>3, <2>4, <2>5, <2>7, <3>1
  <2> QED BY <2>6, <2>8
<1>9. InFlight'
  <2>1. \A d \in copying' : d \in copying
    BY <1>2
  <2>2. \A d : Block1(d)' = Block1(d) /\ (IsBlock(d[2])' <=> IsBlock(d[2]))
    BY <1>1 DEF Block1, IsBlock, Number
  <2>3. \A d : Loaded(d[1][1])' = Loaded(d[1][1])
    BY <1>2, <1>4 DEF Loaded, In
  <2>4. \A w \in WGs : \A d : Got(w, Produces(d[1][1]))' = Got(w, Produces(d[1][1]))
    BY <1>1, <1>2, <1>4 DEF Got, In, TileRange
  <2> QED BY <2>1, <2>2, <2>3, <2>4 DEF Rings, InFlight
<1>10. ASSUME NEW kind \in Streams, NEW u \in 1..Tiles,
              NEW l \in range[u].lb..range[u].ub - 1,
              Number(u, l) < Loaded(kind), Loaded(kind) =< Number(u, l) + Stages
       PROVE  LET b == <<kind, Number(u, l) % Stages>> IN
              <<b, <<u, l>>>> \in copying' \/ smem'[b] = <<u, l>>
  <2> DEFINE b == <<kind, Number(u, l) % Stages>>
  <2>1. <<b, <<u, l>>>> \in copying \/ smem[b] = <<u, l>>
    BY <1>10 DEF Rings, Contents
  <2>2. Number(u, l) % Stages \in Slots
    BY BlockNumber, SlotOf
  <2>3. b \in Buffers
    BY <2>2, Barriers DEF Types
  <2>4. CASE c[1] = b
    <3>1. c = <<b, <<u, l>>>>
      BY <1>10, <2>2, <2>4, OneFlight DEF Rings
    <3>2. c[2] = <<u, l>>
      BY <3>1
    <3> QED BY <1>2, <1>3, <2>3, <2>4, <3>2
  <2>5. CASE c[1] # b
    <3>1. <<b, <<u, l>>>> # c
      BY <2>5
    <3> QED BY <1>2, <1>3, <2>1, <2>3, <2>5, <3>1
  <2> QED BY <2>4, <2>5
<1>11. Contents'
  <2> SUFFICES ASSUME NEW kind \in Streams', NEW u \in 1..Tiles',
                      NEW l \in range'[u].lb..range'[u].ub - 1,
                      Number(u, l)' < Loaded(kind)',
                      Loaded(kind)' =< Number(u, l)' + Stages
               PROVE  LET b == <<kind, Number(u, l)' % Stages>> IN
                      <<b, <<u, l>>>> \in copying' \/ smem'[b] = <<u, l>>
    BY DEF Contents
  <2> DEFINE num == Number(u, l)
  <2>1. /\ kind \in Streams /\ u \in 1..Tiles /\ l \in range[u].lb..range[u].ub - 1
        /\ Number(u, l)' = num /\ num < Loaded(kind) /\ Loaded(kind) =< num + Stages
    BY <1>1, <1>4
  <2>2. <<<<kind, num % Stages>>, <<u, l>>>> \in copying' \/ smem'[<<kind, num % Stages>>] = <<u, l>>
    BY <1>10, <2>1
  <2> HIDE DEF num
  <2> QED BY <2>1, <2>2
<1> QED BY <1>5, <1>6, <1>8, <1>9, <1>11 DEF Rings

\* The ways a step arrives and waits.
LEMMA Unmoved ==
  ASSUME Types
  PROVE  /\ arrivals' = arrivals => \A a : Arrives(a, {})
         /\ waits' = waits => \A w : Waits(w, {})
BY DEF Types, MemoryTypes, Arrives, Waits, One

LEMMA KvSyncRings ==
  ASSUME SplitInRange, Types, Places, Rings, Idle, NEW A, KvStep({}, A),
         NEW kind \in Ring, A \cap Ring = {kind}, Synced(kind) = Before("kv"),
         pc["kv"] \in InBlock \/ Looping("kv"), Arrive("kv", Here("kv", kind)),
         UNCHANGED <<work, landed, waits, smem, copying>>
  PROVE  Rings'
<1>1. "kv" \in Actors /\ "wg0" \in WGs /\ SamePrologues /\ WgStep("wg0", {}, {})
      /\ Here("kv", kind) = <<kind, Before("kv") % Stages>>
  BY HereIs DEF Actors, WGs, Idle, Places
<1>2. Arrives("kv", {Here("kv", kind)})
  BY <1>1, ArrivalsMove DEF Arrive
<1>3. \A v \in WGs : pc'[v] = "prologue" <=> pc[v] = "prologue"
  BY <1>1 DEF SamePrologues
<1>4. RingArrivals("wg0", {}, A)
  <2> SUFFICES ASSUME NEW i \in Ring, NEW s \in Slots, NEW x \in Actors
               PROVE  arrivals'[<<i, s>>][x] = arrivals[<<i, s>>][x]
                        + One(x = "wg0" /\ i \in {} /\ s = Freed("wg0", i) % Stages)
                        + One(x = "kv" /\ i \in A /\ s = Synced(i) % Stages)
                        + One(x \in WGs /\ pc[x] = "prologue" /\ pc'[x] # "prologue")
    BY DEF RingArrivals
  <2>1. <<i, s>> \in Named /\ arrivals[<<i, s>>][x] \in Nat
    BY Barriers DEF Types, MemoryTypes
  <2>2. arrivals'[<<i, s>>][x] = arrivals[<<i, s>>][x]
          + One(x = "kv" /\ <<i, s>> \in {Here("kv", kind)})
    BY <1>2, <2>1 DEF Arrives
  <2>3. (<<i, s>> \in {Here("kv", kind)}) <=> (i \in A /\ s = Synced(i) % Stages)
    BY <1>1
  <2> QED BY <1>3, <2>1, <2>2, <2>3 DEF One
<1>5. RingGets("wg0", {})
  <2> SUFFICES ASSUME NEW v \in WGs, NEW i \in Streams, NEW s \in Slots
               PROVE  waits[v][<<Produces(i), s>>] = waits[v][<<Produces(i), s>>] + 0
    BY DEF RingGets, One
  <2>1. <<Produces(i), s>> \in MBarriers
    BY Barriers DEF Types
  <2> QED BY <2>1 DEF Types, MemoryTypes
<1> QED BY <1>1, <1>3, <1>4, <1>5, RingUse

\* A step of a warpgroup, or one that leaves the rings alone.
LEMMA WgRings ==
  ASSUME SplitInRange, Types, Places, Rings, SamePrologues, UNCHANGED <<work, smem>>,
         NEW w \in WGs, NEW F, NEW G, KvStep({}, {}), WgStep(w, F, G),
         NEW a \in Actors, NEW B, Arrives(a, B), NEW M, Waits(w, M),
         \A kind \in Ring, s \in Slots :
           <<kind, s>> \in B <=> a = w /\ kind \in F /\ s = Freed(w, kind) % Stages,
         a = w \/ F = {},
         \A kind \in Streams, s \in Slots :
           <<Produces(kind), s>> \in M <=>
             Produces(kind) \in G /\ s = Got(w, Produces(kind)) % Stages,
         \A kind \in Streams : kind \in F => Freed(w, kind) < Got(w, Produces(kind)),
         \A m \in M : Ready(w, m),
         \A m \in MBarriers \ {Q} : landed'[m] = landed[m],
         copying \subseteq copying', \A c \in copying' \ copying : c[1] = Q
  PROVE  Rings'
<1>1. \A v \in WGs : pc'[v] = "prologue" <=> pc[v] = "prologue"
  BY DEF SamePrologues
<1>2. RingArrivals(w, F, {})
  <2> SUFFICES ASSUME NEW i \in Ring, NEW s \in Slots, NEW x \in Actors
               PROVE  arrivals'[<<i, s>>][x] = arrivals[<<i, s>>][x]
                        + One(x = w /\ i \in F /\ s = Freed(w, i) % Stages)
                        + One(x = "kv" /\ i \in {} /\ s = Synced(i) % Stages)
                        + One(x \in WGs /\ pc[x] = "prologue" /\ pc'[x] # "prologue")
    BY DEF RingArrivals
  <2>1. <<i, s>> \in Named /\ arrivals[<<i, s>>][x] \in Nat
    BY Barriers DEF Types, MemoryTypes
  <2>2. arrivals'[<<i, s>>][x] = arrivals[<<i, s>>][x] + One(x = a /\ <<i, s>> \in B)
    BY <2>1 DEF Arrives
  <2> QED BY <1>1, <2>1, <2>2 DEF One
<1>3. RingGets(w, G)
  <2> SUFFICES ASSUME NEW v \in WGs, NEW kind \in Streams, NEW s \in Slots
               PROVE  waits'[v][<<Produces(kind), s>>] = waits[v][<<Produces(kind), s>>]
                        + One(v = w /\ Produces(kind) \in G /\ s = Got(w, Produces(kind)) % Stages)
    BY DEF RingGets
  <2>1. <<Produces(kind), s>> \in MBarriers
    BY Barriers DEF Types
  <2> QED BY <2>1 DEF Waits, One
<1>4. \A kind \in Streams : Produces(kind) \in G =>
        Ready(w, <<Produces(kind), Got(w, Produces(kind)) % Stages>>)
  <2> SUFFICES ASSUME NEW kind \in Streams, Produces(kind) \in G
               PROVE  <<Produces(kind), Got(w, Produces(kind)) % Stages>> \in M
    OBVIOUS
  <2>1. Got(w, Produces(kind)) % Stages \in Slots
    BY CountTypes, SlotOf
  <2> QED BY <2>1
<1> QED BY <1>1, <1>2, <1>3, <1>4, RingUse

\* The steps of the K/V warp.
LEMMA SyncKRings ==
  ASSUME SplitInRange, Types, Places, Rings, SyncK
  PROVE  Rings'
<1>1. /\ Idle /\ KvStep({}, {"k", "bias"}) /\ "k" \in Ring
      /\ {"k", "bias"} \cap Ring = {"k"}
  BY SyncKMoves, StreamFacts DEF Types
<1>2. /\ Looping("kv") /\ pc["kv"] = "loop" /\ Arrive("kv", Here("kv", "k"))
      /\ UNCHANGED <<work, landed, waits, smem, copying>>
  BY DEF SyncK, Looping
<1>3. Synced("k") = Before("kv")
  BY <1>2, Whereabouts DEF Synced, In, Places
<1> QED BY <1>1, <1>2, <1>3, KvSyncRings

LEMMA SyncMaskRings ==
  ASSUME SplitInRange, Types, Places, Rings, SyncMask
  PROVE  Rings'
<1>1. /\ Arrive("kv", Here("kv", "mask")) /\ pc["kv"] = "sync_mask"
      /\ UNCHANGED <<work, landed, waits, smem, copying>>
  BY DEF SyncMask, Step
<1>2. Mask # "none"
  BY <1>1 DEF Places, Place
<1>3. Idle /\ KvStep({}, {"mask"}) /\ "mask" \in Ring /\ {"mask"} \cap Ring = {"mask"}
  BY <1>2, SyncMaskMoves, StreamFacts DEF Types
<1>4. Synced("mask") = Before("kv")
  BY <1>1, Whereabouts DEF Synced, In, Places
<1> QED BY <1>1, <1>3, <1>4, KvSyncRings DEF InBlock

LEMMA SyncVRings ==
  ASSUME SplitInRange, Types, Places, Rings, SyncV
  PROVE  Rings'
<1>1. /\ Arrive("kv", Here("kv", "v")) /\ pc["kv"] = "sync_v"
      /\ UNCHANGED <<work, landed, waits, smem, copying>>
  BY DEF SyncV, Step
<1>2. Idle /\ KvStep({}, {"v"}) /\ "v" \in Ring /\ {"v"} \cap Ring = {"v"}
  BY SyncVMoves, StreamFacts DEF Types
<1>3. Synced("v") = Before("kv")
  BY <1>1, Whereabouts DEF Synced, In, Places
<1> QED BY <1>1, <1>2, <1>3, KvSyncRings DEF InBlock

\* A slot that has been passed to the K/V warp was freed by both warpgroups.
LEMMA SlotFree ==
  ASSUME SplitInRange, Types, Places, Rings, NEW kind \in Ring, pc["kv"] \in InBlock,
         Loaded(kind) = Before("kv"), Synced(kind) = Before("kv") + 1,
         Passed(Here("kv", kind), "kv")
  PROVE  \A w \in WGs : pc[w] # "prologue" /\ Before("kv") < Freed(w, kind) + Stages
<1> DEFINE n == Before("kv")
           b == <<kind, n % Stages>>
<1>1. /\ n \in Nat /\ n % Stages \in Slots /\ kind \in Streams
      /\ Here("kv", kind) = b
  BY Whereabouts, SlotOf, HereIs DEF Places, Ring
<1>2. Completed(b) \in Nat /\ \A a \in WGs \cup {"kv"} : arrivals[b][a] - Completed(b) \in {0, 1}
  BY <1>1, RingPhases DEF Rings
<1>3. Completed(b) >= arrivals[b]["kv"]
  BY <1>1 DEF Passed
<1>4. arrivals[b]["kv"] = Uses(n + 1, n % Stages)
  BY <1>1 DEF Rings, Consumed, Actors, WGs
<1>5. /\ Uses(n + 1, n % Stages) = Uses(n, n % Stages) + 1
      /\ Uses(n, n % Stages) \in Nat
  BY <1>1, UsesStep
<1> SUFFICES ASSUME NEW w \in WGs
             PROVE  pc[w] # "prologue" /\ n < Freed(w, kind) + Stages
  OBVIOUS
<1>6. arrivals[b][w] = Uses(Freed(w, kind), n % Stages)
                          + (IF pc[w] = "prologue" THEN 0 ELSE 1)
  BY <1>1 DEF Rings, Consumed, Actors, WGs
<1>7. Freed(w, kind) \in Nat /\ Uses(Freed(w, kind), n % Stages) \in Nat
  BY <1>1, CountTypes, UsesStep
<1>8. arrivals[b][w] \in Nat
  BY <1>6, <1>7
<1> HIDE DEF b
<1>9. Uses(n, n % Stages) + 1 =< arrivals[b][w]
  BY <1>2, <1>3, <1>4, <1>5, <1>8
<1>10. pc[w] # "prologue"
  <2>1. pc[w] = "prologue" => Freed(w, kind) = 0
    <3>1. pc[w] = "prologue" => Loaded(kind) = 0 /\ Freed(w, kind) =< Loaded(kind)
      <4>1. Got(w, Produces(kind)) \in Nat
        BY <1>1, CountTypes
      <4> QED BY <1>1, <1>7, <4>1 DEF Rings, Window
    <3> QED BY <1>7, <3>1
  <2>2. Uses(0, n % Stages) = 0
    BY <1>1, UsesNone
  <2>3. pc[w] = "prologue" => arrivals[b][w] = 0
    BY <1>6, <2>1, <2>2
  <2> QED BY <1>5, <1>9, <2>3
<1>11. n < Freed(w, kind) + Stages
  BY <1>1, <1>5, <1>6, <1>7, <1>9, <1>10, UsesFreed
<1> QED BY <1>10, <1>11

LEMMA LoadKRings ==
  ASSUME SplitInRange, Types, Places, Rings, LoadK
  PROVE  Rings'
<1> DEFINE n == Before("kv")
<1>1. /\ pc["kv"] = "load_k" /\ Passed(Here("kv", "k"), "kv")
      /\ copying' = copying \cup Block({"k", "bias"} \cap Streams)
      /\ UNCHANGED <<work, arrivals, landed, waits, smem>>
  BY DEF LoadK, Step, Copy
<1>2. /\ Idle /\ SamePrologues /\ WgStep("wg0", {}, {}) /\ KvStep({"k", "bias"}, {})
      /\ "k" \in Ring /\ "k" \in Streams /\ Streams \subseteq Kinds
  BY LoadKMoves, StreamFacts DEF Types, Idle
<1>3. /\ n \in Nat /\ Loaded("k") = n /\ Loaded("bias") = n /\ Synced("k") = n + 1
      /\ \A w : Freed(w, "bias") = Freed(w, "k")
  BY <1>1, Whereabouts DEF Loaded, Synced, Freed, In, Places
<1>4. \A w \in WGs : pc[w] # "prologue" /\ n < Freed(w, "k") + Stages
  BY <1>1, <1>2, <1>3, SlotFree DEF InBlock
<1> QED BY <1>1, <1>2, <1>3, <1>4, RingLoad DEF InBlock

LEMMA LoadMaskRings ==
  ASSUME SplitInRange, Types, Places, Rings, LoadMask
  PROVE  Rings'
<1> DEFINE n == Before("kv")
<1>1. /\ pc["kv"] = "load_mask" /\ Passed(Here("kv", "mask"), "kv")
      /\ copying' = copying \cup Block({"mask"})
      /\ UNCHANGED <<work, arrivals, landed, waits, smem>>
  BY DEF LoadMask, Step, Copy
<1>2. Mask # "none"
  BY <1>1 DEF Places, Place
<1>3. /\ Idle /\ SamePrologues /\ WgStep("wg0", {}, {}) /\ KvStep({"mask"}, {})
      /\ "mask" \in Ring /\ "mask" \in Streams /\ {"mask"} \cap Streams = {"mask"}
  BY <1>2, LoadMaskMoves, StreamFacts DEF Types, Idle
<1>4. n \in Nat /\ Loaded("mask") = n /\ Synced("mask") = n + 1
  BY <1>1, Whereabouts DEF Loaded, Synced, In, Places
<1>5. \A w \in WGs : pc[w] # "prologue" /\ n < Freed(w, "mask") + Stages
  BY <1>1, <1>3, <1>4, SlotFree DEF InBlock
<1> QED BY <1>1, <1>3, <1>4, <1>5, RingLoad DEF InBlock

LEMMA LoadVRings ==
  ASSUME SplitInRange, Types, Places, Rings, LoadV
  PROVE  Rings'
<1> DEFINE n == Before("kv")
<1>1. /\ pc["kv"] = "load_v" /\ Passed(Here("kv", "v"), "kv")
      /\ copying' = copying \cup Block({"v"})
      /\ UNCHANGED <<work, arrivals, landed, waits, smem>>
  BY DEF LoadV, Copy
<1>2. /\ Idle /\ SamePrologues /\ WgStep("wg0", {}, {}) /\ KvStep({"v"}, {})
      /\ "v" \in Ring /\ "v" \in Streams /\ {"v"} \cap Streams = {"v"}
  BY LoadVMoves, StreamFacts DEF Types, Idle
<1>3. n \in Nat /\ Loaded("v") = n /\ Synced("v") = n + 1
  BY <1>1, Whereabouts DEF Loaded, Synced, In, Places
<1>4. \A w \in WGs : pc[w] # "prologue" /\ n < Freed(w, "v") + Stages
  BY <1>1, <1>2, <1>3, SlotFree DEF InBlock
<1> QED BY <1>1, <1>2, <1>3, <1>4, RingLoad DEF InBlock

LEMMA KvTileDoneRings ==
  ASSUME SplitInRange, Types, Places, Rings, KvTileDone
  PROVE  Rings'
<1>1. /\ Idle /\ KvStep({}, {}) /\ WgStep("wg0", {}, {}) /\ SamePrologues
      /\ "wg0" \in WGs /\ "kv" \in Actors
  BY KvTileDoneMoves DEF Idle, WGs, Actors
<1>2. UNCHANGED <<work, arrivals, landed, waits, smem, copying>>
  BY DEF KvTileDone
<1>3. Arrives("kv", {}) /\ Waits("wg0", {})
  BY <1>2, Unmoved
<1> QED BY <1>1, <1>2, <1>3, WgRings

\* The steps that arrive at no ring and wait for none.
LEMMA OtherRings ==
  ASSUME SplitInRange, Types, Places, Rings, SamePrologues,
         UNCHANGED <<work, landed, waits, smem>>,
         NEW w \in WGs, KvStep({}, {}), WgStep(w, {}, {}),
         NEW a \in Actors, NEW B, Arrives(a, B),
         \A kind \in Ring, s \in Slots : <<kind, s>> \notin B,
         copying \subseteq copying', \A c \in copying' \ copying : c[1] = Q
  PROVE  Rings'
<1>1. Waits(w, {})
  BY Unmoved
<1> QED BY <1>1, WgRings

LEMMA NotARing ==
  ASSUME Types
  PROVE  \A kind \in Ring, s \in Slots :
           /\ <<kind, s>> # Q /\ \A w : <<kind, s>> # Turn(w)
           /\ kind \in Streams /\ kind # "bias"
BY StreamFacts DEF Types, Q, Turn, Ring, Kinds

LEMMA SkipQRings ==
  ASSUME SplitInRange, Types, Places, Rings, SkipQ
  PROVE  Rings'
<1>1. /\ SamePrologues /\ KvStep({}, {}) /\ WgStep("wg0", {}, {})
      /\ "wg0" \in WGs /\ "q" \in Actors
  BY SkipQMoves DEF WGs, Actors
<1>2. UNCHANGED <<work, arrivals, landed, waits, smem, copying>>
  BY DEF SkipQ
<1>3. Arrives("q", {})
  BY <1>2, Unmoved
<1> QED BY <1>1, <1>2, <1>3, OtherRings

LEMMA SyncQRings ==
  ASSUME SplitInRange, Types, Places, Rings, SyncQ
  PROVE  Rings'
<1>1. /\ SamePrologues /\ KvStep({}, {}) /\ WgStep("wg0", {}, {})
      /\ "wg0" \in WGs /\ "q" \in Actors
  BY SyncQMoves DEF WGs, Actors
<1>2. UNCHANGED <<work, landed, waits, smem, copying>> /\ ArriveAll("q", {Q})
  BY DEF SyncQ, Arrive
<1>3. Arrives("q", {Q})
  BY <1>1, <1>2, ArrivalsMove
<1> QED BY <1>1, <1>2, <1>3, NotARing, OtherRings

LEMMA LoadQRings ==
  ASSUME SplitInRange, Types, Places, Rings, LoadQ
  PROVE  Rings'
<1>1. /\ SamePrologues /\ KvStep({}, {}) /\ WgStep("wg0", {}, {})
      /\ "wg0" \in WGs /\ "q" \in Actors
  BY LoadQMoves DEF WGs, Actors
<1>2. /\ UNCHANGED <<work, arrivals, landed, waits, smem>>
      /\ copying' = copying \cup {<<Q, <<tile["q"], 0>>>>}
  BY DEF LoadQ, Copy
<1>3. Arrives("q", {})
  BY <1>2, Unmoved
<1>4. \A c \in copying' \ copying : c[1] = Q
  BY <1>2
<1> QED BY <1>1, <1>2, <1>3, <1>4, OtherRings

LEMMA IssueQKRings ==
  ASSUME SplitInRange, Types, Places, Rings, NEW w \in WGs, IssueQK(w)
  PROVE  Rings'
<1>1. SamePrologues /\ KvStep({}, {}) /\ WgStep(w, {}, {}) /\ w \in Actors
  BY IssueQKMoves DEF Actors
<1>2. UNCHANGED <<work, arrivals, landed, waits, smem, copying>>
  BY DEF IssueQK
<1>3. Arrives(w, {})
  BY <1>2, Unmoved
<1> QED BY <1>1, <1>2, <1>3, OtherRings

LEMMA PassTurnRings ==
  ASSUME SplitInRange, Types, Places, Rings, NEW w \in WGs, PassTurn(w)
  PROVE  Rings'
<1>1. SamePrologues /\ KvStep({}, {}) /\ WgStep(w, {}, {}) /\ w \in Actors
  BY PassTurnMoves DEF Actors
<1>2. UNCHANGED <<work, landed, waits, smem, copying>> /\ ArriveAll(w, {Turn(Other(w))})
  BY DEF PassTurn, Arrive
<1>3. Arrives(w, {Turn(Other(w))})
  BY <1>1, <1>2, ArrivalsMove
<1> QED BY <1>1, <1>2, <1>3, NotARing, OtherRings

LEMMA IssuePVRings ==
  ASSUME SplitInRange, Types, Places, Rings, NEW w \in WGs, IssuePV(w)
  PROVE  Rings'
<1>1. SamePrologues /\ KvStep({}, {}) /\ WgStep(w, {}, {}) /\ w \in Actors
  BY IssuePVMoves DEF Actors
<1>2. UNCHANGED <<work, arrivals, landed, waits, smem, copying>>
  BY DEF IssuePV
<1>3. Arrives(w, {})
  BY <1>2, Unmoved
<1> QED BY <1>1, <1>2, <1>3, OtherRings

LEMMA FirstTurnRings ==
  ASSUME SplitInRange, Types, Places, Rings, NEW w \in WGs, FirstTurn(w)
  PROVE  Rings'
<1>1. SamePrologues /\ KvStep({}, {}) /\ WgStep(w, {}, {}) /\ w \in Actors
  BY FirstTurnMoves DEF Actors
<1>2. UNCHANGED <<work, arrivals, landed, waits, smem, copying>>
  BY DEF FirstTurn
<1>3. Arrives(w, {})
  BY <1>2, Unmoved
<1> QED BY <1>1, <1>2, <1>3, OtherRings

LEMMA FinishRings ==
  ASSUME SplitInRange, Types, Places, Rings, NEW w \in WGs, Finish(w)
  PROVE  Rings'
<1>1. SamePrologues /\ KvStep({}, {}) /\ WgStep(w, {}, {}) /\ w \in Actors
  BY FinishMoves DEF Actors
<1>2. /\ UNCHANGED <<work, landed, waits, smem, copying>>
      /\ IF w = "wg0" THEN ArriveAll(w, {Turn("wg1")}) ELSE arrivals' = arrivals
  BY DEF Finish, Arrive
<1>3. \E B \in {{Turn("wg1")}, {}} : Arrives(w, B)
  BY <1>1, <1>2, ArrivalsMove, Unmoved
<1> QED BY <1>1, <1>2, <1>3, NotARing, OtherRings

LEMMA FreeQRings ==
  ASSUME SplitInRange, Types, Places, Rings, NEW w \in WGs, FreeQ(w)
  PROVE  Rings'
<1>1. SamePrologues /\ KvStep({}, {}) /\ WgStep(w, {}, {}) /\ w \in Actors
  BY FreeQMoves DEF Actors
<1>2. UNCHANGED <<work, landed, waits, smem, copying>> /\ ArriveAll(w, {Q})
  BY DEF FreeQ, Arrive
<1>3. Arrives(w, {Q})
  BY <1>1, <1>2, ArrivalsMove
<1> QED BY <1>1, <1>2, <1>3, NotARing, OtherRings

LEMMA OutputRings ==
  ASSUME SplitInRange, Types, Places, Rings, NEW w \in WGs, Output(w)
  PROVE  Rings'
<1>1. SamePrologues /\ KvStep({}, {}) /\ WgStep(w, {}, {}) /\ w \in Actors
  BY OutputMoves DEF Actors
<1>2. UNCHANGED <<work, arrivals, landed, waits, smem, copying>>
  BY DEF Output
<1>3. Arrives(w, {})
  BY <1>2, Unmoved
<1> QED BY <1>1, <1>2, <1>3, OtherRings

\* The steps that free a slot or wait for a block.
LEMMA FinishQKRings ==
  ASSUME SplitInRange, Types, Places, Rings, NEW w \in WGs, FinishQK(w)
  PROVE  Rings'
<1> DEFINE n == Before(w)
           B == {<<"k", n % Stages>>}
<1>1. SamePrologues /\ KvStep({}, {}) /\ WgStep(w, {"k", "bias"}, {}) /\ w \in Actors
  BY FinishQKMoves DEF Actors
<1>2. /\ pc[w] = "qk_passed" /\ pc[w] \in InBlock /\ Place(w)
      /\ UNCHANGED <<work, landed, waits, smem, copying>> /\ ArriveAll(w, {Here(w, "k")})
  BY DEF FinishQK, Step, Arrive, InBlock, InIteration, Places
<1>3. /\ Here(w, "k") = <<"k", n % Stages>> /\ n \in Nat
      /\ ki[w] \in TileRange(w).lb..TileRange(w).ub - 1
  BY <1>2, HereIs, Whereabouts
<1>4. Arrives(w, B)
  BY <1>1, <1>2, <1>3, ArrivalsMove
<1>5. Waits(w, {})
  BY <1>2, Unmoved
<1>6. Freed(w, "k") = n /\ Freed(w, "bias") = n
  BY <1>2, <1>3 DEF Freed, In
<1>7. Got(w, "k") = n + 1
  <2>1. ki[w] < TileRange(w).ub
    BY <1>2 DEF Place
  <2> QED BY <1>2, <2>1 DEF Got, FirstHalf
<1>8. \A kind \in Streams : kind \in {"k", "bias"} => Freed(w, kind) < Got(w, Produces(kind))
  BY <1>3, <1>6, <1>7, StreamFacts DEF Types
<1>9. \A kind \in Ring, s \in Slots :
        <<kind, s>> \in B <=> w = w /\ kind \in {"k", "bias"} /\ s = Freed(w, kind) % Stages
  BY <1>6, NotARing
<1> QED BY <1>1, <1>2, <1>4, <1>5, <1>8, <1>9, WgRings

LEMMA FreeMaskRings ==
  ASSUME SplitInRange, Types, Places, Rings, NEW w \in WGs, FreeMask(w)
  PROVE  Rings'
<1> DEFINE n == Before(w)
           B == {<<"mask", n % Stages>>}
<1>1. SamePrologues /\ KvStep({}, {}) /\ WgStep(w, {"mask"}, {}) /\ w \in Actors
  BY FreeMaskMoves DEF Actors
<1>2. /\ pc[w] = "mask_read" /\ pc[w] \in InBlock /\ Place(w)
      /\ UNCHANGED <<work, landed, waits, smem, copying>> /\ ArriveAll(w, {Here(w, "mask")})
  BY DEF FreeMask, Step, Arrive, InBlock, InIteration, Places
<1>3. /\ Here(w, "mask") = <<"mask", n % Stages>> /\ n \in Nat
      /\ ki[w] \in TileRange(w).lb..TileRange(w).ub - 1
  BY <1>2, HereIs, Whereabouts
<1>4. Arrives(w, B)
  BY <1>1, <1>2, <1>3, ArrivalsMove
<1>5. Waits(w, {})
  BY <1>2, Unmoved
<1>6. Freed(w, "mask") = n
  BY <1>2, <1>3 DEF Freed, In
<1>7. Got(w, "k") = n + 1 /\ Got(w, "mask") = n + 1
  <2>1. ki[w] < TileRange(w).ub
    BY <1>2 DEF Place
  <2> QED BY <1>2, <2>1 DEF Got, FirstHalf, In
<1>8. \A kind \in Streams : kind \in {"mask"} => Freed(w, kind) < Got(w, Produces(kind))
  <2>1. "mask" \in Streams => Produces("mask") \in {"k", "mask"}
    BY StreamFacts DEF Types
  <2> QED BY <1>3, <1>6, <1>7, <2>1
<1>9. \A kind \in Ring, s \in Slots :
        <<kind, s>> \in B <=> w = w /\ kind \in {"mask"} /\ s = Freed(w, kind) % Stages
  BY <1>6
<1> QED BY <1>1, <1>2, <1>4, <1>5, <1>8, <1>9, WgRings

LEMMA ReadMaskRings ==
  ASSUME SplitInRange, Types, Places, Rings, NEW w \in WGs, ReadMask(w)
  PROVE  Rings'
<1> DEFINE n == Before(w)
           M == IF Mask = "full" THEN {<<"mask", n % Stages>>} ELSE {}
<1>1. SamePrologues /\ KvStep({}, {}) /\ WgStep(w, {}, {"mask"}) /\ w \in Actors
  BY ReadMaskMoves DEF Actors
<1>2. /\ pc[w] = "mask" /\ pc[w] \in InBlock /\ Place(w)
      /\ UNCHANGED <<work, arrivals, landed, smem, copying>>
      /\ IF Mask = "full"
           THEN Ready(w, Here(w, "mask")) /\ Waited(w, {Here(w, "mask")})
           ELSE waits' = waits
  BY DEF ReadMask, Step, InBlock, InIteration, Places
<1>3. Here(w, "mask") = <<"mask", n % Stages>> /\ n \in Nat
  BY <1>2, HereIs, Whereabouts
<1>4. Arrives(w, {})
  BY <1>2, Unmoved
<1>5. Waits(w, M) /\ \A m \in M : Ready(w, m)
  <2>1. CASE Mask = "full"
    BY <1>2, <1>3, <2>1, WaitsMove
  <2>2. CASE Mask # "full"
    BY <1>2, <2>2, Unmoved
  <2> QED BY <2>1, <2>2
<1>6. Got(w, "mask") = n
  BY <1>2, <1>3 DEF Got, In
<1>7. \A kind \in Streams, s \in Slots :
        <<Produces(kind), s>> \in M <=>
          Produces(kind) \in {"mask"} /\ s = Got(w, Produces(kind)) % Stages
  <2>1. \A kind \in Streams : Produces(kind) = "mask" => Mask = "full"
    BY OwnFacts
  <2> QED BY <1>6, <2>1
<1> QED BY <1>1, <1>2, <1>4, <1>5, <1>7, WgRings

LEMMA AwaitVRings ==
  ASSUME SplitInRange, Types, Places, Rings, NEW w \in WGs, AwaitV(w)
  PROVE  Rings'
<1> DEFINE n == Before(w)
           M == {<<"v", n % Stages>>}
           B == {Turn(w)}
<1>1. SamePrologues /\ KvStep({}, {}) /\ WgStep(w, {}, {"v"}) /\ w \in Actors
  BY AwaitVMoves DEF Actors
<1>2. /\ pc[w] = "softmax" /\ pc[w] \in InBlock /\ Place(w)
      /\ UNCHANGED <<work, landed, smem, copying>>
      /\ Ready(w, Here(w, "v")) /\ Waited(w, {Here(w, "v")}) /\ ArriveAll(w, B)
  BY DEF AwaitV, Step, Arrive, InBlock, InIteration, Places
<1>3. Here(w, "v") = <<"v", n % Stages>> /\ n \in Nat
  BY <1>2, HereIs, Whereabouts
<1>4. Arrives(w, B) /\ Waits(w, M) /\ \A m \in M : Ready(w, m)
  BY <1>1, <1>2, <1>3, ArrivalsMove, WaitsMove
<1>5. Got(w, "v") = n
  BY <1>2, <1>3 DEF Got, In
<1>6. \A kind \in Streams, s \in Slots :
        <<Produces(kind), s>> \in M <=>
          Produces(kind) \in {"v"} /\ s = Got(w, Produces(kind)) % Stages
  BY <1>5
<1>7. \A kind \in Ring, s \in Slots :
        <<kind, s>> \in B <=> w = w /\ kind \in {} /\ s = Freed(w, kind) % Stages
  BY NotARing
<1> HIDE DEF M, B
<1> QED BY <1>1, <1>2, <1>4, <1>6, <1>7, WgRings

LEMMA FinishPVRings ==
  ASSUME SplitInRange, Types, Places, Rings, NEW w \in WGs, FinishPV(w)
  PROVE  Rings'
<1> DEFINE n == Before(w)
           more == ki[w] + 1 < TileRange(w).ub
           next == <<"k", Slot(w, ki[w] + 1)>>
           G == IF more THEN {"k"} ELSE {}
           M == IF more THEN {<<"k", (n + 1) % Stages>>} ELSE {}
           B == {<<"v", n % Stages>>}
<1>1. SamePrologues /\ KvStep({}, {}) /\ WgStep(w, {"v"}, G) /\ w \in Actors
  BY FinishPVMoves DEF Actors
<1>2. /\ pc[w] = "pv" /\ pc[w] \in InBlock /\ Place(w)
      /\ UNCHANGED <<work, landed, smem, copying>>
      /\ ArriveAll(w, {Here(w, "v")})
      /\ IF more THEN Ready(w, next) /\ Waited(w, {next}) ELSE waits' = waits
  BY DEF FinishPV, Arrive, InBlock, InIteration, Places
<1>3. /\ Here(w, "v") = <<"v", n % Stages>> /\ n \in Nat
      /\ n = Number(tile[w], ki[w]) /\ prev[w] = Prior[tile[w]]
      /\ tile[w] \in 1..Tiles /\ ki[w] \in TileRange(w).lb..TileRange(w).ub - 1
  BY <1>2, HereIs, Whereabouts
<1>4. next = <<"k", (n + 1) % Stages>>
  <2>1. TileRange(w).lb \in Nat /\ TileRange(w).ub \in Nat /\ prev[w] \in Nat
    BY <1>3, Work DEF TileRange
  <2>2. prev[w] + (ki[w] + 1) - TileRange(w).lb = n + 1
    BY <1>3, <2>1 DEF Number, TileRange
  <2> QED BY <1>3, <2>2 DEF Slot, Rem
<1>5. Arrives(w, B) 
  BY <1>1, <1>2, <1>3, ArrivalsMove
<1>6. Waits(w, M) /\ \A m \in M : Ready(w, m)
  <2>1. CASE more
    BY <1>2, <1>4, <2>1, WaitsMove
  <2>2. CASE ~more
    BY <1>2, <2>2, Unmoved
  <2> QED BY <2>1, <2>2
<1>7. /\ Freed(w, "v") = n /\ Got(w, "v") = n + 1 /\ Got(w, "k") = n + 1
  <2>1. ki[w] < TileRange(w).ub
    BY <1>2 DEF Place
  <2> QED BY <1>2, <1>3, <2>1 DEF Freed, Got, FirstHalf, In
<1>8. \A kind \in Streams, s \in Slots :
        <<Produces(kind), s>> \in M <=>
          Produces(kind) \in G /\ s = Got(w, Produces(kind)) % Stages
  <2> HIDE DEF more
  <2> QED BY <1>7
<1>9. \A kind \in Ring, s \in Slots :
        <<kind, s>> \in B <=> w = w /\ kind \in {"v"} /\ s = Freed(w, kind) % Stages
  BY <1>7
<1>10. \A kind \in Streams : kind \in {"v"} => Freed(w, kind) < Got(w, Produces(kind))
  BY <1>3, <1>7, StreamFacts DEF Types
<1> HIDE DEF M, B, G
<1> QED BY <1>1, <1>2, <1>5, <1>6, <1>8, <1>9, <1>10, WgRings

LEMMA AwaitRings ==
  ASSUME SplitInRange, Types, Places, Rings, NEW w \in WGs, Await(w)
  PROVE  Rings'
<1> DEFINE r == TileRange(w)
           G == IF r.ub > r.lb THEN {"k"} ELSE {}
           M == {Q} \cup IF r.ub > r.lb THEN {<<"k", Rem(prev[w], Stages)>>} ELSE {}
<1>1. /\ SamePrologues /\ KvStep({}, {}) /\ WgStep(w, {}, G) /\ w \in Actors
      /\ prev[w] \in Nat /\ (r.ub > r.lb => prev[w] = Got(w, "k"))
  BY AwaitMoves DEF Actors
<1>2. /\ UNCHANGED <<work, landed, smem, copying>>
      /\ Waited(w, M) /\ \A m \in M : Ready(w, m)
      /\ IF w = "wg1" THEN ArriveAll(w, {Turn(w)}) ELSE arrivals' = arrivals
  BY DEF Await, Arrive
<1>3. Rem(prev[w], Stages) = prev[w] % Stages
  BY <1>1 DEF Rem
<1>4. \A kind \in Streams, s \in Slots :
        <<Produces(kind), s>> \in M <=>
          Produces(kind) \in G /\ s = Got(w, Produces(kind)) % Stages
  <2>1. \A kind \in Streams : Produces(kind) \in {"k", "v", "mask"}
    BY OwnFacts
  <2> HIDE DEF r
  <2> QED BY <1>1, <1>3, <2>1 DEF Q
<1> HIDE DEF M, G
<1>5. Waits(w, M)
  BY <1>2, WaitsMove
<1>6. PICK B \in {{Turn(w)}, {}} : Arrives(w, B)
  BY <1>1, <1>2, ArrivalsMove, Unmoved
<1>7. \A kind \in Ring, s \in Slots :
        <<kind, s>> \in B <=> w = w /\ kind \in {} /\ s = Freed(w, kind) % Stages
  BY NotARing
<1> QED BY <1>1, <1>2, <1>4, <1>5, <1>6, <1>7, WgRings

LEMMA PrologueRings ==
  ASSUME SplitInRange, Types, Places, Rings, NEW w \in WGs, Prologue(w)
  PROVE  Rings'
<1>1. /\ KvStep({}, {}) /\ WgStep(w, {}, {}) /\ w \in Actors
      /\ pc[w] = "prologue" /\ pc'[w] # "prologue" /\ Others(w)
  BY PrologueMoves DEF Actors
<1>2. /\ UNCHANGED <<work, landed, waits, smem>> /\ ArriveAll(w, Ring \X Slots)
      /\ copying' = copying \cup (IF w = "wg0" THEN {<<Q, <<1, 0>>>>} ELSE {})
  BY DEF Prologue, Copy, Ring
<1>3. Arrives(w, Ring \X Slots)
  BY <1>1, <1>2, ArrivalsMove
<1>4. \A v \in WGs : v # w => pc'[v] = pc[v]
  BY <1>1 DEF Others, Actors
<1>5. RingArrivals(w, {}, {})
  <2> SUFFICES ASSUME NEW i \in Ring, NEW s \in Slots, NEW x \in Actors
               PROVE  arrivals'[<<i, s>>][x] = arrivals[<<i, s>>][x]
                        + One(x = w /\ i \in {} /\ s = Freed(w, i) % Stages)
                        + One(x = "kv" /\ i \in {} /\ s = Synced(i) % Stages)
                        + One(x \in WGs /\ pc[x] = "prologue" /\ pc'[x] # "prologue")
    BY DEF RingArrivals
  <2>1. <<i, s>> \in Named /\ arrivals[<<i, s>>][x] \in Nat
    BY Barriers DEF Types, MemoryTypes
  <2>2. arrivals'[<<i, s>>][x] = arrivals[<<i, s>>][x] + One(x = w)
    BY <1>3, <2>1 DEF Arrives, One
  <2> QED BY <1>1, <1>4, <2>1, <2>2 DEF One
<1>6. RingGets(w, {})
  <2> SUFFICES ASSUME NEW v \in WGs, NEW i \in Streams, NEW s \in Slots
               PROVE  waits[v][<<Produces(i), s>>] = waits[v][<<Produces(i), s>>] + 0
    BY <1>2 DEF RingGets, One
  <2>1. <<Produces(i), s>> \in MBarriers
    BY Barriers DEF Types
  <2> QED BY <2>1 DEF Types, MemoryTypes
<1>7. /\ copying \subseteq copying' /\ \A c \in copying' \ copying : c[1] = Q
      /\ \A v \in WGs : pc'[v] = "prologue" => pc[v] = "prologue"
  BY <1>1, <1>2, <1>4
<1> QED BY <1>1, <1>2, <1>5, <1>6, <1>7, RingUse

-----------------------------------------------------------------------------
\* The schedule barriers.

\* What the types say of the places of the warpgroups, in numbers.
LEMMA TileFacts ==
  ASSUME SplitInRange, Types, Places, NEW w \in WGs
  PROVE  /\ tile[w] \in Nat /\ tile[w] >= 1 /\ tile[w] =< Tiles + 1
         /\ Before(w) \in Nat /\ Tiles \in Nat
         /\ pc[w] # "done" => tile[w] =< Tiles /\ Prior[tile[w]] \in Nat
              /\ Prior[tile[w]] =< Before(w) /\ Before(w) =< Prior[tile[w] + 1]
         /\ pc[w] = "done" => tile[w] = Tiles + 1 /\ Before(w) = Prior[Tiles + 1]
         /\ pc[w] \in {"prologue", "await", "first_turn"} => Before(w) = Prior[tile[w]]
         /\ pc[w] \in InIteration \/ Looping(w) => Before(w) < Prior[tile[w] + 1]
         /\ pc[w] \in {"free_q", "output"} \/ Looped(w) =>
              Before(w) = Prior[tile[w] + 1]
         /\ \A n \in 1..Tiles + 1 : Prior[n] \in Nat
         /\ \A m, n \in 1..Tiles + 1 : m =< n => Prior[m] =< Prior[n]
         /\ w \in {"wg0", "wg1"} /\ pc[w] \in PCs(w)
<1>1. w \in WGs \cup {"kv"} /\ Place(w) /\ w \in Actors /\ w \in {"wg0", "wg1"}
  BY DEF Places, Actors, WGs
<1>2. tile[w] \in 1..Tiles + 1 /\ pc[w] \in PCs(w)
  BY <1>1 DEF Types, PositionTypes
<1>3. /\ Prior \in [1..Tiles + 1 -> Nat] /\ Tiles \in Nat
      /\ \A m, n \in 1..Tiles + 1 : m =< n => Prior[m] =< Prior[n]
  BY Work
<1>4. tile[w] \in Nat /\ tile[w] >= 1 /\ tile[w] =< Tiles + 1
  BY <1>2, <1>3
<1>5. /\ Before(w) \in Nat
      /\ pc[w] = "done" => tile[w] = Tiles + 1 /\ Before(w) = Prior[tile[w]]
      /\ pc[w] # "done" => /\ tile[w] \in 1..Tiles
                            /\ Prior[tile[w]] =< Before(w)
                            /\ Before(w) =< Prior[tile[w] + 1]
      /\ pc[w] \in InBlock \/ Looping(w) => Before(w) < Prior[tile[w] + 1]
      /\ pc[w] \in {"prologue", "await", "first_turn"} => Before(w) = Prior[tile[w]]
      /\ pc[w] \in {"free_q", "output"} \/ Looped(w) => Before(w) = Prior[tile[w] + 1]
  BY <1>1, Whereabouts
<1>6. pc[w] # "done" => tile[w] =< Tiles /\ Prior[tile[w]] \in Nat
  BY <1>3, <1>4, <1>5
<1>7. pc[w] \in InIteration => pc[w] \in InBlock
  BY DEF InBlock
<1>8. \A n \in 1..Tiles + 1 : Prior[n] \in Nat
  BY <1>3
<1> QED BY <1>1, <1>2, <1>3, <1>4, <1>5, <1>6, <1>7, <1>8

LEMMA TurnsStep ==
  ASSUME SplitInRange, Types, Places, Turns, UNCHANGED work, NEW w \in WGs,
         NEW gave \in {0, 1}, NEW asked \in {0, 1}, NEW took \in {0, 1},
         NEW freed \in {0, 1},
         TurnStep(w, gave, asked, took), FreedQ' = FreedQ + freed,
         \A v \in WGs, x \in Actors : arrivals'[Turn(v)][x] =
           arrivals[Turn(v)][x]
             + (IF x = w THEN (IF v = w THEN asked ELSE gave) ELSE 0),
         gave = 1 => Gave(w) =< Asked(Other(w)),
         took = 1 => asked = 0 /\ Took(w) + 1 =< Gave(Other(w)),
         freed = 1 => Asked("wg1") >= FreedQ + 1 + Prior[FreedQ + 1 + 1],
         FreedQ' > 0 => Prior[FreedQ' + 1] \in Nat
  PROVE  Turns'
<1>1. /\ \A v \in WGs : Gave(v) \in Nat /\ Asked(v) \in Nat /\ Took(v) \in Int
      /\ FreedQ \in Nat
  BY CountTypes
<1>2. Prior' = Prior /\ WGs = {"wg0", "wg1"} /\ w \in {"wg0", "wg1"}
      /\ Other("wg0") = "wg1" /\ Other("wg1") = "wg0"
  BY SameWork DEF WGs, Other
<1>3. /\ Took("wg0") =< Gave("wg1") /\ Took("wg1") =< Gave("wg0")
      /\ Gave("wg0") =< Asked("wg1") + 1 /\ Gave("wg1") =< Asked("wg0") + 1
      /\ FreedQ > 0 => Asked("wg1") >= FreedQ + Prior[FreedQ + 1]
      /\ \A v \in WGs, x \in Actors : arrivals[Turn(v)][x] =
           CASE x = v -> Asked(v) [] x = Other(v) -> Gave(x) [] OTHER -> 0
  BY DEF Turns
<1>4. \A v \in WGs :
        /\ Gave(v)' = Gave(v) + (IF v = w THEN gave ELSE 0)
        /\ Asked(v)' = Asked(v) + (IF v = w THEN asked ELSE 0)
        /\ Took(v)' = Took(v) + (IF v = w THEN took ELSE 0)
  BY DEF TurnStep
<1>5. Took("wg0")' =< Gave("wg1")' /\ Took("wg1")' =< Gave("wg0")'
  BY <1>1, <1>2, <1>3, <1>4
<1>6. Gave("wg0")' =< Asked("wg1")' + 1 /\ Gave("wg1")' =< Asked("wg0")' + 1
  BY <1>1, <1>2, <1>3, <1>4
<1>7. FreedQ' > 0 => Asked("wg1")' >= FreedQ' + Prior'[FreedQ' + 1]
  <2>1. CASE freed = 0
    BY <1>1, <1>2, <1>3, <1>4, <2>1
  <2>2. CASE freed = 1
    BY <1>1, <1>2, <1>4, <2>2
  <2> QED BY <2>1, <2>2
<1>8. \A v \in WGs, x \in Actors : arrivals'[Turn(v)][x] =
        CASE x = v -> Asked(v)' [] x = Other(v) -> Gave(x)' [] OTHER -> 0
  <2> SUFFICES ASSUME NEW v \in WGs, NEW x \in Actors
               PROVE  arrivals'[Turn(v)][x] =
                 CASE x = v -> Asked(v)' [] x = Other(v) -> Gave(x)' [] OTHER -> 0
    OBVIOUS
  <2>1. v \in {"wg0", "wg1"}
    BY DEF WGs
  <2>2. CASE x = v
    BY <1>1, <1>2, <1>3, <1>4, <2>1, <2>2
  <2>3. CASE x = Other(v)
    BY <1>1, <1>2, <1>3, <1>4, <2>1, <2>3
  <2>4. CASE x # v /\ x # Other(v)
    BY <1>1, <1>2, <1>3, <1>4, <2>1, <2>4
  <2> QED BY <2>2, <2>3, <2>4
<1> QED BY <1>5, <1>6, <1>7, <1>8 DEF Turns

\* A step that leaves the turns alone.
LEMMA TurnsKeep ==
  ASSUME SplitInRange, Types, Places, Turns, UNCHANGED work, NEW w \in WGs,
         TurnStep(w, 0, 0, 0), FreedQ' = FreedQ,
         NEW a \in Actors, NEW B, Arrives(a, B), \A v \in WGs : Turn(v) \notin B
  PROVE  Turns'
<1>1. \A v \in WGs, x \in Actors : arrivals'[Turn(v)][x] =
        arrivals[Turn(v)][x] + (IF x = w THEN (IF v = w THEN 0 ELSE 0) ELSE 0)
  <2>1. \A v \in WGs : Turn(v) \in Named
    BY Barriers DEF Types
  <2>2. \A v \in WGs, x \in Actors : arrivals[Turn(v)][x] \in Nat
    BY <2>1 DEF Types, MemoryTypes
  <2> QED BY <2>1, <2>2 DEF Arrives, One
<1>2. /\ \A v \in WGs : Gave(v) \in Nat /\ Asked(v) \in Nat /\ Took(v) \in Int
      /\ FreedQ \in Nat
  BY CountTypes
<1>3. /\ \A v \in WGs : /\ Gave(v)' = Gave(v) /\ Asked(v)' = Asked(v)
                        /\ Took(v)' = Took(v)
      /\ Prior' = Prior /\ WGs = {"wg0", "wg1"}
  BY <1>2, SameWork DEF TurnStep, WGs
<1>4. \A v \in WGs, x \in Actors : arrivals'[Turn(v)][x] = arrivals[Turn(v)][x]
  <2>1. \A v \in WGs : Turn(v) \in Named
    BY Barriers DEF Types
  <2> QED BY <1>1, <2>1 DEF Types, MemoryTypes
<1>5. /\ Took("wg0") =< Gave("wg1") /\ Took("wg1") =< Gave("wg0")
      /\ Gave("wg0") =< Asked("wg1") + 1 /\ Gave("wg1") =< Asked("wg0") + 1
      /\ FreedQ > 0 => Asked("wg1") >= FreedQ + Prior[FreedQ + 1]
  BY DEF Turns
<1>6. \A v \in WGs, x \in Actors : arrivals'[Turn(v)][x] =
        CASE x = v -> Asked(v)' [] x = Other(v) -> Gave(x)' [] OTHER -> 0
  <2> SUFFICES ASSUME NEW v \in WGs, NEW x \in Actors
               PROVE  arrivals'[Turn(v)][x] =
                 CASE x = v -> Asked(v)' [] x = Other(v) -> Gave(x)' [] OTHER -> 0
    OBVIOUS
  <2>1. arrivals[Turn(v)][x] =
          CASE x = v -> Asked(v) [] x = Other(v) -> Gave(x) [] OTHER -> 0
    BY DEF Turns
  <2>2. Other(v) \in WGs
    BY DEF Other, WGs
  <2> QED BY <1>3, <1>4, <2>1, <2>2
<1>7. /\ Took("wg0")' =< Gave("wg1")' /\ Took("wg1")' =< Gave("wg0")'
      /\ Gave("wg0")' =< Asked("wg1")' + 1 /\ Gave("wg1")' =< Asked("wg0")' + 1
      /\ FreedQ' > 0 => Asked("wg1")' >= FreedQ' + Prior'[FreedQ' + 1]
  BY <1>3, <1>5
<1> QED BY <1>6, <1>7 DEF Turns

\* Q is freed only when both warpgroups have it, and wg0 has got no Q that was
\* not freed before.
LEMMA QGot ==
  ASSUME SplitInRange, Types, Places, Turns, QSlot
  PROVE  /\ \A w \in WGs : FreedQ =< GotQ(w) /\ IssuedQ =< GotQ(w) + 1
         /\ IssuedQ \in {LoadedQ, LoadedQ + 1}
         /\ FreedQ \in {tile["wg0"] - 1, tile["wg0"], 0} /\ FreedQ =< Tiles
<1>1. /\ FreedQ \in Nat /\ LoadedQ \in Nat /\ IssuedQ \in Nat
      /\ \A w \in WGs : GotQ(w) \in Nat
  BY CountTypes
<1>2. "wg0" \in WGs /\ "wg1" \in WGs /\ WGs = {"wg0", "wg1"}
  BY DEF WGs
<1>3. IssuedQ \in {LoadedQ, LoadedQ + 1}
  BY <1>1 DEF IssuedQ
<1>4. /\ tile["wg0"] \in Nat /\ tile["wg0"] >= 1 /\ tile["wg0"] =< Tiles + 1 /\ Tiles \in Nat
      /\ pc["wg0"] # "done" => tile["wg0"] =< Tiles
      /\ pc["wg0"] = "done" => tile["wg0"] = Tiles + 1
  BY <1>2, TileFacts
<1>5. FreedQ \in {tile["wg0"] - 1, tile["wg0"], 0} /\ FreedQ =< Tiles
  BY <1>4 DEF FreedQ, In
<1>6. FreedQ =< GotQ("wg0")
  <2>1. FreedQ = 0 \/ FreedQ = tile["wg0"] - 1 + In("wg0", {"output"})
    BY DEF FreedQ
  <2>2. GotQ("wg0") = tile["wg0"] - In("wg0", {"prologue", "await", "done"})
    BY DEF GotQ
  <2>3. In("wg0", {"output"}) + In("wg0", {"prologue", "await", "done"}) \in {0, 1}
        /\ In("wg0", {"output"}) \in {0, 1}
        /\ In("wg0", {"prologue", "await", "done"}) \in {0, 1}
    BY DEF In
  <2> QED BY <1>1, <1>2, <1>4, <2>1, <2>2, <2>3
<1>7. FreedQ =< GotQ("wg1")
  <2> SUFFICES ASSUME GotQ("wg1") < FreedQ PROVE FALSE
    BY <1>1, <1>2
  <2>1. Asked("wg1") >= FreedQ + Prior[FreedQ + 1]
    BY <1>1, <1>2 DEF Turns
  <2>2. Asked("wg1") = Before("wg1") + In("wg1", {"turn", "pv"}) + GotQ("wg1")
    BY DEF Asked, GotQ
  <2>3. /\ tile["wg1"] \in Nat /\ tile["wg1"] >= 1 /\ tile["wg1"] =< Tiles + 1
        /\ Before("wg1") \in Nat
        /\ pc["wg1"] # "done" => tile["wg1"] =< Tiles
             /\ Before("wg1") =< Prior[tile["wg1"] + 1]
        /\ pc["wg1"] = "done" => tile["wg1"] = Tiles + 1
        /\ pc["wg1"] \in {"prologue", "await", "first_turn"} =>
             Before("wg1") = Prior[tile["wg1"]]
        /\ pc["wg1"] \in {"turn", "pv"} => Before("wg1") < Prior[tile["wg1"] + 1]
        /\ \A n \in 1..Tiles + 1 : Prior[n] \in Nat
        /\ \A m, n \in 1..Tiles + 1 : m =< n => Prior[m] =< Prior[n]
    BY <1>2, TileFacts DEF InIteration
  <2>4. FreedQ + 1 \in 1..Tiles + 1 /\ Prior[FreedQ + 1] \in Nat
    BY <1>1, <1>4, <1>5, <2>3
  <2>5. CASE pc["wg1"] = "done"
    BY <1>1, <1>4, <1>5, <2>3, <2>5 DEF GotQ, In
  <2>6. CASE pc["wg1"] \in {"prologue", "await"}
    <3>1. In("wg1", {"turn", "pv"}) = 0 /\ GotQ("wg1") = tile["wg1"] - 1
      BY <2>6 DEF In, GotQ
    <3>2. Prior[tile["wg1"]] =< Prior[FreedQ + 1]
      BY <1>1, <1>2, <2>3, <2>4, <2>6, <3>1
    <3> QED BY <1>1, <1>2, <2>1, <2>2, <2>3, <2>4, <2>6, <3>1, <3>2
  <2>7. CASE pc["wg1"] \notin {"prologue", "await", "done"}
    <3>1. GotQ("wg1") = tile["wg1"]
      BY <2>3, <2>7 DEF In, GotQ
    <3>2. tile["wg1"] + 1 \in 1..Tiles + 1 /\ Prior[tile["wg1"] + 1] =< Prior[FreedQ + 1]
            /\ Prior[tile["wg1"] + 1] \in Nat
      BY <1>1, <1>4, <2>3, <2>4, <2>7, <3>1
    <3>3. Before("wg1") + In("wg1", {"turn", "pv"}) =< Prior[tile["wg1"] + 1]
      BY <2>3, <2>7, <3>2 DEF In
    <3> QED BY <1>1, <1>2, <2>1, <2>2, <2>3, <2>4, <3>1, <3>2, <3>3 DEF In
  <2> QED BY <2>5, <2>6, <2>7
<1> QED
  <2>1. LoadedQ =< FreedQ
    BY DEF QSlot
  <2> QED BY <1>1, <1>2, <1>3, <1>5, <1>6, <1>7, <2>1

\* wg0 gives wg1 no turn that wg1 has not asked for but the next one: before
\* each QK, and after its last block, ...
LEMMA Wg0Gives ==
  ASSUME SplitInRange, Types, Places, Turns, QSlot, pc["wg0"] \in {"loop", "qk_issued"}
  PROVE  Gave("wg0") =< Asked("wg1")
<1> DEFINE t0 == tile["wg0"]  t1 == tile["wg1"]
           B0 == Before("wg0")  B1 == Before("wg1")
<1>1. "wg0" \in WGs /\ "wg1" \in WGs
  BY DEF WGs
<1>2. /\ t0 \in Nat /\ t0 >= 1 /\ t0 =< Tiles /\ Tiles \in Nat
      /\ t1 \in Nat /\ t1 >= 1 /\ t1 =< Tiles + 1
      /\ B0 \in Nat /\ B1 \in Nat /\ Prior[t0] =< B0 /\ B0 =< Prior[t0 + 1]
      /\ \A n \in 1..Tiles + 1 : Prior[n] \in Nat
      /\ \A m, n \in 1..Tiles + 1 : m =< n => Prior[m] =< Prior[n]
      /\ pc["wg1"] # "done" => t1 =< Tiles /\ Prior[t1] =< B1 /\ B1 =< Prior[t1 + 1]
      /\ pc["wg1"] = "done" => t1 = Tiles + 1 /\ B1 = Prior[Tiles + 1]
      /\ pc["wg1"] \in InIteration => B1 < Prior[t1 + 1]
  BY <1>1, TileFacts
<1>3. Gave("wg0") = B0 + t0 - 1 /\ Took("wg0") = B0
  BY <1>2 DEF Gave, Took, Asked, In, PastQK
<1>4. B0 =< B1 + In("wg1", PastQK)
  <2>1. Gave("wg1") = B1 + In("wg1", PastQK)
    BY <1>2 DEF Gave, In
  <2> QED BY <1>3, <2>1 DEF Turns
<1> DEFINE s == In("wg1", {"prologue", "await", "done"})
           p == In("wg1", PastQK)
           e == In("wg1", {"turn", "pv"})
<1>5. Asked("wg1") = B1 + e + (t1 - s)
  BY DEF Asked
<1>6. /\ s \in {0, 1} /\ p \in {0, 1} /\ e \in {0, 1} /\ (p = 1 => s = 0)
      /\ p = 1 => pc["wg1"] \in InIteration
      /\ s = 1 /\ t1 =< Tiles => p = 0
  BY DEF In, PastQK, InIteration
<1>7. B0 =< B1 + p
  BY <1>4
<1> HIDE DEF t0, t1, B0, B1, s, p, e
<1>8. CASE t1 > t0
  <2>1. t0 + 1 \in 1..Tiles + 1 /\ t1 \in 1..Tiles + 1 /\ Prior[t0 + 1] =< Prior[t1]
    BY <1>2, <1>8
  <2>2. Prior[t1] =< B1
    BY <1>2
  <2> QED BY <1>2, <1>3, <1>5, <1>6, <1>8, <2>1, <2>2
<1>9. CASE t1 = t0
  BY <1>2, <1>3, <1>5, <1>6, <1>7, <1>9
<1>10. CASE t1 < t0
  <2>1. pc["wg1"] # "done" /\ t1 + 1 \in 1..Tiles + 1 /\ t0 \in 1..Tiles + 1
        /\ Prior[t1 + 1] =< Prior[t0]
    BY <1>2, <1>10
  <2>2. B0 =< Prior[t0]
    BY <1>2, <1>6, <1>7, <2>1
  <2>3. Persistent /\ FreedQ = t0 - 1
    <3>1. Tiles # 1
      BY <1>2, <1>10
    <3>2. Persistent
      BY <3>1, KernelAssumption DEF Types, WorkTypes, Persistent, Tiles
    <3>3. In("wg0", {"output"}) = 0
      BY DEF In
    <3> QED BY <1>2, <3>2, <3>3 DEF FreedQ, t0
  <2>4. Asked("wg1") >= FreedQ + Prior[FreedQ + 1]
    BY <1>2, <1>10, <2>3 DEF Turns
  <2>5. Asked("wg1") >= t0 - 1 + Prior[t0]
    BY <1>2, <2>3, <2>4
  <2> QED BY <1>2, <1>3, <2>1, <2>2, <2>5, <1>5, <1>6
<1> QED BY <1>2, <1>8, <1>9, <1>10

\* ... and wg1 the same, after each QK it has issued.
LEMMA Wg1Gives ==
  ASSUME SplitInRange, Types, Places, Turns, pc["wg1"] = "qk_issued"
  PROVE  Gave("wg1") =< Asked("wg0")
<1> DEFINE t0 == tile["wg0"]  t1 == tile["wg1"]
           B0 == Before("wg0")  B1 == Before("wg1")
           p == In("wg0", PastQK)
           o == In("wg0", {"free_q", "output"})
           e == In("wg0", {"turn", "pv"})
<1>1. "wg0" \in WGs /\ "wg1" \in WGs
  BY DEF WGs
<1>2. /\ t0 \in Nat /\ t0 >= 1 /\ t0 =< Tiles + 1 /\ Tiles \in Nat
      /\ t1 \in Nat /\ t1 >= 1 /\ t1 =< Tiles
      /\ B0 \in Nat /\ B1 \in Nat /\ B1 < Prior[t1 + 1]
      /\ \A n \in 1..Tiles + 1 : Prior[n] \in Nat
      /\ \A m, n \in 1..Tiles + 1 : m =< n => Prior[m] =< Prior[n]
      /\ pc["wg0"] # "done" => t0 =< Tiles /\ Prior[t0] =< B0 /\ B0 =< Prior[t0 + 1]
      /\ pc["wg0"] = "done" => t0 = Tiles + 1 /\ B0 = Prior[Tiles + 1]
      /\ pc["wg0"] \in {"free_q", "output"} => B0 = Prior[t0 + 1]
  BY <1>1, TileFacts DEF InIteration
<1>3. Gave("wg1") = B1 /\ Took("wg1") = B1 + t1
  BY <1>2 DEF Gave, Took, Asked, In, PastQK
<1>4. Gave("wg0") = B0 + p + t0 - 1 + o /\ Asked("wg0") = B0 + e
  BY <1>2 DEF Gave, Asked, In
<1>5. B1 + t1 =< B0 + p + t0 - 1 + o
  BY <1>3, <1>4 DEF Turns
<1>6. /\ p \in {0, 1} /\ o \in {0, 1} /\ e \in {0, 1} /\ p + o \in {0, 1}
      /\ o = 1 => pc["wg0"] \in {"free_q", "output"}
  BY DEF In, PastQK
<1> HIDE DEF t0, t1, B0, B1, o, p, e
<1>7. CASE t1 > t0
  BY <1>2, <1>3, <1>4, <1>5, <1>6, <1>7
<1>8. CASE t1 = t0
  BY <1>2, <1>3, <1>4, <1>5, <1>6, <1>8
<1>9. CASE t1 < t0
  <2>1. t1 + 1 \in 1..Tiles + 1 /\ t0 \in 1..Tiles + 1 /\ Prior[t1 + 1] =< Prior[t0]
        /\ Prior[t0] =< B0
    BY <1>2, <1>9
  <2> QED BY <1>2, <1>3, <1>4, <1>6, <2>1
<1> QED BY <1>2, <1>7, <1>8, <1>9

\* A warpgroup that passes its barrier was given its turn.
LEMMA TurnPassed ==
  ASSUME SplitInRange, Types, Places, Turns, NEW w \in WGs
  PROVE  /\ Completed(Turn(w)) \in Nat
         /\ Asked(w) =< Gave(Other(w)) + 1 /\ Gave(Other(w)) =< Asked(w) + 1
         /\ Asked(w) - Completed(Turn(w)) \in {0, 1}
         /\ Gave(Other(w)) - Completed(Turn(w)) \in {0, 1}
         /\ arrivals[Turn(w)][w] = Asked(w)
         /\ arrivals[Turn(w)][Other(w)] = Gave(Other(w))
         /\ \A x \in Actors \ WGs : arrivals[Turn(w)][x] = 0
<1>1. /\ \A v \in WGs : Gave(v) \in Nat /\ Asked(v) \in Nat /\ Took(v) \in Int
      /\ WGs = {"wg0", "wg1"} /\ w \in {"wg0", "wg1"} /\ Other(w) \in WGs
      /\ Other("wg0") = "wg1" /\ Other("wg1") = "wg0" /\ WGs \subseteq Actors
      /\ "kv" \in Actors /\ "q" \in Actors /\ "kv" \notin WGs /\ "q" \notin WGs
  BY CountTypes DEF WGs, Other, Actors
<1>2. Asked(w) =< Took(w) + 1
  BY <1>1 DEF Took, In
<1>3. Took(w) =< Gave(Other(w)) /\ Gave(Other(w)) =< Asked(w) + 1
  BY <1>1 DEF Turns
<1>4. \A x \in Actors : arrivals[Turn(w)][x] =
        CASE x = w -> Asked(w) [] x = Other(w) -> Gave(x) [] OTHER -> 0
  BY DEF Turns
<1>5. /\ arrivals[Turn(w)][w] = Asked(w)
      /\ arrivals[Turn(w)][Other(w)] = Gave(Other(w))
      /\ \A x \in Actors \ WGs : arrivals[Turn(w)][x] = 0
  BY <1>1, <1>4
<1>6. NumThreads(Turn(w)) = 256
  <2>1. Turn(w)[1] = "turn" /\ Turn(w) # Q
    BY DEF Turn, Q
  <2> QED BY <2>1 DEF NumThreads
<1>7. Asked(w) =< Gave(Other(w)) + 1
  BY <1>1, <1>2, <1>3
<1> DEFINE x == arrivals[Turn(w)]["wg0"]
           y == arrivals[Turn(w)]["wg1"]
<1>8. Completed(Turn(w)) = (128 * (x + y) + 32 * (0 + 0)) \div 256
  BY <1>1, <1>5, <1>6 DEF Completed
<1>9. (x = Asked(w) /\ y = Gave(Other(w))) \/ (y = Asked(w) /\ x = Gave(Other(w)))
  BY <1>1, <1>5
<1> HIDE DEF x, y
<1>10. LET c == (128 * (x + y) + 32 * (0 + 0)) \div 256 IN
         x - c \in {0, 1} /\ y - c \in {0, 1} /\ c \in Nat
  <2>1. x \in Nat /\ y \in Nat /\ x =< y + 1 /\ y =< x + 1
    BY <1>1, <1>3, <1>7, <1>9
  <2>2. PICK i \in Nat, j \in Nat : i = x /\ j = y
    BY <2>1
  <2>3. LET c == (128 * (i + j) + 32 * (0 + 0)) \div 256 IN
          i - c \in {0, 1} /\ j - c \in {0, 1} /\ c \in Nat
    BY <2>1, <2>2, TwoParties
  <2> QED BY <2>2, <2>3
<1> QED BY <1>1, <1>3, <1>5, <1>7, <1>8, <1>9, <1>10

-----------------------------------------------------------------------------
\* What the steps leave alone.

LEMMA TypesStep ==
  ASSUME Types, PositionTypes', UNCHANGED <<work, landed, smem>>,
         arrivals' = arrivals \/ \E a \in Actors : \E B : ArriveAll(a, B),
         waits' = waits \/ \E w \in WGs : \E M : Waited(w, M),
         copying' \subseteq Buffers \X (Nat \X Nat)
  PROVE  Types'
<1>1. /\ launch' = launch /\ range' = range /\ Tiles' = Tiles
      /\ Buffers' = Buffers /\ Named' = Named /\ MBarriers' = MBarriers
  BY SameWork
<1>2. WorkTypes'
  BY <1>1 DEF Types, WorkTypes
<1>3. arrivals' \in [Named -> [Actors -> Nat]]
  BY ArrivalsMove DEF Types, MemoryTypes
<1>4. waits' \in [WGs -> [MBarriers -> Nat]]
  BY WaitsMove DEF Types, MemoryTypes
<1>5. MemoryTypes'
  BY <1>1, <1>3, <1>4 DEF Types, MemoryTypes
<1> QED BY <1>2, <1>5 DEF Types

\* A step that leaves the Q buffer and its barriers alone.
LEMMA QKeep ==
  ASSUME SplitInRange, Types, Places, QSlot, UNCHANGED <<work, landed, smem>>,
         NEW v \in WGs, QStep(v, 0, 0, 0, 0),
         pc'["wg0"] = "prologue" <=> pc["wg0"] = "prologue",
         NEW a \in Actors, NEW B, Arrives(a, B), Q \notin B,
         NEW w \in WGs, NEW M, Waits(w, M), Q \notin M,
         copying \subseteq copying', \A c \in copying' \ copying : c[1] # Q
  PROVE  QSlot'
<1>1. /\ FreedQ \in Nat /\ LoadedQ \in Nat /\ IssuedQ \in Nat /\ SyncedQ \in Nat
      /\ \A x \in WGs : GotQ(x) \in Nat
  BY CountTypes
<1>2. /\ FreedQ' = FreedQ /\ LoadedQ' = LoadedQ /\ SyncedQ' = SyncedQ
      /\ \A x \in WGs : GotQ(x)' = GotQ(x)
  BY <1>1 DEF QStep
<1>3. IssuedQ' = IssuedQ
  BY <1>2 DEF IssuedQ
<1>4. Q \in Named /\ Q \in MBarriers
  BY Barriers DEF Types
<1>5. /\ \A x \in Actors : arrivals'[Q][x] = arrivals[Q][x]
      /\ \A x \in WGs : waits'[x][Q] = waits[x][Q]
  BY <1>4 DEF Arrives, Waits, One, Types, MemoryTypes
<1>6. Flying(Q)' = Flying(Q) /\ \A c : c[1] = Q => (c \in copying' <=> c \in copying)
  BY DEF Flying
<1>7. <<Q, <<IssuedQ, 0>>>> \in copying' <=> <<Q, <<IssuedQ, 0>>>> \in copying
  BY <1>6
<1> QED BY <1>2, <1>3, <1>5, <1>6, <1>7 DEF QSlot

\* No step but those of TMA, the Q warp and the warpgroups at Q concerns it.
LEMMA NotQ ==
  ASSUME Types
  PROVE  /\ \A w \in WGs : \A kind : Turn(w) # Q /\ (kind # "q" => Here(w, kind) # Q)
         /\ \A w \in WGs, v \in WGs : Turn(w) = Turn(v) <=> w = v
         /\ \A w \in WGs : \A kind : kind # "turn" => Here(w, kind) # Turn("wg0")
              /\ Here(w, kind) # Turn("wg1") /\ Here("kv", kind) # Turn("wg0")
              /\ Here("kv", kind) # Turn("wg1")
         /\ \A kind : kind # "q" => Here("kv", kind) # Q
         /\ \A w \in WGs : Turn(w) \in {Turn("wg0"), Turn("wg1")}
         /\ \A w \in WGs : Other(w) \in WGs
BY DEF Turn, Q, Here, WGs, Other

\* A step that leaves the turns and Q alone.
LEMMA Keeps ==
  ASSUME SplitInRange, Types, Places, Turns, QSlot, UNCHANGED <<work, landed, smem>>,
         PositionTypes', NEW w \in WGs, TurnStep(w, 0, 0, 0), QStep(w, 0, 0, 0, 0),
         pc'["wg0"] = "prologue" <=> pc["wg0"] = "prologue",
         NEW a \in Actors, NEW B, arrivals' = arrivals \/ ArriveAll(a, B),
         Q \notin B, \A v \in WGs : Turn(v) \notin B,
         NEW M, waits' = waits \/ Waited(w, M), Q \notin M,
         copying \subseteq copying',
         copying' \ copying \subseteq (Buffers \ {Q}) \X (Nat \X Nat)
  PROVE  Types' /\ Turns' /\ QSlot'
<1>1. PICK C \in {B, {}} : Arrives(a, C)
  BY ArrivalsMove, Unmoved
<1>2. PICK N \in {M, {}} : Waits(w, N)
  BY WaitsMove, Unmoved
<1>3. FreedQ' = FreedQ
  BY CountTypes DEF QStep
<1>4. Turns'
  BY <1>1, <1>3, TurnsKeep
<1>5. QSlot'
  <2>1. \A c \in copying' \ copying : c[1] # Q
    OBVIOUS
  <2> QED BY <1>1, <1>2, <2>1, QKeep
<1>6. Types'
  <2>1. copying' \subseteq Buffers \X (Nat \X Nat)
    BY DEF Types, MemoryTypes
  <2> QED BY <2>1, TypesStep
<1> QED BY <1>4, <1>5, <1>6

LEMMA BlockTyped ==
  ASSUME SplitInRange, Types, Places, pc["kv"] \in InBlock, NEW K, K \subseteq Streams
  PROVE  Block(K) \subseteq (Buffers \ {Q}) \X (Nat \X Nat)
<1> SUFFICES ASSUME NEW kind \in K
             PROVE  <<Here("kv", kind), <<tile["kv"], ki["kv"]>>>>
                      \in (Buffers \ {Q}) \X (Nat \X Nat)
  BY DEF Block
<1>1. "kv" \in WGs \cup {"kv"} /\ "kv" \in Actors /\ Place("kv")
  BY DEF Places, Actors
<1>2. Here("kv", kind) = <<kind, Before("kv") % Stages>> /\ Before("kv") \in Nat
  BY <1>1, HereIs, Whereabouts
<1>3. Here("kv", kind) \in Buffers
  <2>1. WorkTypes /\ kind \in Streams
    BY DEF Types
  <2>2. Before("kv") % Stages \in Slots
    BY <1>2, SlotOf
  <2> HIDE <1>2
  <2>3. <<kind, Before("kv") % Stages>> \in Buffers
    BY <2>1, <2>2, Barriers
  <2> QED BY <1>2, <2>3
<1>4. kind # "q"
  <2>1. WorkTypes
    BY DEF Types
  <2> QED BY <2>1, StreamFacts DEF Kinds
<1>5. tile["kv"] \in Nat /\ ki["kv"] \in Nat
  <2>1. /\ tile["kv"] \in 1..Tiles + 1 /\ ki["kv"] \in Nat
    BY <1>1 DEF Types, PositionTypes
  <2>2. Tiles \in Nat
    BY Work
  <2> QED BY <2>1, <2>2
<1> QED BY <1>3, <1>4, <1>5, NotQ

\* The steps of the K/V warp.
LEMMA KvKeeps ==
  ASSUME SplitInRange, Types, Places, Turns, QSlot, UNCHANGED <<work, landed, waits, smem>>,
         PositionTypes', Idle, NEW kind \in {"k", "mask", "v"},
         arrivals' = arrivals \/ Arrive("kv", Here("kv", kind)),
         \/ copying' = copying
         \/ pc["kv"] \in InBlock /\ (\E K \in SUBSET Streams : Copy(Block(K)))
  PROVE  Types' /\ Turns' /\ QSlot'
<1>1. /\ "wg0" \in WGs /\ "kv" \in Actors
      /\ TurnStep("wg0", 0, 0, 0) /\ QStep("wg0", 0, 0, 0, 0)
      /\ pc'["wg0"] = "prologue" <=> pc["wg0"] = "prologue"
  BY DEF WGs, Actors, Idle, SamePrologues
<1> DEFINE B == {Here("kv", kind)}
<1>2. /\ arrivals' = arrivals \/ ArriveAll("kv", B)
      /\ Q \notin B /\ \A v \in WGs : Turn(v) \notin B
  BY <1>1, NotQ DEF Arrive
<1>3. copying \subseteq copying' /\ waits' = waits
  BY DEF Copy
<1>4. copying' \ copying \subseteq (Buffers \ {Q}) \X (Nat \X Nat)
  BY BlockTyped DEF Copy
<1> HIDE DEF B
<1>5. PICK C : C = B
  OBVIOUS
<1>6. /\ arrivals' = arrivals \/ ArriveAll("kv", C)
      /\ Q \notin C /\ \A v \in WGs : Turn(v) \notin C
  BY <1>2, <1>5
<1> QED BY <1>1, <1>3, <1>4, <1>6, Keeps

LEMMA KvWarpKeeps ==
  ASSUME SplitInRange, Types, Places, Turns, QSlot, KvWarp
  PROVE  Types' /\ Places' /\ Turns' /\ QSlot'
<1>1. CASE SyncK
  <2>1. PositionTypes' /\ Places' /\ Idle
    BY <1>1, SyncKMoves
  <2>2. UNCHANGED <<work, landed, waits, smem, copying>> /\ Arrive("kv", Here("kv", "k"))
    BY <1>1 DEF SyncK
  <2> QED BY <2>1, <2>2, KvKeeps
<1>2. CASE LoadK
  <2>1. PositionTypes' /\ Places' /\ Idle
    BY <1>2, LoadKMoves
  <2>2. /\ UNCHANGED <<work, arrivals, landed, waits, smem>>
        /\ Copy(Block({"k", "bias"} \cap Streams)) /\ pc["kv"] \in InBlock
    BY <1>2 DEF LoadK, Step, InBlock
  <2>3. {"k", "bias"} \cap Streams \in SUBSET Streams
    OBVIOUS
  <2> QED BY <2>1, <2>2, <2>3, KvKeeps
<1>3. CASE SyncMask
  <2>1. PositionTypes' /\ Places' /\ Idle
    BY <1>3, SyncMaskMoves
  <2>2. UNCHANGED <<work, landed, waits, smem, copying>> /\ Arrive("kv", Here("kv", "mask"))
    BY <1>3 DEF SyncMask
  <2> QED BY <2>1, <2>2, KvKeeps
<1>4. CASE LoadMask
  <2>1. PositionTypes' /\ Places' /\ Idle
    BY <1>4, LoadMaskMoves
  <2>2. /\ UNCHANGED <<work, arrivals, landed, waits, smem>>
        /\ Copy(Block({"mask"})) /\ pc["kv"] \in InBlock /\ pc["kv"] = "load_mask"
    BY <1>4 DEF LoadMask, Step, InBlock
  <2>3. {"mask"} \in SUBSET Streams
    <3>1. Mask # "none"
      BY <2>2 DEF Places, Place
    <3> QED BY <3>1 DEF Streams
  <2> QED BY <2>1, <2>2, <2>3, KvKeeps
<1>5. CASE SyncV
  <2>1. PositionTypes' /\ Places' /\ Idle
    BY <1>5, SyncVMoves
  <2>2. UNCHANGED <<work, landed, waits, smem, copying>> /\ Arrive("kv", Here("kv", "v"))
    BY <1>5 DEF SyncV
  <2> QED BY <2>1, <2>2, KvKeeps
<1>6. CASE LoadV
  <2>1. PositionTypes' /\ Places' /\ Idle
    BY <1>6, LoadVMoves
  <2>2. /\ UNCHANGED <<work, arrivals, landed, waits, smem>>
        /\ Copy(Block({"v"})) /\ pc["kv"] \in InBlock
    BY <1>6 DEF LoadV, InBlock
  <2>3. {"v"} \in SUBSET Streams
    BY DEF Streams
  <2> QED BY <2>1, <2>2, <2>3, KvKeeps
<1>7. CASE KvTileDone
  <2>1. PositionTypes' /\ Places' /\ Idle
    BY <1>7, KvTileDoneMoves
  <2>2. UNCHANGED <<work, arrivals, landed, waits, smem, copying>>
    BY <1>7 DEF KvTileDone
  <2> QED BY <2>1, <2>2, KvKeeps
<1> QED BY <1>1, <1>2, <1>3, <1>4, <1>5, <1>6, <1>7 DEF KvWarp

\* The steps of a warpgroup that neither take nor give a turn.
LEMMA WgKeeps ==
  ASSUME SplitInRange, Types, Places, Turns, QSlot,
         UNCHANGED <<work, landed, smem, copying>>,
         PositionTypes', SamePrologues, NEW w \in WGs,
         TurnStep(w, 0, 0, 0), QStep(w, 0, 0, 0, 0),
         NEW kind \in {"k", "mask", "v"}, arrivals' = arrivals \/ Arrive(w, Here(w, kind)),
         NEW other \in {"k", "mask", "v"}, NEW s,
         waits' = waits \/ Waited(w, {<<other, s>>})
  PROVE  Types' /\ Turns' /\ QSlot'
<1>1. "wg0" \in WGs /\ w \in Actors
  BY DEF WGs, Actors
<1>2. pc'["wg0"] = "prologue" <=> pc["wg0"] = "prologue"
  BY <1>1 DEF SamePrologues
<1>3. PICK B, M : B = {Here(w, kind)} /\ M = {<<other, s>>}
  OBVIOUS
<1>4. /\ arrivals' = arrivals \/ ArriveAll(w, B)
      /\ waits' = waits \/ Waited(w, M)
      /\ Q \notin B /\ \A v \in WGs : Turn(v) \notin B
  BY <1>1, <1>3, NotQ DEF Arrive
<1>5. Q \notin M
  BY <1>3 DEF Q
<1> QED BY <1>1, <1>2, <1>4, <1>5, Keeps

\* The steps of a warpgroup at the schedule barriers.
LEMMA TurnKeeps ==
  ASSUME SplitInRange, Types, Places, Turns, QSlot,
         UNCHANGED <<work, landed, smem, copying>>,
         PositionTypes', SamePrologues, NEW w \in WGs,
         NEW gave \in {0, 1}, NEW asked \in {0, 1}, NEW took \in {0, 1},
         TurnStep(w, gave, asked, took), QStep(w, 0, 0, 0, 0),
         gave = 0 /\ asked = 0 => arrivals' = arrivals,
         gave = 1 => asked = 0 /\ Arrive(w, Turn(Other(w))),
         asked = 1 => gave = 0 /\ Arrive(w, Turn(w)),
         NEW other \in {"k", "mask", "v"}, NEW s,
         waits' = waits \/ Waited(w, {<<other, s>>}),
         gave = 1 => Gave(w) =< Asked(Other(w)),
         took = 1 => asked = 0 /\ Took(w) + 1 =< Gave(Other(w))
  PROVE  Types' /\ Turns' /\ QSlot'
<1>1. /\ "wg0" \in WGs /\ w \in Actors /\ Other(w) \in WGs /\ Other(w) # w
      /\ \A v \in WGs : v = w \/ v = Other(w)
  BY DEF WGs, Actors, Other
<1>2. pc'["wg0"] = "prologue" <=> pc["wg0"] = "prologue"
  BY <1>1 DEF SamePrologues
<1> DEFINE B == IF gave = 1 THEN {Turn(Other(w))}
                ELSE IF asked = 1 THEN {Turn(w)} ELSE {}
           M == {<<other, s>>}
<1>3. Arrives(w, B)
  <2>1. CASE gave = 0 /\ asked = 0
    BY <1>1, <2>1, Unmoved
  <2>2. CASE gave = 1
    BY <1>1, <2>2, ArrivalsMove DEF Arrive
  <2>3. CASE asked = 1
    BY <1>1, <2>3, ArrivalsMove DEF Arrive
  <2> QED BY <2>1, <2>2, <2>3
<1>4. Q \notin B /\ Q \notin M
  <2>1. Q # <<other, s>>
    BY DEF Q
  <2> QED BY <1>1, <2>1, NotQ
<1>5. \A v \in WGs : Turn(v) \in B <=> IF v = w THEN asked = 1 ELSE gave = 1
  BY <1>1, NotQ
<1>6. PICK N \in {M, {}} : Waits(w, N)
  BY WaitsMove, Unmoved
<1>7. Q \notin N
  BY <1>4
<1> HIDE DEF B, M
<1>8. QSlot'
  BY <1>1, <1>2, <1>3, <1>4, <1>6, <1>7, QKeep
<1>9. Types'
  <2>1. copying' \subseteq Buffers \X (Nat \X Nat)
    BY DEF Types, MemoryTypes
  <2>2. arrivals' = arrivals \/ \E a \in Actors : \E C : ArriveAll(a, C)
    BY <1>1 DEF Arrive
  <2> QED BY <2>1, <2>2, TypesStep
<1>10. \A v \in WGs, x \in Actors : arrivals'[Turn(v)][x] =
         arrivals[Turn(v)][x]
           + (IF x = w THEN (IF v = w THEN asked ELSE gave) ELSE 0)
  <2> SUFFICES ASSUME NEW v \in WGs, NEW x \in Actors
               PROVE  arrivals'[Turn(v)][x] = arrivals[Turn(v)][x]
                        + (IF x = w THEN (IF v = w THEN asked ELSE gave) ELSE 0)
    OBVIOUS
  <2>1. Turn(v) \in Named
    BY Barriers DEF Types
  <2>2. One(x = w /\ Turn(v) \in B) =
          IF x = w THEN (IF v = w THEN asked ELSE gave) ELSE 0
    BY <1>1, <1>5 DEF One
  <2> QED BY <1>3, <2>1, <2>2 DEF Arrives
<1>11. FreedQ' = FreedQ + 0 /\ FreedQ \in Nat
  BY CountTypes DEF QStep
<1>12. FreedQ' > 0 => Prior[FreedQ' + 1] \in Nat
  <2>1. FreedQ =< Tiles
    BY QGot
  <2> QED BY <1>1, <1>11, <2>1, TileFacts
<1> QED BY <1>8, <1>9, <1>10, <1>11, <1>12, TurnsStep

LEMMA BlockKeeps ==
  ASSUME SplitInRange, Types, Places, Turns, QSlot, NEW w \in WGs,
         \/ IssueQK(w) \/ FinishQK(w) \/ ReadMask(w) \/ FreeMask(w) \/ FinishPV(w)
         \/ Output(w)
  PROVE  Types' /\ Places' /\ Turns' /\ QSlot'
<1>1. CASE IssueQK(w)
  <2>1. /\ PositionTypes' /\ Places' /\ SamePrologues
        /\ TurnStep(w, 0, 0, 0) /\ QStep(w, 0, 0, 0, 0)
    BY <1>1, IssueQKMoves
  <2>2. UNCHANGED <<work, arrivals, landed, waits, smem, copying>>
    BY <1>1 DEF IssueQK
  <2> QED BY <2>1, <2>2, WgKeeps
<1>2. CASE FinishQK(w)
  <2>1. /\ PositionTypes' /\ Places' /\ SamePrologues
        /\ TurnStep(w, 0, 0, 0) /\ QStep(w, 0, 0, 0, 0)
    BY <1>2, FinishQKMoves
  <2>2. UNCHANGED <<work, landed, waits, smem, copying>> /\ Arrive(w, Here(w, "k"))
    BY <1>2 DEF FinishQK
  <2> QED BY <2>1, <2>2, WgKeeps
<1>3. CASE ReadMask(w)
  <2>1. /\ PositionTypes' /\ Places' /\ SamePrologues
        /\ TurnStep(w, 0, 0, 0) /\ QStep(w, 0, 0, 0, 0)
    BY <1>3, ReadMaskMoves
  <2>2. UNCHANGED <<work, arrivals, landed, smem, copying>>
    BY <1>3 DEF ReadMask
  <2>3. waits' = waits \/ Waited(w, {<<"mask", Slot(w, ki[w])>>})
    BY <1>3 DEF ReadMask, Here
  <2> QED BY <2>1, <2>2, <2>3, WgKeeps
<1>4. CASE FreeMask(w)
  <2>1. /\ PositionTypes' /\ Places' /\ SamePrologues
        /\ TurnStep(w, 0, 0, 0) /\ QStep(w, 0, 0, 0, 0)
    BY <1>4, FreeMaskMoves
  <2>2. UNCHANGED <<work, landed, waits, smem, copying>> /\ Arrive(w, Here(w, "mask"))
    BY <1>4 DEF FreeMask
  <2> QED BY <2>1, <2>2, WgKeeps
<1>5. CASE FinishPV(w)
  <2>1. /\ PositionTypes' /\ Places' /\ SamePrologues
        /\ TurnStep(w, 0, 0, 0) /\ QStep(w, 0, 0, 0, 0)
    BY <1>5, FinishPVMoves
  <2>2. UNCHANGED <<work, landed, smem, copying>> /\ Arrive(w, Here(w, "v"))
    BY <1>5 DEF FinishPV
  <2>3. waits' = waits \/ Waited(w, {<<"k", Slot(w, ki[w] + 1)>>})
    BY <1>5 DEF FinishPV
  <2> QED BY <2>1, <2>2, <2>3, WgKeeps
<1>6. CASE Output(w)
  <2>1. /\ PositionTypes' /\ Places' /\ SamePrologues
        /\ TurnStep(w, 0, 0, 0) /\ QStep(w, 0, 0, 0, 0)
    BY <1>6, OutputMoves
  <2>2. UNCHANGED <<work, arrivals, landed, waits, smem, copying>>
    BY <1>6 DEF Output
  <2> QED BY <2>1, <2>2, WgKeeps
<1> QED BY <1>1, <1>2, <1>3, <1>4, <1>5, <1>6

LEMMA PassTurnKeeps ==
  ASSUME SplitInRange, Types, Places, Turns, QSlot, NEW w \in WGs, PassTurn(w)
  PROVE  Types' /\ Places' /\ Turns' /\ QSlot'
<1>1. /\ PositionTypes' /\ Places' /\ SamePrologues
      /\ TurnStep(w, 1, 0, 0) /\ QStep(w, 0, 0, 0, 0)
  BY PassTurnMoves
<1>2. /\ UNCHANGED <<work, landed, waits, smem, copying>> /\ pc[w] = "qk_issued"
      /\ Arrive(w, Turn(Other(w)))
  BY DEF PassTurn, Step
<1>3. Gave(w) =< Asked(Other(w))
  BY <1>2, Wg0Gives, Wg1Gives DEF WGs, Other
<1> QED BY <1>1, <1>2, <1>3, TurnKeeps

LEMMA FinishKeeps ==
  ASSUME SplitInRange, Types, Places, Turns, QSlot, NEW w \in WGs, Finish(w)
  PROVE  Types' /\ Places' /\ Turns' /\ QSlot'
<1> DEFINE gave == IF w = "wg0" THEN 1 ELSE 0
<1>1. /\ PositionTypes' /\ Places' /\ SamePrologues
      /\ TurnStep(w, gave, 0, 0) /\ QStep(w, 0, 0, 0, 0)
  BY FinishMoves
<1>2. /\ UNCHANGED <<work, landed, waits, smem, copying>> /\ pc[w] = "loop"
      /\ IF w = "wg0" THEN Arrive(w, Turn("wg1")) ELSE arrivals' = arrivals
  BY DEF Finish, Looped
<1>3. gave = 1 => w = "wg0" /\ Other(w) = "wg1" /\ Gave(w) =< Asked(Other(w))
  BY <1>2, Wg0Gives DEF Other
<1>4. gave \in {0, 1} /\ (gave = 0 => arrivals' = arrivals)
      /\ (gave = 1 => Arrive(w, Turn(Other(w))))
  BY <1>2, <1>3
<1> HIDE DEF gave
<1> QED BY <1>1, <1>2, <1>3, <1>4, TurnKeeps

LEMMA AwaitVKeeps ==
  ASSUME SplitInRange, Types, Places, Turns, QSlot, NEW w \in WGs, AwaitV(w)
  PROVE  Types' /\ Places' /\ Turns' /\ QSlot'
<1>1. /\ PositionTypes' /\ Places' /\ SamePrologues
      /\ TurnStep(w, 0, 1, 0) /\ QStep(w, 0, 0, 0, 0)
  BY AwaitVMoves
<1>2. PICK s : s = Slot(w, ki[w])
  OBVIOUS
<1>3. /\ UNCHANGED <<work, landed, smem, copying>> /\ Arrive(w, Turn(w))
      /\ Waited(w, {<<"v", s>>})
  BY <1>2 DEF AwaitV, Here
<1>4. waits' = waits \/ Waited(w, {<<"v", s>>})
  BY <1>3
<1> QED BY <1>1, <1>3, <1>4, TurnKeeps

LEMMA TakesTurn ==
  ASSUME SplitInRange, Types, Places, Turns, NEW w \in WGs,
         pc[w] \in {"turn", "first_turn"}, Passed(Turn(w), w)
  PROVE  Took(w) + 1 =< Gave(Other(w))
<1>1. /\ Completed(Turn(w)) >= Asked(w) /\ Completed(Turn(w)) \in Nat
      /\ Gave(Other(w)) - Completed(Turn(w)) \in {0, 1}
  BY TurnPassed DEF Passed
<1>2. Asked(w) \in Nat /\ Gave(Other(w)) \in Nat
  BY CountTypes DEF WGs, Other
<1>3. Took(w) = Asked(w) - 1
  BY DEF Took, In
<1> QED BY <1>1, <1>2, <1>3

LEMMA IssuePVKeeps ==
  ASSUME SplitInRange, Types, Places, Turns, QSlot, NEW w \in WGs, IssuePV(w)
  PROVE  Types' /\ Places' /\ Turns' /\ QSlot'
<1>1. /\ PositionTypes' /\ Places' /\ SamePrologues
      /\ TurnStep(w, 0, 0, 1) /\ QStep(w, 0, 0, 0, 0)
  BY IssuePVMoves
<1>2. UNCHANGED <<work, arrivals, landed, waits, smem, copying>>
  BY DEF IssuePV
<1>3. Took(w) + 1 =< Gave(Other(w))
  BY TakesTurn DEF IssuePV, Step
<1> QED BY <1>1, <1>2, <1>3, TurnKeeps

LEMMA FirstTurnKeeps ==
  ASSUME SplitInRange, Types, Places, Turns, QSlot, NEW w \in WGs, FirstTurn(w)
  PROVE  Types' /\ Places' /\ Turns' /\ QSlot'
<1>1. /\ PositionTypes' /\ Places' /\ SamePrologues
      /\ TurnStep(w, 0, 0, 1) /\ QStep(w, 0, 0, 0, 0)
  BY FirstTurnMoves
<1>2. UNCHANGED <<work, arrivals, landed, waits, smem, copying>>
  BY DEF FirstTurn
<1>3. Took(w) + 1 =< Gave(Other(w))
  BY TakesTurn DEF FirstTurn, Step
<1> QED BY <1>1, <1>2, <1>3, TurnKeeps

-----------------------------------------------------------------------------
\* The Q buffer.

\* The phases of q_consumed.
LEMMA QPhases ==
  ASSUME SplitInRange, Types, Places, QSlot
  PROVE  /\ Completed(Q) \in Nat
         /\ FreedQ - Completed(Q) \in {0, 1} /\ SyncedQ - Completed(Q) \in {0, 1}
         /\ arrivals[Q]["wg0"] = FreedQ /\ arrivals[Q]["q"] = SyncedQ
         /\ arrivals[Q]["wg1"] = 0 /\ arrivals[Q]["kv"] = 0
<1>1. /\ FreedQ \in Nat /\ LoadedQ \in Nat /\ SyncedQ \in Nat
      /\ {"wg0", "wg1", "kv", "q"} \subseteq Actors
  BY CountTypes DEF Actors, WGs
<1>2. \A a \in Actors : arrivals[Q][a] =
        CASE a = "wg0" -> FreedQ [] a = "q" -> SyncedQ [] OTHER -> 0
  BY DEF QSlot
<1>3. /\ arrivals[Q]["wg0"] = FreedQ /\ arrivals[Q]["q"] = SyncedQ
      /\ arrivals[Q]["wg1"] = 0 /\ arrivals[Q]["kv"] = 0
  BY <1>1, <1>2
<1>4. NumThreads(Q) = 160
  BY DEF NumThreads, Q
<1>5. Completed(Q) = (128 * (FreedQ + 0) + 32 * (0 + SyncedQ)) \div 160
  BY <1>3, <1>4 DEF Completed
<1>6. SyncedQ \in {LoadedQ, LoadedQ + 1}
  BY <1>1 DEF SyncedQ, In
<1>7. FreedQ =< SyncedQ + 1 /\ SyncedQ =< FreedQ + 1
  BY <1>1, <1>6 DEF QSlot
<1>8. PICK i \in Nat, j \in Nat : i = FreedQ /\ j = SyncedQ
  BY <1>1
<1>9. LET c == (128 * (i + 0) + 32 * (0 + j)) \div 160 IN
        i - c \in {0, 1} /\ j - c \in {0, 1} /\ c \in Nat
  BY <1>7, <1>8, TwoParties
<1> QED BY <1>3, <1>5, <1>8, <1>9

\* A warpgroup waits for one Q after another; one it finds ready is loaded.
LEMMA QWaits ==
  ASSUME SplitInRange, Types, Places, Turns, QSlot, NEW w \in WGs
  PROVE  /\ waits[w][Q] = GotQ(w) /\ GotQ(w) \in Nat
         /\ Phases(Q) \in {GotQ(w), GotQ(w) + 1}
         /\ Phases(Q) = GotQ(w) + 1 => IssuedQ = GotQ(w) + 1 /\ Flying(Q) = 0
<1>1. /\ GotQ(w) \in Nat /\ IssuedQ \in Nat /\ IssuedQ =< GotQ(w) + 1
      /\ GotQ(w) =< IssuedQ /\ waits[w][Q] = GotQ(w)
      /\ landed[Q] = IssuedQ - Flying(Q)
  BY CountTypes, QGot DEF QSlot
<1>2. NumArrivals(Q) = 1
  <2>1. 0 \in Slots
    BY KernelAssumption DEF Slots
  <2> QED BY <2>1, Arrivals DEF Types
<1>3. Flying(Q) \in {0, 1} /\ (Flying(Q) = 1 => GotQ(w) < IssuedQ)
  BY DEF Flying, QSlot
<1>4. Phases(Q) = IssuedQ - Flying(Q)
  BY <1>1, <1>2, <1>3 DEF Phases
<1> QED BY <1>1, <1>3, <1>4

LEMMA FreeQKeeps ==
  ASSUME SplitInRange, Types, Places, Turns, QSlot, NEW w \in WGs, FreeQ(w)
  PROVE  Types' /\ Places' /\ Turns' /\ QSlot'
<1>1. /\ PositionTypes' /\ Places' /\ SamePrologues
      /\ TurnStep(w, 0, 0, 0) /\ QStep(w, 0, 1, 0, 0) /\ w = "wg0" /\ Persistent
  BY FreeQMoves
<1>2. /\ UNCHANGED <<work, landed, waits, smem, copying>> /\ pc[w] = "free_q"
      /\ Passed(Turn("wg1"), w) /\ ArriveAll(w, {Q})
  BY DEF FreeQ, Step, Arrive
<1>3. /\ "wg0" \in WGs /\ "wg1" \in WGs /\ WGs = {"wg0", "wg1"} /\ w \in Actors
      /\ Other("wg1") = "wg0"
  BY DEF WGs, Actors, Other
<1>4. /\ FreedQ \in Nat /\ LoadedQ \in Nat /\ IssuedQ \in Nat /\ SyncedQ \in Nat
      /\ \A v \in WGs : GotQ(v) \in Nat /\ Gave(v) \in Nat /\ Asked(v) \in Nat
  BY CountTypes
<1>5. /\ tile["wg0"] \in Nat /\ tile["wg0"] >= 1 /\ tile["wg0"] =< Tiles
      /\ Tiles \in Nat /\ Before("wg0") = Prior[tile["wg0"] + 1]
      /\ Prior[tile["wg0"] + 1] \in Nat
  BY <1>1, <1>2, <1>3, TileFacts
<1>6. FreedQ = tile["wg0"] - 1 /\ GotQ("wg0") = tile["wg0"]
      /\ Gave("wg0") = Prior[tile["wg0"] + 1] + tile["wg0"]
  BY <1>1, <1>2, <1>5 DEF FreedQ, GotQ, Gave, In, PastQK
<1>7. /\ FreedQ' = FreedQ + 1 /\ LoadedQ' = LoadedQ /\ SyncedQ' = SyncedQ
      /\ \A v \in WGs : GotQ(v)' = GotQ(v)
  BY <1>1, <1>4 DEF QStep
<1>8. IssuedQ' = IssuedQ
  BY <1>3, <1>7, <1>1 DEF IssuedQ, SamePrologues
<1>9. Arrives(w, {Q}) /\ Waits(w, {})
  BY <1>2, <1>3, ArrivalsMove, Unmoved
<1>10. Turns'
  <2>1. Asked("wg1") >= FreedQ + 1 + Prior[FreedQ + 1 + 1]
    <3>1. /\ Completed(Turn("wg1")) >= Gave("wg0") /\ Completed(Turn("wg1")) \in Nat
          /\ Asked("wg1") - Completed(Turn("wg1")) \in {0, 1}
      BY <1>1, <1>2, <1>3, TurnPassed DEF Passed
    <3>2. Asked("wg1") >= Gave("wg0")
      BY <1>3, <1>4, <3>1
    <3> QED BY <1>3, <1>4, <1>5, <1>6, <3>2
  <2>2. \A v \in WGs, x \in Actors : arrivals'[Turn(v)][x] =
          arrivals[Turn(v)][x] + (IF x = w THEN (IF v = w THEN 0 ELSE 0) ELSE 0)
    <3>1. \A v \in WGs : Turn(v) \in Named /\ Turn(v) # Q
      BY NotQ, Barriers DEF Types
    <3>2. \A v \in WGs, x \in Actors : arrivals[Turn(v)][x] \in Nat
      BY <3>1 DEF Types, MemoryTypes
    <3> QED BY <1>9, <3>1, <3>2 DEF Arrives, One
  <2>3. Prior[FreedQ' + 1] \in Nat
    BY <1>5, <1>6, <1>7
  <2> QED BY <1>1, <1>2, <1>7, <2>1, <2>2, <2>3, TurnsStep
<1>11. QSlot'
  <2>1. /\ \A v \in WGs : GotQ(v) =< IssuedQ /\ waits[v][Q] = GotQ(v)
        /\ LoadedQ =< FreedQ /\ SyncedQ =< FreedQ + 1
        /\ \A a \in Actors : arrivals[Q][a] =
             CASE a = "wg0" -> FreedQ [] a = "q" -> SyncedQ [] OTHER -> 0
    BY DEF QSlot
  <2>2. IssuedQ \in {LoadedQ, LoadedQ + 1}
    BY QGot
  <2>3. LoadedQ' =< FreedQ' /\ FreedQ' =< LoadedQ' + 1 /\ SyncedQ' =< FreedQ' + 1
    BY <1>3, <1>4, <1>5, <1>6, <1>7, <2>1, <2>2
  <2>4. \A a \in Actors : arrivals'[Q][a] = arrivals[Q][a] + One(a = w)
    BY <1>9, Barriers DEF Arrives, Types, One
  <2>5. \A a \in Actors : arrivals'[Q][a] =
          CASE a = "wg0" -> FreedQ' [] a = "q" -> SyncedQ' [] OTHER -> 0
    BY <1>1, <1>4, <1>7, <2>1, <2>4 DEF One
  <2>6. \A v \in WGs : GotQ(v)' =< IssuedQ' /\ waits'[v][Q] = GotQ(v)'
    BY <1>2, <1>7, <1>8, <2>1
  <2>7. /\ landed'[Q] = IssuedQ' - Flying(Q)'
        /\ \A c \in copying' : c[1] = Q =>
             c[2] = <<IssuedQ', 0>> /\ \A v \in WGs : GotQ(v)' < IssuedQ'
        /\ IssuedQ' > 0 =>
             <<Q, <<IssuedQ', 0>>>> \in copying' \/ smem'[Q] = <<IssuedQ', 0>>
    BY <1>2, <1>7, <1>8 DEF QSlot, Flying
  <2> QED BY <2>3, <2>5, <2>6, <2>7 DEF QSlot
<1>12. Types'
  <2>1. copying' \subseteq Buffers \X (Nat \X Nat)
    BY <1>2 DEF Types, MemoryTypes
  <2>2. arrivals' = arrivals \/ \E a \in Actors : \E C : ArriveAll(a, C)
    BY <1>2, <1>3
  <2> QED BY <1>1, <1>2, <2>1, <2>2, TypesStep
<1> QED BY <1>1, <1>10, <1>11, <1>12

\* The steps of the Q warp.
LEMMA SkipQKeeps ==
  ASSUME SplitInRange, Types, Places, Turns, QSlot, SkipQ
  PROVE  Types' /\ Places' /\ Turns' /\ QSlot'
<1>1. /\ PositionTypes' /\ Places' /\ SamePrologues
      /\ TurnStep("wg0", 0, 0, 0) /\ QStep("wg0", 0, 0, 0, 0)
  BY SkipQMoves
<1>2. UNCHANGED <<work, arrivals, landed, waits, smem, copying>>
  BY DEF SkipQ
<1>3. "wg0" \in WGs
  BY DEF WGs
<1> QED BY <1>1, <1>2, <1>3, WgKeeps

LEMMA SyncQKeeps ==
  ASSUME SplitInRange, Types, Places, Turns, QSlot, SyncQ
  PROVE  Types' /\ Places' /\ Turns' /\ QSlot'
<1>1. /\ PositionTypes' /\ Places' /\ SamePrologues
      /\ TurnStep("wg0", 0, 0, 0) /\ QStep("wg0", 0, 0, 0, 1) /\ SyncedQ = LoadedQ
  BY SyncQMoves
<1>2. UNCHANGED <<work, landed, waits, smem, copying>> /\ ArriveAll("q", {Q})
  BY DEF SyncQ, Arrive
<1>3. "wg0" \in WGs /\ "q" \in Actors
  BY DEF WGs, Actors
<1>4. /\ FreedQ \in Nat /\ LoadedQ \in Nat /\ IssuedQ \in Nat /\ SyncedQ \in Nat
      /\ \A v \in WGs : GotQ(v) \in Nat
  BY CountTypes
<1>5. /\ FreedQ' = FreedQ /\ LoadedQ' = LoadedQ /\ SyncedQ' = SyncedQ + 1
      /\ \A v \in WGs : GotQ(v)' = GotQ(v)
  BY <1>1, <1>4 DEF QStep
<1>6. IssuedQ' = IssuedQ
  BY <1>1, <1>3, <1>5 DEF IssuedQ, SamePrologues
<1>7. Arrives("q", {Q})
  BY <1>2, <1>3, ArrivalsMove
<1>8. Turns'
  <2>1. \A v \in WGs : Turn(v) \notin {Q}
    BY NotQ
  <2> QED BY <1>1, <1>2, <1>3, <1>5, <1>7, <2>1, TurnsKeep
<1>9. QSlot'
  <2>1. /\ \A v \in WGs : GotQ(v) =< IssuedQ /\ waits[v][Q] = GotQ(v)
        /\ LoadedQ =< FreedQ /\ FreedQ =< LoadedQ + 1
        /\ \A a \in Actors : arrivals[Q][a] =
             CASE a = "wg0" -> FreedQ [] a = "q" -> SyncedQ [] OTHER -> 0
    BY DEF QSlot
  <2>2. LoadedQ' =< FreedQ' /\ FreedQ' =< LoadedQ' + 1 /\ SyncedQ' =< FreedQ' + 1
    BY <1>1, <1>4, <1>5, <2>1
  <2>3. \A a \in Actors : arrivals'[Q][a] = arrivals[Q][a] + One(a = "q")
    BY <1>7, Barriers DEF Arrives, Types, One
  <2>4. \A a \in Actors : arrivals'[Q][a] =
          CASE a = "wg0" -> FreedQ' [] a = "q" -> SyncedQ' [] OTHER -> 0
    BY <1>4, <1>5, <2>1, <2>3 DEF One
  <2>5. \A v \in WGs : GotQ(v)' =< IssuedQ' /\ waits'[v][Q] = GotQ(v)'
    BY <1>2, <1>5, <1>6, <2>1
  <2>6. /\ landed'[Q] = IssuedQ' - Flying(Q)'
        /\ \A c \in copying' : c[1] = Q =>
             c[2] = <<IssuedQ', 0>> /\ \A v \in WGs : GotQ(v)' < IssuedQ'
        /\ IssuedQ' > 0 =>
             <<Q, <<IssuedQ', 0>>>> \in copying' \/ smem'[Q] = <<IssuedQ', 0>>
    BY <1>2, <1>5, <1>6 DEF QSlot, Flying
  <2> QED BY <2>2, <2>4, <2>5, <2>6 DEF QSlot
<1>10. Types'
  <2>1. copying' \subseteq Buffers \X (Nat \X Nat)
    BY <1>2 DEF Types, MemoryTypes
  <2>2. arrivals' = arrivals \/ \E a \in Actors : \E C : ArriveAll(a, C)
    BY <1>2, <1>3
  <2> QED BY <1>1, <1>2, <2>1, <2>2, TypesStep
<1> QED BY <1>1, <1>8, <1>9, <1>10

\* A Q that is copied when the one before it is free.
LEMMA QCopied ==
  ASSUME SplitInRange, Types, Places, Turns, QSlot,
         UNCHANGED <<work, arrivals, landed, waits, smem>>,
         IssuedQ' = IssuedQ + 1, FreedQ' = FreedQ,
         \A w \in WGs : GotQ(w)' = GotQ(w), SyncedQ' = SyncedQ,
         LoadedQ' =< FreedQ, FreedQ =< LoadedQ' + 1,
         Flying(Q) = 0, copying' = copying \cup {<<Q, <<IssuedQ + 1, 0>>>>}
  PROVE  QSlot'
<1>1. /\ FreedQ \in Nat /\ LoadedQ \in Nat /\ IssuedQ \in Nat /\ SyncedQ \in Nat
      /\ \A v \in WGs : GotQ(v) \in Nat
  BY CountTypes
<1>2. /\ \A v \in WGs : GotQ(v) =< IssuedQ /\ waits[v][Q] = GotQ(v)
      /\ SyncedQ =< FreedQ + 1
      /\ \A a \in Actors : arrivals[Q][a] =
           CASE a = "wg0" -> FreedQ [] a = "q" -> SyncedQ [] OTHER -> 0
      /\ landed[Q] = IssuedQ
  BY <1>1 DEF QSlot
<1>3. \A c \in copying : c[1] # Q
  BY DEF Flying
<1>4. Flying(Q)' = 1
  <2>1. \E c \in copying' : c[1] = Q
    <3> DEFINE c == <<Q, <<IssuedQ + 1, 0>>>>
    <3>1. c \in copying' /\ c[1] = Q
      OBVIOUS
    <3> QED BY <3>1
  <2> QED BY <2>1 DEF Flying
<1>5. \A c \in copying' : c[1] = Q =>
         c[2] = <<IssuedQ', 0>> /\ \A v \in WGs : GotQ(v)' < IssuedQ'
  BY <1>1, <1>2, <1>3
<1>6. /\ LoadedQ' =< FreedQ' /\ FreedQ' =< LoadedQ' + 1
      /\ SyncedQ' =< FreedQ' + 1
      /\ \A v \in WGs : GotQ(v)' =< IssuedQ' /\ waits'[v][Q] = GotQ(v)'
      /\ \A a \in Actors : arrivals'[Q][a] =
           CASE a = "wg0" -> FreedQ' [] a = "q" -> SyncedQ' [] OTHER -> 0
      /\ landed'[Q] = IssuedQ' - Flying(Q)'
      /\ IssuedQ' > 0 =>
           <<Q, <<IssuedQ', 0>>>> \in copying' \/ smem'[Q] = <<IssuedQ', 0>>
  BY <1>1, <1>2, <1>4
<1> QED BY <1>5, <1>6 DEF QSlot

LEMMA LoadQKeeps ==
  ASSUME SplitInRange, Types, Places, Turns, QSlot, LoadQ
  PROVE  Types' /\ Places' /\ Turns' /\ QSlot'
<1>1. /\ PositionTypes' /\ Places' /\ SamePrologues
      /\ TurnStep("wg0", 0, 0, 0) /\ QStep("wg0", 0, 0, 1, 0)
      /\ tile["q"] = LoadedQ + 2 /\ SyncedQ = LoadedQ + 1 /\ Persistent
  BY LoadQMoves
<1>2. /\ UNCHANGED <<work, arrivals, landed, waits, smem>> /\ Passed(Q, "q")
      /\ copying' = copying \cup {<<Q, <<tile["q"], 0>>>>}
  BY DEF LoadQ, Copy
<1>3. "wg0" \in WGs /\ "q" \in Actors
  BY DEF WGs, Actors
<1>4. /\ FreedQ \in Nat /\ LoadedQ \in Nat /\ IssuedQ \in Nat /\ SyncedQ \in Nat
      /\ \A v \in WGs : GotQ(v) \in Nat
  BY CountTypes
<1>5. /\ FreedQ' = FreedQ /\ LoadedQ' = LoadedQ + 1 /\ SyncedQ' = SyncedQ
      /\ \A v \in WGs : GotQ(v)' = GotQ(v)
  BY <1>1, <1>4 DEF QStep
<1>6. FreedQ = LoadedQ + 1
  <2>1. /\ Completed(Q) \in Nat /\ FreedQ - Completed(Q) \in {0, 1}
        /\ Completed(Q) >= SyncedQ
    BY <1>2, QPhases DEF Passed
  <2>2. FreedQ =< LoadedQ + 1
    BY DEF QSlot
  <2> QED BY <1>1, <1>4, <2>1, <2>2
<1>7. pc["wg0"] # "prologue" /\ pc'["wg0"] # "prologue"
  <2>1. pc["wg0"] = "prologue" => tile["wg0"] = 1
    BY <1>3 DEF Places, Place
  <2>2. pc["wg0"] = "prologue" => FreedQ = 0
    BY <1>1, <2>1 DEF FreedQ, In
  <2> QED BY <1>1, <1>3, <1>4, <1>6, <2>2 DEF SamePrologues
<1>8. IssuedQ = LoadedQ + 1 /\ IssuedQ' = IssuedQ + 1
  BY <1>4, <1>5, <1>7 DEF IssuedQ
<1>9. Flying(Q) = 0
  <2>1. FreedQ =< GotQ("wg0")
    BY <1>3, QGot
  <2>2. \A c \in copying : c[1] = Q => GotQ("wg0") < IssuedQ
    BY <1>3 DEF QSlot
  <2> QED BY <1>3, <1>4, <1>6, <1>8, <2>1, <2>2 DEF Flying
<1>10. Turns'
  <2>1. Arrives("q", {})
    BY <1>2, <1>3, Unmoved
  <2> QED BY <1>1, <1>2, <1>3, <1>5, <2>1, TurnsKeep
<1>11. QSlot'
  <2>1. LoadedQ' =< FreedQ /\ FreedQ =< LoadedQ' + 1
    BY <1>4, <1>5, <1>6
  <2>2. tile["q"] = IssuedQ + 1
    BY <1>1, <1>4, <1>8
  <2> QED BY <1>2, <1>5, <1>8, <1>9, <2>1, <2>2, QCopied
<1>12. Types'
  <2>1. tile["q"] \in Nat /\ Q \in Buffers
    BY <1>1, <1>4, Barriers DEF Types
  <2>2. copying' \subseteq Buffers \X (Nat \X Nat)
    BY <1>2, <2>1 DEF Types, MemoryTypes
  <2> QED BY <1>1, <1>2, <2>2, TypesStep
<1> QED BY <1>1, <1>10, <1>11, <1>12

LEMMA AwaitKeeps ==
  ASSUME SplitInRange, Types, Places, Turns, QSlot, NEW w \in WGs, Await(w)
  PROVE  Types' /\ Places' /\ Turns' /\ QSlot'
<1> DEFINE r == TileRange(w)
           M == {Q} \cup IF r.ub > r.lb THEN {<<"k", Rem(prev[w], Stages)>>} ELSE {}
           asked == IF w = "wg1" THEN 1 ELSE 0
           B == IF w = "wg1" THEN {Turn(w)} ELSE {}
<1>1. /\ PositionTypes' /\ Places' /\ SamePrologues
      /\ TurnStep(w, 0, asked, 0) /\ QStep(w, 1, 0, 0, 0)
  BY AwaitMoves
<1>2. /\ UNCHANGED <<work, landed, smem, copying>>
      /\ Waited(w, M) /\ Ready(w, Q) /\ w \in Actors /\ "wg0" \in WGs
      /\ IF w = "wg1" THEN ArriveAll(w, {Turn(w)}) ELSE arrivals' = arrivals
  BY DEF Await, Arrive, Actors, WGs
<1>3. /\ FreedQ \in Nat /\ LoadedQ \in Nat /\ IssuedQ \in Nat /\ SyncedQ \in Nat
      /\ \A v \in WGs : GotQ(v) \in Nat
  BY CountTypes
<1>4. /\ FreedQ' = FreedQ /\ LoadedQ' = LoadedQ /\ SyncedQ' = SyncedQ
      /\ \A v \in WGs : GotQ(v)' = GotQ(v) + (IF v = w THEN 1 ELSE 0)
  BY <1>1, <1>3 DEF QStep
<1>5. IssuedQ' = IssuedQ
  BY <1>1, <1>2, <1>4 DEF IssuedQ, SamePrologues
<1>6. Waits(w, M) /\ Q \in M
  BY <1>2, WaitsMove
<1>7. Arrives(w, B)
  BY <1>2, ArrivalsMove, Unmoved
<1>8. IssuedQ = GotQ(w) + 1 /\ Flying(Q) = 0
  <2>1. /\ waits[w][Q] = GotQ(w) /\ GotQ(w) \in Nat
        /\ Phases(Q) \in {GotQ(w), GotQ(w) + 1}
        /\ Phases(Q) = GotQ(w) + 1 => IssuedQ = GotQ(w) + 1 /\ Flying(Q) = 0
    BY QWaits
  <2> QED BY <1>2, <2>1 DEF Ready
<1>9. Turns'
  <2>1. \A v \in WGs, x \in Actors : arrivals'[Turn(v)][x] =
          arrivals[Turn(v)][x] + (IF x = w THEN (IF v = w THEN asked ELSE 0) ELSE 0)
    <3> SUFFICES ASSUME NEW v \in WGs, NEW x \in Actors
                 PROVE  arrivals'[Turn(v)][x] = arrivals[Turn(v)][x]
                          + (IF x = w THEN (IF v = w THEN asked ELSE 0) ELSE 0)
      OBVIOUS
    <3>1. Turn(v) \in Named
      BY Barriers DEF Types
    <3>2. One(x = w /\ Turn(v) \in B) = IF x = w THEN (IF v = w THEN asked ELSE 0) ELSE 0
      BY NotQ DEF One
    <3> QED BY <1>7, <3>1, <3>2 DEF Arrives
  <2>2. FreedQ' = FreedQ + 0 /\ asked \in {0, 1}
    BY <1>3, <1>4
  <2>3. FreedQ' > 0 => Prior[FreedQ' + 1] \in Nat
    <3>1. FreedQ =< Tiles
      BY QGot
    <3> QED BY <1>3, <1>4, <3>1, TileFacts
  <2> HIDE DEF asked
  <2> QED BY <1>1, <1>2, <2>1, <2>2, <2>3, TurnsStep
<1>10. QSlot'
  <2> HIDE DEF M, B, r
  <2>1. /\ \A v \in WGs : GotQ(v) =< IssuedQ /\ waits[v][Q] = GotQ(v)
        /\ LoadedQ =< FreedQ /\ FreedQ =< LoadedQ + 1 /\ SyncedQ =< FreedQ + 1
        /\ \A a \in Actors : arrivals[Q][a] =
             CASE a = "wg0" -> FreedQ [] a = "q" -> SyncedQ [] OTHER -> 0
        /\ landed[Q] = IssuedQ - Flying(Q)
        /\ IssuedQ > 0 => <<Q, <<IssuedQ, 0>>>> \in copying \/ smem[Q] = <<IssuedQ, 0>>
    BY DEF QSlot
  <2>2. Q \in Named /\ Q \in MBarriers /\ Q \notin B
    BY Barriers, NotQ DEF Types, B
  <2>3. \A a \in Actors : arrivals'[Q][a] = arrivals[Q][a]
    BY <1>7, <2>2 DEF Arrives, One, Types, MemoryTypes
  <2>4. \A v \in WGs : waits'[v][Q] = waits[v][Q] + One(v = w)
    BY <1>6, <2>2 DEF Waits, One
  <2>5. \A v \in WGs : GotQ(v)' =< IssuedQ' /\ waits'[v][Q] = GotQ(v)'
    BY <1>3, <1>4, <1>5, <1>8, <2>1, <2>4 DEF One
  <2>6. (\A c \in copying' : c[1] # Q) /\ Flying(Q)' = Flying(Q)
    BY <1>2, <1>8 DEF Flying
  <2>7. /\ LoadedQ' =< FreedQ' /\ FreedQ' =< LoadedQ' + 1 /\ SyncedQ' =< FreedQ' + 1
        /\ \A a \in Actors : arrivals'[Q][a] =
             CASE a = "wg0" -> FreedQ' [] a = "q" -> SyncedQ' [] OTHER -> 0
        /\ landed'[Q] = IssuedQ' - Flying(Q)'
        /\ IssuedQ' > 0 =>
             <<Q, <<IssuedQ', 0>>>> \in copying' \/ smem'[Q] = <<IssuedQ', 0>>
    BY <1>2, <1>4, <1>5, <2>1, <2>3, <2>6
  <2> QED BY <2>5, <2>6, <2>7 DEF QSlot
<1>11. Types'
  <2>1. copying' \subseteq Buffers \X (Nat \X Nat)
    BY <1>2 DEF Types, MemoryTypes
  <2>2. arrivals' = arrivals \/ \E a \in Actors : \E C : ArriveAll(a, C)
    BY <1>2
  <2>3. waits' = waits \/ \E v \in WGs : \E N : Waited(v, N)
    BY <1>2
  <2> QED BY <1>1, <1>2, <2>1, <2>2, <2>3, TypesStep
<1> QED BY <1>1, <1>9, <1>10, <1>11

LEMMA PrologueKeeps ==
  ASSUME SplitInRange, Types, Places, Turns, QSlot, NEW w \in WGs, Prologue(w)
  PROVE  Types' /\ Places' /\ Turns' /\ QSlot'
<1>1. /\ PositionTypes' /\ Places'
      /\ TurnStep(w, 0, 0, 0) /\ QStep(w, 0, 0, 0, 0)
      /\ pc[w] = "prologue" /\ pc'[w] # "prologue" /\ Others(w) /\ tile[w] = 1
  BY PrologueMoves
<1> DEFINE B == Ring \X Slots
<1>2. /\ UNCHANGED <<work, landed, waits, smem>> /\ ArriveAll(w, B)
      /\ IF w = "wg0" THEN copying' = copying \cup {<<Q, <<1, 0>>>>}
         ELSE copying' = copying
      /\ w \in Actors /\ "wg0" \in WGs /\ "wg0" \in Actors
  BY DEF Prologue, Copy, Ring, Actors, WGs
<1>3. Q \notin B /\ \A v \in WGs : Turn(v) \notin B
  BY NotARing
<1> HIDE DEF B
<1>4. CASE w # "wg0"
  <2>1. pc'["wg0"] = pc["wg0"] /\ copying' = copying
    BY <1>1, <1>2, <1>4 DEF Others
  <2>2. pc'["wg0"] = "prologue" <=> pc["wg0"] = "prologue"
    BY <2>1
  <2>3. PICK C, M : C = B /\ M = {}
    OBVIOUS
  <2>4. copying \subseteq copying' /\ copying' \ copying \subseteq (Buffers \ {Q}) \X (Nat \X Nat)
    BY <2>1
  <2>5. /\ arrivals' = arrivals \/ ArriveAll(w, C)
        /\ Q \notin C /\ \A v \in WGs : Turn(v) \notin C
        /\ waits' = waits \/ Waited(w, M)
        /\ Q \notin M
    BY <1>2, <1>3, <2>3
  <2> QED BY <1>1, <1>2, <2>2, <2>4, <2>5, Keeps
<1>5. CASE w = "wg0"
  <2>1. /\ FreedQ \in Nat /\ LoadedQ \in Nat /\ IssuedQ \in Nat /\ SyncedQ \in Nat
        /\ \A v \in WGs : GotQ(v) \in Nat
    BY CountTypes
  <2>2. /\ FreedQ' = FreedQ /\ LoadedQ' = LoadedQ /\ SyncedQ' = SyncedQ
        /\ \A v \in WGs : GotQ(v)' = GotQ(v)
    BY <1>1, <2>1 DEF QStep
  <2>3. FreedQ = 0
    BY <1>1, <1>5 DEF FreedQ, In
  <2>4. /\ LoadedQ =< FreedQ /\ FreedQ =< LoadedQ + 1 /\ SyncedQ =< FreedQ + 1
        /\ \A v \in WGs : GotQ(v) =< IssuedQ /\ waits[v][Q] = GotQ(v)
        /\ \A c \in copying : c[1] = Q => GotQ("wg0") < IssuedQ
        /\ \A a \in Actors : arrivals[Q][a] =
             CASE a = "wg0" -> FreedQ [] a = "q" -> SyncedQ [] OTHER -> 0
        /\ landed[Q] = IssuedQ - Flying(Q)
    BY <1>2 DEF QSlot
  <2>5. IssuedQ = 0 /\ IssuedQ' = 1 /\ Flying(Q) = 0
    <3>1. LoadedQ = 0
      BY <2>1, <2>3, <2>4
    <3>2. IssuedQ = 0 /\ IssuedQ' = 1
      BY <1>1, <1>5, <2>2, <3>1 DEF IssuedQ
    <3> QED BY <1>2, <2>1, <2>4, <3>2 DEF Flying
  <2>6. Arrives(w, B)
    BY <1>2, ArrivalsMove
  <2>7. Turns'
    BY <1>1, <1>2, <1>3, <2>2, <2>6, TurnsKeep
  <2>8. Q \in Named /\ Q \in Buffers
    BY Barriers DEF Types
  <2>9. \A a \in Actors : arrivals'[Q][a] = arrivals[Q][a]
    BY <1>3, <2>6, <2>8 DEF Arrives, One, Types, MemoryTypes
  <2>10. Flying(Q)' = 1
    <3> DEFINE c == <<Q, <<1, 0>>>>
    <3>1. c \in copying' /\ c[1] = Q
      BY <1>2, <1>5
    <3> QED BY <3>1 DEF Flying
  <2>11. \A c \in copying' : c[1] = Q =>
           c[2] = <<IssuedQ', 0>> /\ \A v \in WGs : GotQ(v)' < IssuedQ'
    BY <1>2, <1>5, <2>1, <2>2, <2>4, <2>5
  <2>12. /\ LoadedQ' =< FreedQ' /\ FreedQ' =< LoadedQ' + 1 /\ SyncedQ' =< FreedQ' + 1
         /\ \A v \in WGs : GotQ(v)' =< IssuedQ' /\ waits'[v][Q] = GotQ(v)'
         /\ \A a \in Actors : arrivals'[Q][a] =
              CASE a = "wg0" -> FreedQ' [] a = "q" -> SyncedQ' [] OTHER -> 0
         /\ landed'[Q] = IssuedQ' - Flying(Q)'
         /\ IssuedQ' > 0 =>
              <<Q, <<IssuedQ', 0>>>> \in copying' \/ smem'[Q] = <<IssuedQ', 0>>
    BY <1>2, <1>5, <2>1, <2>2, <2>4, <2>5, <2>9, <2>10
  <2>13. QSlot'
    BY <2>11, <2>12 DEF QSlot
  <2>14. Types'
    <3>1. copying' \subseteq Buffers \X (Nat \X Nat)
      BY <1>2, <2>8 DEF Types, MemoryTypes
    <3>2. arrivals' = arrivals \/ \E a \in Actors : \E C : ArriveAll(a, C)
      BY <1>2
    <3> QED BY <1>1, <1>2, <3>1, <3>2, TypesStep
  <2> QED BY <1>1, <2>7, <2>13, <2>14
<1> QED BY <1>4, <1>5

-----------------------------------------------------------------------------
\* TMA.

\* A step that moves nobody.
LEMMA Still ==
  ASSUME SplitInRange, Types, Places, UNCHANGED <<work, position>>
  PROVE  /\ PositionTypes' /\ Places' /\ SamePrologues /\ KvStep({}, {})
         /\ WgStep("wg0", {}, {}) /\ TurnStep("wg0", 0, 0, 0)
         /\ QStep("wg0", 0, 0, 0, 0)
<1>1. /\ pc' = pc /\ tile' = tile /\ ki' = ki /\ prev' = prev
      /\ UNCHANGED work
  BY DEF position
<1>2. Others("kv") /\ "kv" \in WGs \cup {"kv"} /\ "kv" \in Actors
      /\ WGs \subseteq Actors /\ "q" \in Actors
  BY <1>1 DEF Others, Actors
<1>3. PositionTypes'
  BY <1>1, SameWork DEF Types, PositionTypes
<1>4. \A a \in Actors : Before(a)' = Before(a)
  BY <1>1, SameWork DEF Before, TileRange
<1>5. Idle
  BY <1>1, <1>2, <1>4, KvIdle
<1>6. KvStep({}, {})
  <2>1. \A kind \in Streams : /\ Loaded(kind)' = Loaded(kind)
                              /\ Synced(kind)' = Synced(kind)
    BY <1>1, <1>2, <1>4, KvFrame DEF Types
  <2>2. \A kind \in Streams : Loaded(kind) \in Nat /\ Synced(kind) \in Nat
    BY CountTypes
  <2> QED BY <2>1, <2>2 DEF KvStep, One
<1>7. Place("kv")'
  <2>1. Place("kv")
    BY <1>2 DEF Places
  <2> QED BY <1>1, <2>1, SameWork DEF Place, TileRange
<1>8. Places'
  BY <1>1, <1>2, <1>7, PlacesStep
<1> QED BY <1>3, <1>5, <1>6, <1>8 DEF Idle

LEMMA LandKeeps ==
  ASSUME SplitInRange, Types, Places, Turns, QSlot, NEW c \in copying, Land(c)
  PROVE  Types' /\ Places' /\ Turns' /\ QSlot'
<1>1. /\ UNCHANGED <<work, position, arrivals, waits>>
      /\ copying' = copying \ {c} /\ smem' = [smem EXCEPT ![c[1]] = c[2]]
      /\ landed' = [landed EXCEPT ![<<Produces(c[1][1]), c[1][2]>>] = @ + 1]
  BY DEF Land
<1>2. /\ PositionTypes' /\ Places' /\ SamePrologues
      /\ TurnStep("wg0", 0, 0, 0) /\ QStep("wg0", 0, 0, 0, 0)
  BY <1>1, Still
<1>3. "wg0" \in WGs /\ "kv" \in Actors
  BY DEF WGs, Actors
<1>4. /\ FreedQ \in Nat /\ LoadedQ \in Nat /\ IssuedQ \in Nat /\ SyncedQ \in Nat
      /\ \A v \in WGs : GotQ(v) \in Nat
  BY CountTypes
<1>5. /\ FreedQ' = FreedQ /\ LoadedQ' = LoadedQ /\ SyncedQ' = SyncedQ
      /\ \A v \in WGs : GotQ(v)' = GotQ(v)
  BY <1>2, <1>4 DEF QStep
<1>6. IssuedQ' = IssuedQ
  BY <1>2, <1>3, <1>5 DEF IssuedQ, SamePrologues
<1>7. Turns'
  <2>1. Arrives("kv", {})
    BY <1>1, <1>3, Unmoved
  <2> QED BY <1>1, <1>2, <1>3, <1>5, <2>1, TurnsKeep
<1>8. /\ c[1] \in Buffers /\ c[2] \in Nat \X Nat /\ c = <<c[1], c[2]>>
      /\ Q \in MBarriers /\ Q \in Buffers
  BY Barriers DEF Types, MemoryTypes
<1> DEFINE m == <<Produces(c[1][1]), c[1][2]>>
<1>9. m \in MBarriers
  BY <1>8 DEF MBarriers
<1>10. Types'
  <2>1. WorkTypes' /\ Tiles' = Tiles /\ Buffers' = Buffers /\ Named' = Named
        /\ MBarriers' = MBarriers
    BY <1>1, SameWork DEF Types, WorkTypes
  <2>2. MemoryTypes'
    BY <1>1, <1>8, <1>9, <2>1 DEF Types, MemoryTypes
  <2> QED BY <1>2, <2>1, <2>2 DEF Types
<1>11. QSlot'
  <2>1. /\ LoadedQ =< FreedQ /\ FreedQ =< LoadedQ + 1 /\ SyncedQ =< FreedQ + 1
        /\ \A w \in WGs : GotQ(w) =< IssuedQ /\ waits[w][Q] = GotQ(w)
        /\ \A a \in Actors : arrivals[Q][a] =
             CASE a = "wg0" -> FreedQ [] a = "q" -> SyncedQ [] OTHER -> 0
        /\ landed[Q] = IssuedQ - Flying(Q)
        /\ \A d \in copying : d[1] = Q =>
             d[2] = <<IssuedQ, 0>> /\ \A w \in WGs : GotQ(w) < IssuedQ
        /\ IssuedQ > 0 =>
             <<Q, <<IssuedQ, 0>>>> \in copying \/ smem[Q] = <<IssuedQ, 0>>
    BY DEF QSlot
  <2>2. landed'[Q] = IssuedQ - Flying(Q)'
        /\ (IssuedQ > 0 =>
              <<Q, <<IssuedQ, 0>>>> \in copying' \/ smem'[Q] = <<IssuedQ, 0>>)
    <3>1. CASE c[1] = Q
      <4>1. m = Q
        <5>1. c[1][1] = "q" /\ c[1][2] = 0 /\ Q = <<"q", 0>>
          BY <3>1 DEF Q
        <5> QED BY <5>1, StreamFacts DEF Types
      <4>2. c = <<Q, <<IssuedQ, 0>>>>
        BY <1>8, <2>1, <3>1
      <4>3. \A d \in copying : d[1] = Q => d = c
        <5> SUFFICES ASSUME NEW d \in copying, d[1] = Q PROVE d = c
          OBVIOUS
        <5>1. d = <<d[1], d[2]>>
          BY DEF Types, MemoryTypes
        <5> QED BY <2>1, <4>2, <5>1
      <4>4. Flying(Q) = 1
        BY <3>1 DEF Flying
      <4>5. Flying(Q)' = 0
        BY <1>1, <4>3 DEF Flying
      <4>6. landed'[Q] = landed[Q] + 1 /\ landed[Q] \in Nat
        BY <1>1, <1>8, <4>1 DEF Types, MemoryTypes
      <4>7. smem'[Q] = <<IssuedQ, 0>>
        <5>1. DOMAIN smem = Buffers /\ c[2] = <<IssuedQ, 0>>
          BY <2>1, <3>1 DEF Types, MemoryTypes
        <5> QED BY <1>1, <1>8, <3>1, <5>1
      <4> QED BY <1>4, <2>1, <4>4, <4>5, <4>6, <4>7
    <3>2. CASE c[1] # Q
      <4>1. m # Q
        <5>1. PICK kind \in Streams, s \in Slots : c[1] = <<kind, s>>
          BY <1>8, <3>2, Barriers DEF Types
        <5>2. Produces(kind) \in {"k", "v", "mask"} /\ c[1][1] = kind
          BY <5>1, OwnFacts
        <5> QED BY <5>2 DEF Q
      <4>2. landed'[Q] = landed[Q]
        BY <1>1, <1>8, <4>1 DEF Types, MemoryTypes
      <4>3. Flying(Q)' = Flying(Q)
        BY <1>1, <3>2 DEF Flying
      <4>4. smem'[Q] = smem[Q]
        BY <1>1, <1>8, <3>2 DEF Types, MemoryTypes
      <4>5. <<Q, <<IssuedQ, 0>>>> \in copying => <<Q, <<IssuedQ, 0>>>> \in copying'
        BY <1>1, <3>2
      <4> QED BY <2>1, <4>2, <4>3, <4>4, <4>5
    <3> QED BY <3>1, <3>2
  <2>3. copying' \subseteq copying
    BY <1>1
  <2>4. \A d \in copying' : d[1] = Q =>
          d[2] = <<IssuedQ', 0>> /\ \A w \in WGs : GotQ(w)' < IssuedQ'
    BY <1>5, <1>6, <2>1, <2>3
  <2>5. /\ LoadedQ' =< FreedQ' /\ FreedQ' =< LoadedQ' + 1 /\ SyncedQ' =< FreedQ' + 1
        /\ \A w \in WGs : GotQ(w)' =< IssuedQ' /\ waits'[w][Q] = GotQ(w)'
        /\ \A a \in Actors : arrivals'[Q][a] =
             CASE a = "wg0" -> FreedQ' [] a = "q" -> SyncedQ' [] OTHER -> 0
    BY <1>1, <1>5, <1>6, <2>1
  <2>6. /\ landed'[Q] = IssuedQ' - Flying(Q)'
        /\ IssuedQ' > 0 =>
             <<Q, <<IssuedQ', 0>>>> \in copying' \/ smem'[Q] = <<IssuedQ', 0>>
    BY <1>6, <2>2
  <2> QED BY <2>4, <2>5, <2>6 DEF QSlot
<1> QED BY <1>2, <1>7, <1>10, <1>11

-----------------------------------------------------------------------------
\* The invariant is inductive.

LEMMA KvWarpRings ==
  ASSUME SplitInRange, Types, Places, Rings, KvWarp
  PROVE  Rings'
BY SyncKRings, LoadKRings, SyncMaskRings, LoadMaskRings, SyncVRings, LoadVRings,
   KvTileDoneRings DEF KvWarp

LEMMA QWarpKeeps ==
  ASSUME SplitInRange, Types, Places, Turns, QSlot, Rings, QWarp
  PROVE  Types' /\ Places' /\ Turns' /\ QSlot' /\ Rings'
<1>1. CASE SkipQ
  BY <1>1, SkipQKeeps, SkipQRings
<1>2. CASE SyncQ
  BY <1>2, SyncQKeeps, SyncQRings
<1>3. CASE LoadQ
  BY <1>3, LoadQKeeps, LoadQRings
<1> QED BY <1>1, <1>2, <1>3 DEF QWarp

LEMMA ComputeKeeps ==
  ASSUME SplitInRange, Types, Places, Turns, QSlot, Rings, NEW w \in WGs, Compute(w)
  PROVE  Types' /\ Places' /\ Turns' /\ QSlot' /\ Rings'
<1>1. CASE Prologue(w)
  BY <1>1, PrologueKeeps, PrologueRings
<1>2. CASE Await(w)
  BY <1>2, AwaitKeeps, AwaitRings
<1>3. CASE FirstTurn(w)
  BY <1>3, FirstTurnKeeps, FirstTurnRings
<1>4. CASE IssueQK(w)
  BY <1>4, BlockKeeps, IssueQKRings
<1>5. CASE PassTurn(w)
  BY <1>5, PassTurnKeeps, PassTurnRings
<1>6. CASE FinishQK(w)
  BY <1>6, BlockKeeps, FinishQKRings
<1>7. CASE ReadMask(w)
  BY <1>7, BlockKeeps, ReadMaskRings
<1>8. CASE FreeMask(w)
  BY <1>8, BlockKeeps, FreeMaskRings
<1>9. CASE AwaitV(w)
  BY <1>9, AwaitVKeeps, AwaitVRings
<1>10. CASE IssuePV(w)
  BY <1>10, IssuePVKeeps, IssuePVRings
<1>11. CASE FinishPV(w)
  BY <1>11, BlockKeeps, FinishPVRings
<1>12. CASE Finish(w)
  BY <1>12, FinishKeeps, FinishRings
<1>13. CASE FreeQ(w)
  BY <1>13, FreeQKeeps, FreeQRings
<1>14. CASE Output(w)
  BY <1>14, BlockKeeps, OutputRings
<1> QED BY <1>1, <1>2, <1>3, <1>4, <1>5, <1>6, <1>7, <1>8, <1>9, <1>10, <1>11,
           <1>12, <1>13, <1>14 DEF Compute

LEMMA StutterKeeps ==
  ASSUME SplitInRange, Types, Places, Turns, QSlot, Rings, UNCHANGED vars
  PROVE  Types' /\ Places' /\ Turns' /\ QSlot' /\ Rings'
<1>1. UNCHANGED <<work, position, arrivals, landed, waits, smem, copying>>
  BY DEF vars
<1>2. /\ PositionTypes' /\ Places' /\ SamePrologues /\ KvStep({}, {})
      /\ WgStep("wg0", {}, {}) /\ TurnStep("wg0", 0, 0, 0)
      /\ QStep("wg0", 0, 0, 0, 0) /\ "wg0" \in WGs /\ "wg0" \in Actors
  BY <1>1, Still DEF WGs, Actors
<1>3. Arrives("wg0", {})
  BY <1>1, Unmoved
<1>4. Rings'
  BY <1>1, <1>2, <1>3, OtherRings
<1> QED BY <1>1, <1>2, <1>4, WgKeeps

LEMMA NextKeeps ==
  ASSUME SplitInRange, IInv, [Next]_vars
  PROVE  IInv'
<1> USE DEF IInv
<1>1. Types /\ Places /\ Turns /\ QSlot /\ Rings
  BY DEF Rings
<1>2. CASE KvWarp
  BY <1>1, <1>2, KvWarpKeeps, KvWarpRings DEF Rings
<1>3. CASE QWarp
  BY <1>1, <1>3, QWarpKeeps DEF Rings
<1>4. ASSUME NEW w \in WGs, Compute(w) PROVE IInv'
  BY <1>1, <1>4, ComputeKeeps DEF Rings
<1>5. ASSUME NEW c \in copying, Land(c) PROVE IInv'
  BY <1>1, <1>5, LandKeeps, RingLand DEF Rings
<1>6. CASE UNCHANGED vars
  BY <1>1, <1>6, StutterKeeps DEF Rings
<1> QED BY <1>2, <1>3, <1>4, <1>5, <1>6 DEF Next, Tma, Done

LEMMA InitTypes ==
  ASSUME Init
  PROVE  Types
<1>1. WorkTypes
  BY DEF Init, WorkTypes
<1>2. launch \in Launch /\ Tiles \in Nat \ {0} /\ launch.ranges \subseteq KvRange
  BY <1>1, KernelAssumption DEF WorkTypes, Launch, Tiles
<1>3. range[1] \in KvRange /\ 1 \in 1..Tiles + 1
  BY <1>1, <1>2 DEF WorkTypes
<1>4. \A a \in Actors : FirstKi(a, range[1]) \in Nat
  <2>1. /\ range[1].lb \in Nat /\ range[1].ub \in Nat
        /\ \A w \in WGs : range[1].diagonal[w] \in Nat
    BY <1>3 DEF KvRange
  <2> QED BY <2>1 DEF FirstKi, LoopStart
<1>5. PositionTypes
  <2>1. DOMAIN pc = Actors /\ \A a \in Actors : pc[a] \in PCs(a)
    BY DEF Init, PCs, Actors, WGs
  <2>2. tile \in [Actors -> 1..Tiles + 1] /\ prev \in [Actors -> Nat]
    BY <1>3 DEF Init
  <2>3. ki \in [Actors -> Nat]
    BY <1>4 DEF Init
  <2> QED BY <2>1, <2>2, <2>3 DEF PositionTypes
<1>6. MemoryTypes
  BY DEF Init, MemoryTypes
<1> QED BY <1>1, <1>5, <1>6 DEF Types

LEMMA InitHolds ==
  ASSUME SplitInRange, Init
  PROVE  IInv
<1>1. Types
  BY InitTypes
<1>2. /\ Tiles \in Nat \ {0} /\ 1 \in 1..Tiles /\ Prior[1] = 0
      /\ Stages \in Nat \ {0} /\ {"wg0", "wg1"} = WGs /\ WGs \subseteq Actors
      /\ "kv" \in Actors /\ "q" \in Actors /\ "kv" \notin WGs /\ "q" \notin WGs
      /\ range[1].lb \in Nat /\ range[1].ub \in Nat
  BY <1>1, Work, KernelAssumption DEF WGs, Actors
<1>3. /\ \A w \in WGs : pc[w] = "prologue"
      /\ pc["kv"] = "loop" /\ pc["q"] = IF Persistent THEN "loop" ELSE "done"
      /\ \A a \in Actors : /\ tile[a] = 1 /\ prev[a] = 0
                           /\ ki[a] = FirstKi(a, range[1])
      /\ \A b \in Named, a \in Actors : arrivals[b][a] = 0
      /\ \A m \in MBarriers : landed[m] = 0
      /\ \A w \in WGs, m \in MBarriers : waits[w][m] = 0
      /\ copying = {}
  BY <1>2 DEF Init
<1>4. \A a \in WGs \cup {"kv"} : Place(a)
  <2> SUFFICES ASSUME NEW a \in WGs \cup {"kv"} PROVE Place(a)
    OBVIOUS
  <2>1. /\ FirstKi(a, range[1]) \in Nat
        /\ \/ FirstKi(a, range[1]) = range[1].lb
           \/ range[1].ub < range[1].lb /\ FirstKi(a, range[1]) = range[1].ub
    BY <1>1, <1>2, LoopStarts
  <2>2. /\ a \in Actors /\ tile[a] = 1 /\ prev[a] = 0 /\ ki[a] = FirstKi(a, range[1])
        /\ TileRange(a) = range[1]
        /\ pc[a] \in {"prologue", "loop"} /\ (pc[a] = "loop" => a = "kv")
    BY <1>2, <1>3 DEF TileRange
  <2>3. a = "kv" => FirstKi(a, range[1]) = range[1].lb
    BY <1>2 DEF FirstKi
  <2> QED BY <1>2, <2>1, <2>2, <2>3 DEF Place, InBlock, InIteration
<1>5. Places
  BY <1>2, <1>3, <1>4 DEF Places
<1>6. \A a \in WGs \cup {"kv"} : Before(a) = 0
  <2> SUFFICES ASSUME NEW a \in WGs \cup {"kv"} PROVE Before(a) = 0
    OBVIOUS
  <2>1. /\ FirstKi(a, range[1]) \in Nat
        /\ \/ FirstKi(a, range[1]) = range[1].lb
           \/ range[1].ub < range[1].lb /\ FirstKi(a, range[1]) = range[1].ub
    BY <1>1, <1>2, LoopStarts
  <2> QED BY <1>2, <1>3, <2>1 DEF Before, TileRange
<1>7. /\ \A kind : Loaded(kind) = 0 /\ Synced(kind) = 0
      /\ \A w \in WGs : \A kind : Freed(w, kind) = 0 /\ Got(w, kind) = 0
      /\ \A w \in WGs : Gave(w) = 0 /\ Asked(w) = 0 /\ Took(w) = 0 /\ GotQ(w) = 0
      /\ LoadedQ = 0 /\ IssuedQ = 0 /\ FreedQ = 0 /\ SyncedQ = 0
  <2>1. \A kind : Loaded(kind) = 0 /\ Synced(kind) = 0
    BY <1>3, <1>6 DEF Loaded, Synced, In
  <2>2. \A w \in WGs : \A kind : Freed(w, kind) = 0 /\ Got(w, kind) = 0
    BY <1>3, <1>6 DEF Freed, Got, In, FirstHalf
  <2>3. \A w \in WGs : Gave(w) = 0 /\ Asked(w) = 0 /\ Took(w) = 0 /\ GotQ(w) = 0
    BY <1>2, <1>3, <1>6 DEF Gave, Asked, Took, GotQ, In, PastQK
  <2>4. LoadedQ = 0 /\ IssuedQ = 0 /\ FreedQ = 0 /\ SyncedQ = 0
    BY <1>2, <1>3 DEF LoadedQ, IssuedQ, FreedQ, SyncedQ, In
  <2> QED BY <2>1, <2>2, <2>3, <2>4
<1>8. \A b : Flying(b) = 0
  BY <1>3 DEF Flying
<1>9. Turns
  <2>1. \A w \in WGs : Turn(w) \in Named /\ Other(w) \in WGs
    BY <1>1, Barriers DEF Types, Other, WGs
  <2>2. \A w \in WGs, a \in Actors : arrivals[Turn(w)][a] =
          CASE a = w -> Asked(w) [] a = Other(w) -> Gave(a) [] OTHER -> 0
    BY <1>3, <1>7, <2>1
  <2> QED BY <1>2, <1>7, <2>2 DEF Turns
<1>10. QSlot
  <2>1. Q \in Named /\ Q \in MBarriers
    BY <1>1, Barriers DEF Types
  <2>2. \A a \in Actors : arrivals[Q][a] =
          CASE a = "wg0" -> FreedQ [] a = "q" -> SyncedQ [] OTHER -> 0
    BY <1>3, <1>7, <2>1
  <2> QED BY <1>2, <1>3, <1>7, <1>8, <2>1, <2>2 DEF QSlot
<1>11. Window
  BY <1>2, <1>7 DEF Window
<1>12. Consumed
  <2> SUFFICES ASSUME NEW kind \in Ring, NEW s \in Slots, NEW a \in Actors
               PROVE  arrivals[<<kind, s>>][a] =
                 CASE a \in WGs -> Uses(Freed(a, kind), s)
                                     + (IF pc[a] = "prologue" THEN 0 ELSE 1)
                   [] a = "kv" -> Uses(Synced(kind), s)
                   [] OTHER -> 0
    BY DEF Consumed
  <2>1. <<kind, s>> \in Named
    BY <1>1, Barriers DEF Types
  <2> QED BY <1>2, <1>3, <1>7, <2>1, UsesNone
<1>13. Produced
  <2> SUFFICES ASSUME NEW any \in Streams, NEW s \in Slots
               PROVE  /\ landed[<<Produces(any), s>>] = Counted("k", any, s)
                          + Counted("bias", any, s) + Counted("mask", any, s)
                          + Counted("v", any, s)
                      /\ \A w \in WGs : waits[w][<<Produces(any), s>>]
                                          = Uses(Got(w, Produces(any)), s)
    BY DEF Produced
  <2>1. <<Produces(any), s>> \in MBarriers
    BY <1>1, Barriers DEF Types
  <2>2. \A kind : Counted(kind, any, s) = 0
    BY <1>7, <1>8, UsesNone DEF Counted
  <2> QED BY <1>3, <1>7, <2>1, <2>2, UsesNone
<1>14. InFlight
  BY <1>3 DEF InFlight
<1>15. Contents
  <2> SUFFICES ASSUME NEW kind \in Streams, NEW t \in 1..Tiles,
                      NEW k \in range[t].lb..range[t].ub - 1,
                      Number(t, k) < Loaded(kind)
               PROVE  FALSE
    BY DEF Contents
  <2>1. Number(t, k) \in Nat
    BY <1>1, BlockNumber
  <2> QED BY <1>7, <2>1
<1> QED BY <1>1, <1>5, <1>9, <1>10, <1>11, <1>12, <1>13, <1>14, <1>15 DEF IInv

\* In every launch whose loops split within their ranges the invariant holds.
THEOREM Invariance == ASSUME SplitInRange PROVE Spec => []IInv
<1>1. Init => IInv
  BY InitHolds
<1>2. IInv /\ [Next]_vars => IInv'
  BY NextKeeps
<1> QED BY <1>1, <1>2, PTL DEF Spec

-----------------------------------------------------------------------------
\* What the invariant says.

\* A block that a warpgroup has waited for and not freed is in its slot.
LEMMA RingRead ==
  ASSUME SplitInRange, Types, Places, Rings, NEW w \in WGs, NEW kind \in Streams,
         pc[w] \in InIteration, Freed(w, kind) =< Before(w),
         Before(w) < Got(w, Produces(kind))
  PROVE  /\ smem[Here(w, kind)] = <<tile[w], ki[w]>>
         /\ \A c \in copying : c[1] # Here(w, kind)
<1> USE DEF Rings
<1> DEFINE n == Before(w)
           s == n % Stages
           t == tile[w]
           k == ki[w]
<1>1. w \in WGs \cup {"kv"} /\ Place(w) /\ pc[w] \in InBlock /\ pc[w] # "done"
  BY DEF Places, InBlock, InIteration
<1>2. /\ n \in Nat /\ n = Number(t, k) /\ t \in 1..Tiles
      /\ k \in range[t].lb..range[t].ub - 1
      /\ Here(w, kind) = <<kind, s>> /\ s \in Slots
  BY <1>1, HereIs, Whereabouts, SlotOf DEF TileRange
<1>3. /\ Freed(w, kind) \in Nat /\ Got(w, Produces(kind)) \in Nat /\ Loaded(kind) \in Nat
      /\ Got(w, Produces(kind)) =< Loaded(kind)
      /\ Loaded(kind) =< Freed(w, kind) + Stages
      /\ Stages \in Nat
  BY CountTypes, KernelAssumption DEF Window
<1>4. n < Loaded(kind) /\ Loaded(kind) =< n + Stages
  BY <1>2, <1>3
<1>5. \A c \in copying : c[1] # <<kind, s>>
  <2> SUFFICES ASSUME NEW c \in copying, c[1] = <<kind, s>> PROVE FALSE
    OBVIOUS
  <2>1. /\ Block1(c) \in Nat /\ Block1(c) % Stages = s /\ Block1(c) < Loaded(kind)
        /\ Got(w, Produces(kind)) =< Block1(c)
    BY <1>2, Flight
  <2>2. n < Block1(c)
    BY <1>2, <1>3, <2>1
  <2>3. PICK i \in Nat, j \in Nat : i = n /\ j = Block1(c)
    BY <1>2, <2>1
  <2>4. i + Stages =< j
    BY <2>1, <2>2, <2>3, SameSlot
  <2> QED BY <1>3, <1>4, <2>1, <2>3, <2>4
<1>6. <<<<kind, s>>, <<t, k>>>> \in copying \/ smem[<<kind, s>>] = <<t, k>>
  <2>1. Number(t, k) < Loaded(kind) /\ Loaded(kind) =< Number(t, k) + Stages
    BY <1>2, <1>4
  <2>2. Number(t, k) % Stages = s
    BY <1>2
  <2> QED BY <1>2, <2>1, <2>2 DEF Contents
<1>7. smem[<<kind, s>>] = <<t, k>>
  <2>1. <<<<kind, s>>, <<t, k>>>>[1] = <<kind, s>>
    OBVIOUS
  <2> QED BY <1>5, <1>6, <2>1
<1> QED BY <1>2, <1>5, <1>7

\* While a warpgroup multiplies Q with a block of K, q_smem holds its tile.
LEMMA QRead ==
  ASSUME SplitInRange, Types, Places, Turns, QSlot, NEW w \in WGs,
         pc[w] \in {"qk_issued", "qk_passed"}
  PROVE  smem[Q] = <<tile[w], 0>> /\ \A c \in copying : c[1] # Q
<1>1. /\ tile[w] \in Nat /\ tile[w] >= 1 /\ tile[w] =< Tiles /\ Tiles \in Nat
      /\ Before(w) \in Nat /\ Before(w) < Prior[tile[w] + 1]
      /\ \A n \in 1..Tiles + 1 : Prior[n] \in Nat
      /\ \A m, n \in 1..Tiles + 1 : m =< n => Prior[m] =< Prior[n]
      /\ w \in {"wg0", "wg1"}
  BY TileFacts DEF InIteration
<1>2. /\ FreedQ \in Nat /\ LoadedQ \in Nat /\ IssuedQ \in Nat
      /\ IssuedQ \in {LoadedQ, LoadedQ + 1} /\ FreedQ =< Tiles
  BY CountTypes, QGot
<1>3. GotQ(w) = tile[w]
  BY <1>1 DEF GotQ, In
<1>4. FreedQ < tile[w]
  <2>1. CASE w = "wg0"
    BY <1>1, <1>2, <2>1 DEF FreedQ, In
  <2>2. CASE w = "wg1"
    <3> SUFFICES ASSUME FreedQ >= tile[w] PROVE FALSE
      BY <1>1, <1>2
    <3>1. Asked("wg1") >= FreedQ + Prior[FreedQ + 1]
      BY <1>1, <1>2 DEF Turns
    <3>2. Asked("wg1") = Before("wg1") + tile["wg1"]
      BY <1>1, <2>2 DEF Asked, In
    <3>3. tile[w] + 1 \in 1..Tiles + 1 /\ FreedQ + 1 \in 1..Tiles + 1
      BY <1>1, <1>2
    <3>4. Prior[tile[w] + 1] =< Prior[FreedQ + 1] /\ Prior[tile[w] + 1] \in Nat
          /\ Prior[FreedQ + 1] \in Nat
      BY <1>1, <1>2, <3>3
    <3> QED BY <1>1, <1>2, <2>2, <3>1, <3>2, <3>4
  <2> QED BY <1>1, <2>1, <2>2
<1>5. IssuedQ = tile[w]
  <2>1. LoadedQ =< FreedQ /\ GotQ(w) =< IssuedQ
    BY DEF QSlot
  <2> QED BY <1>1, <1>2, <1>3, <1>4, <2>1
<1>6. \A c \in copying : c[1] # Q
  <2>1. \A c \in copying : c[1] = Q => GotQ(w) < IssuedQ
    BY DEF QSlot
  <2> QED BY <1>1, <1>3, <1>5, <2>1
<1>7. <<Q, <<IssuedQ, 0>>>> \notin copying
  <2>1. <<Q, <<IssuedQ, 0>>>>[1] = Q
    OBVIOUS
  <2> QED BY <1>6, <2>1
<1> QED BY <1>1, <1>5, <1>6, <1>7 DEF QSlot

\* While a warpgroup reads a buffer it holds the block of its own iteration and
\* no copy is on its way into it (pallas_mosaic_gpu_kernel_sm90.py:336-520).
THEOREM ReadsAreStable == ASSUME SplitInRange PROVE Spec => []StableReads
<1>1. ASSUME IInv PROVE StableReads
  <2> USE <1>1 DEF IInv
  <2>1. Types /\ Places /\ Turns /\ QSlot /\ Rings
    BY DEF Rings
  <2> SUFFICES ASSUME NEW w \in WGs, NEW b \in Reads(w)
               PROVE  smem[b] = Wanted(w, b) /\ \A c \in copying : c[1] # b
    BY DEF StableReads
  <2>2. /\ pc[w] \in {"qk_issued", "qk_passed", "mask_read", "pv"}
        /\ pc[w] \in InIteration
    BY DEF Reads, InIteration
  <2>3. /\ w \in WGs \cup {"kv"} /\ Place(w) /\ Before(w) \in Nat
        /\ ki[w] \in Nat /\ TileRange(w).ub \in Nat /\ ki[w] < TileRange(w).ub
    <3>1. w \in WGs \cup {"kv"} /\ Place(w) /\ pc[w] \in InBlock /\ pc[w] # "done"
      BY <2>1, <2>2 DEF Places, InBlock, InIteration
    <3>2. Before(w) \in Nat /\ tile[w] \in 1..Tiles
          /\ ki[w] \in TileRange(w).lb..TileRange(w).ub - 1
      BY <2>1, <3>1, Whereabouts
    <3>3. TileRange(w).lb \in Nat /\ TileRange(w).ub \in Nat
      BY <2>1, <3>2, Work DEF TileRange
    <3> QED BY <3>1, <3>2, <3>3
  <2>4. CASE b = Q
    <3>1. pc[w] \in {"qk_issued", "qk_passed"}
      <4>1. \A kind : kind # "q" => Here(w, kind) # Q
        BY <2>1, NotQ
      <4> QED BY <2>2, <2>4, <4>1 DEF Reads
    <3> QED BY <2>1, <2>4, <3>1, QRead DEF Wanted
  <2>5. CASE b # Q
    <3>1. PICK kind \in Streams :
            /\ b = Here(w, kind)
            /\ \/ kind \in {"k", "bias"} /\ pc[w] \in {"qk_issued", "qk_passed"}
               \/ kind = "mask" /\ pc[w] = "mask_read"
               \/ kind = "v" /\ pc[w] = "pv"
      <4>1. CASE pc[w] \in {"qk_issued", "qk_passed"}
        <5>1. Reads(w) = {Q} \cup {Here(w, kind) : kind \in {"k", "bias"} \cap Streams}
          BY <4>1 DEF Reads
        <5> QED BY <2>5, <4>1, <5>1
      <4>2. CASE pc[w] = "mask_read"
        <5>1. b = Here(w, "mask") /\ "mask" \in Streams
          BY <2>3, <4>2 DEF Reads, Place, Streams
        <5> QED BY <4>2, <5>1
      <4>3. CASE pc[w] = "pv"
        <5>1. b = Here(w, "v") /\ "v" \in Streams
          BY <4>3 DEF Reads, Streams
        <5> QED BY <4>3, <5>1
      <4> QED BY <2>2, <4>1, <4>2, <4>3
    <3>2. Produces("k") = "k" /\ Produces("bias") = "k" /\ Produces("v") = "v"
          /\ (kind = "mask" => Produces(kind) \in {"k", "mask"})
      BY <2>1, StreamFacts DEF Types
    <3>3. Freed(w, kind) = Before(w)
      BY <2>3, <3>1 DEF Freed, In
    <3>4. Got(w, Produces(kind)) = Before(w) + 1
      BY <2>3, <3>1, <3>2 DEF Got, In, FirstHalf
    <3>5. Freed(w, kind) =< Before(w) /\ Before(w) < Got(w, Produces(kind))
      BY <2>3, <3>3, <3>4
    <3> QED BY <2>1, <2>2, <2>5, <3>1, <3>5, RingRead DEF Wanted
  <2> QED BY <2>4, <2>5
<1> QED BY <1>1, Invariance, PTL

\* Two copies are never on their way into one buffer, and every phase of a
\* named barrier has one arrival of each of its parties
\* (pallas_mosaic_gpu_kernel_sm90.py:310-325).
THEOREM PhasesAreFull == ASSUME SplitInRange PROVE Spec => []FullPhases
<1>1. ASSUME IInv PROVE FullPhases
  <2> USE <1>1 DEF IInv
  <2>1. ASSUME NEW c \in copying, NEW d \in copying, c[1] = d[1] PROVE c = d
    <3>1. c = <<c[1], c[2]>> /\ d = <<d[1], d[2]>> /\ c[1] \in Buffers
      BY DEF Types, MemoryTypes
    <3>2. CASE c[1] = Q
      <4>1. c[2] = <<IssuedQ, 0>> /\ d[2] = <<IssuedQ, 0>>
        BY <2>1, <3>2 DEF QSlot
      <4> QED BY <2>1, <3>1, <4>1
    <3>3. CASE c[1] # Q
      <4>1. PICK kind \in Streams, s \in Slots : c[1] = <<kind, s>>
        BY <3>1, <3>3, Barriers DEF Types
      <4>2. PICK t, k : t = d[2][1] /\ k = d[2][2]
        OBVIOUS
      <4>3. /\ Block1(d) % Stages = s /\ Block1(d) < Loaded(kind)
            /\ Loaded(kind) =< Block1(d) + Stages
            /\ d[2] = <<t, k>> /\ Block1(d) = Number(t, k)
            /\ t \in 1..Tiles /\ k \in range[t].lb..range[t].ub - 1
        <5>1. /\ Block1(d) % Stages = s /\ Block1(d) < Loaded(kind)
              /\ Loaded(kind) =< Block1(d) + Stages
              /\ d[2] = <<d[2][1], d[2][2]>>
              /\ d[2][1] \in 1..Tiles /\ d[2][2] \in range[d[2][1]].lb..range[d[2][1]].ub - 1
              /\ Block1(d) = Number(d[2][1], d[2][2])
          BY <2>1, <4>1, Flight
        <5> QED BY <4>2, <5>1
      <4>4. c = <<<<kind, s>>, <<t, k>>>>
        BY <4>1, <4>3, OneFlight
      <4>5. d[1] = <<kind, s>>
        BY <2>1, <4>1
      <4> QED BY <3>1, <4>3, <4>4, <4>5
    <3> QED BY <3>2, <3>3
  <2>2. ASSUME NEW b \in Named, NEW a \in Actors
        PROVE  IF a \in Parties(b) THEN arrivals[b][a] - Completed(b) \in {0, 1}
               ELSE arrivals[b][a] = 0
    <3>1. a \in {"wg0", "wg1", "kv", "q"} /\ WGs = {"wg0", "wg1"}
      BY DEF Actors, WGs
    <3>2. CASE b = Q
      <4>1. Parties(b) = {"wg0", "q"}
        BY <3>2 DEF Parties, Q
      <4> QED BY <3>1, <3>2, <4>1, QPhases
    <3>3. CASE b = Turn("wg0") \/ b = Turn("wg1")
      <4>1. PICK w \in WGs : b = Turn(w)
        BY <3>1, <3>3
      <4>2. Parties(b) = WGs
        <5>1. b[1] = "turn" /\ b # Q
          BY <4>1 DEF Turn, Q
        <5> QED BY <5>1 DEF Parties
      <4>3. Other(w) \in WGs /\ (a \in WGs => a = w \/ a = Other(w))
        BY <3>1 DEF Other
      <4> QED BY <4>1, <4>2, <4>3, TurnPassed
    <3>4. ASSUME NEW kind \in Ring, NEW s \in Slots, b = <<kind, s>>
          PROVE  IF a \in Parties(b) THEN arrivals[b][a] - Completed(b) \in {0, 1}
                 ELSE arrivals[b][a] = 0
      <4>1. kind # "turn" /\ b # Q
        BY <3>4, NotARing, StreamFacts DEF Types, Kinds
      <4>2. Parties(b) = WGs \cup {"kv"}
        BY <3>4, <4>1 DEF Parties
      <4>3. LET e == <<kind, s>> IN
            /\ Completed(e) \in Nat
            /\ \A x \in WGs \cup {"kv"} : arrivals[e][x] - Completed(e) \in {0, 1}
            /\ arrivals[e]["q"] = 0
        BY RingPhases
      <4> QED BY <3>1, <3>4, <4>2, <4>3
    <3> QED BY <3>2, <3>3, <3>4, Barriers DEF Types
  <2> QED BY <2>1, <2>2 DEF FullPhases
<1> QED BY <1>1, Invariance, PTL

\* A warpgroup is never a whole phase behind an mbarrier, so the parity it waits
\* on says what it should (pallas_mosaic_gpu_kernel_sm90.py:400-470).
THEOREM NoPhaseIsMissed == ASSUME SplitInRange PROVE Spec => []NoPhaseMissed
<1>1. ASSUME IInv PROVE NoPhaseMissed
  <2> USE <1>1 DEF IInv
  <2> SUFFICES ASSUME NEW w \in WGs, NEW m \in MBarriers
               PROVE  Phases(m) - waits[w][m] \in {0, 1}
    BY DEF NoPhaseMissed
  <2>1. CASE m = Q
    <3>1. /\ waits[w][Q] = GotQ(w) /\ GotQ(w) \in Nat
          /\ Phases(Q) \in {GotQ(w), GotQ(w) + 1}
      BY QWaits
    <3> QED BY <2>1, <3>1
  <2>2. CASE m # Q
    <3>1. PICK any \in Streams, s \in Slots : m = <<Produces(any), s>>
      BY <2>2, Barriers DEF Types
    <3>2. waits[w][m] \in Nat /\ Phases(m) \in {waits[w][m], waits[w][m] + 1}
      BY <3>1, RingWaits
    <3> QED BY <3>2
  <2> QED BY <2>1, <2>2
<1> QED BY <1>1, Invariance, PTL

\* What the two warpgroups know of each other.
LEMMA Pair ==
  ASSUME SplitInRange, Types, Places, Turns
  PROVE  LET t0 == tile["wg0"]  t1 == tile["wg1"]
             B0 == Before("wg0")  B1 == Before("wg1")
         IN  /\ t0 \in Nat /\ t1 \in Nat /\ B0 \in Nat /\ B1 \in Nat
             /\ t1 < t0 => B1 =< B0 /\ (pc["wg1"] \in InIteration => B1 < B0)
             /\ t0 < t1 => B0 =< B1 /\ (pc["wg0"] \in InIteration => B0 < B1)
             /\ t0 = t1 /\ pc["wg1"] \in {"prologue", "await", "first_turn", "done"} =>
                  B1 =< B0
             /\ t0 = t1 /\ pc["wg0"] \in {"free_q", "output"} =>
                  B1 =< B0 /\ (pc["wg1"] \in InIteration => B1 < B0)
             /\ B0 + In("wg0", {"pv"}) =< B1 + In("wg1", PastQK)
             /\ B1 + In("wg1", {"pv"}) + t1
                  - In("wg1", {"prologue", "await", "done", "first_turn"}) =<
                  B0 + In("wg0", PastQK) + t0 - 1 + In("wg0", {"free_q", "output"})
<1> DEFINE t0 == tile["wg0"]  t1 == tile["wg1"]
           B0 == Before("wg0")  B1 == Before("wg1")
<1>1. "wg0" \in WGs /\ "wg1" \in WGs
  BY DEF WGs
<1>2. /\ t0 \in Nat /\ t0 >= 1 /\ t0 =< Tiles + 1 /\ Tiles \in Nat /\ B0 \in Nat
      /\ pc["wg0"] # "done" => t0 =< Tiles /\ Prior[t0] =< B0 /\ B0 =< Prior[t0 + 1]
      /\ pc["wg0"] = "done" => t0 = Tiles + 1 /\ B0 = Prior[Tiles + 1]
      /\ pc["wg0"] \in InIteration => B0 < Prior[t0 + 1]
      /\ pc["wg0"] \in {"free_q", "output"} => B0 = Prior[t0 + 1]
      /\ \A n \in 1..Tiles + 1 : Prior[n] \in Nat
      /\ \A m, n \in 1..Tiles + 1 : m =< n => Prior[m] =< Prior[n]
  BY <1>1, TileFacts
<1>3. /\ t1 \in Nat /\ t1 >= 1 /\ t1 =< Tiles + 1 /\ B1 \in Nat
      /\ pc["wg1"] # "done" => t1 =< Tiles /\ Prior[t1] =< B1 /\ B1 =< Prior[t1 + 1]
      /\ pc["wg1"] = "done" => t1 = Tiles + 1 /\ B1 = Prior[Tiles + 1]
      /\ pc["wg1"] \in InIteration => B1 < Prior[t1 + 1]
      /\ pc["wg1"] \in {"prologue", "await", "first_turn"} => B1 = Prior[t1]
  BY <1>1, TileFacts
<1>4. Took("wg0") = B0 + In("wg0", {"pv"}) /\ Gave("wg1") = B1 + In("wg1", PastQK)
  <2>1. pc["wg0"] # "first_turn"
    BY <1>1, TileFacts DEF PCs, InIteration, WGs
  <2>2. Asked("wg0") = B0 + In("wg0", {"turn", "pv"}) /\ Gave("wg1") = B1 + In("wg1", PastQK)
    <3>1. \A w, S : In(w, S) \in {0, 1}
      BY DEF In
    <3> QED BY <1>2, <1>3, <3>1 DEF Asked, Gave
  <2>3. In("wg0", {"turn", "pv"}) - In("wg0", {"turn", "first_turn"}) = In("wg0", {"pv"})
    BY <2>1 DEF In
  <2>4. Took("wg0") = Asked("wg0") - In("wg0", {"turn", "first_turn"})
    BY DEF Took
  <2>5. \A S : In("wg0", S) \in {0, 1}
    BY DEF In
  <2> QED BY <1>2, <2>2, <2>3, <2>4, <2>5
<1>5. /\ Took("wg1") = B1 + In("wg1", {"pv"}) + t1
           - In("wg1", {"prologue", "await", "done", "first_turn"})
      /\ Gave("wg0") = B0 + In("wg0", PastQK) + t0 - 1 + In("wg0", {"free_q", "output"})
  <2>1. Gave("wg0") = B0 + In("wg0", PastQK) + t0 - 1 + In("wg0", {"free_q", "output"})
    BY <1>2 DEF Gave, In, PastQK
  <2>2. In("wg1", {"turn", "pv"}) - In("wg1", {"turn", "first_turn"}) =
          In("wg1", {"pv"}) - In("wg1", {"first_turn"})
    BY DEF In
  <2>3. In("wg1", {"prologue", "await", "done"}) + In("wg1", {"first_turn"}) =
          In("wg1", {"prologue", "await", "done", "first_turn"})
    BY DEF In
  <2>4. Took("wg1") = B1 + In("wg1", {"turn", "pv"})
          + (t1 - In("wg1", {"prologue", "await", "done"}))
          - In("wg1", {"turn", "first_turn"})
    <3>1. "wg1" = "wg1" /\ \A S : In("wg1", S) \in {0, 1}
      BY DEF In
    <3> QED BY <1>3, <3>1 DEF Took, Asked
  <2>5. \A S : In("wg1", S) \in {0, 1}
    BY DEF In
  <2> QED BY <1>3, <2>1, <2>2, <2>3, <2>4, <2>5
<1>6. Took("wg0") =< Gave("wg1") /\ Took("wg1") =< Gave("wg0")
  BY DEF Turns
<1> HIDE DEF t0, t1, B0, B1
<1>7. t1 < t0 => B1 =< B0 /\ (pc["wg1"] \in InIteration => B1 < B0)
  <2> SUFFICES ASSUME t1 < t0
               PROVE  B1 =< B0 /\ (pc["wg1"] \in InIteration => B1 < B0)
    OBVIOUS
  <2>1. pc["wg1"] # "done" /\ t1 + 1 \in 1..Tiles + 1 /\ t0 \in 1..Tiles + 1
    BY <1>2, <1>3
  <2>2. Prior[t1 + 1] =< Prior[t0] /\ Prior[t0] =< B0
    BY <1>2, <1>3, <2>1
  <2> QED BY <1>2, <1>3, <2>1, <2>2
<1>8. t0 < t1 => B0 =< B1 /\ (pc["wg0"] \in InIteration => B0 < B1)
  <2> SUFFICES ASSUME t0 < t1
               PROVE  B0 =< B1 /\ (pc["wg0"] \in InIteration => B0 < B1)
    OBVIOUS
  <2>1. pc["wg0"] # "done" /\ t0 + 1 \in 1..Tiles + 1 /\ t1 \in 1..Tiles + 1
    BY <1>2, <1>3
  <2>2. Prior[t0 + 1] =< Prior[t1] /\ Prior[t1] =< B1
    BY <1>2, <1>3, <2>1
  <2> QED BY <1>2, <1>3, <2>1, <2>2
<1>9. t0 = t1 /\ pc["wg1"] \in {"prologue", "await", "first_turn", "done"} => B1 =< B0
  BY <1>2, <1>3
<1>10. t0 = t1 /\ pc["wg0"] \in {"free_q", "output"} =>
         B1 =< B0 /\ (pc["wg1"] \in InIteration => B1 < B0)
  BY <1>2, <1>3
<1> QED BY <1>2, <1>3, <1>4, <1>5, <1>6, <1>7, <1>8, <1>9, <1>10 DEF t0, t1, B0, B1

\* The warpgroups alternate: wg0 is first with every QK, and it starts a PV only
\* after wg1 has started the QK of the same block
\* (pallas_mosaic_gpu_kernel_sm90.py:385-520).
THEOREM TurnsAlternate == ASSUME SplitInRange PROVE Spec => []TakeTurns
<1>1. ASSUME IInv PROVE TakeTurns
  <2> USE <1>1 DEF IInv
  <2> DEFINE t0 == tile["wg0"]  t1 == tile["wg1"]
             B0 == Before("wg0")  B1 == Before("wg1")
             q0 == In("wg0", PastQK)  q1 == In("wg1", PastQK)
             v0 == In("wg0", {"pv"})  v1 == In("wg1", {"pv"})
             i0 == In("wg0", InIteration)  i1 == In("wg1", InIteration)
             o0 == In("wg0", {"free_q", "output"})
             s1 == In("wg1", {"prologue", "await", "done", "first_turn"})
  <2>1. /\ t0 \in Nat /\ t1 \in Nat /\ B0 \in Nat /\ B1 \in Nat
        /\ t1 < t0 => B1 =< B0 /\ (i1 = 1 => B1 < B0)
        /\ t0 < t1 => B0 =< B1 /\ (i0 = 1 => B0 < B1)
        /\ t0 = t1 /\ s1 = 1 => B1 =< B0
        /\ t0 = t1 /\ o0 = 1 => B1 =< B0 /\ (i1 = 1 => B1 < B0)
        /\ B0 + v0 =< B1 + q1
        /\ B1 + v1 + t1 - s1 =< B0 + q0 + t0 - 1 + o0
    BY Pair DEF In
  <2>2. /\ q0 \in {0, 1} /\ v0 \in {0, 1} /\ i0 \in {0, 1} /\ v0 =< q0 /\ q0 =< i0
        /\ q1 \in {0, 1} /\ v1 \in {0, 1} /\ i1 \in {0, 1} /\ v1 =< q1 /\ q1 =< i1
        /\ o0 \in {0, 1} /\ s1 \in {0, 1} /\ i0 + o0 =< 1 /\ i1 + s1 =< 1
    BY DEF In, PastQK, InIteration
  <2>3. /\ IssuedQK("wg0") = B0 + i0 /\ IssuedQK("wg1") = B1 + i1
        /\ IssuedPV("wg0") = B0 + v0 /\ IssuedPV("wg1") = B1 + v1
    BY DEF IssuedQK, IssuedPV, In
  <2>4. pc["wg1"] = "pv" => v1 = 1
    BY DEF In
  <2>5. o0 = 1 => pc["wg0"] \in {"free_q", "output"}
    BY DEF In
  <2> HIDE DEF t0, t1, B0, B1, q0, q1, v0, v1, i0, i1, o0, s1
  <2>6. B0 + i0 =< B1 + i1 + 1
    BY <2>1, <2>2
  <2>7. B1 + i1 =< B0 + i0
    <3>1. CASE t1 < t0
      BY <2>1, <2>2, <3>1
    <3>2. CASE t1 = t0
      BY <2>1, <2>2, <3>2
    <3>3. CASE t0 < t1
      BY <2>1, <2>2, <3>3
    <3> QED BY <2>1, <3>1, <3>2, <3>3
  <2>8. B0 + v0 =< B1 + i1
    BY <2>1, <2>2
  <2>9. v1 = 1 => B1 + v1 < B0 + i0 \/ o0 = 1 \/ t0 > t1
    BY <2>1, <2>2
  <2>10. IssuedQK("wg0") - IssuedQK("wg1") \in {0, 1}
    BY <2>1, <2>2, <2>3, <2>6, <2>7
  <2> QED BY <2>3, <2>4, <2>5, <2>8, <2>9, <2>10 DEF TakeTurns, t0, t1
<1> QED BY <1>1, Invariance, PTL

-----------------------------------------------------------------------------
\* What outputs have been written over.

\* An output is written at the end of its warpgroup, in a kernel of one tile.
Overlaid ==
  \A p \in overlaid :
    ~Persistent /\ \E w \in WGs : pc[w] = "done" /\ p \in launch.under[w]

\* A warpgroup that is done has written its output.
LEMMA OutputOverlays ==
  ASSUME SplitInRange, IInv, Overlaid, NEW w \in WGs, Output(w)
  PROVE  Overlaid'
<1> USE DEF IInv
<1>1. /\ pc[w] = "output" /\ NextTile(w) /\ UNCHANGED launch
      /\ overlaid' = overlaid \cup launch.under[w]
  BY DEF Output, work
<1>2. /\ DOMAIN pc = Actors /\ WGs \subseteq Actors /\ launch \in Launches
      /\ \E to : pc' = [pc EXCEPT ![w] = to]
      /\ tile[w] = Tiles => pc' = [pc EXCEPT ![w] = "done"]
  BY <1>1 DEF Types, WorkTypes, PositionTypes, Actors, NextTile, Goto
<1> SUFFICES ASSUME NEW p \in overlaid'
             PROVE  ~Persistent /\ \E x \in WGs : pc'[x] = "done" /\ p \in launch.under[x]
  BY <1>1 DEF Overlaid, Persistent
<1>3. CASE p \in overlaid
  <2>1. PICK x \in WGs : pc[x] = "done" /\ p \in launch.under[x]
    BY <1>3 DEF Overlaid
  <2>2. pc'[x] = "done"
    BY <1>1, <1>2, <2>1
  <2> QED BY <1>3, <2>1, <2>2 DEF Overlaid
<1>4. CASE p \in launch.under[w]
  <2>1. ~Persistent /\ Tiles = 1
    BY <1>2, <1>4, KernelAssumption DEF Persistent, Tiles
  <2>2. tile[w] = 1
    BY <1>1, <2>1, TileFacts
  <2>3. pc'[w] = "done"
    BY <1>2, <2>1, <2>2
  <2> QED BY <1>4, <2>1, <2>3
<1> QED BY <1>1, <1>3, <1>4

\* Nothing else is written over Q and K, and a warpgroup that is done stays so.
LEMMA OthersOverlay ==
  ASSUME Overlaid, UNCHANGED <<launch, overlaid>>,
         \A w \in WGs : pc[w] = "done" => pc'[w] = "done"
  PROVE  Overlaid'
BY DEF Overlaid, Persistent

LEMMA WarpsOverlay ==
  ASSUME IInv, Overlaid, KvWarp \/ QWarp
  PROVE  Overlaid'
<1>1. \E a \in {"kv", "q"} : \E to : pc' = [pc EXCEPT ![a] = to]
  BY DEF KvWarp, QWarp, SyncK, LoadK, SyncMask, LoadMask, SyncV, LoadV, KvTileDone,
     SkipQ, SyncQ, LoadQ, Step, NextTile, Goto
<1>2. UNCHANGED <<launch, overlaid>>
  BY DEF KvWarp, QWarp, SyncK, LoadK, SyncMask, LoadMask, SyncV, LoadV, KvTileDone,
     SkipQ, SyncQ, LoadQ, work
<1>3. \A w \in WGs : pc'[w] = pc[w]
  BY <1>1 DEF IInv, Types, PositionTypes, Actors, WGs
<1> QED BY <1>2, <1>3, OthersOverlay

LEMMA ComputeOverlays ==
  ASSUME IInv, Overlaid, NEW w \in WGs, Compute(w), ~Output(w)
  PROVE  Overlaid'
<1>1. pc[w] # "done" /\ \E to : pc' = [pc EXCEPT ![w] = to]
  BY DEF Compute, Prologue, Await, FirstTurn, IssueQK, PassTurn, FinishQK, ReadMask,
     FreeMask, AwaitV, IssuePV, FinishPV, Finish, FreeQ, Looping, Looped, Step, Goto
<1>2. UNCHANGED <<launch, overlaid>>
  BY DEF Compute, Prologue, Await, FirstTurn, IssueQK, PassTurn, FinishQK, ReadMask,
     FreeMask, AwaitV, IssuePV, FinishPV, Finish, FreeQ, work
<1>3. \A x \in WGs : x # w => pc'[x] = pc[x]
  BY <1>1 DEF IInv, Types, PositionTypes, Actors
<1> QED BY <1>1, <1>2, <1>3, OthersOverlay

LEMMA NextOverlays ==
  ASSUME SplitInRange, IInv, Overlaid, [Next]_vars
  PROVE  Overlaid'
<1>1. CASE KvWarp \/ QWarp
  BY <1>1, WarpsOverlay
<1>2. ASSUME NEW w \in WGs, Compute(w) PROVE Overlaid'
  BY <1>2, OutputOverlays, ComputeOverlays
<1>3. CASE Tma \/ UNCHANGED vars
  <2>1. UNCHANGED <<launch, overlaid, pc>>
    BY <1>3 DEF Tma, Land, vars, work, position
  <2> QED BY <2>1, OthersOverlay
<1> QED BY <1>1, <1>2, <1>3 DEF Next, Done

\* When a warpgroup of a kernel of one tile is done, no copy into Q and K is
\* under way.
LEMMA LastCopies ==
  ASSUME SplitInRange, IInv, NEW w \in WGs, ~Persistent, pc[w] = "done",
         NEW c \in copying
  PROVE  c[1][1] \notin {"q", "k"}
<1> USE DEF IInv
<1> SUFFICES ASSUME c[1][1] \in {"q", "k"} PROVE FALSE
  OBVIOUS
<1> DEFINE P == Prior[2]
<1>1. Tiles = 1
  BY KernelAssumption DEF Types, WorkTypes, Persistent, Tiles
<1>2. tile[w] = 2 /\ Before(w) = P /\ P \in Nat
  <2>1. /\ tile[w] = Tiles + 1 /\ Before(w) = Prior[Tiles + 1]
        /\ \A n \in 1..Tiles + 1 : Prior[n] \in Nat
    BY TileFacts
  <2> QED BY <1>1, <2>1
<1>3. c[1] \in Buffers
  BY DEF Types, MemoryTypes
<1>4. CASE c[1] = Q
  <2>1. GotQ(w) < IssuedQ /\ GotQ(w) = 1
    BY <1>2, <1>4 DEF QSlot, GotQ, In
  <2>2. tile["q"] = 1
    BY DEF Places
  <2> QED BY <2>1, <2>2 DEF IssuedQ, LoadedQ
<1>5. CASE c[1] # Q
  <2>1. PICK kind \in Streams, s \in Slots : c[1] = <<kind, s>>
    BY <1>3, <1>5, Barriers DEF Types
  <2>2. kind = "k"
    BY <2>1, StreamFacts DEF Types, Kinds
  <2>3. /\ Got(w, Produces(kind)) =< Block1(c) /\ Block1(c) \in Nat
        /\ c[2][1] \in 1..Tiles
        /\ c[2][2] \in range[c[2][1]].lb..range[c[2][1]].ub - 1
        /\ Block1(c) = Number(c[2][1], c[2][2])
    BY <2>1, Flight
  <2>4. PICK t \in 1..Tiles : \E k : t = c[2][1] /\ k = c[2][2]
    BY <2>3
  <2>5. PICK k : t = c[2][1] /\ k = c[2][2]
    BY <2>4
  <2>6. t = 1 /\ k \in range[t].lb..range[t].ub - 1 /\ Block1(c) = Number(t, k)
    BY <1>1, <2>3, <2>4, <2>5
  <2>7. Number(t, k) < Prior[t + 1]
    BY <2>6, BlockNumber
  <2>8. Got(w, Produces(kind)) = P
    <3>1. Produces("k") = "k"
      BY StreamFacts DEF Types
    <3> QED BY <1>2, <2>2, <3>1 DEF Got, FirstHalf
  <2> QED BY <1>2, <2>3, <2>6, <2>7, <2>8
<1> QED BY <1>4, <1>5

\* When wg1 of such a kernel is done, wg0 has no product under way.
LEMMA LastProduct ==
  ASSUME SplitInRange, IInv, ~Persistent, pc["wg1"] = "done"
  PROVE  pc["wg0"] \notin InIteration
<1> USE DEF IInv
<1> SUFFICES ASSUME pc["wg0"] \in InIteration PROVE FALSE
  OBVIOUS
<1>1. Tiles = 1
  BY KernelAssumption DEF Types, WorkTypes, Persistent, Tiles
<1>2. /\ "wg0" \in WGs /\ "wg1" \in WGs /\ pc["wg0"] # "done"
      /\ pc["wg0"] \notin {"free_q", "output"}
  BY DEF WGs, InIteration
<1>3. tile["wg1"] = 2 /\ tile["wg0"] = 1
  BY <1>1, <1>2, TileFacts
<1>4. /\ Before("wg0") \in Nat /\ Before("wg1") \in Nat
      /\ Before("wg0") < Before("wg1")
      /\ Before("wg1") + In("wg1", {"pv"}) + 2
           - In("wg1", {"prologue", "await", "done", "first_turn"}) =<
           Before("wg0") + In("wg0", PastQK) + 1 - 1 + In("wg0", {"free_q", "output"})
  BY <1>3, Pair
<1>5. /\ In("wg1", {"pv"}) = 0
      /\ In("wg1", {"prologue", "await", "done", "first_turn"}) = 1
      /\ In("wg0", PastQK) \in {0, 1} /\ In("wg0", {"free_q", "output"}) = 0
  BY <1>2 DEF In
<1> QED BY <1>4, <1>5

\* Outputs and residuals are written over parts of Q and K that no copy fills
\* and no product reads any more, if those of wg0 stay within its rows of Q
\* (pallas_mosaic_gpu_kernel_sm90.py:99-105, 500-551).
THEOREM OutputIsAlone ==
  ASSUME SplitInRange, OverlayOwn
  PROVE  Spec => []OutputAlone
<1>1. ASSUME IInv, Overlaid PROVE OutputAlone
  <2>1. \A p \in overlaid : p \in Covered
    BY <1>1, KernelAssumption DEF Overlaid, IInv, Types, WorkTypes, Launch
  <2>2. ASSUME NEW w \in WGs, NEW b \in Reads(w),
               (IF b = Q THEN Rows(w) ELSE b) \in overlaid
        PROVE  FALSE
    <3> DEFINE p == IF b = Q THEN Rows(w) ELSE b
    <3>1. PICK x \in WGs : ~Persistent /\ pc[x] = "done" /\ p \in launch.under[x]
      BY <1>1, <2>2 DEF Overlaid
    <3>2. pc[w] \in InIteration
      BY <2>2 DEF Reads, InIteration
    <3>3. w # x
      BY <3>1, <3>2 DEF InIteration
    <3>4. CASE w = "wg0"
      BY <1>1, <3>1, <3>2, <3>3, <3>4, LastProduct DEF WGs
    <3>5. CASE w = "wg1"
      <4>1. p = Rows("wg0")
        BY <1>1, <3>1, <3>3, <3>5 DEF WGs, OverlayOwn, IInv, Types, WorkTypes
      <4>2. b # Q
        BY <3>5, <4>1 DEF Rows
      <4>3. \E kind \in {"k", "bias", "mask", "v"} : b[1] = kind
        BY <2>2, <4>2 DEF Reads, Here
      <4> QED BY <4>1, <4>2, <4>3 DEF Rows
    <3> QED BY <3>4, <3>5 DEF WGs
  <2>3. ASSUME NEW c \in copying, NEW p \in Filled(c), p \in overlaid
        PROVE  FALSE
    <3>1. PICK x \in WGs : ~Persistent /\ pc[x] = "done"
      BY <1>1, <2>3 DEF Overlaid
    <3>2. c[1][1] \notin {"q", "k"}
      BY <1>1, <3>1, LastCopies
    <3>3. p = c[1]
      BY <2>3, <3>2 DEF Filled, Q
    <3>4. p[1] \in {"q", "k"}
      BY <2>1, <2>3 DEF Covered, Rows
    <3> QED BY <3>2, <3>3, <3>4
  <2> QED BY <2>2, <2>3 DEF OutputAlone, Held
<1>2. Init => Overlaid
  BY DEF Init, Overlaid
<1>3. IInv /\ Overlaid /\ [Next]_vars => Overlaid'
  BY NextOverlays
<1> QED BY <1>1, <1>2, <1>3, Invariance, PTL DEF Spec
=============================================================================

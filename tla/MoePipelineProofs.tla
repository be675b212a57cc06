------------------------- MODULE MoePipelineProofs -------------------------
(***************************************************************************)
(* Proofs about MoePipeline, for every prefetch distance, build and list of *)
(* experts of any length: the buffers that the kernel uses in turns are     *)
(* free when they are refilled and hold what a product is made of, and a    *)
(* run leaves nothing behind.                                               *)
(*                                                                          *)
(* The copies that have started and that nobody has waited for, Due, follow *)
(* from where the core stands: whichever of them have landed, the core has  *)
(* come as far.  What is in flight is some of them; the semaphore of one    *)
(* that is not in flight holds its amount, and its target holds its data.   *)
(* No two of them meet in a buffer, so each can land without harm.          *)
(*                                                                          *)
(* At the end the same of MoeCombine, for every number of buffers, every    *)
(* lead below it and every number of steps that combine_step_tokens admits. *)
(* The requests in flight or waited for are a run of consecutive numbers,   *)
(* Consumed..Requested-1, no longer than the rotation; so are the stores,   *)
(* Released..step-1.  Numbers less than Parities apart have different       *)
(* buffers, so every semaphore counts one copy at most, and the copy it     *)
(* counts is the one that the core waits for.                               *)
(***************************************************************************)
EXTENDS MoePipeline, MoeCombine, FiniteSums, FunctionTheorems, FiniteSetTheorems, TLAPS

Kinds == {"w1", "w2", "scales"}
Tiling == {"guard", "rows", "next", "gate", "down"}
AfterWeights == Tiling \cup {"tail", "prime", "flush"}

\* The core has waited for its expert's weights of this kind: at the head of
\* the visit, or at the block that opens the slab.
WaitedHere(kind) ==
  IF kind \in AtHead THEN pc \in AfterWeights
  ELSE IF kind = "w1" THEN
    (pc \in {"guard", "rows", "next", "gate"} /\ t > 0) \/ pc \in {"down", "tail", "prime", "flush"}
  ELSE (pc \in Tiling /\ t > 0) \/ pc \in {"tail", "prime", "flush"}

\* The streamed weights of the next expert that are on their way already.
StartedNext(kind) ==
  \/ pc \in {"prime", "flush"}
  \/ kind = "w1" /\ (pc = "tail" \/ (pc = "down" /\ LastTile))

Started(kind, i) ==
  IF Prefetches
  THEN pc # "prologue" /\ i < visit + schedule.distance + (IF pc \in AfterWeights THEN 1 ELSE 0)
  ELSE \/ i < visit
       \/ i = visit /\ (pc = "head" => schedule.streams /\ visit > 0)
       \/ schedule.streams /\ visit >= 0 /\ i = visit + 1 /\ StartedNext(kind)

WeightAwaited(kind, i) == Started(kind, i) /\ ~(i < visit \/ (i = visit /\ WaitedHere(kind)))

WindowAwaited(tile, slot) ==
  \/ pc = "prime" /\ tile = <<visit + 1, 0>> /\ slot = wslot
  \/ pc = "flush" /\ tile = <<visit + 1, 1>> /\ slot = 1 - wslot
  \/ /\ pc \in {"head", "weights", "guard", "rows", "next"}
     /\ tile = <<visit, t + 1>> /\ slot = (wslot + t + 1) % 2
  \/ pc \in {"gate", "down"} /\ tile = <<visit, t + 2>> /\ slot = (wslot + t + 2) % 2
  \/ /\ pc = "tail" \/ (pc \in {"gate", "down"} /\ LastTile)
     /\ tile = <<visit + 1, 0>> /\ slot = NextWslot

RowsAwaited(tile, parity) ==
  \/ pc = "flush" /\ tile = <<visit + 1, 0>> /\ parity = Parity
  \/ pc \in {"head", "weights", "guard", "rows"} /\ tile = Tile /\ parity = Parity
  \/ pc \in {"gate", "down"} /\ tile = <<visit, t + 1>> /\ parity = 1 - Parity

RowsOf(tile, parity) == Load(<<"lhs", parity>>, tile, Blocks(tile))

WeightsDue ==
  {Load1(w[1], w[2]) : w \in {w \in Kinds \X Visits : WeightAwaited(w[1], w[2])}}
WindowsDue ==
  {Window(w[1], w[2]) : w \in {w \in Tiles \X Slots : WindowAwaited(w[1], w[2])}}
RowsDue ==
  {RowsOf(w[1], w[2]) : w \in {w \in Tiles \X Slots : RowsAwaited(w[1], w[2])}}

\* Where a tile goes from the staging buffers, and the tile in one of them.
RowsTo == IF schedule.ship THEN "recv" ELSE "contrib"
SclTo == IF schedule.ship THEN "rscl" ELSE "cscl"
Staged(p) == mem[<<"out", p>>]

\* From the reuse guard on the core has waited for the parity of its tile.
Leaving(p) ==
  owed[p] > 0 /\ pc # "done" /\ (p = Parity => pc \notin {"rows", "next", "gate", "down"})

RowsOut(p) == Move(Only(<<RowsTo, Staged(p)>>, <<"out", p>>), <<"out", p>>, owed[p])
SclOut(p) == Move(Only(<<SclTo, Staged(p)>>, <<"oscl", p>>), <<"oscl", p>>, 1)
OutsDue == {RowsOut(p) : p \in {p \in Slots : Leaving(p)}} \cup {SclOut(p) : p \in {p \in Slots : Leaving(p)}}

PushRows(i) ==
  Move([p \in {"recv"} \X TilesOf(i) |-> <<"contrib", p[2]>>], <<"push", 0>>,
       MapThenSumSet(Blocks, TilesOf(i)))
PushScl(i) ==
  Move([p \in {"rscl"} \X TilesOf(i) |-> <<"cscl", p[2]>>], <<"push scl", 0>>, NumTiles(i))
Pushed(i) == ~schedule.ship /\ pc # "done" /\ i < visit
PushesDue == {PushRows(i) : i \in {i \in Visits : Pushed(i)}} \cup {PushScl(i) : i \in {i \in Visits : Pushed(i)}}

LoadsDue == WeightsDue \cup WindowsDue \cup RowsDue
Single == LoadsDue \cup OutsDue
Due == Single \cup PushesDue

\* What a copy brings to one of its targets.
Gives(c, to) == IF c.moves[to][1] = "hbm" THEN c.moves[to][2] ELSE to[2]

Computed(tile) ==
  tile[1] < visit \/ (tile[1] = visit /\ (tile[2] < t \/ pc \in {"tail", "prime", "flush"}))

-----------------------------------------------------------------------------
PlaceInv ==
  /\ schedule \in Schedules
  /\ pc \in Tiling \cup {"prologue", "prime", "head", "weights", "tail", "flush", "transport", "done"}
  /\ visit \in Int /\ t \in Nat /\ count \in Nat /\ wslot \in Slots
  /\ owed \in [Slots -> Nat] /\ sem \in [Sems -> Nat] /\ mem = [place \in Places |-> mem[place]]
  /\ pc = "prologue" => visit = -1 /\ t = 0 /\ wslot = 0 /\ count = 0
  /\ pc = "prime" => visit >= -1 /\ visit + 1 \in Visits /\ t = 0
  /\ visit = -1 => owed = [p \in Slots |-> 0]
  /\ pc \in Tiling \cup {"head", "weights", "tail", "flush"} => visit \in Visits /\ t < NumTiles(visit)
  /\ pc \in {"head", "weights", "tail", "flush", "transport", "done"} => t = 0
  /\ pc = "next" => ~LastTile
  /\ pc \in {"transport", "done"} => visit = NumVisits \/ (NumVisits = 0 /\ visit = -1)

FlyingDue == flying \subseteq Due

\* A semaphore holds the amount of the copy that is due when it has landed.
SemDue ==
  /\ \A c \in Single : sem[c.sem] = IF c \in flying THEN 0 ELSE c.amount
  /\ \A s \in Sems : s[1] \notin {"push", "push scl"} /\ (\A c \in Single : c.sem # s) => sem[s] = 0

\* The semaphores of the pushes hold what has landed of all of them.
RowsPushed == {tile \in Tiles : Pushed(tile[1]) /\ PushRows(tile[1]) \notin flying}
SclPushed == {tile \in Tiles : Pushed(tile[1]) /\ PushScl(tile[1]) \notin flying}

PushInv ==
  /\ sem[<<"push", 0>>] = MapThenSumSet(Blocks, RowsPushed)
  /\ sem[<<"push scl", 0>>] = Cardinality(SclPushed)

\* What has landed is there until it is waited for.
Given == \A c \in Due \ flying : \A to \in DOMAIN c.moves : mem[to] = Gives(c, to)

Using(kind) ==
  pc \in Tiling /\ WaitedHere(kind) /\ (kind = "w1" /\ pc = "down" => ~LastTile)
WeightsHeld == \A kind \in Kinds : Using(kind) => mem[<<kind, WeightSlot(visit)>>] = <<visit>>

RowsHeld ==
  /\ pc \in {"next", "gate"} => mem[<<"lhs", Parity>>] = Tile
  /\ pc = "down" => act = Tile

OutInv ==
  /\ \A p \in Slots : owed[p] > 0 =>
       /\ Staged(p) \in Tiles /\ Computed(Staged(p)) /\ mem[<<"oscl", p>>] = Staged(p)
       /\ owed[p] = Blocks(Staged(p))
       /\ ~schedule.ship => Staged(p)[1] = visit
  /\ owed[0] > 0 /\ owed[1] > 0 => Staged(0) # Staged(1)

Delivered ==
  \A tile \in Tiles : Computed(tile) /\ (\A p \in Slots : Leaving(p) => Staged(p) # tile) =>
    mem[<<RowsTo, tile>>] = tile /\ mem[<<SclTo, tile>>] = tile

PushDelivered ==
  pc = "done" /\ ~schedule.ship =>
    \A tile \in Tiles : mem[<<"recv", tile>>] = tile /\ mem[<<"rscl", tile>>] = tile

IInv ==
  /\ PlaceInv /\ FlyingDue /\ SemDue /\ PushInv /\ Given
  /\ WeightsHeld /\ RowsHeld /\ OutInv /\ Delivered /\ PushDelivered

Apart ==
  \A c, d \in Due : c # d =>
    /\ c.sem = d.sem => c.sem[1] \in {"push", "push scl"}
    /\ DOMAIN c.moves \cap DOMAIN d.moves = {}
    /\ \A to \in DOMAIN c.moves : c.moves[to] \notin DOMAIN d.moves
GivesRight == \A c \in Due : \A to \in DOMAIN c.moves : Content(c.moves[to]) = Gives(c, to)

-----------------------------------------------------------------------------
LEMMA PairIs == \A s, a, b : s = <<a, b>> => s[1] = a /\ s[2] = b
OBVIOUS

LEMMA LoadIs ==
  ASSUME NEW place, NEW data, NEW amount, NEW c, c = Load(place, data, amount)
  PROVE  /\ DOMAIN c.moves = {place} /\ c.moves[place] = <<"hbm", data>>
         /\ c.sem = place /\ c.amount = amount
BY DEF Load, Only

LEMMA MoveIs ==
  ASSUME NEW moves, NEW s, NEW amount, NEW c, c = Move(moves, s, amount)
  PROVE  c.moves = moves /\ c.sem = s /\ c.amount = amount
BY DEF Move

LEMMA OnlyIs ==
  ASSUME NEW key, NEW value, NEW f, f = Only(key, value)
  PROVE  DOMAIN f = {key} /\ f[key] = value
BY DEF Only

LEMMA Turn == \A n \in Nat : n % 2 \in Slots /\ (n + 1) % 2 = 1 - (n % 2) /\ (n + 2) % 2 = n % 2
BY DEF Slots

LEMMA ScheduleIs ==
  ASSUME schedule \in Schedules
  PROVE  /\ schedule.distance \in 0..2 /\ schedule.streams \in BOOLEAN /\ schedule.ship \in BOOLEAN
         /\ NumVisits \in Nat
         /\ Visits = {i \in Nat : i < NumVisits}
         /\ \A i \in Visits : NumTiles(i) \in Nat /\ NumTiles(i) > 0
<1>1. schedule.distance \in 0..2 /\ schedule.streams \in BOOLEAN /\ schedule.ship \in BOOLEAN
      /\ schedule.tiles \in Seq(Nat \ {0})
  BY ScheduleTypes
<1> QED BY <1>1 DEF NumVisits, Visits, NumTiles

LEMMA BlocksIs ==
  ASSUME NEW tile
  PROVE  Blocks(tile) \in 1..2 /\ Blocks(tile) \in Nat
BY DEF Blocks

-----------------------------------------------------------------------------
(* What is due, one family of copies after the other.                        *)

\* Experts that are closer than there are slots have different ones.
LEMMA SlotsDiffer ==
  ASSUME schedule \in Schedules, NEW i \in Nat
  PROVE  /\ WeightSlot(i) \in 0..2 /\ Nbuf \in 1..3
         /\ \A j \in Nat : i < j /\ j < i + Nbuf => WeightSlot(i) # WeightSlot(j)
<1>1. Nbuf \in 1..3
  BY ScheduleIs DEF Nbuf
<1>2. CASE Nbuf = 1
  BY <1>2 DEF WeightSlot
<1>3. CASE Nbuf = 2
  BY <1>3 DEF WeightSlot
<1>4. CASE Nbuf = 3
  BY <1>4 DEF WeightSlot
<1> QED BY <1>1, <1>2, <1>3, <1>4

LEMMA WeightsAre ==
  \A c : c \in WeightsDue <=>
    \E kind \in Kinds, i \in Visits : WeightAwaited(kind, i) /\ c = Load1(kind, i)
<1> SUFFICES ASSUME NEW c
             PROVE c \in WeightsDue <=>
               \E kind \in Kinds, i \in Visits : WeightAwaited(kind, i) /\ c = Load1(kind, i)
  OBVIOUS
<1> DEFINE W == {w \in Kinds \X Visits : WeightAwaited(w[1], w[2])}
<1>1. c \in WeightsDue <=> \E w \in W : c = Load1(w[1], w[2])
  BY DEF WeightsDue
<1>2. ASSUME NEW w \in W, c = Load1(w[1], w[2])
      PROVE  \E kind \in Kinds, i \in Visits : WeightAwaited(kind, i) /\ c = Load1(kind, i)
  <2>1. w[1] \in Kinds /\ w[2] \in Visits /\ WeightAwaited(w[1], w[2])
    OBVIOUS
  <2> QED BY <1>2, <2>1
<1>3. ASSUME NEW kind \in Kinds, NEW i \in Visits, WeightAwaited(kind, i), c = Load1(kind, i)
      PROVE  \E w \in W : c = Load1(w[1], w[2])
  <2> DEFINE w == <<kind, i>>
  <2>1. w \in Kinds \X Visits /\ w[1] = kind /\ w[2] = i
    OBVIOUS
  <2> HIDE DEF w
  <2> QED BY <1>3, <2>1
<1> HIDE DEF W
<1> QED BY <1>1, <1>2, <1>3

LEMMA WindowsAre ==
  \A c : c \in WindowsDue <=>
    \E tile \in Tiles, slot \in Slots : WindowAwaited(tile, slot) /\ c = Window(tile, slot)
<1> SUFFICES ASSUME NEW c
             PROVE c \in WindowsDue <=>
               \E tile \in Tiles, slot \in Slots : WindowAwaited(tile, slot) /\ c = Window(tile, slot)
  OBVIOUS
<1> DEFINE W == {w \in Tiles \X Slots : WindowAwaited(w[1], w[2])}
<1>1. c \in WindowsDue <=> \E w \in W : c = Window(w[1], w[2])
  BY DEF WindowsDue
<1>2. ASSUME NEW w \in W, c = Window(w[1], w[2])
      PROVE  \E tile \in Tiles, slot \in Slots : WindowAwaited(tile, slot) /\ c = Window(tile, slot)
  <2>1. w[1] \in Tiles /\ w[2] \in Slots /\ WindowAwaited(w[1], w[2])
    OBVIOUS
  <2> QED BY <1>2, <2>1
<1>3. ASSUME NEW tile \in Tiles, NEW slot \in Slots, WindowAwaited(tile, slot), c = Window(tile, slot)
      PROVE  \E w \in W : c = Window(w[1], w[2])
  <2> DEFINE w == <<tile, slot>>
  <2>1. w \in Tiles \X Slots /\ w[1] = tile /\ w[2] = slot
    OBVIOUS
  <2> HIDE DEF w
  <2> QED BY <1>3, <2>1
<1> HIDE DEF W
<1> QED BY <1>1, <1>2, <1>3

LEMMA RowsAre ==
  \A c : c \in RowsDue <=>
    \E tile \in Tiles, parity \in Slots : RowsAwaited(tile, parity) /\ c = RowsOf(tile, parity)
<1> SUFFICES ASSUME NEW c
             PROVE c \in RowsDue <=>
               \E tile \in Tiles, parity \in Slots : RowsAwaited(tile, parity) /\ c = RowsOf(tile, parity)
  OBVIOUS
<1> DEFINE W == {w \in Tiles \X Slots : RowsAwaited(w[1], w[2])}
<1>1. c \in RowsDue <=> \E w \in W : c = RowsOf(w[1], w[2])
  BY DEF RowsDue
<1>2. ASSUME NEW w \in W, c = RowsOf(w[1], w[2])
      PROVE  \E tile \in Tiles, parity \in Slots : RowsAwaited(tile, parity) /\ c = RowsOf(tile, parity)
  <2>1. w[1] \in Tiles /\ w[2] \in Slots /\ RowsAwaited(w[1], w[2])
    OBVIOUS
  <2> QED BY <1>2, <2>1
<1>3. ASSUME NEW tile \in Tiles, NEW parity \in Slots, RowsAwaited(tile, parity), c = RowsOf(tile, parity)
      PROVE  \E w \in W : c = RowsOf(w[1], w[2])
  <2> DEFINE w == <<tile, parity>>
  <2>1. w \in Tiles \X Slots /\ w[1] = tile /\ w[2] = parity
    OBVIOUS
  <2> HIDE DEF w
  <2> QED BY <1>3, <2>1
<1> HIDE DEF W
<1> QED BY <1>1, <1>2, <1>3

LEMMA OutsAre ==
  \A c : c \in OutsDue <=> \E p \in Slots : Leaving(p) /\ (c = RowsOut(p) \/ c = SclOut(p))
BY DEF OutsDue

LEMMA PushesAre ==
  \A c : c \in PushesDue <=> \E i \in Visits : Pushed(i) /\ (c = PushRows(i) \/ c = PushScl(i))
BY DEF PushesDue

LEMMA TilesAre ==
  /\ \A i, u : <<i, u>> \in Tiles <=> i \in Visits /\ u \in 0..NumTiles(i) - 1
  /\ \A tile \in Tiles : /\ tile = <<tile[1], tile[2]>> /\ tile[1] \in Visits
                         /\ tile[2] \in 0..NumTiles(tile[1]) - 1 /\ tile \in TilesOf(tile[1])
  /\ \A i \in Visits : \A tile \in TilesOf(i) : tile \in Tiles /\ tile[1] = i
<1>1. \A tile : tile \in Tiles <=> \E i \in Visits : tile \in TilesOf(i)
  BY DEF Tiles
<1>2. ASSUME NEW i, NEW tile \in TilesOf(i)
      PROVE  tile = <<tile[1], tile[2]>> /\ tile[1] = i /\ tile[2] \in 0..NumTiles(i) - 1
  BY DEF TilesOf
<1>3. \A i, u : <<i, u>> \in TilesOf(i) <=> u \in 0..NumTiles(i) - 1
  BY DEF TilesOf
<1>4. \A i, j, u : <<i, u>> \in TilesOf(j) => i = j
  BY DEF TilesOf
<1> QED BY <1>1, <1>2, <1>3, <1>4

LoadPlaces == (Kinds \X (0..2)) \cup ({"window", "lhs"} \X Slots)

LEMMA PlacesAre ==
  /\ \A kind \in Kinds, n \in 0..2 : <<kind, n>> \in LoadPlaces /\ <<kind, n>>[1] = kind
  /\ \A n \in Slots : <<"window", n>> \in LoadPlaces /\ <<"lhs", n>> \in LoadPlaces
  /\ \A n \in Slots : <<"out", n>> \in Sems /\ <<"oscl", n>> \in Sems
                      /\ <<"out", n>> \in Places /\ <<"oscl", n>> \in Places
  /\ LoadPlaces \subseteq Places /\ LoadPlaces \subseteq Sems
  /\ \A s \in LoadPlaces : s[1] \in Kinds \cup {"window", "lhs"}
  /\ \A name \in {"contrib", "cscl", "recv", "rscl"}, tile \in Tiles : <<name, tile>> \in Places
  /\ <<"push", 0>> \in Sems /\ <<"push scl", 0>> \in Sems
BY DEF LoadPlaces, Kinds, Places, Sems, Slots

LEMMA LoadFacts ==
  PlaceInv => \A c \in LoadsDue :
    /\ DOMAIN c.moves = {c.sem} /\ c.moves[c.sem][1] = "hbm"
    /\ Gives(c, c.sem) = c.moves[c.sem][2] /\ Content(c.moves[c.sem]) = c.moves[c.sem][2]
    /\ c.sem \in LoadPlaces /\ c.amount \in Nat /\ c.amount > 0
<1> SUFFICES ASSUME PlaceInv, NEW c \in LoadsDue
             PROVE  /\ DOMAIN c.moves = {c.sem} /\ c.moves[c.sem][1] = "hbm"
                    /\ Gives(c, c.sem) = c.moves[c.sem][2] /\ Content(c.moves[c.sem]) = c.moves[c.sem][2]
                    /\ c.sem \in LoadPlaces /\ c.amount \in Nat /\ c.amount > 0
  OBVIOUS
<1>0. SUFFICES \E place \in LoadPlaces : \E data : \E amount \in Nat :
                 c = Load(place, data, amount) /\ amount > 0
  <2>1. PICK place \in LoadPlaces : \E data : \E amount \in Nat :
               c = Load(place, data, amount) /\ amount > 0
    BY <1>0
  <2>2. PICK data, amount : amount \in Nat /\ c = Load(place, data, amount) /\ amount > 0
    BY <2>1
  <2>3. DOMAIN c.moves = {place} /\ c.moves[place] = <<"hbm", data>> /\ c.sem = place /\ c.amount = amount
    BY <2>2, LoadIs
  <2> QED BY <2>1, <2>2, <2>3 DEF Gives, Content
<1>1. CASE c \in WeightsDue
  <2>1. PICK kind \in Kinds, i \in Visits : c = Load1(kind, i)
    BY <1>1, WeightsAre
  <2>2. WeightSlot(i) \in 0..2
    <3>1. i \in Nat /\ schedule \in Schedules
      BY DEF Visits, PlaceInv
    <3> QED BY <3>1, SlotsDiffer
  <2>3. <<kind, WeightSlot(i)>> \in LoadPlaces
    BY <2>2, PlacesAre
  <2> QED BY <2>1, <2>3 DEF Load1
<1>2. CASE c \in WindowsDue
  <2>1. PICK tile \in Tiles, slot \in Slots : c = Window(tile, slot)
    BY <1>2, WindowsAre
  <2>2. <<"window", slot>> \in LoadPlaces
    BY PlacesAre
  <2> QED BY <2>1, <2>2 DEF Window
<1>3. CASE c \in RowsDue
  <2>1. PICK tile \in Tiles, parity \in Slots : c = RowsOf(tile, parity)
    BY <1>3, RowsAre
  <2>2. <<"lhs", parity>> \in LoadPlaces
    BY PlacesAre
  <2>3. Blocks(tile) \in Nat /\ Blocks(tile) > 0
    BY BlocksIs
  <2> QED BY <2>1, <2>2, <2>3 DEF RowsOf
<1> QED BY <1>1, <1>2, <1>3 DEF LoadsDue

LEMMA WeightsNear ==
  PlaceInv => \A kind \in Kinds : \A i, j \in Visits :
    WeightAwaited(kind, i) /\ WeightAwaited(kind, j) /\ i < j => j < i + Nbuf
<1> SUFFICES ASSUME PlaceInv, NEW kind \in Kinds, NEW i \in Visits, NEW j \in Visits,
                    WeightAwaited(kind, i), WeightAwaited(kind, j), i < j
             PROVE  j < i + Nbuf
  OBVIOUS
<1>1. i \in Nat /\ j \in Nat /\ visit \in Int /\ schedule.distance \in 0..2
  BY ScheduleIs DEF PlaceInv, Visits
<1>2. CASE Prefetches
  BY <1>1, <1>2 DEF WeightAwaited, Started, Nbuf
<1>3. CASE ~Prefetches
  <2>1. Nbuf = 1
    BY <1>1, <1>3 DEF Nbuf, Prefetches
  <2>2. i = visit /\ j = visit + 1 /\ schedule.streams /\ StartedNext(kind) /\ ~WaitedHere(kind)
    BY <1>1, <1>3 DEF WeightAwaited, Started
  <2> QED BY <2>2 DEF StartedNext, WaitedHere, AtHead, AfterWeights, Tiling, Kinds
<1> QED BY <1>2, <1>3

LEMMA WindowAlone ==
  PlaceInv => \A one, other \in Tiles, s, r \in Slots :
    WindowAwaited(one, s) /\ WindowAwaited(other, r) => one = other /\ s = r
<1> SUFFICES ASSUME PlaceInv, NEW one \in Tiles, NEW other \in Tiles, NEW s \in Slots, NEW r \in Slots,
                    WindowAwaited(one, s), WindowAwaited(other, r)
             PROVE  one = other /\ s = r
  OBVIOUS
<1>1. t \in Nat /\ (pc \in {"gate", "down"} => visit \in Visits /\ t < NumTiles(visit) /\ NumTiles(visit) \in Nat)
  BY ScheduleIs DEF PlaceInv, Tiling
<1>2. ~ (pc \in {"gate", "down"} /\ LastTile /\ <<visit, t + 2>> \in Tiles)
  BY <1>1, TilesAre DEF LastTile
<1> QED BY <1>2 DEF WindowAwaited

LEMMA RowsAlone ==
  PlaceInv => \A one, other \in Tiles, s, r \in Slots :
    RowsAwaited(one, s) /\ RowsAwaited(other, r) => one = other /\ s = r
BY DEF RowsAwaited

LEMMA LoadsApart ==
  PlaceInv => \A c, d \in LoadsDue : c.sem = d.sem => c = d
<1> SUFFICES ASSUME PlaceInv, NEW c \in LoadsDue, NEW d \in LoadsDue, c.sem = d.sem
             PROVE  c = d
  OBVIOUS
<1>1. \A x \in LoadsDue :
        \/ \E kind \in Kinds, i \in Visits : /\ WeightAwaited(kind, i) /\ x = Load1(kind, i)
                                            /\ x.sem = <<kind, WeightSlot(i)>>
        \/ \E tile \in Tiles, slot \in Slots : /\ WindowAwaited(tile, slot) /\ x = Window(tile, slot)
                                               /\ x.sem = <<"window", slot>>
        \/ \E tile \in Tiles, parity \in Slots : /\ RowsAwaited(tile, parity) /\ x = RowsOf(tile, parity)
                                                 /\ x.sem = <<"lhs", parity>>
  <2>1. \A kind, i : Load1(kind, i).sem = <<kind, WeightSlot(i)>>
    BY LoadIs DEF Load1
  <2>2. \A tile, slot : Window(tile, slot).sem = <<"window", slot>>
    BY LoadIs DEF Window
  <2>3. \A tile, parity : RowsOf(tile, parity).sem = <<"lhs", parity>>
    BY LoadIs DEF RowsOf
  <2> QED BY <2>1, <2>2, <2>3, WeightsAre, WindowsAre, RowsAre DEF LoadsDue
<1>2. CASE \E k, l \in Kinds, i, j \in Visits :
              /\ WeightAwaited(k, i) /\ c = Load1(k, i) /\ c.sem = <<k, WeightSlot(i)>>
              /\ WeightAwaited(l, j) /\ d = Load1(l, j) /\ d.sem = <<l, WeightSlot(j)>>
  <2>1. PICK k, l \in Kinds, i, j \in Visits :
              /\ WeightAwaited(k, i) /\ c = Load1(k, i) /\ c.sem = <<k, WeightSlot(i)>>
              /\ WeightAwaited(l, j) /\ d = Load1(l, j) /\ d.sem = <<l, WeightSlot(j)>>
    BY <1>2
  <2>2. k = l /\ WeightSlot(i) = WeightSlot(j)
    BY <2>1
  <2>3. i \in Nat /\ j \in Nat /\ schedule \in Schedules
    BY DEF Visits, PlaceInv
  <2>4. ~(i < j) /\ ~(j < i)
    BY <2>1, <2>2, <2>3, WeightsNear, SlotsDiffer
  <2> QED BY <2>1, <2>2, <2>3, <2>4
<1>3. CASE \E one, other \in Tiles, s, r \in Slots :
              /\ WindowAwaited(one, s) /\ c = Window(one, s)
              /\ WindowAwaited(other, r) /\ d = Window(other, r)
  BY <1>3, WindowAlone
<1>4. CASE \E one, other \in Tiles, s, r \in Slots :
              /\ RowsAwaited(one, s) /\ c = RowsOf(one, s)
              /\ RowsAwaited(other, r) /\ d = RowsOf(other, r)
  BY <1>4, RowsAlone
<1>5. \A k, n, m : k \in Kinds => <<k, n>> # <<"window", m>> /\ <<k, n>> # <<"lhs", m>>
  BY DEF Kinds
<1>6. \A n, m : <<"window", n>> # <<"lhs", m>>
  OBVIOUS
<1> QED BY <1>1, <1>2, <1>3, <1>4, <1>5, <1>6

\* Where a result goes, and the expert it is of.
LEMMA OutFacts ==
  PlaceInv /\ OutInv => \A p \in Slots : Leaving(p) =>
    /\ Staged(p) \in Tiles /\ mem[<<"oscl", p>>] = Staged(p)
    /\ RowsOut(p).sem = <<"out", p>> /\ SclOut(p).sem = <<"oscl", p>>
    /\ RowsOut(p).amount = owed[p] /\ owed[p] \in Nat /\ owed[p] > 0 /\ SclOut(p).amount = 1
    /\ DOMAIN RowsOut(p).moves = {<<RowsTo, Staged(p)>>}
    /\ RowsOut(p).moves[<<RowsTo, Staged(p)>>] = <<"out", p>>
    /\ DOMAIN SclOut(p).moves = {<<SclTo, Staged(p)>>}
    /\ SclOut(p).moves[<<SclTo, Staged(p)>>] = <<"oscl", p>>
    /\ ~schedule.ship => Staged(p)[1] = visit
<1> SUFFICES ASSUME PlaceInv, OutInv, NEW p \in Slots, Leaving(p)
             PROVE  /\ Staged(p) \in Tiles /\ mem[<<"oscl", p>>] = Staged(p)
                    /\ RowsOut(p).sem = <<"out", p>> /\ SclOut(p).sem = <<"oscl", p>>
                    /\ RowsOut(p).amount = owed[p] /\ owed[p] \in Nat /\ owed[p] > 0
                    /\ SclOut(p).amount = 1
                    /\ DOMAIN RowsOut(p).moves = {<<RowsTo, Staged(p)>>}
                    /\ RowsOut(p).moves[<<RowsTo, Staged(p)>>] = <<"out", p>>
                    /\ DOMAIN SclOut(p).moves = {<<SclTo, Staged(p)>>}
                    /\ SclOut(p).moves[<<SclTo, Staged(p)>>] = <<"oscl", p>>
                    /\ ~schedule.ship => Staged(p)[1] = visit
  OBVIOUS
<1>1. owed[p] \in Nat /\ owed[p] > 0
  BY DEF PlaceInv, Leaving
<1>2. /\ RowsOut(p).sem = <<"out", p>> /\ RowsOut(p).amount = owed[p]
      /\ RowsOut(p).moves = Only(<<RowsTo, Staged(p)>>, <<"out", p>>)
  BY MoveIs DEF RowsOut
<1>3. /\ SclOut(p).sem = <<"oscl", p>> /\ SclOut(p).amount = 1
      /\ SclOut(p).moves = Only(<<SclTo, Staged(p)>>, <<"oscl", p>>)
  BY MoveIs DEF SclOut
<1>4. /\ DOMAIN RowsOut(p).moves = {<<RowsTo, Staged(p)>>}
      /\ RowsOut(p).moves[<<RowsTo, Staged(p)>>] = <<"out", p>>
  <2> DEFINE to == <<RowsTo, Staged(p)>>
             from == <<"out", p>>
             f == RowsOut(p).moves
  <2>1. f = Only(to, from)
    BY <1>2
  <2> HIDE DEF to, from, f
  <2>2. DOMAIN f = {to} /\ f[to] = from
    BY <2>1, OnlyIs
  <2> QED BY <2>2 DEF to, from, f
<1>5. /\ DOMAIN SclOut(p).moves = {<<SclTo, Staged(p)>>}
      /\ SclOut(p).moves[<<SclTo, Staged(p)>>] = <<"oscl", p>>
  <2> DEFINE to == <<SclTo, Staged(p)>>
             from == <<"oscl", p>>
             f == SclOut(p).moves
  <2>1. f = Only(to, from)
    BY <1>3
  <2> HIDE DEF to, from, f
  <2>2. DOMAIN f = {to} /\ f[to] = from
    BY <2>1, OnlyIs
  <2> QED BY <2>2 DEF to, from, f
<1> QED BY <1>1, <1>2, <1>3, <1>4, <1>5 DEF OutInv

LEMMA PushFacts ==
  /\ \A i :
       /\ PushRows(i).sem = <<"push", 0>> /\ PushScl(i).sem = <<"push scl", 0>>
       /\ DOMAIN PushRows(i).moves = {"recv"} \X TilesOf(i)
       /\ DOMAIN PushScl(i).moves = {"rscl"} \X TilesOf(i)
       /\ \A to \in {"recv"} \X TilesOf(i) : PushRows(i).moves[to] = <<"contrib", to[2]>>
       /\ \A to \in {"rscl"} \X TilesOf(i) : PushScl(i).moves[to] = <<"cscl", to[2]>>
       /\ PushRows(i).amount = MapThenSumSet(Blocks, TilesOf(i)) /\ PushScl(i).amount = NumTiles(i)
  /\ \A i : Push(i) = {PushRows(i), PushScl(i)}
<1>1. ASSUME NEW i
      PROVE  /\ PushRows(i).sem = <<"push", 0>>
             /\ DOMAIN PushRows(i).moves = {"recv"} \X TilesOf(i)
             /\ \A to \in {"recv"} \X TilesOf(i) : PushRows(i).moves[to] = <<"contrib", to[2]>>
             /\ PushRows(i).amount = MapThenSumSet(Blocks, TilesOf(i))
  <2> DEFINE m == [p \in {"recv"} \X TilesOf(i) |-> <<"contrib", p[2]>>]
             a == MapThenSumSet(Blocks, TilesOf(i))
  <2>1. PushRows(i) = Move(m, <<"push", 0>>, a)
    BY DEF PushRows
  <2>2. DOMAIN m = {"recv"} \X TilesOf(i) /\ \A to \in {"recv"} \X TilesOf(i) : m[to] = <<"contrib", to[2]>>
    OBVIOUS
  <2> HIDE DEF m, a
  <2>3. PushRows(i).moves = m /\ PushRows(i).sem = <<"push", 0>> /\ PushRows(i).amount = a
    BY <2>1, MoveIs
  <2> QED BY <2>2, <2>3 DEF a
<1>2. ASSUME NEW i
      PROVE  /\ PushScl(i).sem = <<"push scl", 0>>
             /\ DOMAIN PushScl(i).moves = {"rscl"} \X TilesOf(i)
             /\ \A to \in {"rscl"} \X TilesOf(i) : PushScl(i).moves[to] = <<"cscl", to[2]>>
             /\ PushScl(i).amount = NumTiles(i)
  <2> DEFINE m == [p \in {"rscl"} \X TilesOf(i) |-> <<"cscl", p[2]>>]
             n == NumTiles(i)
             r == <<"push scl", 0>>
  <2>1. PushScl(i) = Move(m, r, n)
    BY DEF PushScl
  <2>2. DOMAIN m = {"rscl"} \X TilesOf(i) /\ \A to \in {"rscl"} \X TilesOf(i) : m[to] = <<"cscl", to[2]>>
    OBVIOUS
  <2> HIDE DEF m, n, r
  <2>3. PushScl(i).moves = m /\ PushScl(i).sem = r /\ PushScl(i).amount = n
    BY <2>1, MoveIs
  <2> QED BY <2>2, <2>3 DEF n, r
<1>3. \A i : Push(i) = {PushRows(i), PushScl(i)}
  BY DEF Push, PushRows, PushScl
<1> QED BY <1>1, <1>2, <1>3

LEMMA OutShape ==
  PlaceInv /\ OutInv => \A c \in OutsDue :
    \E p \in Slots : /\ Leaving(p) /\ Staged(p) \in Tiles
                     /\ \/ /\ c.sem = <<"out", p>> /\ DOMAIN c.moves = {<<RowsTo, Staged(p)>>}
                           /\ c.moves[<<RowsTo, Staged(p)>>] = <<"out", p>>
                           /\ c = RowsOut(p)
                        \/ /\ c.sem = <<"oscl", p>> /\ DOMAIN c.moves = {<<SclTo, Staged(p)>>}
                           /\ c.moves[<<SclTo, Staged(p)>>] = <<"oscl", p>>
                           /\ c = SclOut(p)
<1> SUFFICES ASSUME PlaceInv, OutInv, NEW p \in Slots, Leaving(p), NEW c, c = RowsOut(p) \/ c = SclOut(p)
             PROVE  /\ Staged(p) \in Tiles
                    /\ \/ /\ c.sem = <<"out", p>> /\ DOMAIN c.moves = {<<RowsTo, Staged(p)>>}
                          /\ c.moves[<<RowsTo, Staged(p)>>] = <<"out", p>>
                          /\ c = RowsOut(p)
                       \/ /\ c.sem = <<"oscl", p>> /\ DOMAIN c.moves = {<<SclTo, Staged(p)>>}
                          /\ c.moves[<<SclTo, Staged(p)>>] = <<"oscl", p>>
                          /\ c = SclOut(p)
  BY OutsAre
<1> QED BY OutFacts

LEMMA PushShape ==
  \A c \in PushesDue :
    \E i \in Visits : /\ Pushed(i) /\ ~schedule.ship
                      /\ \/ /\ c.sem = <<"push", 0>> /\ DOMAIN c.moves = {"recv"} \X TilesOf(i)
                            /\ \A to \in DOMAIN c.moves : c.moves[to] = <<"contrib", to[2]>>
                            /\ c = PushRows(i)
                         \/ /\ c.sem = <<"push scl", 0>> /\ DOMAIN c.moves = {"rscl"} \X TilesOf(i)
                            /\ \A to \in DOMAIN c.moves : c.moves[to] = <<"cscl", to[2]>>
                            /\ c = PushScl(i)
<1> SUFFICES ASSUME NEW c \in PushesDue
             PROVE  \E i \in Visits : /\ Pushed(i) /\ ~schedule.ship
                      /\ \/ /\ c.sem = <<"push", 0>> /\ DOMAIN c.moves = {"recv"} \X TilesOf(i)
                            /\ \A to \in DOMAIN c.moves : c.moves[to] = <<"contrib", to[2]>>
                            /\ c = PushRows(i)
                         \/ /\ c.sem = <<"push scl", 0>> /\ DOMAIN c.moves = {"rscl"} \X TilesOf(i)
                            /\ \A to \in DOMAIN c.moves : c.moves[to] = <<"cscl", to[2]>>
                            /\ c = PushScl(i)
  OBVIOUS
<1>0. PICK i \in Visits : Pushed(i) /\ (c = PushRows(i) \/ c = PushScl(i))
  BY PushesAre
<1>1. ~schedule.ship
  BY <1>0 DEF Pushed
<1>2. CASE c = PushRows(i)
  <2>1. /\ c.sem = <<"push", 0>> /\ DOMAIN c.moves = {"recv"} \X TilesOf(i)
        /\ \A to \in DOMAIN c.moves : c.moves[to] = <<"contrib", to[2]>>
    BY <1>2, PushFacts
  <2> QED BY <1>0, <1>1, <1>2, <2>1
<1>3. CASE c = PushScl(i)
  <2>1. /\ c.sem = <<"push scl", 0>> /\ DOMAIN c.moves = {"rscl"} \X TilesOf(i)
        /\ \A to \in DOMAIN c.moves : c.moves[to] = <<"cscl", to[2]>>
    BY <1>3, PushFacts
  <2> QED BY <1>0, <1>1, <1>3, <2>1
<1> QED BY <1>0, <1>2, <1>3

\* The buffers that a family of copies writes, reads and is counted at.
LEMMA Heads ==
  PlaceInv /\ OutInv =>
    /\ \A c \in LoadsDue :
         /\ c.sem[1] \in Kinds \cup {"window", "lhs"}
         /\ \A to \in DOMAIN c.moves : to[1] \in Kinds \cup {"window", "lhs"} /\ c.moves[to][1] = "hbm"
    /\ \A c \in OutsDue :
         /\ c.sem[1] \in {"out", "oscl"}
         /\ \A to \in DOMAIN c.moves : to[1] \in {RowsTo, SclTo} /\ c.moves[to][1] \in {"out", "oscl"}
    /\ \A c \in PushesDue :
         /\ c.sem[1] \in {"push", "push scl"} /\ ~schedule.ship
         /\ \A to \in DOMAIN c.moves : to[1] \in {"recv", "rscl"} /\ c.moves[to][1] \in {"contrib", "cscl"}
<1> SUFFICES ASSUME PlaceInv, OutInv
             PROVE  /\ \A c \in LoadsDue :
                       /\ c.sem[1] \in Kinds \cup {"window", "lhs"}
                       /\ \A to \in DOMAIN c.moves : to[1] \in Kinds \cup {"window", "lhs"} /\ c.moves[to][1] = "hbm"
                    /\ \A c \in OutsDue :
                       /\ c.sem[1] \in {"out", "oscl"}
                       /\ \A to \in DOMAIN c.moves : to[1] \in {RowsTo, SclTo} /\ c.moves[to][1] \in {"out", "oscl"}
                    /\ \A c \in PushesDue :
                       /\ c.sem[1] \in {"push", "push scl"} /\ ~schedule.ship
                       /\ \A to \in DOMAIN c.moves : to[1] \in {"recv", "rscl"} /\ c.moves[to][1] \in {"contrib", "cscl"}
  OBVIOUS
<1>1. ASSUME NEW c \in LoadsDue
      PROVE  /\ c.sem[1] \in Kinds \cup {"window", "lhs"}
             /\ \A to \in DOMAIN c.moves : to[1] \in Kinds \cup {"window", "lhs"} /\ c.moves[to][1] = "hbm"
  <2>1. c.sem[1] \in Kinds \cup {"window", "lhs"}
    BY LoadFacts, PlacesAre
  <2> QED BY <2>1, LoadFacts
<1>2. ASSUME NEW c \in OutsDue
      PROVE  /\ c.sem[1] \in {"out", "oscl"}
             /\ \A to \in DOMAIN c.moves : to[1] \in {RowsTo, SclTo} /\ c.moves[to][1] \in {"out", "oscl"}
  <2>1. PICK p \in Slots :
          \/ /\ c.sem = <<"out", p>> /\ DOMAIN c.moves = {<<RowsTo, Staged(p)>>}
             /\ c.moves[<<RowsTo, Staged(p)>>] = <<"out", p>>
          \/ /\ c.sem = <<"oscl", p>> /\ DOMAIN c.moves = {<<SclTo, Staged(p)>>}
             /\ c.moves[<<SclTo, Staged(p)>>] = <<"oscl", p>>
    BY OutShape
  <2> QED BY <2>1
<1>3. ASSUME NEW c \in PushesDue
      PROVE  /\ c.sem[1] \in {"push", "push scl"} /\ ~schedule.ship
             /\ \A to \in DOMAIN c.moves : to[1] \in {"recv", "rscl"} /\ c.moves[to][1] \in {"contrib", "cscl"}
  <2>1. PICK i \in Visits :
          /\ ~schedule.ship
          /\ \/ /\ c.sem = <<"push", 0>> /\ DOMAIN c.moves = {"recv"} \X TilesOf(i)
                /\ \A to \in DOMAIN c.moves : c.moves[to] = <<"contrib", to[2]>>
             \/ /\ c.sem = <<"push scl", 0>> /\ DOMAIN c.moves = {"rscl"} \X TilesOf(i)
                /\ \A to \in DOMAIN c.moves : c.moves[to] = <<"cscl", to[2]>>
    BY PushShape
  <2>2. CASE /\ c.sem = <<"push", 0>> /\ DOMAIN c.moves = {"recv"} \X TilesOf(i)
             /\ \A to \in DOMAIN c.moves : c.moves[to] = <<"contrib", to[2]>>
    <3>1. c.sem[1] = "push"
      BY <2>2, PairIs
    <3>2. \A to \in DOMAIN c.moves : to[1] = "recv"
      BY <2>2
    <3>3. \A to \in DOMAIN c.moves : c.moves[to][1] = "contrib"
      <4>1. \A x : <<"contrib", x>>[1] = "contrib"
        OBVIOUS
      <4> QED BY <2>2, <4>1
    <3> QED BY <2>1, <3>1, <3>2, <3>3
  <2>3. CASE /\ c.sem = <<"push scl", 0>> /\ DOMAIN c.moves = {"rscl"} \X TilesOf(i)
             /\ \A to \in DOMAIN c.moves : c.moves[to] = <<"cscl", to[2]>>
    <3>1. c.sem[1] = "push scl"
      BY <2>3, PairIs
    <3>2. \A to \in DOMAIN c.moves : to[1] = "rscl"
      BY <2>3
    <3>3. \A to \in DOMAIN c.moves : c.moves[to][1] = "cscl"
      <4>1. \A x : <<"cscl", x>>[1] = "cscl"
        OBVIOUS
      <4> QED BY <2>3, <4>1
    <3> QED BY <2>1, <3>1, <3>2, <3>3
  <2> QED BY <2>1, <2>2, <2>3
<1> QED BY <1>1, <1>2, <1>3

Free(c, d) ==
  /\ DOMAIN c.moves \cap DOMAIN d.moves = {}
  /\ \A to \in DOMAIN c.moves : c.moves[to] \notin DOMAIN d.moves

LEMMA LoadsFree ==
  PlaceInv /\ OutInv => \A c \in LoadsDue, d \in Due : c # d =>
    c.sem # d.sem /\ Free(c, d) /\ Free(d, c)
<1> SUFFICES ASSUME PlaceInv, OutInv, NEW c \in LoadsDue, NEW d \in Due, c # d
             PROVE  c.sem # d.sem /\ Free(c, d) /\ Free(d, c)
  OBVIOUS
<1>1. CASE d \in LoadsDue
  <2>1. c.sem # d.sem
    BY <1>1, LoadsApart
  <2>2. /\ DOMAIN c.moves = {c.sem} /\ c.moves[c.sem][1] = "hbm" /\ c.sem[1] # "hbm"
        /\ DOMAIN d.moves = {d.sem} /\ d.moves[d.sem][1] = "hbm" /\ d.sem[1] # "hbm"
    BY <1>1, LoadFacts, Heads DEF Kinds
  <2> QED BY <2>1, <2>2 DEF Free
<1>2. ASSUME d \notin LoadsDue
      PROVE  c.sem # d.sem /\ Free(c, d) /\ Free(d, c)
  <2>1. /\ c.sem[1] \in Kinds \cup {"window", "lhs"}
        /\ \A to \in DOMAIN c.moves : to[1] \in Kinds \cup {"window", "lhs"} /\ c.moves[to][1] = "hbm"
    BY Heads
  <2>2. RowsTo \in {"recv", "contrib"} /\ SclTo \in {"rscl", "cscl"}
    BY DEF RowsTo, SclTo
  <2>3. /\ d.sem[1] \in {"out", "oscl", "push", "push scl"}
        /\ \A to \in DOMAIN d.moves : /\ to[1] \in {"recv", "contrib", "rscl", "cscl"}
                                      /\ d.moves[to][1] \in {"out", "oscl", "contrib", "cscl"}
    <3>1. CASE d \in OutsDue
      <4>1. /\ d.sem[1] \in {"out", "oscl"}
            /\ \A to \in DOMAIN d.moves : to[1] \in {RowsTo, SclTo} /\ d.moves[to][1] \in {"out", "oscl"}
        BY <3>1, Heads
      <4> QED BY <2>2, <4>1
    <3>2. CASE d \in PushesDue
      <4>1. /\ d.sem[1] \in {"push", "push scl"}
            /\ \A to \in DOMAIN d.moves : to[1] \in {"recv", "rscl"} /\ d.moves[to][1] \in {"contrib", "cscl"}
        BY <3>2, Heads
      <4> QED BY <4>1
    <3> QED BY <1>2, <3>1, <3>2 DEF Due, Single
  <2>4. c.sem # d.sem
    BY <2>1, <2>3 DEF Kinds
  <2>5. DOMAIN c.moves \cap DOMAIN d.moves = {}
    BY <2>1, <2>3 DEF Kinds
  <2>6. \A to \in DOMAIN c.moves : c.moves[to] \notin DOMAIN d.moves
    BY <2>1, <2>3
  <2>7. \A to \in DOMAIN d.moves : d.moves[to] \notin DOMAIN c.moves
    BY <2>1, <2>3 DEF Kinds
  <2> QED BY <2>4, <2>5, <2>6, <2>7 DEF Free
<1> QED BY <1>1, <1>2

LEMMA OutsFree ==
  PlaceInv /\ OutInv => \A c, d \in OutsDue : c # d => c.sem # d.sem /\ Free(c, d)
<1> SUFFICES ASSUME PlaceInv, OutInv, NEW c \in OutsDue, NEW d \in OutsDue, c # d
             PROVE  c.sem # d.sem /\ Free(c, d)
  OBVIOUS
<1>1. RowsTo # SclTo /\ RowsTo \notin {"out", "oscl"} /\ SclTo \notin {"out", "oscl"}
  BY DEF RowsTo, SclTo
<1>2. \A to \in DOMAIN c.moves : c.moves[to] \notin DOMAIN d.moves
  <2>1. \A to \in DOMAIN c.moves : c.moves[to][1] \in {"out", "oscl"}
    BY Heads
  <2>2. \A to \in DOMAIN d.moves : to[1] \in {RowsTo, SclTo}
    BY Heads
  <2> QED BY <1>1, <2>1, <2>2
<1>3. \A p, q \in Slots : Leaving(p) /\ Leaving(q) /\ Staged(p) = Staged(q) => p = q
  <2>1. Slots = {0, 1}
    BY DEF Slots
  <2> QED BY <2>1 DEF Leaving, OutInv
<1>4. c.sem # d.sem /\ DOMAIN c.moves \cap DOMAIN d.moves = {}
  <2>1. PICK p \in Slots :
          /\ Leaving(p)
          /\ \/ /\ c.sem = <<"out", p>> /\ DOMAIN c.moves = {<<RowsTo, Staged(p)>>} /\ c = RowsOut(p)
             \/ /\ c.sem = <<"oscl", p>> /\ DOMAIN c.moves = {<<SclTo, Staged(p)>>} /\ c = SclOut(p)
    BY OutShape
  <2>2. PICK q \in Slots :
          /\ Leaving(q)
          /\ \/ /\ d.sem = <<"out", q>> /\ DOMAIN d.moves = {<<RowsTo, Staged(q)>>} /\ d = RowsOut(q)
             \/ /\ d.sem = <<"oscl", q>> /\ DOMAIN d.moves = {<<SclTo, Staged(q)>>} /\ d = SclOut(q)
    BY OutShape
  <2>3. CASE p = q
    BY <1>1, <2>1, <2>2, <2>3
  <2>4. CASE p # q
    BY <1>1, <1>3, <2>1, <2>2, <2>4
  <2> QED BY <2>3, <2>4
<1> QED BY <1>2, <1>4 DEF Free

LEMMA PushesFree ==
  PlaceInv /\ OutInv => \A c, d \in PushesDue : c # d => Free(c, d)
<1> SUFFICES ASSUME PlaceInv, OutInv, NEW c \in PushesDue, NEW d \in PushesDue, c # d
             PROVE  Free(c, d)
  OBVIOUS
<1>1. \A to \in DOMAIN c.moves : c.moves[to] \notin DOMAIN d.moves
  <2>1. \A to \in DOMAIN c.moves : c.moves[to][1] \in {"contrib", "cscl"}
    BY Heads
  <2>2. \A to \in DOMAIN d.moves : to[1] \in {"recv", "rscl"}
    BY Heads
  <2> QED BY <2>1, <2>2
<1>2. DOMAIN c.moves \cap DOMAIN d.moves = {}
  <2>1. PICK i \in Visits :
          \/ DOMAIN c.moves = {"recv"} \X TilesOf(i) /\ c = PushRows(i)
          \/ DOMAIN c.moves = {"rscl"} \X TilesOf(i) /\ c = PushScl(i)
    BY PushShape
  <2>2. PICK j \in Visits :
          \/ DOMAIN d.moves = {"recv"} \X TilesOf(j) /\ d = PushRows(j)
          \/ DOMAIN d.moves = {"rscl"} \X TilesOf(j) /\ d = PushScl(j)
    BY PushShape
  <2>3. i # j => TilesOf(i) \cap TilesOf(j) = {}
    BY TilesAre
  <2>4. \A S, T : ({"recv"} \X S) \cap ({"rscl"} \X T) = {}
    OBVIOUS
  <2>5. \A k, S, T : S \cap T = {} => ({k} \X S) \cap ({k} \X T) = {}
    OBVIOUS
  <2> QED BY <2>1, <2>2, <2>3, <2>4, <2>5
<1> QED BY <1>1, <1>2 DEF Free

\* A push reads what the core is no longer committing to.
LEMMA PushOutFree ==
  PlaceInv /\ OutInv => \A c \in PushesDue, d \in OutsDue : c.sem # d.sem /\ Free(c, d) /\ Free(d, c)
<1> SUFFICES ASSUME PlaceInv, OutInv, NEW c \in PushesDue, NEW d \in OutsDue
             PROVE  c.sem # d.sem /\ Free(c, d) /\ Free(d, c)
  OBVIOUS
<1>1. c.sem # d.sem
  BY Heads
<1>2. /\ \A to \in DOMAIN c.moves : to[1] \in {"recv", "rscl"} /\ c.moves[to][1] \in {"contrib", "cscl"}
      /\ \A to \in DOMAIN d.moves : to[1] \in {"contrib", "cscl"} /\ d.moves[to][1] \in {"out", "oscl"}
  BY Heads DEF RowsTo, SclTo
<1>3. \A to \in DOMAIN c.moves : c.moves[to][2][1] < visit
  <2>0. PICK i \in Visits :
          /\ Pushed(i)
          /\ \/ /\ DOMAIN c.moves = {"recv"} \X TilesOf(i)
                /\ \A to \in DOMAIN c.moves : c.moves[to] = <<"contrib", to[2]>>
             \/ /\ DOMAIN c.moves = {"rscl"} \X TilesOf(i)
                /\ \A to \in DOMAIN c.moves : c.moves[to] = <<"cscl", to[2]>>
    BY PushShape
  <2>1. /\ Pushed(i)
        /\ \A to \in DOMAIN c.moves : to[2] \in TilesOf(i) /\ c.moves[to][2] = to[2]
    BY <2>0
  <2> QED BY <2>1, TilesAre DEF Pushed
<1>4. \A to \in DOMAIN d.moves : to[2][1] = visit
  <2>1. PICK p \in Slots : Leaving(p) /\ DOMAIN d.moves \subseteq {<<RowsTo, Staged(p)>>, <<SclTo, Staged(p)>>}
    BY OutShape
  <2>2. Staged(p)[1] = visit
    BY <2>1, OutFacts, Heads
  <2> QED BY <2>1, <2>2
<1>5. \A to \in DOMAIN c.moves : c.moves[to] \notin DOMAIN d.moves
  <2>1. visit \in Int
    BY DEF PlaceInv
  <2> QED BY <1>3, <1>4, <2>1
<1>6. DOMAIN c.moves \cap DOMAIN d.moves = {} /\ \A to \in DOMAIN d.moves : d.moves[to] \notin DOMAIN c.moves
  BY <1>2
<1> QED BY <1>1, <1>5, <1>6 DEF Free

LEMMA ApartHolds == PlaceInv /\ OutInv => Apart
<1> SUFFICES ASSUME PlaceInv, OutInv, NEW c \in Due, NEW d \in Due, c # d
             PROVE  (c.sem = d.sem => c.sem[1] \in {"push", "push scl"}) /\ Free(c, d)
  BY DEF Apart, Free
<1>1. CASE c \in LoadsDue \/ d \in LoadsDue
  BY <1>1, LoadsFree
<1>2. CASE c \in OutsDue /\ d \in OutsDue
  BY <1>2, OutsFree
<1>3. CASE c \in PushesDue /\ d \in PushesDue
  BY <1>3, PushesFree, Heads
<1>4. CASE c \in PushesDue /\ d \in OutsDue
  BY <1>4, PushOutFree
<1>5. CASE c \in OutsDue /\ d \in PushesDue
  BY <1>5, PushOutFree
<1> QED BY <1>1, <1>2, <1>3, <1>4, <1>5 DEF Due, Single

LEMMA GivesHolds == PlaceInv /\ OutInv /\ Delivered => GivesRight
<1> SUFFICES ASSUME PlaceInv, OutInv, Delivered, NEW c \in Due
             PROVE  \A to \in DOMAIN c.moves : Content(c.moves[to]) = Gives(c, to)
  BY DEF GivesRight
<1>1. CASE c \in LoadsDue
  BY <1>1, LoadFacts
<1>2. CASE c \in OutsDue
  <2>1. PICK p \in Slots :
          /\ Leaving(p)
          /\ \/ /\ DOMAIN c.moves = {<<RowsTo, Staged(p)>>}
                /\ c.moves[<<RowsTo, Staged(p)>>] = <<"out", p>>
             \/ /\ DOMAIN c.moves = {<<SclTo, Staged(p)>>}
                /\ c.moves[<<SclTo, Staged(p)>>] = <<"oscl", p>>
    BY <1>2, OutShape
  <2>2. mem[<<"oscl", p>>] = Staged(p)
    BY <2>1, OutFacts
  <2> QED BY <2>1, <2>2 DEF Content, Gives, Staged
<1>3. CASE c \in PushesDue
  <2>1. PICK i \in Visits :
          /\ Pushed(i) /\ ~schedule.ship
          /\ \/ /\ DOMAIN c.moves = {"recv"} \X TilesOf(i)
                /\ \A to \in DOMAIN c.moves : c.moves[to] = <<"contrib", to[2]>>
             \/ /\ DOMAIN c.moves = {"rscl"} \X TilesOf(i)
                /\ \A to \in DOMAIN c.moves : c.moves[to] = <<"cscl", to[2]>>
    BY <1>3, PushShape
  <2>2. ASSUME NEW tile \in TilesOf(i)
        PROVE  mem[<<"contrib", tile>>] = tile /\ mem[<<"cscl", tile>>] = tile
    <3>1. tile \in Tiles /\ tile[1] = i
      BY TilesAre
    <3>2. i < visit /\ visit \in Int /\ i \in Int
      BY <2>1 DEF Pushed, Visits, PlaceInv
    <3>3. \A p \in Slots : Leaving(p) => Staged(p) # tile
      <4>1. \A p \in Slots : Leaving(p) => Staged(p)[1] = visit
        BY <2>1, OutFacts
      <4> QED BY <3>1, <3>2, <4>1
    <3>4. Computed(tile)
      BY <3>1, <3>2 DEF Computed
    <3> QED BY <2>1, <3>1, <3>3, <3>4 DEF Delivered, RowsTo, SclTo
  <2>3. \A to \in DOMAIN c.moves : to[2] \in TilesOf(i)
    BY <2>1
  <2>4. ASSUME NEW to \in DOMAIN c.moves
        PROVE  c.moves[to] \in {<<"contrib", to[2]>>, <<"cscl", to[2]>>}
    BY <2>1
  <2>5. \A x : <<"contrib", x>>[1] = "contrib" /\ <<"cscl", x>>[1] = "cscl"
    OBVIOUS
  <2> QED BY <2>2, <2>3, <2>4, <2>5 DEF Content, Gives
<1> QED BY <1>1, <1>2, <1>3 DEF Due, Single

-----------------------------------------------------------------------------
(* Sums of blocks, of this state and of the next one.                        *)

\* The blocks of the tiles of S, added up.
LEMMA BlockSum ==
  ASSUME NEW S, IsFiniteSet(S), NEW f, f = [tile \in S |-> Blocks(tile)]
  PROVE  \E q : IsSum(q, f, S) /\ MapThenSumSet(Blocks, S) = q[S]
<1> DEFINE A(p) == [T \in SUBSET S |-> IF T = {} THEN 0 ELSE Blocks(OneOf(T)) + p[T \ {OneOf(T)}]]
           q == CHOOSE p : p = A(p)
<1>1. MapThenSumSet(Blocks, S) = q[S]
  BY DEF MapThenSumSet, MapThenFoldSet, OneOf
<1>2. \A p : IsSum(p, f, S) <=> p = A(p)
  <2> SUFFICES ASSUME NEW p PROVE [T \in SUBSET S |-> Added(p, f, T)] = A(p)
    BY DEF IsSum
  <2>1. \A T \in SUBSET S : Added(p, f, T) = IF T = {} THEN 0 ELSE Blocks(OneOf(T)) + p[T \ {OneOf(T)}]
    BY OneOfIs DEF Added
  <2> QED BY <2>1
<1>3. \E p : p = A(p)
  <2> HIDE DEF A
  <2> QED BY <1>2, SumExists
<1>4. q = A(q)
  <2> HIDE DEF A
  <2> QED BY <1>3
<1>5. IsSum(q, f, S)
  <2> HIDE DEF A, q
  <2> QED BY <1>2, <1>4
<1> HIDE DEF q
<1> QED BY <1>1, <1>5

LEMMA TileSums ==
  ASSUME NEW S, IsFiniteSet(S)
  PROVE  /\ MapThenSumSet(Blocks, S) \in Nat
         /\ MapThenSumSet(Blocks, {}) = 0
         /\ \A T \in SUBSET S : MapThenSumSet(Blocks, S) =
              MapThenSumSet(Blocks, T) + MapThenSumSet(Blocks, S \ T)
         /\ S # {} => MapThenSumSet(Blocks, S) > 0
<1> DEFINE sum(T) == MapThenSumSet(Blocks, T)
           f(T) == [tile \in T |-> Blocks(tile)]
<1>1. ASSUME NEW T \in SUBSET S
      PROVE  \E q : IsSum(q, f(T), T) /\ sum(T) = q[T]
  <2>1. IsFiniteSet(T)
    BY FS_Subset
  <2>2. f(T) = [tile \in T |-> Blocks(tile)]
    OBVIOUS
  <2> HIDE DEF f
  <2> QED BY <2>1, <2>2, BlockSum
<1>2. PICK q : IsSum(q, f(S), S) /\ sum(S) = q[S]
  BY <1>1
<1>3. \A T \in SUBSET S : \A x \in T : f(T)[x] = Blocks(x) /\ f(S)[x] = Blocks(x)
  OBVIOUS
<1> HIDE DEF sum, f
<1>4. ASSUME NEW T \in SUBSET S PROVE sum(T) = q[T]
  <2>1. PICK r : IsSum(r, f(T), T) /\ sum(T) = r[T]
    BY <1>1
  <2> DEFINE g == f(S)
             h == f(T)
  <2>2. \A x \in T : g[x] = h[x]
    BY <1>3
  <2>3. IsSum(q, g, S) /\ IsSum(r, h, T)
    BY <1>2, <2>1
  <2> HIDE DEF g, h
  <2>4. \A U \in SUBSET T : q[U] = r[U]
    BY <2>2, <2>3, SumUnique
  <2> QED BY <2>1, <2>4
<1> DEFINE g == f(S)
<1>5. IsSum(q, g, S) /\ \A x \in S : g[x] \in Nat /\ g[x] > 0
  BY <1>2, <1>3, BlocksIs
<1> HIDE DEF g
<1>6. /\ q[{}] = 0
      /\ \A T \in SUBSET S : q[T] \in Nat /\ \A x \in T : q[T] = g[x] + q[T \ {x}]
  <2>1. \A x \in S : g[x] \in Nat
    BY <1>5
  <2>2. IsSum(q, g, S)
    BY <1>5
  <2> QED BY <2>1, <2>2, SumStep
<1>7. \A T \in SUBSET S : q[S] = q[T] + q[S \ T]
  BY <1>5, SumSplit
<1>8. S \in SUBSET S /\ {} \in SUBSET S /\ \A x \in S : S \ {x} \in SUBSET S
  OBVIOUS
<1>9. sum(S) \in Nat /\ sum({}) = 0
  BY <1>4, <1>6, <1>8
<1>10. \A T \in SUBSET S : sum(S) = sum(T) + sum(S \ T)
  BY <1>4, <1>7, <1>8
<1>11. S # {} => sum(S) > 0
  <2> SUFFICES ASSUME NEW x \in S PROVE sum(S) > 0
    OBVIOUS
  <2>1. q[S] = g[x] + q[S \ {x}] /\ q[S \ {x}] \in Nat /\ g[x] \in Nat /\ g[x] > 0
    BY <1>5, <1>6, <1>8
  <2> QED BY <1>4, <1>8, <2>1
<1> QED BY <1>9, <1>10, <1>11 DEF sum

LEMMA InitIInv == Init => IInv
<1> SUFFICES ASSUME Init PROVE IInv
  OBVIOUS
<1> USE DEF Init
<1>1. PlaceInv
  BY DEF PlaceInv, Slots, Tiling
<1>2. Due = {}
  <2>1. \A kind, i : i \in Visits => ~WeightAwaited(kind, i)
    BY DEF WeightAwaited, Started, Visits
  <2>2. \A tile, slot : ~WindowAwaited(tile, slot) /\ ~RowsAwaited(tile, slot)
    BY DEF WindowAwaited, RowsAwaited
  <2>3. \A p \in Slots : ~Leaving(p)
    BY DEF Leaving
  <2>4. \A i \in Visits : ~Pushed(i)
    BY DEF Pushed, Visits
  <2>5. WeightsDue = {}
    BY <2>1, WeightsAre
  <2>6. WindowsDue = {}
    BY <2>2, WindowsAre
  <2>7. RowsDue = {}
    BY <2>2, RowsAre
  <2>8. OutsDue = {}
    BY <2>3, OutsAre
  <2>9. PushesDue = {}
    BY <2>4, PushesAre
  <2> QED BY <2>5, <2>6, <2>7, <2>8, <2>9 DEF Due, Single, LoadsDue
<1>3. FlyingDue /\ SemDue /\ Given
  BY <1>2 DEF FlyingDue, SemDue, Given, Due, Single
<1>4. RowsPushed = {} /\ SclPushed = {}
  BY TilesAre DEF RowsPushed, SclPushed, Pushed, Visits
<1>5. PushInv
  <2>1. MapThenSumSet(Blocks, {}) = 0 /\ Cardinality({}) = 0
    BY TileSums, FS_EmptySet
  <2> QED BY <1>4, <2>1, PlacesAre DEF PushInv
<1>6. WeightsHeld /\ RowsHeld /\ PushDelivered /\ OutInv
  BY DEF WeightsHeld, RowsHeld, PushDelivered, OutInv, Using, Tiling, Slots
<1>7. Delivered
  BY TilesAre DEF Delivered, Computed, Visits
<1> QED BY <1>1, <1>3, <1>5, <1>6, <1>7 DEF IInv

\* The sums of the next state are the same ones: the schedule stays.
LEMMA KeptSums ==
  ASSUME schedule' = schedule, NEW S
  PROVE  MapThenSumSet(Blocks, S)' = MapThenSumSet(Blocks, S)
BY DEF MapThenSumSet, MapThenFoldSet, Blocks, NumTiles

LEMMA KeptPushes ==
  ASSUME schedule' = schedule, NEW i
  PROVE  PushRows(i)' = PushRows(i) /\ PushScl(i)' = PushScl(i)
<1>1. TilesOf(i)' = TilesOf(i) /\ NumTiles(i)' = NumTiles(i)
  BY DEF TilesOf, NumTiles
<1>2. PushRows(i)' = PushRows(i)
  BY <1>1, KeptSums DEF PushRows
<1>3. PushScl(i)' = PushScl(i)
  BY <1>1 DEF PushScl
<1> QED BY <1>2, <1>3

LEMMA TilesFinite ==
  ASSUME schedule \in Schedules
  PROVE  /\ IsFiniteSet(Tiles)
         /\ \A i \in Visits : IsFiniteSet(TilesOf(i)) /\ Cardinality(TilesOf(i)) = NumTiles(i)
<1>1. ASSUME NEW i \in Visits
      PROVE  IsFiniteSet(TilesOf(i)) /\ Cardinality(TilesOf(i)) = NumTiles(i)
  <2>1. NumTiles(i) \in Nat /\ NumTiles(i) > 0
    BY ScheduleIs
  <2>2. IsFiniteSet(0..NumTiles(i) - 1) /\ Cardinality(0..NumTiles(i) - 1) = NumTiles(i)
    BY <2>1, FS_Interval
  <2>3. IsFiniteSet({i}) /\ Cardinality({i}) = 1
    BY FS_Singleton
  <2>4. IsFiniteSet({i} \X (0..NumTiles(i) - 1))
        /\ Cardinality({i} \X (0..NumTiles(i) - 1)) = Cardinality({i}) * Cardinality(0..NumTiles(i) - 1)
    BY <2>2, <2>3, FS_Product
  <2> QED BY <2>1, <2>2, <2>3, <2>4 DEF TilesOf
<1>2. IsFiniteSet(Visits)
  <2>1. NumVisits \in Nat
    BY ScheduleIs
  <2> QED BY <2>1, FS_Interval DEF Visits
<1>3. IsFiniteSet({TilesOf(i) : i \in Visits})
  <2> DEFINE f == [i \in Visits |-> TilesOf(i)]
             R == {TilesOf(i) : i \in Visits}
  <2>1. f \in Surjection(Visits, R)
    BY DEF Surjection
  <2> HIDE DEF f, R
  <2>2. IsFiniteSet(R)
    BY <1>2, <2>1, FS_Surjection
  <2> QED BY <2>2 DEF R
<1>4. \A T \in {TilesOf(i) : i \in Visits} : IsFiniteSet(T)
  BY <1>1
<1> QED BY <1>1, <1>3, <1>4, FS_UNION DEF Tiles

-----------------------------------------------------------------------------
(* What is due in the next state.                                            *)

LEMMA KeptTerms ==
  ASSUME schedule' = schedule
  PROVE  /\ Visits' = Visits /\ Tiles' = Tiles /\ Nbuf' = Nbuf /\ NumVisits' = NumVisits
         /\ AtHead' = AtHead /\ RowsTo' = RowsTo /\ SclTo' = SclTo
         /\ Prefetches' = Prefetches /\ StartsNext' = StartsNext /\ Places' = Places
         /\ \A i : NumTiles(i)' = NumTiles(i) /\ WeightSlot(i)' = WeightSlot(i) /\ TilesOf(i)' = TilesOf(i)
         /\ \A tile : Blocks(tile)' = Blocks(tile)
         /\ \A kind, i : Load1(kind, i)' = Load1(kind, i)
         /\ \A tile, slot : RowsOf(tile, slot)' = RowsOf(tile, slot)
<1>1. /\ Visits' = Visits /\ NumVisits' = NumVisits /\ Nbuf' = Nbuf
      /\ \A i : NumTiles(i)' = NumTiles(i) /\ WeightSlot(i)' = WeightSlot(i) /\ TilesOf(i)' = TilesOf(i)
      /\ \A tile : Blocks(tile)' = Blocks(tile)
  BY DEF Visits, NumVisits, Nbuf, NumTiles, WeightSlot, TilesOf, Blocks
<1>2. Tiles' = Tiles
  BY <1>1 DEF Tiles
<1>3. Places' = Places
  BY <1>2 DEF Places
<1>4. /\ AtHead' = AtHead /\ RowsTo' = RowsTo /\ SclTo' = SclTo /\ Prefetches' = Prefetches
      /\ StartsNext' = StartsNext
  BY DEF AtHead, RowsTo, SclTo, Prefetches, StartsNext
<1>5. \A kind, i : Load1(kind, i)' = Load1(kind, i)
  BY <1>1 DEF Load1
<1>6. \A tile, slot : RowsOf(tile, slot)' = RowsOf(tile, slot)
  BY <1>1 DEF RowsOf
<1> QED BY <1>1, <1>2, <1>3, <1>4, <1>5, <1>6

LEMMA NextDue ==
  ASSUME schedule' = schedule
  PROVE  /\ \A c : c \in WeightsDue' <=>
              \E kind \in Kinds, i \in Visits : WeightAwaited(kind, i)' /\ c = Load1(kind, i)
         /\ \A c : c \in WindowsDue' <=>
              \E tile \in Tiles, slot \in Slots : WindowAwaited(tile, slot)' /\ c = Window(tile, slot)
         /\ \A c : c \in RowsDue' <=>
              \E tile \in Tiles, parity \in Slots : RowsAwaited(tile, parity)' /\ c = RowsOf(tile, parity)
         /\ \A c : c \in OutsDue' <=>
              \E p \in Slots : Leaving(p)' /\ (c = RowsOut(p)' \/ c = SclOut(p)')
         /\ \A c : c \in PushesDue' <=>
              \E i \in Visits : Pushed(i)' /\ (c = PushRows(i) \/ c = PushScl(i))
<1>1. (\A c : c \in WeightsDue <=>
        \E kind \in Kinds, i \in Visits : WeightAwaited(kind, i) /\ c = Load1(kind, i))'
  BY WeightsAre, PTL
<1>2. (\A c : c \in WindowsDue <=>
        \E tile \in Tiles, slot \in Slots : WindowAwaited(tile, slot) /\ c = Window(tile, slot))'
  BY WindowsAre, PTL
<1>3. (\A c : c \in RowsDue <=>
        \E tile \in Tiles, parity \in Slots : RowsAwaited(tile, parity) /\ c = RowsOf(tile, parity))'
  BY RowsAre, PTL
<1>4. (\A c : c \in OutsDue <=> \E p \in Slots : Leaving(p) /\ (c = RowsOut(p) \/ c = SclOut(p)))'
  BY OutsAre, PTL
<1>5. (\A c : c \in PushesDue <=> \E i \in Visits : Pushed(i) /\ (c = PushRows(i) \/ c = PushScl(i)))'
  BY PushesAre, PTL
<1>6. Visits' = Visits /\ Tiles' = Tiles
  BY KeptTerms
<1>7. ASSUME NEW c
      PROVE  c \in WeightsDue' <=>
               \E kind \in Kinds, i \in Visits : WeightAwaited(kind, i)' /\ c = Load1(kind, i)
  BY <1>1, <1>6, KeptTerms
<1>8. ASSUME NEW c
      PROVE  c \in WindowsDue' <=>
               \E tile \in Tiles, slot \in Slots : WindowAwaited(tile, slot)' /\ c = Window(tile, slot)
  BY <1>2, <1>6
<1>9. ASSUME NEW c
      PROVE  c \in RowsDue' <=>
               \E tile \in Tiles, parity \in Slots : RowsAwaited(tile, parity)' /\ c = RowsOf(tile, parity)
  BY <1>3, <1>6, KeptTerms
<1>10. ASSUME NEW c
      PROVE  c \in OutsDue' <=>
               \E p \in Slots : Leaving(p)' /\ (c = RowsOut(p)' \/ c = SclOut(p)')
  BY <1>4
<1>11. ASSUME NEW c
      PROVE  c \in PushesDue' <=>
               \E i \in Visits : Pushed(i)' /\ (c = PushRows(i) \/ c = PushScl(i))
  BY <1>5, <1>6, KeptPushes
<1> QED BY <1>7, <1>8, <1>9, <1>10, <1>11

-----------------------------------------------------------------------------
(* What a step of the core does to the copies.                               *)

LEMMA PushHeads == \A c \in PushesDue : c.sem[1] \in {"push", "push scl"}
<1> SUFFICES ASSUME NEW c \in PushesDue PROVE c.sem[1] \in {"push", "push scl"}
  OBVIOUS
<1>1. c.sem \in {<<"push", 0>>, <<"push scl", 0>>}
  BY PushShape
<1>2. CASE c.sem = <<"push", 0>>
  BY <1>2
<1>3. CASE c.sem = <<"push scl", 0>>
  BY <1>3, PairIs
<1> QED BY <1>1, <1>2, <1>3

LEMMA SingleFacts ==
  PlaceInv /\ OutInv => \A c \in Single :
    c.amount \in Nat /\ c.amount > 0 /\ c.sem \in Sems /\ c.sem[1] \notin {"push", "push scl"}
<1> SUFFICES ASSUME PlaceInv, OutInv, NEW c \in Single
             PROVE  /\ c.amount \in Nat /\ c.amount > 0
                    /\ c.sem \in Sems /\ c.sem[1] \notin {"push", "push scl"}
  OBVIOUS
<1>1. CASE c \in LoadsDue
  <2>1. c.amount \in Nat /\ c.amount > 0 /\ c.sem \in LoadPlaces
    BY <1>1, LoadFacts
  <2>2. c.sem[1] \in Kinds \cup {"window", "lhs"}
    BY <1>1, Heads
  <2> QED BY <2>1, <2>2, PlacesAre DEF Kinds
<1>2. CASE c \in OutsDue
  <2>1. PICK p \in Slots : /\ Leaving(p)
                           /\ \/ c.sem = <<"out", p>> /\ c = RowsOut(p)
                              \/ c.sem = <<"oscl", p>> /\ c = SclOut(p)
    BY <1>2, OutShape
  <2>2. /\ RowsOut(p).amount \in Nat /\ RowsOut(p).amount > 0 /\ SclOut(p).amount = 1
    BY <2>1, OutFacts
  <2>3. CASE c.sem = <<"out", p>> /\ c = RowsOut(p)
    <3>0. <<"out", p>> \in Sems /\ <<"out", p>>[1] = "out"
      BY PlacesAre
    <3>1. c.sem \in Sems /\ c.sem[1] = "out"
      BY <2>3, <3>0
    <3>2. c.amount \in Nat /\ c.amount > 0
      BY <2>2, <2>3
    <3> QED BY <3>1, <3>2
  <2>4. CASE c.sem = <<"oscl", p>> /\ c = SclOut(p)
    <3>0. <<"oscl", p>> \in Sems /\ <<"oscl", p>>[1] = "oscl"
      BY PlacesAre
    <3>1. c.sem \in Sems /\ c.sem[1] = "oscl"
      BY <2>4, <3>0
    <3>2. c.amount \in Nat /\ c.amount > 0
      BY <2>2, <2>4
    <3> QED BY <3>1, <3>2
  <2> QED BY <2>1, <2>3, <2>4
<1> QED BY <1>1, <1>2 DEF Single

LEMMA TargetsArePlaces ==
  PlaceInv /\ OutInv => \A c \in Due : \A to \in DOMAIN c.moves :
    to \in Places /\ to[1] \notin {"out", "oscl"}
<1> SUFFICES ASSUME PlaceInv, OutInv, NEW c \in Due, NEW to \in DOMAIN c.moves
             PROVE  to \in Places /\ to[1] \notin {"out", "oscl"}
  OBVIOUS
<1>1. CASE c \in LoadsDue
  <2>1. to = c.sem /\ c.sem \in LoadPlaces
    BY <1>1, LoadFacts
  <2>2. to[1] \in Kinds \cup {"window", "lhs"}
    BY <1>1, Heads
  <2> QED BY <2>1, <2>2, PlacesAre DEF Kinds
<1>2. CASE c \in OutsDue
  <2>1. PICK p \in Slots : /\ Leaving(p) /\ Staged(p) \in Tiles
                           /\ to \in {<<RowsTo, Staged(p)>>, <<SclTo, Staged(p)>>}
    BY <1>2, OutShape
  <2>2. RowsTo \in {"recv", "contrib"} /\ SclTo \in {"rscl", "cscl"}
    BY DEF RowsTo, SclTo
  <2>3. PICK name \in {"contrib", "cscl", "recv", "rscl"} : to = <<name, Staged(p)>>
    BY <2>1, <2>2
  <2>4. <<name, Staged(p)>> \in Places
    BY <2>1, PlacesAre
  <2> QED BY <2>3, <2>4
<1>3. CASE c \in PushesDue
  <2>1. PICK i \in Visits : to \in ({"recv"} \X TilesOf(i)) \cup ({"rscl"} \X TilesOf(i))
    BY <1>3, PushShape
  <2>2. PICK name \in {"recv", "rscl"}, tile \in TilesOf(i) : to = <<name, tile>>
    BY <2>1
  <2>3. tile \in Tiles
    BY TilesAre
  <2> QED BY <2>2, <2>3, PlacesAre
<1> QED BY <1>1, <1>2, <1>3 DEF Due, Single

\* Of a copy that the core can go past it knows that it has landed.
LEMMA WaitedFor ==
  ASSUME IInv, NEW c \in Single, sem[c.sem] >= c.amount
  PROVE  c \notin flying /\ sem[c.sem] = c.amount /\ \A to \in DOMAIN c.moves : mem[to] = Gives(c, to)
<1>1. c.amount \in Nat /\ c.amount > 0
  BY SingleFacts DEF IInv
<1>2. c \notin flying /\ sem[c.sem] = c.amount
  <2>1. (c \in flying => sem[c.sem] = 0) /\ (c \notin flying => sem[c.sem] = c.amount)
    BY DEF IInv, SemDue
  <2> QED BY <1>1, <2>1
<1> QED BY <1>2 DEF IInv, Given, Due

\* A step of the core waits for the copies W and starts S, and pushes P.
CoreStep(need, W, S, P) ==
  /\ schedule' = schedule
  /\ W \subseteq Single /\ S \cap Single = {} /\ Wait(need)
  /\ \A w \in W : w.sem \in DOMAIN need /\ need[w.sem] = w.amount
  /\ \A s \in DOMAIN need : \E w \in W : w.sem = s
  /\ Single' = (Single \ W) \cup S /\ PushesDue' = PushesDue \cup P
  /\ flying' = flying \cup S \cup P
  /\ \A place \in Places : place[1] \notin {"out", "oscl"} => mem'[place] = mem[place]

LEMMA Landed ==
  ASSUME IInv, NEW need, NEW W, NEW S, NEW P, CoreStep(need, W, S, P)
  PROVE  \A w \in W : /\ w \notin flying /\ sem[w.sem] = w.amount
                      /\ \A to \in DOMAIN w.moves : mem[to] = Gives(w, to)
<1> SUFFICES ASSUME NEW w \in W
             PROVE  /\ w \notin flying /\ sem[w.sem] = w.amount
                    /\ \A to \in DOMAIN w.moves : mem[to] = Gives(w, to)
  OBVIOUS
<1>1. w \in Single /\ sem[w.sem] >= w.amount
  BY DEF CoreStep, Wait
<1> QED BY <1>1, WaitedFor

LEMMA CoreKeeps ==
  ASSUME IInv, PlaceInv', OutInv', NEW need, NEW W, NEW S, NEW P, CoreStep(need, W, S, P)
  PROVE  FlyingDue' /\ SemDue' /\ Given'
<1> USE DEF IInv
<1>1. Apart /\ Apart'
  <2>1. (PlaceInv /\ OutInv => Apart)'
    BY ApartHolds, PTL
  <2> QED BY <2>1, ApartHolds
<1>2. \A w \in W : w \notin flying /\ sem[w.sem] = w.amount
  BY Landed
<1>3. /\ \A c \in Single : /\ c.amount \in Nat /\ c.amount > 0
                           /\ c.sem \in Sems /\ c.sem[1] \notin {"push", "push scl"}
      /\ \A c \in Single' : c.sem[1] \notin {"push", "push scl"} /\ c.sem \in Sems
  <2>1. (PlaceInv /\ OutInv => \A c \in Single :
          c.amount \in Nat /\ c.amount > 0 /\ c.sem \in Sems /\ c.sem[1] \notin {"push", "push scl"})'
    BY SingleFacts, PTL
  <2>2. Sems' = Sems
    BY DEF Sems
  <2> QED BY <2>1, <2>2, SingleFacts
<1>4. /\ \A c \in PushesDue : c.sem[1] \in {"push", "push scl"}
      /\ \A c \in PushesDue' : c.sem[1] \in {"push", "push scl"}
  <2>1. (\A c \in PushesDue : c.sem[1] \in {"push", "push scl"})'
    BY PushHeads, PTL
  <2>2. \A c \in PushesDue : c.sem[1] \in {"push", "push scl"}
    BY Heads
  <2> QED BY <2>1, <2>2
<1>5. Due = Single \cup PushesDue /\ Due' = Single' \cup PushesDue'
  BY DEF Due
<1>6. /\ W \subseteq Single /\ S \cap Single = {}
      /\ Single' = (Single \ W) \cup S /\ PushesDue' = PushesDue \cup P /\ flying' = flying \cup S \cup P
  BY DEF CoreStep
<1>7. /\ \A w \in W : w.sem \in DOMAIN need /\ need[w.sem] = w.amount
      /\ \A s \in DOMAIN need : \E w \in W : w.sem = s
      /\ sem' = [s \in Sems |-> IF s \in DOMAIN need THEN sem[s] - need[s] ELSE sem[s]]
  BY DEF CoreStep, Wait
<1>8. FlyingDue'
  BY <1>2, <1>5, <1>6 DEF FlyingDue
<1>9. \A s \in Sems : s \in DOMAIN need => sem'[s] = 0
  <2> SUFFICES ASSUME NEW s \in Sems, s \in DOMAIN need PROVE sem'[s] = 0
    OBVIOUS
  <2>1. PICK w \in W : w.sem = s
    BY <1>7
  <2>2. need[s] = w.amount /\ sem[s] = w.amount /\ w.amount \in Nat
    BY <1>2, <1>3, <1>6, <1>7, <2>1
  <2>3. sem'[s] = sem[s] - need[s]
    BY <1>7
  <2> QED BY <2>2, <2>3
<1>10. \A s \in Sems : s \notin DOMAIN need => sem'[s] = sem[s]
  BY <1>7
<1>11. \A c, d \in Single : c.sem = d.sem => c = d
  BY <1>1, <1>3, <1>5 DEF Apart
<1>12. \A c, d \in Single' : c.sem = d.sem => c = d
  BY <1>1, <1>3, <1>5 DEF Apart
<1>13. SemDue'
  <2>1. ASSUME NEW c \in Single \ W
        PROVE  sem'[c.sem] = IF c \in flying' THEN 0 ELSE c.amount
    <3>1. c.sem \notin DOMAIN need /\ c.sem \in Sems
      BY <1>3, <1>6, <1>7, <1>11
    <3>2. c \in flying' <=> c \in flying
      BY <1>3, <1>4, <1>6
    <3> QED BY <1>10, <3>1, <3>2 DEF SemDue
  <2>2. ASSUME NEW c \in S
        PROVE  sem'[c.sem] = 0 /\ c \in flying'
    <3>1. c.sem \in Sems /\ c.sem[1] \notin {"push", "push scl"} /\ c \in Single' /\ c \in flying'
      BY <1>3, <1>6
    <3>2. CASE c.sem \in DOMAIN need
      BY <1>9, <3>1, <3>2
    <3>3. CASE c.sem \notin DOMAIN need
      <4>1. \A d \in Single : d.sem # c.sem
        BY <1>6, <1>7, <1>12, <3>1, <3>3
      <4>2. sem[c.sem] = 0
        BY <3>1, <4>1 DEF SemDue
      <4> QED BY <1>10, <3>1, <3>3, <4>2
    <3> QED BY <3>2, <3>3
  <2>3. ASSUME NEW s \in Sems, s[1] \notin {"push", "push scl"}, \A c \in Single' : c.sem # s
        PROVE  sem'[s] = 0
    <3>1. CASE s \in DOMAIN need
      BY <1>9, <3>1
    <3>2. CASE s \notin DOMAIN need
      <4>1. \A d \in Single : d.sem # s
        BY <1>6, <1>7, <2>3, <3>2
      <4>2. sem[s] = 0
        BY <2>3, <4>1 DEF SemDue
      <4> QED BY <1>10, <3>2, <4>2
    <3> QED BY <3>1, <3>2
  <2>4. Sems' = Sems
    BY DEF Sems
  <2> QED BY <1>6, <2>1, <2>2, <2>3, <2>4 DEF SemDue
<1>14. Given'
  <2> SUFFICES ASSUME NEW c \in Due', c \notin flying', NEW to \in DOMAIN c.moves
               PROVE  mem'[to] = Gives(c, to)
    BY DEF Given, Gives
  <2>1. c \in Due \ flying
    BY <1>5, <1>6
  <2>2. mem[to] = Gives(c, to)
    BY <2>1 DEF Given
  <2>3. to \in Places /\ to[1] \notin {"out", "oscl"}
    BY <2>1, TargetsArePlaces
  <2> QED BY <2>2, <2>3 DEF CoreStep
<1> QED BY <1>8, <1>13, <1>14

LEMMA PushKeeps ==
  ASSUME IInv, PlaceInv', OutInv', NEW need, NEW W, NEW S, NEW P, CoreStep(need, W, S, P),
         \A i \in Visits :
           /\ Pushed(i) => Pushed(i)' /\ PushRows(i) \notin P /\ PushScl(i) \notin P
           /\ Pushed(i)' /\ ~Pushed(i) => PushRows(i) \in P /\ PushScl(i) \in P
  PROVE  PushInv'
<1>1. \A c \in Single' : c.sem[1] \notin {"push", "push scl"}
  <2>1. (PlaceInv /\ OutInv => \A c \in Single :
          c.amount \in Nat /\ c.amount > 0 /\ c.sem \in Sems /\ c.sem[1] \notin {"push", "push scl"})'
    BY SingleFacts, PTL
  <2> QED BY <2>1
<1>2. \A c \in Single : c.sem[1] \notin {"push", "push scl"}
  BY SingleFacts DEF IInv
<1>3. \A i : PushRows(i) \notin S /\ PushScl(i) \notin S
  <2>1. S \subseteq Single'
    BY DEF CoreStep
  <2>2. ASSUME NEW i PROVE PushRows(i).sem[1] = "push" /\ PushScl(i).sem[1] = "push scl"
    <3>1. PushRows(i).sem = <<"push", 0>> /\ PushScl(i).sem = <<"push scl", 0>>
      BY PushFacts
    <3> QED BY <3>1, PairIs
  <2> QED BY <1>1, <2>1, <2>2
<1>4. \A s \in Sems : s[1] \in {"push", "push scl"} => sem'[s] = sem[s]
  BY <1>2 DEF CoreStep, Wait
<1>5. sem'[<<"push", 0>>] = sem[<<"push", 0>>] /\ sem'[<<"push scl", 0>>] = sem[<<"push scl", 0>>]
  <2>1. <<"push", 0>>[1] = "push" /\ <<"push scl", 0>>[1] = "push scl"
    BY PairIs
  <2> QED BY <1>4, <2>1, PlacesAre
<1>6. schedule' = schedule /\ flying' = flying \cup S \cup P
  BY DEF CoreStep
<1>7. Tiles' = Tiles
  BY <1>6, KeptTerms
<1>8. \A i : PushRows(i)' = PushRows(i) /\ PushScl(i)' = PushScl(i)
  BY <1>6, KeptPushes
<1>9. \A i \in Visits :
        /\ Pushed(i)' /\ PushRows(i) \notin flying' <=> Pushed(i) /\ PushRows(i) \notin flying
        /\ Pushed(i)' /\ PushScl(i) \notin flying' <=> Pushed(i) /\ PushScl(i) \notin flying
  BY <1>3, <1>6
<1>10. RowsPushed' = RowsPushed /\ SclPushed' = SclPushed
  <2>1. \A tile \in Tiles : tile[1] \in Visits
    BY TilesAre
  <2>2. RowsPushed' = {tile \in Tiles : Pushed(tile[1])' /\ PushRows(tile[1]) \notin flying'}
    BY <1>7, <1>8 DEF RowsPushed
  <2>3. SclPushed' = {tile \in Tiles : Pushed(tile[1])' /\ PushScl(tile[1]) \notin flying'}
    BY <1>7, <1>8 DEF SclPushed
  <2>4. RowsPushed' = RowsPushed
    BY <1>9, <2>1, <2>2 DEF RowsPushed
  <2>5. SclPushed' = SclPushed
    BY <1>9, <2>1, <2>3 DEF SclPushed
  <2> QED BY <2>4, <2>5
<1>11. MapThenSumSet(Blocks, RowsPushed)' = MapThenSumSet(Blocks, RowsPushed)
  BY <1>6, <1>10, KeptSums
<1> QED BY <1>5, <1>10, <1>11 DEF IInv, PushInv

-----------------------------------------------------------------------------
(* A copy lands.                                                             *)

LEMMA PushAmounts ==
  PlaceInv => \A i \in Visits :
    /\ PushRows(i).amount = MapThenSumSet(Blocks, TilesOf(i)) /\ PushRows(i).amount \in Nat
    /\ PushScl(i).amount = Cardinality(TilesOf(i)) /\ PushScl(i).amount \in Nat
<1> SUFFICES ASSUME PlaceInv, NEW i \in Visits
             PROVE  /\ PushRows(i).amount = MapThenSumSet(Blocks, TilesOf(i)) /\ PushRows(i).amount \in Nat
                    /\ PushScl(i).amount = Cardinality(TilesOf(i)) /\ PushScl(i).amount \in Nat
  OBVIOUS
<1>1. IsFiniteSet(TilesOf(i)) /\ Cardinality(TilesOf(i)) = NumTiles(i) /\ NumTiles(i) \in Nat
  BY TilesFinite, ScheduleIs DEF PlaceInv
<1>2. MapThenSumSet(Blocks, TilesOf(i)) \in Nat
  BY <1>1, TileSums
<1>3. PushRows(i).amount = MapThenSumSet(Blocks, TilesOf(i)) /\ PushScl(i).amount = NumTiles(i)
  BY PushFacts
<1> QED BY <1>1, <1>2, <1>3

LEMMA LandKeeps ==
  ASSUME IInv, NEW copy \in flying, Land(copy)
  PROVE  /\ Due' = Due /\ Single' = Single /\ \A p \in Slots : Staged(p)' = Staged(p)
         /\ PlaceInv' /\ OutInv' /\ FlyingDue' /\ SemDue' /\ Given'
         /\ \A place \in Places : place \notin DOMAIN copy.moves => mem'[place] = mem[place]
<1> USE DEF IInv
<1>1. /\ UNCHANGED <<schedule, pc, visit, t, count, wslot, owed, act>>
      /\ flying' = flying \ {copy} /\ sem' = [sem EXCEPT ![copy.sem] = @ + copy.amount]
      /\ mem' = [place \in Places |->
           IF place \in DOMAIN copy.moves THEN Content(copy.moves[place]) ELSE mem[place]]
  BY DEF Land
<1>2. copy \in Due
  BY DEF FlyingDue
<1>3. \A to \in DOMAIN copy.moves : to \in Places /\ to[1] \notin {"out", "oscl"}
  BY <1>2, TargetsArePlaces
<1>4. \A place \in Places : place \notin DOMAIN copy.moves => mem'[place] = mem[place]
  BY <1>1
<1>5. \A p \in Slots : mem'[<<"out", p>>] = mem[<<"out", p>>] /\ mem'[<<"oscl", p>>] = mem[<<"oscl", p>>]
  <2>1. \A p : <<"out", p>>[1] = "out" /\ <<"oscl", p>>[1] = "oscl"
    OBVIOUS
  <2> QED BY <1>3, <1>4, <2>1, PlacesAre
<1>6. \A p \in Slots : Staged(p)' = Staged(p)
  BY <1>5 DEF Staged
<1>7. LoadsDue' = LoadsDue
  <2>1. WeightsDue' = WeightsDue
    <3>1. \A kind, i : WeightAwaited(kind, i)' <=> WeightAwaited(kind, i)
      BY <1>1 DEF WeightAwaited, Started, StartedNext, WaitedHere, Prefetches, AtHead, LastTile, NumTiles
    <3> QED BY <1>1, <3>1, NextDue, WeightsAre
  <2>2. WindowsDue' = WindowsDue
    <3>1. \A tile, slot : WindowAwaited(tile, slot)' <=> WindowAwaited(tile, slot)
      BY <1>1 DEF WindowAwaited, LastTile, NumTiles, NextWslot
    <3> QED BY <1>1, <3>1, NextDue, WindowsAre
  <2>3. RowsDue' = RowsDue
    <3>1. \A tile, slot : RowsAwaited(tile, slot)' <=> RowsAwaited(tile, slot)
      BY <1>1 DEF RowsAwaited, Tile, Parity
    <3> QED BY <1>1, <3>1, NextDue, RowsAre
  <2> QED BY <2>1, <2>2, <2>3 DEF LoadsDue
<1>8. \A p \in Slots : Leaving(p)' <=> Leaving(p)
  BY <1>1 DEF Leaving, Parity
<1>9. OutsDue' = OutsDue
  <2>1. \A p \in Slots : RowsOut(p)' = RowsOut(p) /\ SclOut(p)' = SclOut(p)
    BY <1>1, <1>6 DEF RowsOut, SclOut, RowsTo, SclTo
  <2> QED BY <1>1, <1>8, <2>1, NextDue, OutsAre
<1>10. PushesDue' = PushesDue
  <2>1. \A i \in Visits : Pushed(i)' <=> Pushed(i)
    BY <1>1 DEF Pushed
  <2> QED BY <1>1, <2>1, NextDue, PushesAre
<1>11. Due' = Due /\ Single' = Single
  BY <1>7, <1>9, <1>10 DEF Due, Single
<1>12. Apart /\ GivesRight
  BY ApartHolds, GivesHolds
<1>13. FlyingDue'
  BY <1>1, <1>11 DEF FlyingDue
<1>14. SemDue'
  <2>1. Sems' = Sems
    BY DEF Sems
  <2>2. ASSUME NEW c \in Single PROVE sem'[c.sem] = IF c \in flying' THEN 0 ELSE c.amount
    <3>1. c.amount \in Nat /\ c.sem \in Sems /\ c.sem[1] \notin {"push", "push scl"} /\ c \in Due
      BY SingleFacts DEF Due
    <3>2. CASE c = copy
      <4>1. sem[c.sem] = 0
        BY <3>2 DEF SemDue
      <4>2. sem'[c.sem] = 0 + c.amount
        BY <1>1, <3>1, <3>2, <4>1 DEF PlaceInv
      <4>3. c \notin flying'
        BY <1>1, <3>2
      <4>4. \A a \in Nat : 0 + a = a
        OBVIOUS
      <4> QED BY <3>1, <4>2, <4>3, <4>4
    <3>3. CASE c # copy
      <4>1. c.sem # copy.sem
        BY <1>2, <1>12, <3>1, <3>3 DEF Apart
      <4>2. sem'[c.sem] = sem[c.sem]
        BY <1>1, <3>1, <4>1 DEF PlaceInv
      <4> QED BY <1>1, <3>3, <4>2 DEF SemDue
    <3> QED BY <3>2, <3>3
  <2>3. ASSUME NEW s \in Sems, s[1] \notin {"push", "push scl"}, \A c \in Single : c.sem # s
        PROVE  sem'[s] = 0
    <3>1. copy.sem # s
      <4>1. CASE copy \in Single
        BY <2>3, <4>1
      <4>2. CASE copy \in PushesDue
        BY <2>3, <4>2, PushHeads
      <4> QED BY <1>2, <4>1, <4>2 DEF Due
    <3>2. sem[s] = 0
      BY <2>3 DEF SemDue
    <3> QED BY <1>1, <3>1, <3>2 DEF PlaceInv
  <2> QED BY <1>11, <2>1, <2>2, <2>3 DEF SemDue
<1>15. Given'
  <2> SUFFICES ASSUME NEW c \in Due, c \notin flying', NEW to \in DOMAIN c.moves
               PROVE  mem'[to] = Gives(c, to)
    BY <1>11 DEF Given, Gives
  <2>1. to \in Places
    BY TargetsArePlaces
  <2>2. CASE c = copy
    <3>1. mem'[to] = Content(c.moves[to])
      BY <1>1, <2>1, <2>2
    <3> QED BY <1>12, <3>1 DEF GivesRight
  <2>3. CASE c # copy
    <3>1. to \notin DOMAIN copy.moves
      BY <1>2, <1>12, <2>3 DEF Apart
    <3>2. mem[to] = Gives(c, to)
      BY <1>1, <2>3 DEF Given
    <3> QED BY <1>4, <2>1, <3>1, <3>2
  <2> QED BY <2>2, <2>3
<1>16. PlaceInv'
  <2>1. sem' \in [Sems -> Nat]
    <3>1. copy.amount \in Nat
      <4>1. CASE copy \in Single
        BY <4>1, SingleFacts
      <4>2. CASE copy \in PushesDue
        BY <4>2, PushAmounts, PushesAre
      <4> QED BY <1>2, <4>1, <4>2 DEF Due
    <3>2. sem \in [Sems -> Nat]
      BY DEF PlaceInv
    <3> DEFINE a == copy.amount
               k == copy.sem
    <3>3. sem' = [sem EXCEPT ![k] = @ + a] /\ a \in Nat
      BY <1>1, <3>1
    <3> HIDE DEF IInv, a, k
    <3>4. sem' = [s \in Sems |-> IF s = k THEN sem[k] + a ELSE sem[s]]
      BY <3>2, <3>3
    <3>5. \A s \in Sems : s = k => sem[k] + a \in Nat
      BY <3>2, <3>3
    <3>6. \A s \in Sems : sem[s] \in Nat
      BY <3>2
    <3> QED BY <3>4, <3>5, <3>6
  <2>2. mem' = [place \in Places' |-> mem'[place]]
    BY <1>1, KeptTerms
  <2> QED BY <1>1, <2>1, <2>2, KeptTerms DEF PlaceInv, LastTile, Sems
<1>17. OutInv'
  <2>1. \A tile : Computed(tile)' <=> Computed(tile)
    BY <1>1 DEF Computed
  <2>2. Tiles' = Tiles /\ \A tile : Blocks(tile)' = Blocks(tile)
    BY <1>1, KeptTerms
  <2>3. OutInv
    OBVIOUS
  <2> HIDE DEF IInv
  <2> QED BY <1>1, <1>5, <1>6, <2>1, <2>2, <2>3 DEF OutInv, Slots
<1> QED BY <1>4, <1>6, <1>11, <1>13, <1>14, <1>15, <1>16, <1>17

LEMMA PushApart ==
  PlaceInv => \A i, j \in Visits :
    /\ PushRows(i) # PushScl(j)
    /\ i # j => PushRows(i) # PushRows(j) /\ PushScl(i) # PushScl(j)
<1> SUFFICES ASSUME PlaceInv, NEW i \in Visits, NEW j \in Visits
             PROVE  /\ PushRows(i) # PushScl(j)
                    /\ i # j => PushRows(i) # PushRows(j) /\ PushScl(i) # PushScl(j)
  OBVIOUS
<1>1. PushRows(i) # PushScl(j)
  <2>1. PushRows(i).sem = <<"push", 0>> /\ PushScl(j).sem = <<"push scl", 0>>
    BY PushFacts
  <2>2. <<"push", 0>> # <<"push scl", 0>>
    OBVIOUS
  <2> QED BY <2>1, <2>2
<1>2. ASSUME i # j PROVE PushRows(i) # PushRows(j) /\ PushScl(i) # PushScl(j)
  <2>1. NumTiles(i) \in Nat /\ NumTiles(i) > 0
    BY ScheduleIs DEF PlaceInv
  <2>2. <<i, 0>> \in TilesOf(i) /\ <<i, 0>> \notin TilesOf(j)
    BY <1>2, <2>1 DEF TilesOf
  <2>3. /\ DOMAIN PushRows(i).moves = {"recv"} \X TilesOf(i) /\ DOMAIN PushRows(j).moves = {"recv"} \X TilesOf(j)
        /\ DOMAIN PushScl(i).moves = {"rscl"} \X TilesOf(i) /\ DOMAIN PushScl(j).moves = {"rscl"} \X TilesOf(j)
    BY PushFacts
  <2>4. \A k : {k} \X TilesOf(i) # {k} \X TilesOf(j)
    <3> DEFINE x == <<i, 0>>
    <3>1. x \in TilesOf(i) /\ x \notin TilesOf(j)
      BY <2>2
    <3> HIDE DEF x
    <3>2. \A k : <<k, x>> \in {k} \X TilesOf(i) /\ <<k, x>> \notin {k} \X TilesOf(j)
      BY <3>1
    <3> QED BY <3>2
  <2> QED BY <2>3, <2>4
<1> QED BY <1>1, <1>2

\* The weights that the core is using are not being written.
LEMMA WeightsFree ==
  PlaceInv /\ OutInv => \A kind \in Kinds : Using(kind) =>
    \A c \in Due : <<kind, WeightSlot(visit)>> \notin DOMAIN c.moves
<1> SUFFICES ASSUME PlaceInv, OutInv, NEW kind \in Kinds, Using(kind), NEW c \in Due,
                    <<kind, WeightSlot(visit)>> \in DOMAIN c.moves
             PROVE  FALSE
  OBVIOUS
<1> DEFINE place == <<kind, WeightSlot(visit)>>
<1>1. place[1] = kind /\ place[1] \notin {"recv", "rscl", "contrib", "cscl", "window", "lhs"}
  BY DEF Kinds
<1> HIDE DEF place
<1>2. place \in DOMAIN c.moves
  BY DEF place
<1>3. c \in LoadsDue
  <2>1. c \notin OutsDue
    BY <1>1, <1>2, Heads DEF RowsTo, SclTo
  <2>2. c \notin PushesDue
    BY <1>1, <1>2, Heads
  <2> QED BY <2>1, <2>2 DEF Due, Single
<1>4. c.sem = place
  BY <1>2, <1>3, LoadFacts
<1>5. c \in WeightsDue
  <2>1. c \notin WindowsDue
    <3>1. ASSUME NEW tile, NEW slot, c = Window(tile, slot) PROVE FALSE
      <4>1. c.sem = <<"window", slot>>
        BY <3>1, LoadIs DEF Window
      <4>2. c.sem[1] = "window"
        BY <4>1, PairIs
      <4> QED BY <1>1, <1>4, <4>2
    <3> QED BY <3>1, WindowsAre
  <2>2. c \notin RowsDue
    <3>1. ASSUME NEW tile, NEW slot, c = RowsOf(tile, slot) PROVE FALSE
      <4>1. c.sem = <<"lhs", slot>>
        BY <3>1, LoadIs DEF RowsOf
      <4>2. c.sem[1] = "lhs"
        BY <4>1, PairIs
      <4> QED BY <1>1, <1>4, <4>2
    <3> QED BY <3>1, RowsAre
  <2> QED BY <1>3, <2>1, <2>2 DEF LoadsDue
<1>6. PICK k \in Kinds, i \in Visits : WeightAwaited(k, i) /\ c = Load1(k, i)
  BY <1>5, WeightsAre
<1>7. c.sem = <<k, WeightSlot(i)>>
  BY <1>6, LoadIs DEF Load1
<1>8. k = kind /\ WeightSlot(i) = WeightSlot(visit)
  BY <1>4, <1>7 DEF place
<1>9. pc \in Tiling /\ WaitedHere(kind) /\ (kind = "w1" /\ pc = "down" => ~LastTile)
  BY DEF Using
<1>10. visit \in Visits /\ visit \in Nat /\ i \in Nat /\ schedule \in Schedules /\ schedule.distance \in 0..2
  BY <1>9, ScheduleIs DEF PlaceInv, Visits
<1>11. i > visit
  BY <1>6, <1>8, <1>9, <1>10 DEF WeightAwaited
<1>12. i < visit + Nbuf
  <2>1. CASE Prefetches
    BY <1>6, <1>9, <1>10, <2>1 DEF WeightAwaited, Started, Nbuf, AfterWeights, Tiling
  <2>2. CASE ~Prefetches
    <3>1. StartedNext(k)
      BY <1>6, <1>10, <1>11, <2>2 DEF WeightAwaited, Started
    <3> QED BY <1>8, <1>9, <3>1 DEF StartedNext, Tiling
  <2> QED BY <2>1, <2>2
<1> QED BY <1>8, <1>10, <1>11, <1>12, SlotsDiffer

\* Nor are the rows.
LEMMA LhsFree ==
  PlaceInv /\ OutInv /\ pc \in {"next", "gate"} => \A c \in Due : <<"lhs", Parity>> \notin DOMAIN c.moves
<1> SUFFICES ASSUME PlaceInv, OutInv, pc \in {"next", "gate"}, NEW c \in Due,
                    <<"lhs", Parity>> \in DOMAIN c.moves
             PROVE  FALSE
  OBVIOUS
<1> DEFINE place == <<"lhs", Parity>>
<1>1. place[1] = "lhs"
  OBVIOUS
<1> HIDE DEF place
<1>2. place \in DOMAIN c.moves
  BY DEF place
<1>3. c \in LoadsDue
  <2>1. c \notin OutsDue
    BY <1>1, <1>2, Heads DEF RowsTo, SclTo
  <2>2. c \notin PushesDue
    BY <1>1, <1>2, Heads
  <2> QED BY <2>1, <2>2 DEF Due, Single
<1>4. c.sem = place
  BY <1>2, <1>3, LoadFacts
<1>5. c \in RowsDue
  <2>1. c \notin WindowsDue
    <3>1. ASSUME NEW tile, NEW slot, c = Window(tile, slot) PROVE FALSE
      <4>1. c.sem = <<"window", slot>>
        BY <3>1, LoadIs DEF Window
      <4>2. c.sem[1] = "window"
        BY <4>1, PairIs
      <4> QED BY <1>1, <1>4, <4>2
    <3> QED BY <3>1, WindowsAre
  <2>2. c \notin WeightsDue
    <3>1. ASSUME NEW kind \in Kinds, NEW i, c = Load1(kind, i) PROVE FALSE
      <4>1. c.sem = <<kind, WeightSlot(i)>>
        BY <3>1, LoadIs DEF Load1
      <4>2. c.sem[1] = kind
        BY <4>1, PairIs
      <4> QED BY <1>1, <1>4, <4>2 DEF Kinds
    <3> QED BY <3>1, WeightsAre
  <2> QED BY <1>3, <2>1, <2>2 DEF LoadsDue
<1>6. PICK tile \in Tiles, parity \in Slots : RowsAwaited(tile, parity) /\ c = RowsOf(tile, parity)
  BY <1>5, RowsAre
<1>7. c.sem = <<"lhs", parity>>
  BY <1>6, LoadIs DEF RowsOf
<1>8. parity = Parity
  BY <1>4, <1>7 DEF place
<1>9. parity = 1 - Parity
  BY <1>6 DEF RowsAwaited
<1>10. Parity \in Slots
  BY Turn DEF Parity, PlaceInv
<1> QED BY <1>8, <1>9, <1>10 DEF Slots

\* Nor is a result that has been delivered.
LEMMA ResultsFree ==
  PlaceInv /\ OutInv => \A tile \in Tiles : (\A p \in Slots : Leaving(p) => Staged(p) # tile) =>
    \A c \in Due : <<RowsTo, tile>> \notin DOMAIN c.moves /\ <<SclTo, tile>> \notin DOMAIN c.moves
<1> SUFFICES ASSUME PlaceInv, OutInv, NEW tile \in Tiles, \A p \in Slots : Leaving(p) => Staged(p) # tile,
                    NEW c \in Due
             PROVE  <<RowsTo, tile>> \notin DOMAIN c.moves /\ <<SclTo, tile>> \notin DOMAIN c.moves
  OBVIOUS
<1>1. <<RowsTo, tile>>[1] = RowsTo /\ <<SclTo, tile>>[1] = SclTo
  OBVIOUS
<1>2. RowsTo \in {"recv", "contrib"} /\ SclTo \in {"rscl", "cscl"}
  BY DEF RowsTo, SclTo
<1>3. CASE c \in LoadsDue
  <2>1. \A to \in DOMAIN c.moves : to[1] \notin {"recv", "contrib", "rscl", "cscl"}
    BY <1>3, Heads DEF Kinds
  <2> QED BY <1>1, <1>2, <2>1
<1>4. CASE c \in OutsDue
  <2>1. PICK p \in Slots : /\ Leaving(p)
                           /\ \/ DOMAIN c.moves = {<<RowsTo, Staged(p)>>}
                              \/ DOMAIN c.moves = {<<SclTo, Staged(p)>>}
    BY <1>4, OutShape
  <2>2. Staged(p) # tile
    BY <2>1
  <2> QED BY <2>1, <2>2
<1>5. CASE c \in PushesDue
  <2>1. RowsTo = "contrib" /\ SclTo = "cscl"
    BY <1>5, Heads DEF RowsTo, SclTo
  <2>2. \A to \in DOMAIN c.moves : to[1] \in {"recv", "rscl"}
    BY <1>5, Heads
  <2> QED BY <1>1, <2>1, <2>2
<1> QED BY <1>3, <1>4, <1>5 DEF Due, Single

LEMMA DoneDue == PlaceInv /\ pc = "done" => Due = {}
<1> SUFFICES ASSUME PlaceInv, pc = "done" PROVE Due = {}
  OBVIOUS
<1>1. \A kind, i : i \in Visits => ~WeightAwaited(kind, i)
  <2>1. NumVisits \in Nat /\ Visits = {i \in Nat : i < NumVisits} /\ visit \in Int
        /\ (visit = NumVisits \/ (NumVisits = 0 /\ visit = -1))
    BY ScheduleIs DEF PlaceInv
  <2>2. \A i \in Visits : i < visit
    BY <2>1
  <2> QED BY <2>2 DEF WeightAwaited
<1>2. \A tile, slot : ~WindowAwaited(tile, slot) /\ ~RowsAwaited(tile, slot)
  BY DEF WindowAwaited, RowsAwaited
<1>3. WeightsDue = {}
  BY <1>1, WeightsAre
<1>4. WindowsDue = {}
  BY <1>2, WindowsAre
<1>5. RowsDue = {}
  BY <1>2, RowsAre
<1>6. OutsDue = {}
  BY OutsAre DEF Leaving
<1>7. PushesDue = {}
  BY PushesAre DEF Pushed
<1> QED BY <1>3, <1>4, <1>5, <1>6, <1>7 DEF Due, Single, LoadsDue

LEMMA LandPushes ==
  ASSUME IInv, NEW copy \in flying, Land(copy)
  PROVE  PushInv'
<1> DEFINE sum(T) == MapThenSumSet(Blocks, T)
           size(T) == Cardinality(T)
           R == RowsPushed
           C == SclPushed
<1>1. /\ PlaceInv /\ OutInv /\ copy \in Due
      /\ sem[<<"push", 0>>] = sum(R) /\ sem[<<"push scl", 0>>] = size(C)
  BY DEF IInv, FlyingDue, PushInv
<1>2. /\ schedule' = schedule /\ pc' = pc /\ visit' = visit /\ flying' = flying \ {copy}
      /\ sem' = [sem EXCEPT ![copy.sem] = @ + copy.amount]
  BY DEF Land
<1>3. /\ \A i \in Visits : Pushed(i)' <=> Pushed(i)
      /\ \A i : PushRows(i)' = PushRows(i) /\ PushScl(i)' = PushScl(i)
      /\ Tiles' = Tiles /\ \A tile \in Tiles : tile[1] \in Visits
  BY <1>2, KeptPushes, KeptTerms, TilesAre DEF Pushed
<1>4. /\ R' = {tile \in Tiles : Pushed(tile[1]) /\ PushRows(tile[1]) \notin flying'}
      /\ C' = {tile \in Tiles : Pushed(tile[1]) /\ PushScl(tile[1]) \notin flying'}
  BY <1>3 DEF RowsPushed, SclPushed
<1>5. IsFiniteSet(Tiles) /\ R \subseteq Tiles /\ C \subseteq Tiles
  BY <1>1, TilesFinite DEF PlaceInv, RowsPushed, SclPushed
<1>6. IsFiniteSet(R) /\ IsFiniteSet(C)
  BY <1>5, FS_Subset
<1>7. \A T : sum(T)' = sum(T)
  BY <1>2, KeptSums
<1>8. sem \in [Sems -> Nat] /\ <<"push", 0>> \in Sems /\ <<"push scl", 0>> \in Sems
      /\ <<"push", 0>> # <<"push scl", 0>>
  BY <1>1, PlacesAre DEF PlaceInv
<1>9. SUFFICES /\ sem'[<<"push", 0>>] = sum(R') /\ sem'[<<"push scl", 0>>] = size(C')
  BY <1>2, KeptSums DEF PushInv
<1>10. CASE copy \in Single
  <2>1. copy.sem[1] \notin {"push", "push scl"}
    BY <1>1, <1>10, SingleFacts
  <2>2. copy.sem # <<"push", 0>> /\ copy.sem # <<"push scl", 0>>
    BY <2>1, PairIs
  <2>3. \A i \in Visits : PushRows(i) # copy /\ PushScl(i) # copy
    BY <2>2, PushFacts
  <2>4. R' = R /\ C' = C
    BY <1>2, <1>3, <1>4, <2>3 DEF RowsPushed, SclPushed
  <2>5. sem'[<<"push", 0>>] = sem[<<"push", 0>>] /\ sem'[<<"push scl", 0>>] = sem[<<"push scl", 0>>]
    BY <1>2, <1>8, <2>2
  <2> HIDE DEF R, C, sum, size
  <2> QED BY <1>1, <2>4, <2>5
<1>11. ASSUME NEW i \in Visits, Pushed(i), copy = PushRows(i)
       PROVE  /\ sem'[<<"push", 0>>] = sum(R') /\ sem'[<<"push scl", 0>>] = size(C')
  <2>1. copy.sem = <<"push", 0>> /\ copy.amount = sum(TilesOf(i)) /\ sum(TilesOf(i)) \in Nat
    BY <1>1, <1>11, PushFacts, PushAmounts
  <2>2. /\ \A j \in Visits : PushScl(j) # copy
        /\ \A j \in Visits : PushRows(j) = copy => j = i
    BY <1>1, <1>11, PushApart
  <2>3. C' = C
    BY <1>2, <1>3, <1>4, <2>2 DEF SclPushed
  <2>4. R' = R \cup TilesOf(i) /\ R = R' \ TilesOf(i)
    <3>1. \A tile \in Tiles : tile \in TilesOf(i) <=> tile[1] = i
      BY TilesAre
    <3>2. TilesOf(i) \subseteq Tiles
      BY TilesAre
    <3>3. copy \in flying
      OBVIOUS
    <3>4. \A tile \in Tiles : tile \in R' <=> tile \in R \/ tile[1] = i
      BY <1>2, <1>3, <1>4, <1>11, <2>2 DEF RowsPushed
    <3>5. \A tile \in R : tile[1] # i
      BY <1>11 DEF RowsPushed
    <3>6. R' \subseteq Tiles
      BY <1>4
    <3> HIDE DEF R
    <3> QED BY <1>5, <3>1, <3>2, <3>4, <3>5, <3>6
  <2>5. sum(R') = sum(TilesOf(i)) + sum(R)
    <3>1. IsFiniteSet(R') /\ TilesOf(i) \in SUBSET R'
      BY <1>4, <1>5, <2>4, FS_Subset
    <3> DEFINE Q == R'
               U == TilesOf(i)
    <3>2. IsFiniteSet(Q) /\ U \in SUBSET Q /\ R = Q \ U
      BY <2>4, <3>1
    <3> HIDE DEF Q, U, R
    <3>3. sum(Q) = sum(U) + sum(Q \ U)
      BY <3>2, TileSums
    <3> QED BY <3>2, <3>3 DEF Q, U
  <2>6. sum(R) \in Nat
    BY <1>6, TileSums
  <2>7. sem'[<<"push", 0>>] = sem[<<"push", 0>>] + sum(TilesOf(i)) /\ sem'[<<"push scl", 0>>] = sem[<<"push scl", 0>>]
    BY <1>2, <1>8, <2>1
  <2> DEFINE a == sum(R)
             b == sum(TilesOf(i))
  <2>8. a + b = b + a
    <3>1. a \in Nat /\ b \in Nat
      BY <2>1, <2>6
    <3> HIDE DEF a, b
    <3> QED BY <3>1
  <2> HIDE DEF R, C, sum, size
  <2> QED BY <1>1, <2>3, <2>5, <2>7, <2>8
<1>12. ASSUME NEW i \in Visits, Pushed(i), copy = PushScl(i)
       PROVE  /\ sem'[<<"push", 0>>] = sum(R') /\ sem'[<<"push scl", 0>>] = size(C')
  <2>1. copy.sem = <<"push scl", 0>> /\ copy.amount = size(TilesOf(i)) /\ size(TilesOf(i)) \in Nat
    BY <1>1, <1>12, PushFacts, PushAmounts
  <2>2. /\ \A j \in Visits : PushRows(j) # copy
        /\ \A j \in Visits : PushScl(j) = copy => j = i
    BY <1>1, <1>12, PushApart
  <2>3. R' = R
    BY <1>2, <1>3, <1>4, <2>2 DEF RowsPushed
  <2>4. C' = C \cup TilesOf(i) /\ C \cap TilesOf(i) = {}
    <3>1. \A tile \in Tiles : tile \in TilesOf(i) <=> tile[1] = i
      BY TilesAre
    <3>2. TilesOf(i) \subseteq Tiles
      BY TilesAre
    <3>4. \A tile \in Tiles : tile \in C' <=> tile \in C \/ tile[1] = i
      BY <1>2, <1>3, <1>4, <1>12, <2>2 DEF SclPushed
    <3>5. \A tile \in C : tile[1] # i
      BY <1>12 DEF SclPushed
    <3>6. C' \subseteq Tiles
      BY <1>4
    <3> HIDE DEF C
    <3> QED BY <1>5, <3>1, <3>2, <3>4, <3>5, <3>6
  <2>5. IsFiniteSet(TilesOf(i))
    BY <1>1, TilesFinite DEF PlaceInv
  <2>6. size(C') = size(C) + size(TilesOf(i))
    <3> DEFINE U == TilesOf(i)
    <3>1. IsFiniteSet(C) /\ IsFiniteSet(U) /\ C \cap U = {}
      BY <1>6, <2>4, <2>5
    <3> HIDE DEF C, U
    <3>2. Cardinality(C \cup U) = Cardinality(C) + Cardinality(U) - Cardinality(C \cap U)
      BY <3>1, FS_Union
    <3>3. Cardinality(C \cap U) = 0 /\ Cardinality(C) \in Nat /\ Cardinality(U) \in Nat
      BY <3>1, FS_EmptySet, FS_CardinalityType
    <3>4. Cardinality(C \cup U) = Cardinality(C) + Cardinality(U)
      BY <3>2, <3>3
    <3> QED BY <2>4, <3>4 DEF U
  <2>7. sem'[<<"push scl", 0>>] = sem[<<"push scl", 0>>] + size(TilesOf(i)) /\ sem'[<<"push", 0>>] = sem[<<"push", 0>>]
    BY <1>2, <1>8, <2>1
  <2> HIDE DEF R, C, sum, size
  <2> QED BY <1>1, <2>3, <2>6, <2>7
<1> QED BY <1>1, <1>10, <1>11, <1>12, PushesAre DEF Due

LEMMA LandStep ==
  ASSUME IInv, NEW copy \in flying, Land(copy)
  PROVE  IInv'
<1>1. /\ Due' = Due /\ \A p \in Slots : Staged(p)' = Staged(p)
      /\ PlaceInv' /\ OutInv' /\ FlyingDue' /\ SemDue' /\ Given'
      /\ \A place \in Places : place \notin DOMAIN copy.moves => mem'[place] = mem[place]
  BY LandKeeps
<1>2. PushInv'
  BY LandPushes
<1>3. PlaceInv /\ OutInv /\ copy \in Due
  BY DEF IInv, FlyingDue
<1>4. UNCHANGED <<schedule, pc, visit, t, count, wslot, owed, act>>
  BY DEF Land
<1>5. WeightsHeld'
  <2> SUFFICES ASSUME NEW kind \in Kinds, Using(kind)'
               PROVE  mem'[<<kind, WeightSlot(visit)>>'] = <<visit>>'
    BY DEF WeightsHeld
  <2>1. Using(kind)
    BY <1>4 DEF Using, WaitedHere, AtHead, LastTile, NumTiles
  <2>2. WeightSlot(visit)' = WeightSlot(visit)
    BY <1>4 DEF WeightSlot, Nbuf
  <2>3. <<kind, WeightSlot(visit)>> \in Places
    <3>1. visit \in Nat /\ schedule \in Schedules
      BY <1>3, <2>1 DEF Using, PlaceInv, Visits
    <3>2. WeightSlot(visit) \in 0..2
      BY <3>1, SlotsDiffer
    <3> QED BY <3>2, PlacesAre
  <2>4. <<kind, WeightSlot(visit)>> \notin DOMAIN copy.moves
    BY <1>3, <2>1, WeightsFree
  <2>5. mem[<<kind, WeightSlot(visit)>>] = <<visit>>
    BY <2>1 DEF IInv, WeightsHeld
  <2>6. mem'[<<kind, WeightSlot(visit)>>] = <<visit>>
    BY <1>1, <2>3, <2>4, <2>5
  <2> QED BY <1>4, <2>2, <2>6
<1>6. RowsHeld'
  <2>1. Parity' = Parity /\ Tile' = Tile
    BY <1>4 DEF Parity, Tile
  <2>2. ASSUME pc \in {"next", "gate"} PROVE mem'[<<"lhs", Parity>>] = Tile
    <3>1. Parity \in Slots
      BY <1>3, Turn DEF Parity, PlaceInv
    <3>2. <<"lhs", Parity>> \in Places
      BY <3>1, PlacesAre
    <3>3. <<"lhs", Parity>> \notin DOMAIN copy.moves
      BY <1>3, <2>2, LhsFree
    <3>4. mem[<<"lhs", Parity>>] = Tile
      BY <2>2 DEF IInv, RowsHeld
    <3> QED BY <1>1, <3>2, <3>3, <3>4
  <2>3. pc = "down" => act = Tile
    BY DEF IInv, RowsHeld
  <2> QED BY <1>4, <2>1, <2>2, <2>3 DEF RowsHeld
<1>7. Delivered'
  <2>1. \A tile : Computed(tile)' <=> Computed(tile)
    BY <1>4 DEF Computed
  <2>2. \A p \in Slots : Leaving(p)' <=> Leaving(p)
    BY <1>4 DEF Leaving, Parity
  <2>3. Tiles' = Tiles /\ RowsTo' = RowsTo /\ SclTo' = SclTo
    BY <1>4, KeptTerms
  <2>4. ASSUME NEW tile \in Tiles, Computed(tile), \A p \in Slots : Leaving(p) => Staged(p) # tile
        PROVE  mem'[<<RowsTo, tile>>] = tile /\ mem'[<<SclTo, tile>>] = tile
    <3>1. mem[<<RowsTo, tile>>] = tile /\ mem[<<SclTo, tile>>] = tile
      BY <2>4 DEF IInv, Delivered
    <3>2. <<RowsTo, tile>> \notin DOMAIN copy.moves /\ <<SclTo, tile>> \notin DOMAIN copy.moves
      BY <1>3, <2>4, ResultsFree
    <3>3. <<RowsTo, tile>> \in Places /\ <<SclTo, tile>> \in Places
      BY PlacesAre DEF RowsTo, SclTo
    <3> QED BY <1>1, <3>1, <3>2, <3>3
  <2> QED BY <1>1, <2>1, <2>2, <2>3, <2>4 DEF Delivered
<1>8. PushDelivered'
  <2>1. pc # "done"
    BY <1>3, DoneDue
  <2> QED BY <1>4, <2>1 DEF PushDelivered
<1> QED BY <1>1, <1>2, <1>5, <1>6, <1>7, <1>8 DEF IInv

-----------------------------------------------------------------------------
(* How a step of the core changes a family of copies: it waits for V and     *)
(* starts S.                                                                 *)
Family(D, E, V, S) == V \subseteq D /\ S \cap D = {} /\ E = (D \ V) \cup S

Image(f, P) == {f[w] : w \in P}

LEMMA ImageStep ==
  ASSUME NEW K, NEW f, \A v, w \in K : f[v] = f[w] => v = w,
         NEW P, NEW Q, NEW X, NEW Y, P \subseteq K, X \subseteq P, Y \subseteq K,
         Y \cap P = {}, Q = (P \ X) \cup Y
  PROVE  Family(Image(f, P), Image(f, Q), Image(f, X), Image(f, Y))
<1> DEFINE D == Image(f, P)
           E == Image(f, Q)
           V == Image(f, X)
           S == Image(f, Y)
<1>0. /\ \A c : c \in D <=> \E w \in P : c = f[w]
      /\ \A c : c \in E <=> \E w \in Q : c = f[w]
      /\ \A c : c \in V <=> \E w \in X : c = f[w]
      /\ \A c : c \in S <=> \E w \in Y : c = f[w]
  BY DEF Image
<1> HIDE DEF D, E, V, S
<1>1. V \subseteq D
  BY <1>0
<1>2. S \cap D = {}
  <2> SUFFICES ASSUME NEW v \in Y, NEW w \in P, f[v] = f[w] PROVE FALSE
    BY <1>0
  <2>1. v \in K /\ w \in K /\ v # w
    OBVIOUS
  <2> QED BY <2>1
<1>3. ASSUME NEW w \in Q PROVE f[w] \in (D \ V) \cup S
  <2>1. CASE w \in Y
    BY <1>0, <2>1
  <2>2. CASE w \in P /\ w \notin X
    <3>1. \A v \in X : f[v] # f[w]
      BY <2>2
    <3> QED BY <1>0, <2>2, <3>1
  <2> QED BY <2>1, <2>2
<1>4. ASSUME NEW w \in P, f[w] \notin V PROVE f[w] \in E
  <2>1. w \in Q
    BY <1>0, <1>4
  <2> QED BY <1>0, <2>1
<1>5. ASSUME NEW w \in Y PROVE f[w] \in E
  BY <1>0
<1>6. E \subseteq (D \ V) \cup S
  BY <1>0, <1>3
<1>7. (D \ V) \cup S \subseteq E
  BY <1>0, <1>4, <1>5
<1> QED BY <1>1, <1>2, <1>6, <1>7 DEF Family, D, E, V, S

LEMMA CopiesDiffer ==
  /\ \A k, l \in Kinds, i, j \in Visits : Load1(k, i) = Load1(l, j) => k = l /\ i = j
  /\ \A one, other \in Tiles, s, r \in Slots : Window(one, s) = Window(other, r) => one = other /\ s = r
  /\ \A one, other \in Tiles, s, r \in Slots : RowsOf(one, s) = RowsOf(other, r) => one = other /\ s = r
<1>1. ASSUME NEW p, NEW q, NEW d, NEW e, NEW a, NEW b, Load(p, d, a) = Load(q, e, b)
      PROVE  p = q /\ d = e
  <2> DEFINE c == Load(p, d, a)
  <2>1. c = Load(p, d, a)
    OBVIOUS
  <2>2. c = Load(q, e, b)
    BY <1>1
  <2> HIDE DEF c
  <2>3. c.sem = p /\ c.moves[p] = <<"hbm", d>>
    BY <2>1, LoadIs
  <2>4. c.sem = q /\ c.moves[q] = <<"hbm", e>>
    BY <2>2, LoadIs
  <2> QED BY <2>3, <2>4
<1>2. ASSUME NEW k \in Kinds, NEW l \in Kinds, NEW i \in Visits, NEW j \in Visits, Load1(k, i) = Load1(l, j)
      PROVE  k = l /\ i = j
  <2>1. <<k, WeightSlot(i)>> = <<l, WeightSlot(j)>> /\ <<i>> = <<j>>
    BY <1>1, <1>2 DEF Load1
  <2> QED BY <2>1
<1>3. ASSUME NEW one \in Tiles, NEW other \in Tiles, NEW s \in Slots, NEW r \in Slots,
             Window(one, s) = Window(other, r)
      PROVE  one = other /\ s = r
  <2>1. <<"window", s>> = <<"window", r>> /\ one = other
    BY <1>1, <1>3 DEF Window
  <2> QED BY <2>1
<1>4. ASSUME NEW one \in Tiles, NEW other \in Tiles, NEW s \in Slots, NEW r \in Slots,
             RowsOf(one, s) = RowsOf(other, r)
      PROVE  one = other /\ s = r
  <2>1. <<"lhs", s>> = <<"lhs", r>> /\ one = other
    BY <1>1, <1>4 DEF RowsOf
  <2> QED BY <2>1
<1> QED BY <1>2, <1>3, <1>4

LEMMA WeightsStep ==
  ASSUME PlaceInv, schedule' = schedule, NEW X \in SUBSET (Kinds \X Visits), NEW Y \in SUBSET (Kinds \X Visits),
         \A kind \in Kinds, i \in Visits :
           /\ <<kind, i>> \in X => WeightAwaited(kind, i)
           /\ <<kind, i>> \in Y => ~WeightAwaited(kind, i)
           /\ WeightAwaited(kind, i)' <=> (WeightAwaited(kind, i) /\ <<kind, i>> \notin X) \/ <<kind, i>> \in Y
  PROVE  Family(WeightsDue, WeightsDue', {Load1(w[1], w[2]) : w \in X}, {Load1(w[1], w[2]) : w \in Y})
<1> DEFINE K == Kinds \X Visits
           f == [w \in K |-> Load1(w[1], w[2])]
           P == {w \in K : WeightAwaited(w[1], w[2])}
           Q == {w \in K : WeightAwaited(w[1], w[2])'}
<1>1. \A w \in K : w = <<w[1], w[2]>> /\ w[1] \in Kinds /\ w[2] \in Visits
  OBVIOUS
<1>2. /\ P \in SUBSET K /\ Q \in SUBSET K /\ X \in SUBSET P /\ Y \in SUBSET K /\ Y \cap P = {}
      /\ Q = (P \ X) \cup Y
  BY <1>1
<1>3. \A v, w \in K : f[v] = f[w] => v = w
  <2> SUFFICES ASSUME NEW v \in K, NEW w \in K, f[v] = f[w] PROVE v = w
    OBVIOUS
  <2>1. v[1] \in Kinds /\ v[2] \in Visits /\ w[1] \in Kinds /\ w[2] \in Visits
    BY <1>1
  <2>2. Load1(v[1], v[2]) = Load1(w[1], w[2])
    OBVIOUS
  <2>3. v[1] = w[1] /\ v[2] = w[2]
    BY <2>1, <2>2, CopiesDiffer
  <2> QED BY <1>1, <2>3
<1>4. Image(f, P) = WeightsDue
  BY DEF WeightsDue, Image
<1>5. Image(f, Q) = WeightsDue'
  BY KeptTerms DEF WeightsDue, Image
<1>6. Image(f, X) = {Load1(w[1], w[2]) : w \in X}
  BY DEF Image
<1>7. Image(f, Y) = {Load1(w[1], w[2]) : w \in Y}
  BY DEF Image
<1>8. P \subseteq K /\ X \subseteq P /\ Y \subseteq K /\ Y \cap P = {} /\ Q = (P \ X) \cup Y
  BY <1>2
<1>9. Family(Image(f, P), Image(f, Q), Image(f, X), Image(f, Y))
  <2> HIDE DEF K, f, P, Q
  <2> QED BY <1>3, <1>8, ImageStep
<1> HIDE DEF K, f, P, Q
<1> QED BY <1>4, <1>5, <1>6, <1>7, <1>9

LEMMA WindowsStep ==
  ASSUME PlaceInv, schedule' = schedule, NEW X \in SUBSET (Tiles \X Slots), NEW Y \in SUBSET (Tiles \X Slots),
         \A tile \in Tiles, slot \in Slots :
           /\ <<tile, slot>> \in X => WindowAwaited(tile, slot)
           /\ <<tile, slot>> \in Y => ~WindowAwaited(tile, slot)
           /\ WindowAwaited(tile, slot)' <=> (WindowAwaited(tile, slot) /\ <<tile, slot>> \notin X) \/ <<tile, slot>> \in Y
  PROVE  Family(WindowsDue, WindowsDue', {Window(w[1], w[2]) : w \in X}, {Window(w[1], w[2]) : w \in Y})
<1> DEFINE K == Tiles \X Slots
           f == [w \in K |-> Window(w[1], w[2])]
           P == {w \in K : WindowAwaited(w[1], w[2])}
           Q == {w \in K : WindowAwaited(w[1], w[2])'}
<1>1. \A w \in K : w = <<w[1], w[2]>> /\ w[1] \in Tiles /\ w[2] \in Slots
  OBVIOUS
<1>2. /\ P \in SUBSET K /\ Q \in SUBSET K /\ X \in SUBSET P /\ Y \in SUBSET K /\ Y \cap P = {}
      /\ Q = (P \ X) \cup Y
  BY <1>1
<1>3. \A v, w \in K : f[v] = f[w] => v = w
  <2> SUFFICES ASSUME NEW v \in K, NEW w \in K, f[v] = f[w] PROVE v = w
    OBVIOUS
  <2>1. v[1] \in Tiles /\ v[2] \in Slots /\ w[1] \in Tiles /\ w[2] \in Slots
    BY <1>1
  <2>2. Window(v[1], v[2]) = Window(w[1], w[2])
    OBVIOUS
  <2>3. v[1] = w[1] /\ v[2] = w[2]
    BY <2>1, <2>2, CopiesDiffer
  <2> QED BY <1>1, <2>3
<1>4. Image(f, P) = WindowsDue
  BY DEF WindowsDue, Image
<1>5. Image(f, Q) = WindowsDue'
  BY KeptTerms DEF WindowsDue, Window, Image
<1>6. Image(f, X) = {Window(w[1], w[2]) : w \in X}
  BY DEF Image
<1>7. Image(f, Y) = {Window(w[1], w[2]) : w \in Y}
  BY DEF Image
<1>8. P \subseteq K /\ X \subseteq P /\ Y \subseteq K /\ Y \cap P = {} /\ Q = (P \ X) \cup Y
  BY <1>2
<1>9. Family(Image(f, P), Image(f, Q), Image(f, X), Image(f, Y))
  <2> HIDE DEF K, f, P, Q
  <2> QED BY <1>3, <1>8, ImageStep
<1> HIDE DEF K, f, P, Q
<1> QED BY <1>4, <1>5, <1>6, <1>7, <1>9

LEMMA RowsStep ==
  ASSUME PlaceInv, schedule' = schedule, NEW X \in SUBSET (Tiles \X Slots), NEW Y \in SUBSET (Tiles \X Slots),
         \A tile \in Tiles, parity \in Slots :
           /\ <<tile, parity>> \in X => RowsAwaited(tile, parity)
           /\ <<tile, parity>> \in Y => ~RowsAwaited(tile, parity)
           /\ RowsAwaited(tile, parity)' <=> (RowsAwaited(tile, parity) /\ <<tile, parity>> \notin X) \/ <<tile, parity>> \in Y
  PROVE  Family(RowsDue, RowsDue', {RowsOf(w[1], w[2]) : w \in X}, {RowsOf(w[1], w[2]) : w \in Y})
<1> DEFINE K == Tiles \X Slots
           f == [w \in K |-> RowsOf(w[1], w[2])]
           P == {w \in K : RowsAwaited(w[1], w[2])}
           Q == {w \in K : RowsAwaited(w[1], w[2])'}
<1>1. \A w \in K : w = <<w[1], w[2]>> /\ w[1] \in Tiles /\ w[2] \in Slots
  OBVIOUS
<1>2. /\ P \in SUBSET K /\ Q \in SUBSET K /\ X \in SUBSET P /\ Y \in SUBSET K /\ Y \cap P = {}
      /\ Q = (P \ X) \cup Y
  BY <1>1
<1>3. \A v, w \in K : f[v] = f[w] => v = w
  <2> SUFFICES ASSUME NEW v \in K, NEW w \in K, f[v] = f[w] PROVE v = w
    OBVIOUS
  <2>1. v[1] \in Tiles /\ v[2] \in Slots /\ w[1] \in Tiles /\ w[2] \in Slots
    BY <1>1
  <2>2. RowsOf(v[1], v[2]) = RowsOf(w[1], w[2])
    OBVIOUS
  <2>3. v[1] = w[1] /\ v[2] = w[2]
    BY <2>1, <2>2, CopiesDiffer
  <2> QED BY <1>1, <2>3
<1>4. Image(f, P) = RowsDue
  BY DEF RowsDue, Image
<1>5. Image(f, Q) = RowsDue'
  BY KeptTerms DEF RowsDue, Image
<1>6. Image(f, X) = {RowsOf(w[1], w[2]) : w \in X}
  BY DEF Image
<1>7. Image(f, Y) = {RowsOf(w[1], w[2]) : w \in Y}
  BY DEF Image
<1>8. P \subseteq K /\ X \subseteq P /\ Y \subseteq K /\ Y \cap P = {} /\ Q = (P \ X) \cup Y
  BY <1>2
<1>9. Family(Image(f, P), Image(f, Q), Image(f, X), Image(f, Y))
  <2> HIDE DEF K, f, P, Q
  <2> QED BY <1>3, <1>8, ImageStep
<1> HIDE DEF K, f, P, Q
<1> QED BY <1>4, <1>5, <1>6, <1>7, <1>9

LEMMA FamilyHeads ==
  PlaceInv /\ OutInv =>
    /\ \A c \in WeightsDue : c.sem[1] \in Kinds
    /\ \A c \in WindowsDue : c.sem[1] = "window"
    /\ \A c \in RowsDue : c.sem[1] = "lhs"
    /\ \A c \in OutsDue : c.sem[1] \in {"out", "oscl"}
<1>1. \A c \in WeightsDue : c.sem[1] \in Kinds
  <2> SUFFICES ASSUME NEW kind \in Kinds, NEW i, NEW c, c = Load1(kind, i) PROVE c.sem[1] \in Kinds
    BY WeightsAre
  <2>1. c.sem = <<kind, WeightSlot(i)>>
    BY LoadIs DEF Load1
  <2> QED BY <2>1, PairIs
<1>2. \A c \in WindowsDue : c.sem[1] = "window"
  <2> SUFFICES ASSUME NEW tile, NEW slot, NEW c, c = Window(tile, slot) PROVE c.sem[1] = "window"
    BY WindowsAre
  <2>1. c.sem = <<"window", slot>>
    BY LoadIs DEF Window
  <2> QED BY <2>1, PairIs
<1>3. \A c \in RowsDue : c.sem[1] = "lhs"
  <2> SUFFICES ASSUME NEW tile, NEW slot, NEW c, c = RowsOf(tile, slot) PROVE c.sem[1] = "lhs"
    BY RowsAre
  <2>1. c.sem = <<"lhs", slot>>
    BY LoadIs DEF RowsOf
  <2> QED BY <2>1, PairIs
<1> QED BY <1>1, <1>2, <1>3, Heads

LEMMA FromFamilies ==
  ASSUME PlaceInv, OutInv, PlaceInv', OutInv', NEW W1, NEW W2, NEW W3, NEW W4, NEW S1, NEW S2, NEW S3, NEW S4,
         Family(WeightsDue, WeightsDue', W1, S1), Family(WindowsDue, WindowsDue', W2, S2),
         Family(RowsDue, RowsDue', W3, S3), Family(OutsDue, OutsDue', W4, S4)
  PROVE  Family(Single, Single', W1 \cup W2 \cup W3 \cup W4, S1 \cup S2 \cup S3 \cup S4)
<1> DEFINE head(c) == c.sem[1]
<1>1. /\ \A c \in WeightsDue : head(c) \in Kinds
      /\ \A c \in WindowsDue : head(c) = "window"
      /\ \A c \in RowsDue : head(c) = "lhs"
      /\ \A c \in OutsDue : head(c) \in {"out", "oscl"}
  BY FamilyHeads
<1>2. /\ \A c \in WeightsDue' : head(c) \in Kinds
      /\ \A c \in WindowsDue' : head(c) = "window"
      /\ \A c \in RowsDue' : head(c) = "lhs"
      /\ \A c \in OutsDue' : head(c) \in {"out", "oscl"}
  <2>1. (PlaceInv /\ OutInv =>
          /\ \A c \in WeightsDue : c.sem[1] \in Kinds
          /\ \A c \in WindowsDue : c.sem[1] = "window"
          /\ \A c \in RowsDue : c.sem[1] = "lhs"
          /\ \A c \in OutsDue : c.sem[1] \in {"out", "oscl"})'
    BY FamilyHeads, PTL
  <2> QED BY <2>1 DEF Kinds
<1> DEFINE A == WeightsDue
           B == WindowsDue
           C == RowsDue
           D == OutsDue
           K == Kinds
<1>3. Single = A \cup B \cup C \cup D /\ Single' = A' \cup B' \cup C' \cup D'
  BY DEF Single, LoadsDue
<1>4. "window" \notin K /\ "lhs" \notin K /\ "out" \notin K /\ "oscl" \notin K
  BY DEF Kinds
<1>5. /\ W1 \subseteq A /\ S1 \cap A = {} /\ A' = (A \ W1) \cup S1
      /\ W2 \subseteq B /\ S2 \cap B = {} /\ B' = (B \ W2) \cup S2
      /\ W3 \subseteq C /\ S3 \cap C = {} /\ C' = (C \ W3) \cup S3
      /\ W4 \subseteq D /\ S4 \cap D = {} /\ D' = (D \ W4) \cup S4
  BY DEF Family
<1> HIDE DEF head, A, B, C, D, K
<1>6. /\ \A c \in A : head(c) \in K
      /\ \A c \in B : head(c) = "window"
      /\ \A c \in C : head(c) = "lhs"
      /\ \A c \in D : head(c) \in {"out", "oscl"}
  BY <1>1 DEF A, B, C, D, K
<1>7. /\ \A c \in S1 : head(c) \in K
      /\ \A c \in S2 : head(c) = "window"
      /\ \A c \in S3 : head(c) = "lhs"
      /\ \A c \in S4 : head(c) \in {"out", "oscl"}
  <2>1. S1 \subseteq WeightsDue' /\ S2 \subseteq WindowsDue' /\ S3 \subseteq RowsDue' /\ S4 \subseteq OutsDue'
    BY DEF Family
  <2> QED BY <1>2, <2>1 DEF K
<1>8. W1 \cup W2 \cup W3 \cup W4 \subseteq Single
  BY <1>3, <1>5
<1>9. (S1 \cup S2 \cup S3 \cup S4) \cap Single = {}
  <2>1. S1 \cap Single = {}
    BY <1>3, <1>4, <1>5, <1>6, <1>7
  <2>2. S2 \cap Single = {}
    BY <1>3, <1>4, <1>5, <1>6, <1>7
  <2>3. S3 \cap Single = {}
    BY <1>3, <1>4, <1>5, <1>6, <1>7
  <2>4. S4 \cap Single = {}
    BY <1>3, <1>4, <1>5, <1>6, <1>7
  <2> QED BY <2>1, <2>2, <2>3, <2>4
<1>10. /\ A \ W1 = A \ (W1 \cup W2 \cup W3 \cup W4) /\ B \ W2 = B \ (W1 \cup W2 \cup W3 \cup W4)
       /\ C \ W3 = C \ (W1 \cup W2 \cup W3 \cup W4) /\ D \ W4 = D \ (W1 \cup W2 \cup W3 \cup W4)
  <2>1. A \ W1 = A \ (W1 \cup W2 \cup W3 \cup W4)
    BY <1>4, <1>5, <1>6
  <2>2. B \ W2 = B \ (W1 \cup W2 \cup W3 \cup W4)
    BY <1>4, <1>5, <1>6
  <2>3. C \ W3 = C \ (W1 \cup W2 \cup W3 \cup W4)
    BY <1>4, <1>5, <1>6
  <2>4. D \ W4 = D \ (W1 \cup W2 \cup W3 \cup W4)
    BY <1>4, <1>5, <1>6
  <2> QED BY <2>1, <2>2, <2>3, <2>4
<1>11. Single' = (Single \ (W1 \cup W2 \cup W3 \cup W4)) \cup (S1 \cup S2 \cup S3 \cup S4)
  <2>1. Single' = (A \ W1) \cup S1 \cup (B \ W2) \cup S2 \cup (C \ W3) \cup S3 \cup (D \ W4) \cup S4
    BY <1>3, <1>5
  <2> DEFINE W == W1 \cup W2 \cup W3 \cup W4
  <2>2. Single' = (A \ W) \cup S1 \cup (B \ W) \cup S2 \cup (C \ W) \cup S3 \cup (D \ W) \cup S4
    BY <1>10, <2>1
  <2> HIDE DEF W
  <2>3. Single' = (Single \ W) \cup (S1 \cup S2 \cup S3 \cup S4)
    BY <1>3, <2>2
  <2> QED BY <2>3 DEF W
<1> QED BY <1>8, <1>9, <1>11 DEF Family

\* What a step that leaves the results alone keeps.
SameResults ==
  /\ schedule' = schedule /\ mem' = mem /\ owed' = owed
  /\ ~schedule.ship /\ visit' # visit => owed = [p \in Slots |-> 0]
  /\ \A tile \in Tiles : Computed(tile)' <=> Computed(tile)
  /\ \A p \in Slots : Leaving(p)' <=> Leaving(p)
  /\ \A i \in Visits : Pushed(i)' <=> Pushed(i)

LEMMA SameOuts ==
  ASSUME PlaceInv, OutInv, Delivered, SameResults
  PROVE  /\ OutInv' /\ Delivered' /\ Family(OutsDue, OutsDue', {}, {}) /\ PushesDue' = PushesDue
<1>1. /\ schedule' = schedule /\ mem' = mem /\ owed' = owed
      /\ Tiles' = Tiles /\ RowsTo' = RowsTo /\ SclTo' = SclTo /\ \A tile : Blocks(tile)' = Blocks(tile)
  BY KeptTerms DEF SameResults
<1>2. \A p : Staged(p)' = Staged(p) /\ RowsOut(p)' = RowsOut(p) /\ SclOut(p)' = SclOut(p)
  BY <1>1 DEF Staged, RowsOut, SclOut
<1>3. OutInv'
  <2>1. ASSUME NEW p \in Slots, owed[p] > 0
        PROVE  /\ Staged(p) \in Tiles /\ Computed(Staged(p))' /\ mem[<<"oscl", p>>] = Staged(p)
               /\ owed[p] = Blocks(Staged(p)) /\ (~schedule.ship => Staged(p)[1] = visit')
    <3>1. /\ Staged(p) \in Tiles /\ Computed(Staged(p)) /\ mem[<<"oscl", p>>] = Staged(p)
          /\ owed[p] = Blocks(Staged(p)) /\ (~schedule.ship => Staged(p)[1] = visit)
      BY <2>1 DEF OutInv
    <3>2. PICK tile \in Tiles : tile = Staged(p)
      BY <3>1
    <3>3. Computed(tile)
      BY <3>1, <3>2 DEF Computed
    <3>4. Computed(tile)'
      BY <3>3 DEF SameResults
    <3>5. Computed(Staged(p))'
      BY <1>2, <3>2, <3>4 DEF Computed
    <3>6. ~schedule.ship => visit' = visit
      BY <2>1 DEF SameResults
    <3> QED BY <3>1, <3>5, <3>6
  <2>2. owed[0] > 0 /\ owed[1] > 0 => Staged(0) # Staged(1)
    BY DEF OutInv
  <2> QED BY <1>1, <1>2, <2>1, <2>2 DEF OutInv
<1>4. Delivered'
  <2>1. \A tile \in Tiles : Computed(tile)' /\ (\A p \in Slots : Leaving(p)' => Staged(p)' # tile) =>
          mem[<<RowsTo, tile>>] = tile /\ mem[<<SclTo, tile>>] = tile
    BY <1>2 DEF SameResults, Delivered
  <2> QED BY <1>1, <2>1 DEF Delivered
<1>5. OutsDue' = OutsDue
  BY <1>1, <1>2, NextDue, OutsAre DEF SameResults
<1>6. PushesDue' = PushesDue
  BY <1>1, NextDue, PushesAre DEF SameResults
<1>7. Family(OutsDue, OutsDue', {}, {})
  BY <1>5 DEF Family
<1> QED BY <1>3, <1>4, <1>6, <1>7

LEMMA NoWait == sem' = sem /\ PlaceInv => Wait(<<>>)
BY DEF Wait, PlaceInv

\* The semaphores waited for are those of the copies W, and their amounts.
Matches(need, W) ==
  /\ \A w \in W : w.sem \in DOMAIN need /\ need[w.sem] = w.amount
  /\ \A s \in DOMAIN need : \E w \in W : w.sem = s

\* What is kept by a step that leaves the results alone.
LEMMA QuietKeeps ==
  ASSUME IInv, PlaceInv', SameResults, NEW need, NEW W1, NEW W2, NEW W3, NEW S1, NEW S2, NEW S3,
         Family(WeightsDue, WeightsDue', W1, S1), Family(WindowsDue, WindowsDue', W2, S2),
         Family(RowsDue, RowsDue', W3, S3), Wait(need), Matches(need, W1 \cup W2 \cup W3),
         flying' = flying \cup S1 \cup S2 \cup S3
  PROVE  /\ OutInv' /\ FlyingDue' /\ SemDue' /\ Given' /\ PushInv' /\ Delivered'
         /\ \A w \in W1 \cup W2 \cup W3 : \A to \in DOMAIN w.moves : mem[to] = Gives(w, to)
<1>1. PlaceInv /\ OutInv /\ Delivered
  BY DEF IInv
<1>2. /\ OutInv' /\ Delivered' /\ PushesDue' = PushesDue
      /\ Family(OutsDue, OutsDue', {}, {})
  BY <1>1, SameOuts
<1>3. Family(Single, Single', W1 \cup W2 \cup W3 \cup {}, S1 \cup S2 \cup S3 \cup {})
  BY <1>1, <1>2, FromFamilies
<1> DEFINE W == W1 \cup W2 \cup W3
           S == S1 \cup S2 \cup S3
<1>4. Family(Single, Single', W, S)
  <2>1. W1 \cup W2 \cup W3 \cup {} = W /\ S1 \cup S2 \cup S3 \cup {} = S
    OBVIOUS
  <2> HIDE DEF W, S
  <2> QED BY <1>3, <2>1
<1>5. flying' = flying \cup S \cup {}
  OBVIOUS
<1>6. Matches(need, W)
  OBVIOUS
<1> HIDE DEF W, S
<1>7. CoreStep(need, W, S, {})
  <2>1. PushesDue' = PushesDue \cup {}
    BY <1>2
  <2>2. schedule' = schedule /\ mem' = mem
    BY DEF SameResults
  <2> QED BY <1>4, <1>5, <1>6, <2>1, <2>2 DEF CoreStep, Family, Matches
<1>8. FlyingDue' /\ SemDue' /\ Given'
  BY <1>2, <1>7, CoreKeeps
<1>9. PushInv'
  <2>1. \A i \in Visits :
          /\ Pushed(i) => Pushed(i)' /\ PushRows(i) \notin {} /\ PushScl(i) \notin {}
          /\ Pushed(i)' /\ ~Pushed(i) => PushRows(i) \in {} /\ PushScl(i) \in {}
    BY DEF SameResults
  <2> QED BY <1>2, <1>7, <2>1, PushKeeps
<1>10. \A w \in W : \A to \in DOMAIN w.moves : mem[to] = Gives(w, to)
  BY <1>7, Landed
<1> QED BY <1>2, <1>8, <1>9, <1>10 DEF W

LEMMA NoMatch == Matches(<<>>, {})
BY DEF Matches

LEMMA OneMatch ==
  ASSUME NEW c, NEW s, NEW n, c.sem = s, c.amount = n
  PROVE  Matches(Only(s, n), {c})
BY DEF Matches, Only

LEMMA Unchanged ==
  ASSUME schedule' = schedule
  PROVE  /\ (\A kind \in Kinds, i \in Visits : WeightAwaited(kind, i)' <=> WeightAwaited(kind, i)) =>
              Family(WeightsDue, WeightsDue', {}, {})
         /\ (\A tile \in Tiles, slot \in Slots : WindowAwaited(tile, slot)' <=> WindowAwaited(tile, slot)) =>
              Family(WindowsDue, WindowsDue', {}, {})
         /\ (\A tile \in Tiles, parity \in Slots : RowsAwaited(tile, parity)' <=> RowsAwaited(tile, parity)) =>
              Family(RowsDue, RowsDue', {}, {})
<1>1. ASSUME \A kind \in Kinds, i \in Visits : WeightAwaited(kind, i)' <=> WeightAwaited(kind, i)
      PROVE  WeightsDue' = WeightsDue
  BY <1>1, NextDue, WeightsAre
<1>2. ASSUME \A tile \in Tiles, slot \in Slots : WindowAwaited(tile, slot)' <=> WindowAwaited(tile, slot)
      PROVE  WindowsDue' = WindowsDue
  BY <1>2, NextDue, WindowsAre
<1>3. ASSUME \A tile \in Tiles, parity \in Slots : RowsAwaited(tile, parity)' <=> RowsAwaited(tile, parity)
      PROVE  RowsDue' = RowsDue
  BY <1>3, NextDue, RowsAre
<1> QED BY <1>1, <1>2, <1>3 DEF Family

\* At most one window, or the rows of at most one tile, are waited for or asked for.
LEMMA OneWindow ==
  ASSUME PlaceInv, schedule' = schedule, NEW X \in SUBSET (Tiles \X Slots), NEW Y \in SUBSET (Tiles \X Slots),
         NEW V, NEW S, V = {Window(w[1], w[2]) : w \in X}, S = {Window(w[1], w[2]) : w \in Y},
         \A tile \in Tiles, slot \in Slots :
           /\ WindowAwaited(tile, slot) <=> <<tile, slot>> \in X
           /\ WindowAwaited(tile, slot)' <=> <<tile, slot>> \in Y
  PROVE  X \cap Y = {} => Family(WindowsDue, WindowsDue', V, S)
<1> SUFFICES ASSUME X \cap Y = {} PROVE Family(WindowsDue, WindowsDue', V, S)
  OBVIOUS
<1>1. \A tile \in Tiles, slot \in Slots :
        /\ <<tile, slot>> \in X => WindowAwaited(tile, slot)
        /\ <<tile, slot>> \in Y => ~WindowAwaited(tile, slot)
        /\ WindowAwaited(tile, slot)' <=>
             (WindowAwaited(tile, slot) /\ <<tile, slot>> \notin X) \/ <<tile, slot>> \in Y
  OBVIOUS
<1>2. Family(WindowsDue, WindowsDue', {Window(w[1], w[2]) : w \in X}, {Window(w[1], w[2]) : w \in Y})
  BY <1>1, WindowsStep
<1> QED BY <1>2

LEMMA OneRows ==
  ASSUME PlaceInv, schedule' = schedule, NEW X \in SUBSET (Tiles \X Slots), NEW Y \in SUBSET (Tiles \X Slots),
         NEW V, NEW S, V = {RowsOf(w[1], w[2]) : w \in X}, S = {RowsOf(w[1], w[2]) : w \in Y},
         \A tile \in Tiles, parity \in Slots :
           /\ RowsAwaited(tile, parity) <=> <<tile, parity>> \in X
           /\ RowsAwaited(tile, parity)' <=> <<tile, parity>> \in Y
  PROVE  X \cap Y = {} => Family(RowsDue, RowsDue', V, S)
<1> SUFFICES ASSUME X \cap Y = {} PROVE Family(RowsDue, RowsDue', V, S)
  OBVIOUS
<1>1. \A tile \in Tiles, parity \in Slots :
        /\ <<tile, parity>> \in X => RowsAwaited(tile, parity)
        /\ <<tile, parity>> \in Y => ~RowsAwaited(tile, parity)
        /\ RowsAwaited(tile, parity)' <=>
             (RowsAwaited(tile, parity) /\ <<tile, parity>> \notin X) \/ <<tile, parity>> \in Y
  OBVIOUS
<1>2. Family(RowsDue, RowsDue', {RowsOf(w[1], w[2]) : w \in X}, {RowsOf(w[1], w[2]) : w \in Y})
  BY <1>1, RowsStep
<1> QED BY <1>2

LEMMA Images ==
  /\ \A a, b : {Window(w[1], w[2]) : w \in {<<a, b>>}} = {Window(a, b)}
  /\ \A a, b : {RowsOf(w[1], w[2]) : w \in {<<a, b>>}} = {RowsOf(a, b)}
  /\ \A a, b : {Load1(w[1], w[2]) : w \in {<<a, b>>}} = {Load1(a, b)}
  /\ {Window(w[1], w[2]) : w \in {}} = {} /\ {RowsOf(w[1], w[2]) : w \in {}} = {}
  /\ {Load1(w[1], w[2]) : w \in {}} = {}
<1>1. ASSUME NEW a, NEW b, NEW w \in {<<a, b>>} PROVE w[1] = a /\ w[2] = b
  BY PairIs
<1> QED BY <1>1

-----------------------------------------------------------------------------
(* The steps of the core.                                                    *)

LEMMA PrologueStep ==
  ASSUME IInv, Prologue
  PROVE  IInv'
<1> DEFINE Y1 == Kinds \X {i \in Visits : i < schedule.distance}
           S1 == UNION {WeightStarts(i) : i \in {j \in Visits : j < schedule.distance}}
           Y2 == IF NumVisits > 0 THEN {<<<<0, 0>>, 0>>} ELSE {}
           S2 == IF NumVisits > 0 THEN {Window(<<0, 0>>, 0)} ELSE {}
<1>1. PlaceInv
  BY DEF IInv
<1>2. /\ pc = "prologue" /\ visit = -1 /\ t = 0 /\ wslot = 0 /\ count = 0
      /\ owed = [p \in Slots |-> 0]
  BY <1>1 DEF PlaceInv, Prologue
<1>3. /\ UNCHANGED <<schedule, visit, t, count, wslot, owed, act, mem, sem>>
      /\ flying' = flying \cup (S1 \cup S2)
      /\ pc' = IF NumVisits > 0 THEN "prime" ELSE "transport"
  <2>1. flying' = flying \cup (S1 \cup S2)
    <3>1. Start(S1 \cup S2)
      BY DEF Prologue
    <3> HIDE DEF S1, S2
    <3> QED BY <3>1 DEF Start
  <2> QED BY <2>1 DEF Prologue
<1>4. /\ schedule \in Schedules /\ schedule.distance \in 0..2 /\ NumVisits \in Nat
      /\ Visits = {i \in Nat : i < NumVisits}
      /\ \A i \in Visits : NumTiles(i) \in Nat /\ NumTiles(i) > 0
  BY <1>1, ScheduleIs DEF PlaceInv
<1>5. /\ Visits' = Visits /\ NumVisits' = NumVisits /\ Prefetches' = Prefetches
      /\ \A i : NumTiles(i)' = NumTiles(i)
  BY <1>3, KeptTerms
<1>6. PlaceInv'
  <2>1. Sems' = Sems /\ Places' = Places /\ schedule' \in Schedules
    BY <1>1, <1>3, KeptTerms DEF Sems, PlaceInv
  <2>2. NumVisits = 0 \/ (0 \in Visits /\ NumVisits > 0)
    BY <1>4
  <2> QED BY <1>1, <1>2, <1>3, <1>5, <2>1, <2>2 DEF PlaceInv, Tiling
<1>7. SameResults
  <2>1. \A tile \in Tiles : Computed(tile)' <=> Computed(tile)
    BY <1>2, <1>3, <1>4, TilesAre DEF Computed
  <2>2. \A p \in Slots : Leaving(p)' <=> Leaving(p)
    BY <1>2, <1>3 DEF Leaving
  <2>3. \A i \in Visits : Pushed(i)' <=> Pushed(i)
    BY <1>2, <1>3, <1>4 DEF Pushed
  <2> QED BY <1>2, <1>3, <2>1, <2>2, <2>3 DEF SameResults
<1>8. Family(WeightsDue, WeightsDue', {}, S1)
  <2>1. \A kind \in Kinds, i \in Visits :
          /\ ~WeightAwaited(kind, i) /\ (WeightAwaited(kind, i)' <=> <<kind, i>> \in Y1)
    BY <1>2, <1>3, <1>4, <1>5 DEF WeightAwaited, Started, Prefetches, AfterWeights, Tiling
  <2>2. Y1 \in SUBSET (Kinds \X Visits) /\ {} \in SUBSET (Kinds \X Visits)
    OBVIOUS
  <2>3. S1 = {Load1(w[1], w[2]) : w \in Y1}
    <3>1. \A c : c \in S1 <=> \E kind \in Kinds, i \in Visits : i < schedule.distance /\ c = Load1(kind, i)
      BY DEF WeightStarts, Kinds
    <3>2. \A c : c \in {Load1(w[1], w[2]) : w \in Y1} <=>
                 \E kind \in Kinds, i \in Visits : i < schedule.distance /\ c = Load1(kind, i)
      <4>1. ASSUME NEW w \in Y1 PROVE w[1] \in Kinds /\ w[2] \in Visits /\ w[2] < schedule.distance
        OBVIOUS
      <4>2. ASSUME NEW kind \in Kinds, NEW i \in Visits, i < schedule.distance
            PROVE  \E w \in Y1 : Load1(kind, i) = Load1(w[1], w[2])
        <5> DEFINE w == <<kind, i>>
        <5>1. w \in Y1 /\ w[1] = kind /\ w[2] = i
          BY <4>2
        <5> HIDE DEF w, Y1
        <5> QED BY <5>1
      <4> HIDE DEF Y1
      <4> QED BY <4>1, <4>2
    <3> HIDE DEF S1, Y1
    <3> QED BY <3>1, <3>2
  <2> HIDE DEF Y1, S1
  <2>4. Family(WeightsDue, WeightsDue', {Load1(w[1], w[2]) : w \in {}}, {Load1(w[1], w[2]) : w \in Y1})
    BY <1>1, <1>3, <2>1, <2>2, WeightsStep
  <2> QED BY <2>3, <2>4, Images
<1>9. Family(WindowsDue, WindowsDue', {}, S2)
  <2>1. NumVisits > 0 => <<0, 0>> \in Tiles
    BY <1>4, TilesAre
  <2>2. Y2 \in SUBSET (Tiles \X Slots) /\ {} \in SUBSET (Tiles \X Slots)
    BY <2>1 DEF Slots
  <2>3. \A tile \in Tiles, slot \in Slots :
          ~WindowAwaited(tile, slot) /\ (WindowAwaited(tile, slot)' <=> <<tile, slot>> \in Y2)
    BY <1>2, <1>3, <1>5 DEF WindowAwaited
  <2>4. S2 = {Window(w[1], w[2]) : w \in Y2}
    BY Images
  <2> HIDE DEF Y2, S2
  <2> QED BY <1>1, <1>3, <2>2, <2>3, <2>4, Images, OneWindow
<1>10. Family(RowsDue, RowsDue', {}, {})
  <2>1. \A tile \in Tiles, parity \in Slots : RowsAwaited(tile, parity)' <=> RowsAwaited(tile, parity)
    BY <1>2, <1>3 DEF RowsAwaited
  <2> QED BY <1>3, <2>1, Unchanged
<1>11. Wait(<<>>) /\ Matches(<<>>, {} \cup {} \cup {}) /\ flying' = flying \cup S1 \cup S2 \cup {}
  BY <1>1, <1>3, NoWait, NoMatch
<1> HIDE DEF S1, S2
<1>12. OutInv' /\ FlyingDue' /\ SemDue' /\ Given' /\ PushInv' /\ Delivered'
  BY <1>6, <1>7, <1>8, <1>9, <1>10, <1>11, QuietKeeps
<1>13. WeightsHeld' /\ RowsHeld' /\ PushDelivered'
  BY <1>3 DEF WeightsHeld, Using, RowsHeld, PushDelivered, Tiling
<1> QED BY <1>6, <1>12, <1>13 DEF IInv

LEMMA WindowCame ==
  ASSUME IInv, NEW tile \in Tiles, NEW slot \in Slots, WindowAwaited(tile, slot), Wait(Only(<<"window", slot>>, 1))
  PROVE  /\ mem[<<"window", slot>>] = tile
         /\ Matches(Only(<<"window", slot>>, 1), {Window(tile, slot)})
         /\ \A parity : Rows(tile, parity, slot) = RowsOf(tile, parity)
<1> DEFINE c == Window(tile, slot)
           place == <<"window", slot>>
<1>1. c = Load(place, tile, 1)
  BY DEF Window
<1>2. c \in Single
  BY WindowsAre DEF Single, LoadsDue
<1> HIDE DEF c, place
<1>3. /\ DOMAIN c.moves = {place} /\ c.moves[place] = <<"hbm", tile>>
      /\ c.sem = place /\ c.amount = 1
  BY <1>1, LoadIs
<1>4. sem[place] >= 1
  <2> DEFINE need == Only(place, 1)
  <2>1. DOMAIN need = {place} /\ need[place] = 1
    BY OnlyIs
  <2>2. Wait(need)
    BY DEF place
  <2> HIDE DEF need
  <2> QED BY <2>1, <2>2 DEF Wait
<1>5. mem[place] = Gives(c, place)
  BY <1>2, <1>3, <1>4, WaitedFor
<1>6. mem[place] = tile
  BY <1>3, <1>5 DEF Gives
<1>7. Matches(Only(place, 1), {c})
  BY <1>3, OneMatch
<1> QED BY <1>6, <1>7 DEF c, place, Rows, RowsOf

LEMMA RowsCame ==
  ASSUME IInv, NEW tile \in Tiles, NEW parity \in Slots, RowsAwaited(tile, parity),
         Wait(Only(<<"lhs", parity>>, Blocks(tile)))
  PROVE  /\ mem[<<"lhs", parity>>] = tile
         /\ Matches(Only(<<"lhs", parity>>, Blocks(tile)), {RowsOf(tile, parity)})
<1> DEFINE c == RowsOf(tile, parity)
           place == <<"lhs", parity>>
           n == Blocks(tile)
<1>1. c = Load(place, tile, n)
  BY DEF RowsOf
<1>2. c \in Single
  BY RowsAre DEF Single, LoadsDue
<1>0. n \in Nat
  BY BlocksIs
<1> HIDE DEF c, place, n
<1>3. /\ DOMAIN c.moves = {place} /\ c.moves[place] = <<"hbm", tile>>
      /\ c.sem = place /\ c.amount = n
  BY <1>1, LoadIs
<1>4. sem[place] >= n
  <2> DEFINE need == Only(place, n)
  <2>1. DOMAIN need = {place} /\ need[place] = n
    BY OnlyIs
  <2>2. Wait(need)
    BY DEF place, n
  <2> HIDE DEF need
  <2> QED BY <2>1, <2>2 DEF Wait
<1>5. mem[place] = Gives(c, place)
  BY <1>2, <1>3, <1>4, WaitedFor
<1>6. mem[place] = tile
  BY <1>3, <1>5 DEF Gives
<1>7. Matches(Only(place, n), {c})
  BY <1>3, OneMatch
<1> QED BY <1>6, <1>7 DEF c, place, n

LEMMA WeightCame ==
  ASSUME IInv, NEW kind \in Kinds, NEW i \in Visits, WeightAwaited(kind, i), sem[<<kind, WeightSlot(i)>>] >= 1
  PROVE  /\ mem[<<kind, WeightSlot(i)>>] = <<i>>
         /\ Load1(kind, i).sem = <<kind, WeightSlot(i)>> /\ Load1(kind, i).amount = 1
<1> DEFINE c == Load1(kind, i)
           place == <<kind, WeightSlot(i)>>
<1>1. c = Load(place, <<i>>, 1)
  BY DEF Load1
<1>2. c \in Single
  BY WeightsAre DEF Single, LoadsDue
<1>4. sem[place] >= 1
  OBVIOUS
<1> HIDE DEF c, place
<1>3. /\ DOMAIN c.moves = {place} /\ c.moves[place] = <<"hbm", <<i>>>>
      /\ c.sem = place /\ c.amount = 1
  BY <1>1, LoadIs
<1>5. mem[place] = Gives(c, place)
  BY <1>2, <1>3, <1>4, WaitedFor
<1>6. mem[place] = <<i>>
  BY <1>3, <1>5 DEF Gives
<1> QED BY <1>3, <1>6 DEF c, place

LEMMA WaitKeeps ==
  ASSUME sem \in [Sems -> Nat], NEW need, Wait(need), \A s \in DOMAIN need : need[s] \in Nat
  PROVE  sem' \in [Sems -> Nat]
BY DEF Wait

LEMMA OnlyNat ==
  ASSUME NEW s, NEW n \in Nat
  PROVE  \A r \in DOMAIN Only(s, n) : Only(s, n)[r] \in Nat
BY DEF Only

LEMMA PrimeStep ==
  ASSUME IInv, Prime
  PROVE  IInv'
<1> DEFINE next == visit + 1
           need == Only(<<"window", wslot>>, 1)
           first == <<next, 0>>
           second == <<next, 1>>
           W2 == {Window(first, wslot)}
           X2 == {<<first, wslot>>}
           Y2 == IF NumTiles(next) > 1 THEN {<<second, 1 - wslot>>} ELSE {}
           S2 == IF NumTiles(next) > 1 THEN {Window(second, 1 - wslot)} ELSE {}
           Y3 == {<<first, Parity>>}
           S3 == {RowsOf(first, Parity)}
<1>1. PlaceInv
  BY DEF IInv
<1>2. /\ pc = "prime" /\ visit \in Int /\ visit >= -1 /\ next \in Visits /\ t = 0 /\ wslot \in Slots
      /\ (visit = -1 => owed = [p \in Slots |-> 0])
  BY <1>1 DEF PlaceInv, Prime
<1>3. /\ UNCHANGED <<schedule, t, count, wslot, owed, act, mem>> /\ Wait(need)
      /\ pc' = IF visit < 0 THEN "head" ELSE "flush"
      /\ visit' = IF visit < 0 THEN 0 ELSE visit
  BY DEF Prime
<1>4. /\ schedule \in Schedules /\ schedule.distance \in 0..2 /\ NumVisits \in Nat
      /\ Visits = {i \in Nat : i < NumVisits}
      /\ \A i \in Visits : NumTiles(i) \in Nat /\ NumTiles(i) > 0
  BY <1>1, ScheduleIs DEF PlaceInv
<1>5. /\ Visits' = Visits /\ NumVisits' = NumVisits /\ Prefetches' = Prefetches /\ AtHead' = AtHead
      /\ \A i : NumTiles(i)' = NumTiles(i)
  BY <1>3, KeptTerms
<1>6. /\ first \in Tiles /\ (second \in Tiles <=> NumTiles(next) > 1)
      /\ Parity \in Slots /\ 1 - wslot \in Slots
  <2>1. Parity \in Slots
    BY <1>1, Turn DEF Parity, PlaceInv
  <2> QED BY <1>2, <1>4, <2>1, TilesAre DEF Slots
<1>7. WindowAwaited(first, wslot)
  BY <1>2 DEF WindowAwaited
<1>8. Matches(need, W2) /\ Rows(first, Parity, wslot) = RowsOf(first, Parity)
  BY <1>2, <1>3, <1>6, <1>7, WindowCame
<1>9. flying' = flying \cup S2 \cup S3
  <2>1. Start({Rows(first, Parity, wslot)} \cup S2)
    BY DEF Prime
  <2> HIDE DEF S2
  <2> QED BY <1>8, <2>1 DEF Start
<1>10. PlaceInv'
  <2>1. Sems' = Sems /\ Places' = Places /\ schedule' \in Schedules
    BY <1>1, <1>3, KeptTerms DEF Sems, PlaceInv
  <2>2. sem' \in [Sems -> Nat]
    <3>1. \A s \in DOMAIN need : need[s] \in Nat
      BY OnlyNat
    <3> HIDE DEF need
    <3> QED BY <1>1, <1>3, <3>1, WaitKeeps DEF PlaceInv
  <2>3. visit' \in Visits /\ t < NumTiles(visit')
    BY <1>2, <1>3, <1>4
  <2> QED BY <1>1, <1>2, <1>3, <1>5, <2>1, <2>2, <2>3 DEF PlaceInv, Tiling
<1>11. SameResults
  <2>1. \A tile \in Tiles : Computed(tile)' <=> Computed(tile)
    BY <1>2, <1>3, <1>4, TilesAre DEF Computed
  <2>2. \A p \in Slots : Leaving(p)' <=> Leaving(p)
    BY <1>2, <1>3 DEF Leaving, Parity
  <2>3. \A i \in Visits : Pushed(i)' <=> Pushed(i)
    BY <1>2, <1>3, <1>4 DEF Pushed
  <2> QED BY <1>2, <1>3, <2>1, <2>2, <2>3 DEF SameResults
<1>12. Family(WeightsDue, WeightsDue', {}, {})
  <2>1. \A kind \in Kinds, i \in Visits : WeightAwaited(kind, i)' <=> WeightAwaited(kind, i)
    <3>1. CASE visit < 0
      BY <1>2, <1>3, <1>4, <1>5, <3>1
      DEF WeightAwaited, Started, WaitedHere, StartedNext, Prefetches, AfterWeights, Tiling
    <3>2. CASE ~(visit < 0)
      BY <1>2, <1>3, <1>4, <1>5, <3>2
      DEF WeightAwaited, Started, WaitedHere, StartedNext, Prefetches, AfterWeights, Tiling
    <3> QED BY <3>1, <3>2
  <2> QED BY <1>3, <2>1, Unchanged
<1>13. Family(WindowsDue, WindowsDue', W2, S2)
  <2>1. X2 \in SUBSET (Tiles \X Slots) /\ Y2 \in SUBSET (Tiles \X Slots) /\ X2 \cap Y2 = {}
    BY <1>2, <1>6
  <2>2. \A tile \in Tiles, slot \in Slots : WindowAwaited(tile, slot) <=> <<tile, slot>> \in X2
    BY <1>2 DEF WindowAwaited
  <2>3. (wslot + t + 1) % 2 = 1 - wslot
    BY <1>2 DEF Slots
  <2>4. \A tile \in Tiles, slot \in Slots : WindowAwaited(tile, slot)' <=> tile = second /\ slot = 1 - wslot
    BY <1>2, <1>3, <2>3 DEF WindowAwaited
  <2>5. \A tile \in Tiles, slot \in Slots : WindowAwaited(tile, slot)' <=> <<tile, slot>> \in Y2
    BY <1>6, <2>4
  <2>6. W2 = {Window(w[1], w[2]) : w \in X2} /\ S2 = {Window(w[1], w[2]) : w \in Y2}
    BY Images
  <2> HIDE DEF X2, Y2, W2, S2
  <2> QED BY <1>1, <1>3, <2>1, <2>2, <2>5, <2>6, OneWindow
<1>14. Family(RowsDue, RowsDue', {}, S3)
  <2>1. Y3 \in SUBSET (Tiles \X Slots) /\ {} \in SUBSET (Tiles \X Slots)
    BY <1>6
  <2>2. \A tile \in Tiles, parity \in Slots :
          ~RowsAwaited(tile, parity) /\ (RowsAwaited(tile, parity)' <=> <<tile, parity>> \in Y3)
    BY <1>2, <1>3 DEF RowsAwaited, Parity, Tile
  <2>3. S3 = {RowsOf(w[1], w[2]) : w \in Y3}
    BY Images
  <2> HIDE DEF Y3, S3
  <2> QED BY <1>1, <1>3, <2>1, <2>2, <2>3, Images, OneRows
<1>15. Matches(need, {} \cup W2 \cup {}) /\ flying' = flying \cup {} \cup S2 \cup S3
  <2> HIDE DEF W2, S2, S3, need
  <2>1. {} \cup W2 \cup {} = W2
    OBVIOUS
  <2> QED BY <1>8, <1>9, <2>1
<1>16. Wait(need)
  BY <1>3
<1> HIDE DEF W2, S2, S3, need
<1>17. OutInv' /\ FlyingDue' /\ SemDue' /\ Given' /\ PushInv' /\ Delivered'
  BY <1>10, <1>11, <1>12, <1>13, <1>14, <1>15, <1>16, QuietKeeps
<1>18. WeightsHeld' /\ RowsHeld' /\ PushDelivered'
  BY <1>3 DEF WeightsHeld, Using, RowsHeld, PushDelivered, Tiling
<1> QED BY <1>10, <1>17, <1>18 DEF IInv

LEMMA StartsAre ==
  ASSUME NEW i, NEW K
  PROVE  {Load1(w[1], w[2]) : w \in K \X {i}} = {Load1(kind, i) : kind \in K}
<1>1. ASSUME NEW w \in K \X {i} PROVE w[1] \in K /\ w[2] = i
  OBVIOUS
<1>2. ASSUME NEW kind \in K PROVE \E w \in K \X {i} : Load1(kind, i) = Load1(w[1], w[2])
  <2> DEFINE w == <<kind, i>>
  <2>1. w \in K \X {i} /\ w[1] = kind /\ w[2] = i
    OBVIOUS
  <2> HIDE DEF w
  <2> QED BY <2>1
<1>3. \A c \in {Load1(w[1], w[2]) : w \in K \X {i}} : c \in {Load1(kind, i) : kind \in K}
  BY <1>1
<1>4. \A c \in {Load1(kind, i) : kind \in K} : c \in {Load1(w[1], w[2]) : w \in K \X {i}}
  BY <1>2
<1> QED BY <1>3, <1>4

LEMMA VisitHeadStep ==
  ASSUME IInv, VisitHead
  PROVE  IInv'
<1> DEFINE starts == ~Prefetches /\ (StartsNext => visit = 0)
           Y1 == IF starts THEN Kinds \X {visit} ELSE {}
           S1 == IF starts THEN WeightStarts(visit) ELSE {}
<1>1. PlaceInv
  BY DEF IInv
<1>2. pc = "head" /\ visit \in Int /\ visit \in Visits /\ t = 0 /\ t < NumTiles(visit)
  BY <1>1 DEF PlaceInv, VisitHead
<1>3. /\ UNCHANGED <<schedule, visit, t, count, wslot, owed, act, mem, sem>>
      /\ pc' = "weights" /\ flying' = flying \cup S1
  BY DEF VisitHead, Start
<1>4. /\ schedule \in Schedules /\ schedule.distance \in 0..2 /\ NumVisits \in Nat
      /\ schedule.streams \in BOOLEAN /\ Visits = {i \in Nat : i < NumVisits}
      /\ \A i \in Visits : NumTiles(i) \in Nat /\ NumTiles(i) > 0
  BY <1>1, ScheduleIs DEF PlaceInv
<1>5. /\ Visits' = Visits /\ NumVisits' = NumVisits /\ Prefetches' = Prefetches /\ AtHead' = AtHead
      /\ \A i : NumTiles(i)' = NumTiles(i)
  BY <1>3, KeptTerms
<1>6. PlaceInv'
  <2>1. Sems' = Sems /\ Places' = Places /\ schedule' \in Schedules
    BY <1>1, <1>3, KeptTerms DEF Sems, PlaceInv
  <2> QED BY <1>1, <1>2, <1>3, <1>4, <1>5, <2>1 DEF PlaceInv, Tiling
<1>7. SameResults
  <2>1. \A tile \in Tiles : Computed(tile)' <=> Computed(tile)
    BY <1>2, <1>3 DEF Computed
  <2>2. \A p \in Slots : Leaving(p)' <=> Leaving(p)
    BY <1>2, <1>3 DEF Leaving, Parity
  <2>3. \A i \in Visits : Pushed(i)' <=> Pushed(i)
    BY <1>2, <1>3 DEF Pushed
  <2> QED BY <1>3, <2>1, <2>2, <2>3 DEF SameResults
<1>8. Family(WeightsDue, WeightsDue', {}, S1)
  <2>1. \A kind \in Kinds, i \in Visits :
          /\ <<kind, i>> \in Y1 => ~WeightAwaited(kind, i)
          /\ WeightAwaited(kind, i)' <=> WeightAwaited(kind, i) \/ <<kind, i>> \in Y1
    <3>1. CASE Prefetches
      BY <1>2, <1>3, <1>4, <1>5, <3>1
      DEF WeightAwaited, Started, WaitedHere, AfterWeights, Tiling
    <3>2. CASE ~Prefetches
      BY <1>2, <1>3, <1>4, <1>5, <3>2
      DEF WeightAwaited, Started, WaitedHere, StartedNext, StartsNext, AfterWeights, Tiling, Kinds
    <3> QED BY <3>1, <3>2
  <2>2. Y1 \in SUBSET (Kinds \X Visits) /\ {} \in SUBSET (Kinds \X Visits)
    BY <1>2
  <2>3. S1 = {Load1(w[1], w[2]) : w \in Y1}
    BY StartsAre, Images DEF WeightStarts, Kinds
  <2> HIDE DEF Y1, S1
  <2>4. Family(WeightsDue, WeightsDue', {Load1(w[1], w[2]) : w \in {}}, {Load1(w[1], w[2]) : w \in Y1})
    BY <1>1, <1>3, <2>1, <2>2, WeightsStep
  <2> QED BY <2>3, <2>4, Images
<1>9. Family(WindowsDue, WindowsDue', {}, {}) /\ Family(RowsDue, RowsDue', {}, {})
  <2>1. \A tile \in Tiles, slot \in Slots : WindowAwaited(tile, slot)' <=> WindowAwaited(tile, slot)
    BY <1>2, <1>3 DEF WindowAwaited
  <2>2. \A tile \in Tiles, parity \in Slots : RowsAwaited(tile, parity)' <=> RowsAwaited(tile, parity)
    BY <1>2, <1>3 DEF RowsAwaited, Tile, Parity
  <2> QED BY <1>3, <2>1, <2>2, Unchanged
<1>10. Wait(<<>>) /\ Matches(<<>>, {} \cup {} \cup {}) /\ flying' = flying \cup S1 \cup {} \cup {}
  BY <1>1, <1>3, NoWait, NoMatch
<1> HIDE DEF S1
<1>11. OutInv' /\ FlyingDue' /\ SemDue' /\ Given' /\ PushInv' /\ Delivered'
  BY <1>6, <1>7, <1>8, <1>9, <1>10, QuietKeeps
<1>12. WeightsHeld' /\ RowsHeld' /\ PushDelivered'
  BY <1>3 DEF WeightsHeld, Using, RowsHeld, PushDelivered, Tiling
<1> QED BY <1>6, <1>11, <1>12 DEF IInv

LEMMA WeightWaitsStep ==
  ASSUME IInv, WeightWaits
  PROVE  IInv'
<1> DEFINE ahead == visit + schedule.distance
           need == [s \in AtHead \X {WeightSlot(visit)} |-> 1]
           starts == Prefetches /\ ahead < NumVisits
           X1 == AtHead \X {visit}
           W1 == {Load1(kind, visit) : kind \in AtHead}
           Y1 == IF starts THEN Kinds \X {ahead} ELSE {}
           S1 == IF starts THEN WeightStarts(ahead) ELSE {}
<1>1. PlaceInv
  BY DEF IInv
<1>2. pc = "weights" /\ visit \in Int /\ visit \in Visits /\ t = 0 /\ t < NumTiles(visit)
  BY <1>1 DEF PlaceInv, WeightWaits
<1>3. /\ UNCHANGED <<schedule, visit, count, wslot, owed, act, mem>> /\ t' = t
      /\ pc' = "guard" /\ flying' = flying \cup S1 /\ Wait(need)
  BY <1>2 DEF WeightWaits, Start
<1>4. /\ schedule \in Schedules /\ schedule.distance \in 0..2 /\ NumVisits \in Nat
      /\ schedule.streams \in BOOLEAN /\ Visits = {i \in Nat : i < NumVisits}
      /\ \A i \in Visits : NumTiles(i) \in Nat /\ NumTiles(i) > 0
  BY <1>1, ScheduleIs DEF PlaceInv
<1>5. /\ Visits' = Visits /\ NumVisits' = NumVisits /\ Prefetches' = Prefetches /\ AtHead' = AtHead
      /\ WeightSlot(visit)' = WeightSlot(visit) /\ \A i : NumTiles(i)' = NumTiles(i)
  <2>1. \A i : WeightSlot(i)' = WeightSlot(i)
    BY <1>3, KeptTerms
  <2> QED BY <1>3, <2>1, KeptTerms DEF WeightSlot
<1>6. PlaceInv'
  <2>1. Sems' = Sems /\ Places' = Places /\ schedule' \in Schedules
    BY <1>1, <1>3, KeptTerms DEF Sems, PlaceInv
  <2>2. sem' \in [Sems -> Nat]
    BY <1>1, <1>3, WaitKeeps DEF PlaceInv
  <2> QED BY <1>1, <1>2, <1>3, <1>4, <1>5, <2>1, <2>2 DEF PlaceInv, Tiling
<1>7. SameResults
  <2>1. \A tile \in Tiles : Computed(tile)' <=> Computed(tile)
    BY <1>2, <1>3 DEF Computed
  <2>2. \A p \in Slots : Leaving(p)' <=> Leaving(p)
    BY <1>2, <1>3 DEF Leaving, Parity
  <2>3. \A i \in Visits : Pushed(i)' <=> Pushed(i)
    BY <1>2, <1>3 DEF Pushed
  <2> QED BY <1>3, <2>1, <2>2, <2>3 DEF SameResults
<1>8. AtHead \subseteq Kinds /\ \A kind \in AtHead : WeightAwaited(kind, visit)
  BY <1>2, <1>4 DEF AtHead, Kinds, WeightAwaited, Started, WaitedHere, AfterWeights, Tiling, Prefetches
<1>9. \A kind \in Kinds : WaitedHere(kind)' <=> kind \in AtHead
  BY <1>2, <1>3, <1>5 DEF WaitedHere, AfterWeights, Tiling
<1>10. Family(WeightsDue, WeightsDue', W1, S1)
  <2>1. \A kind \in Kinds, i \in Visits : /\ <<kind, i>> \in X1 => WeightAwaited(kind, i)
                                          /\ <<kind, i>> \in Y1 => ~WeightAwaited(kind, i)
    <3>1. \A kind \in Kinds, i \in Visits : <<kind, i>> \in X1 => WeightAwaited(kind, i)
      BY <1>8
    <3>2. \A kind \in Kinds, i \in Visits : <<kind, i>> \in Y1 => ~WeightAwaited(kind, i)
      BY <1>2, <1>4 DEF WeightAwaited, Started, AfterWeights, Tiling
    <3> QED BY <3>1, <3>2
  <2>2. \A kind \in Kinds, i \in Visits :
          WeightAwaited(kind, i)' <=> (WeightAwaited(kind, i) /\ <<kind, i>> \notin X1) \/ <<kind, i>> \in Y1
    <3> SUFFICES ASSUME NEW kind \in Kinds, NEW i \in Visits
                 PROVE  WeightAwaited(kind, i)' <=>
                          (WeightAwaited(kind, i) /\ <<kind, i>> \notin X1) \/ <<kind, i>> \in Y1
      OBVIOUS
    <3>1. ~WaitedHere(kind)
      BY <1>2 DEF WaitedHere, AfterWeights, Tiling
    <3>2. <<kind, i>> \in X1 <=> kind \in AtHead /\ i = visit
      OBVIOUS
    <3>3. <<kind, i>> \in Y1 <=> Prefetches /\ i = ahead
      BY <1>4
    <3>4. WeightAwaited(kind, i)' <=> Started(kind, i)' /\ ~(i < visit \/ (i = visit /\ kind \in AtHead))
      BY <1>3, <1>9 DEF WeightAwaited
    <3>5. WeightAwaited(kind, i) <=> Started(kind, i) /\ ~(i < visit)
      BY <3>1 DEF WeightAwaited
    <3>6. CASE Prefetches
      <4>1. Started(kind, i)' <=> i < ahead + 1
        BY <1>3, <1>5, <3>6 DEF Started, AfterWeights, Tiling
      <4>2. Started(kind, i) <=> i < ahead
        BY <1>2, <1>4, <3>6 DEF Started, AfterWeights, Tiling
      <4>3. i \in Int /\ ahead \in Int /\ ahead > visit
        BY <1>2, <1>4, <3>6 DEF Prefetches
      <4> QED BY <1>2, <3>2, <3>3, <3>4, <3>5, <3>6, <4>1, <4>2, <4>3
    <3>7. CASE ~Prefetches
      <4>1. Started(kind, i)' <=> Started(kind, i)
        BY <1>2, <1>3, <1>5, <3>7 DEF Started, StartedNext
      <4> QED BY <1>2, <1>4, <3>2, <3>3, <3>4, <3>5, <3>7, <4>1
    <3> QED BY <3>6, <3>7
  <2>3. X1 \in SUBSET (Kinds \X Visits) /\ Y1 \in SUBSET (Kinds \X Visits)
    BY <1>2, <1>4, <1>8
  <2>4. S1 = {Load1(w[1], w[2]) : w \in Y1}
    BY StartsAre, Images DEF WeightStarts, Kinds
  <2>5. W1 = {Load1(w[1], w[2]) : w \in X1}
    BY StartsAre
  <2> HIDE DEF X1, Y1, S1, W1
  <2>6. Family(WeightsDue, WeightsDue', {Load1(w[1], w[2]) : w \in X1}, {Load1(w[1], w[2]) : w \in Y1})
    BY <1>1, <1>3, <2>1, <2>2, <2>3, WeightsStep
  <2> QED BY <2>4, <2>5, <2>6
<1>11. Family(WindowsDue, WindowsDue', {}, {}) /\ Family(RowsDue, RowsDue', {}, {})
  <2>1. \A tile \in Tiles, slot \in Slots : WindowAwaited(tile, slot)' <=> WindowAwaited(tile, slot)
    BY <1>2, <1>3 DEF WindowAwaited
  <2>2. \A tile \in Tiles, parity \in Slots : RowsAwaited(tile, parity)' <=> RowsAwaited(tile, parity)
    BY <1>2, <1>3 DEF RowsAwaited, Tile, Parity
  <2> QED BY <1>3, <2>1, <2>2, Unchanged
<1>12. \A kind \in AtHead : /\ mem[<<kind, WeightSlot(visit)>>] = <<visit>>
                            /\ Load1(kind, visit).sem = <<kind, WeightSlot(visit)>>
                            /\ Load1(kind, visit).amount = 1
  <2> SUFFICES ASSUME NEW kind \in AtHead
               PROVE  /\ mem[<<kind, WeightSlot(visit)>>] = <<visit>>
                      /\ Load1(kind, visit).sem = <<kind, WeightSlot(visit)>>
                      /\ Load1(kind, visit).amount = 1
    OBVIOUS
  <2>1. sem[<<kind, WeightSlot(visit)>>] >= 1
    <3> DEFINE s == <<kind, WeightSlot(visit)>>
    <3>1. s \in DOMAIN need /\ need[s] = 1
      OBVIOUS
    <3> HIDE DEF need, s
    <3>2. sem[s] >= 1
      BY <1>3, <3>1 DEF Wait
    <3> QED BY <3>2 DEF s
  <2> QED BY <1>2, <1>8, <2>1, WeightCame
<1>13. Matches(need, W1 \cup {} \cup {}) /\ flying' = flying \cup S1 \cup {} \cup {}
  <2>1. \A w \in W1 : w.sem \in DOMAIN need /\ need[w.sem] = w.amount
    <3> SUFFICES ASSUME NEW kind \in AtHead, NEW w, w = Load1(kind, visit)
                 PROVE  w.sem \in DOMAIN need /\ need[w.sem] = w.amount
      OBVIOUS
    <3> DEFINE s == <<kind, WeightSlot(visit)>>
    <3>1. s \in DOMAIN need /\ need[s] = 1
      OBVIOUS
    <3>2. w.sem = s /\ w.amount = 1
      BY <1>12
    <3> HIDE DEF need, s
    <3> QED BY <3>1, <3>2
  <2>2. \A s \in DOMAIN need : \E w \in W1 : w.sem = s
    BY <1>12
  <2> HIDE DEF W1, S1, need
  <2> QED BY <1>3, <2>1, <2>2 DEF Matches
<1>14. Wait(need)
  BY <1>3
<1> HIDE DEF S1, W1, need
<1>15. OutInv' /\ FlyingDue' /\ SemDue' /\ Given' /\ PushInv' /\ Delivered'
  BY <1>6, <1>7, <1>10, <1>11, <1>13, <1>14, QuietKeeps
<1>16. WeightsHeld'
  BY <1>3, <1>5, <1>9, <1>12 DEF WeightsHeld, Using
<1>17. RowsHeld' /\ PushDelivered'
  BY <1>3 DEF RowsHeld, PushDelivered
<1> QED BY <1>6, <1>15, <1>16, <1>17 DEF IInv

LEMMA RowsReadyStep ==
  ASSUME IInv, RowsReady
  PROVE  IInv'
<1> DEFINE need == Only(<<"lhs", Parity>>, Blocks(Tile))
           first == <<visit + 1, 0>>
           asks == LastTile /\ AnotherVisit
           Y2 == IF asks THEN {<<first, NextWslot>>} ELSE {}
           S2 == IF asks THEN {Window(first, NextWslot)} ELSE {}
           X3 == {<<Tile, Parity>>}
           W3 == {RowsOf(Tile, Parity)}
<1>1. PlaceInv
  BY DEF IInv
<1>2. /\ pc = "rows" /\ visit \in Int /\ visit \in Visits /\ t \in Nat /\ t < NumTiles(visit)
      /\ wslot \in Slots /\ count \in Nat
  BY <1>1 DEF PlaceInv, RowsReady, Tiling
<1>3. /\ UNCHANGED <<schedule, visit, t, count, wslot, owed, act, mem>>
      /\ pc' = (IF LastTile THEN "gate" ELSE "next") /\ flying' = flying \cup S2 /\ Wait(need)
  BY DEF RowsReady, Start
<1>4. /\ schedule \in Schedules /\ NumVisits \in Nat /\ Visits = {i \in Nat : i < NumVisits}
      /\ \A i \in Visits : NumTiles(i) \in Nat /\ NumTiles(i) > 0
  BY <1>1, ScheduleIs DEF PlaceInv
<1>5. /\ Visits' = Visits /\ NumVisits' = NumVisits /\ Prefetches' = Prefetches /\ AtHead' = AtHead
      /\ \A i : NumTiles(i)' = NumTiles(i) /\ WeightSlot(i)' = WeightSlot(i)
  BY <1>3, KeptTerms
<1>6. /\ Tile \in Tiles /\ (first \in Tiles <=> AnotherVisit) /\ (<<visit, t + 1>> \in Tiles <=> ~LastTile)
      /\ Parity \in Slots /\ NextWslot \in Slots
  <2>1. Tile \in Tiles /\ (<<visit, t + 1>> \in Tiles <=> ~LastTile)
    BY <1>2, <1>4, TilesAre DEF Tile, LastTile
  <2>2. first \in Tiles <=> AnotherVisit
    BY <1>2, <1>4, TilesAre DEF AnotherVisit
  <2>3. Parity \in Slots
    BY <1>2, Turn DEF Parity
  <2>4. NextWslot \in Slots
    <3>1. wslot + NumTiles(visit) \in Nat
      BY <1>2, <1>4 DEF Slots
    <3> QED BY <3>1, Turn DEF NextWslot
  <2> QED BY <2>1, <2>2, <2>3, <2>4
<1>7. LastTile' = LastTile /\ Tile' = Tile /\ Parity' = Parity /\ NextWslot' = NextWslot
  <2>1. NumTiles(visit)' = NumTiles(visit)
    BY <1>3 DEF NumTiles
  <2> QED BY <1>3, <2>1 DEF LastTile, Tile, Parity, NextWslot
<1>8. PlaceInv'
  <2>1. Sems' = Sems /\ Places' = Places /\ schedule' \in Schedules
    BY <1>1, <1>3, KeptTerms DEF Sems, PlaceInv
  <2>2. sem' \in [Sems -> Nat]
    <3>1. \A s \in DOMAIN need : need[s] \in Nat
      <4>1. Blocks(Tile) \in Nat
        BY BlocksIs
      <4> QED BY <4>1, OnlyNat
    <3> HIDE DEF need
    <3> QED BY <1>1, <1>3, <3>1, WaitKeeps DEF PlaceInv
  <2> QED BY <1>1, <1>2, <1>3, <1>4, <1>5, <1>7, <2>1, <2>2 DEF PlaceInv, Tiling
<1>9. SameResults
  <2>1. \A tile \in Tiles : Computed(tile)' <=> Computed(tile)
    BY <1>2, <1>3 DEF Computed
  <2>2. \A p \in Slots : Leaving(p)' <=> Leaving(p)
    BY <1>2, <1>3, <1>7 DEF Leaving
  <2>3. \A i \in Visits : Pushed(i)' <=> Pushed(i)
    BY <1>2, <1>3 DEF Pushed
  <2> QED BY <1>3, <2>1, <2>2, <2>3 DEF SameResults
<1>10. \A kind \in Kinds : (WaitedHere(kind)' <=> WaitedHere(kind)) /\ (StartedNext(kind)' <=> StartedNext(kind))
  BY <1>2, <1>3, <1>5, <1>7 DEF WaitedHere, StartedNext, AfterWeights, Tiling
<1>11. Family(WeightsDue, WeightsDue', {}, {})
  <2>1. \A kind \in Kinds, i \in Visits : WeightAwaited(kind, i)' <=> WeightAwaited(kind, i)
    BY <1>2, <1>3, <1>5, <1>10 DEF WeightAwaited, Started, AfterWeights, Tiling
  <2> QED BY <1>3, <2>1, Unchanged
<1>12. Family(WindowsDue, WindowsDue', {}, S2)
  <2>1. Y2 \in SUBSET (Tiles \X Slots) /\ {} \in SUBSET (Tiles \X Slots)
    BY <1>6
  <2>2. \A tile \in Tiles, slot \in Slots :
          /\ <<tile, slot>> \in Y2 => ~WindowAwaited(tile, slot)
          /\ WindowAwaited(tile, slot)' <=> WindowAwaited(tile, slot) \/ <<tile, slot>> \in Y2
    <3> SUFFICES ASSUME NEW tile \in Tiles, NEW slot \in Slots
                 PROVE  /\ <<tile, slot>> \in Y2 => ~WindowAwaited(tile, slot)
                        /\ WindowAwaited(tile, slot)' <=> WindowAwaited(tile, slot) \/ <<tile, slot>> \in Y2
      OBVIOUS
    <3>1. <<tile, slot>> \in Y2 <=> LastTile /\ tile = first /\ slot = NextWslot
      BY <1>6
    <3>2. CASE LastTile
      <4>1. ~WindowAwaited(tile, slot)
        BY <1>2, <1>6, <3>2 DEF WindowAwaited
      <4>2. tile # <<visit, t + 2>>
        BY <1>2, <1>4, <3>2, TilesAre DEF LastTile
      <4>3. WindowAwaited(tile, slot)' <=> tile = first /\ slot = NextWslot
        BY <1>2, <1>3, <1>7, <3>2, <4>2 DEF WindowAwaited
      <4> QED BY <3>1, <3>2, <4>1, <4>3
    <3>3. CASE ~LastTile
      <4>1. WindowAwaited(tile, slot)' <=> WindowAwaited(tile, slot)
        BY <1>2, <1>3, <3>3 DEF WindowAwaited
      <4> QED BY <3>1, <3>3, <4>1
    <3> QED BY <3>2, <3>3
  <2>3. S2 = {Window(w[1], w[2]) : w \in Y2}
    BY Images
  <2> HIDE DEF Y2, S2
  <2>4. Family(WindowsDue, WindowsDue', {Window(w[1], w[2]) : w \in {}}, {Window(w[1], w[2]) : w \in Y2})
    BY <1>1, <1>3, <2>1, <2>2, WindowsStep
  <2> QED BY <2>3, <2>4, Images
<1>13. Family(RowsDue, RowsDue', W3, {})
  <2>1. X3 \in SUBSET (Tiles \X Slots) /\ {} \in SUBSET (Tiles \X Slots)
    BY <1>6
  <2>2. \A tile \in Tiles, parity \in Slots : RowsAwaited(tile, parity) <=> <<tile, parity>> \in X3
    BY <1>2 DEF RowsAwaited
  <2>3. \A tile \in Tiles, parity \in Slots : ~RowsAwaited(tile, parity)'
    BY <1>3, <1>6, <1>7 DEF RowsAwaited
  <2>4. W3 = {RowsOf(w[1], w[2]) : w \in X3}
    BY Images
  <2> HIDE DEF X3, W3
  <2> QED BY <1>1, <1>3, <2>1, <2>2, <2>3, <2>4, Images, OneRows
<1>14. mem[<<"lhs", Parity>>] = Tile /\ Matches(need, W3)
  <2>1. RowsAwaited(Tile, Parity)
    BY <1>2 DEF RowsAwaited
  <2> QED BY <1>3, <1>6, <2>1, RowsCame
<1>15. Matches(need, {} \cup {} \cup W3) /\ flying' = flying \cup {} \cup S2 \cup {} /\ Wait(need)
  <2> HIDE DEF W3, S2, need
  <2>1. {} \cup {} \cup W3 = W3
    OBVIOUS
  <2> QED BY <1>3, <1>14, <2>1
<1> HIDE DEF S2, W3, need
<1>16. OutInv' /\ FlyingDue' /\ SemDue' /\ Given' /\ PushInv' /\ Delivered'
  BY <1>8, <1>9, <1>11, <1>12, <1>13, <1>15, QuietKeeps
<1>17. WeightsHeld'
  <2>1. \A kind \in Kinds : Using(kind)' => Using(kind)
    BY <1>2, <1>3, <1>10 DEF Using, Tiling
  <2>2. WeightSlot(visit)' = WeightSlot(visit)
    BY <1>3 DEF WeightSlot, Nbuf
  <2>3. WeightsHeld
    BY DEF IInv
  <2> QED BY <1>3, <2>1, <2>2, <2>3 DEF WeightsHeld
<1>18. RowsHeld' /\ PushDelivered'
  BY <1>3, <1>7, <1>14 DEF RowsHeld, PushDelivered
<1> QED BY <1>8, <1>16, <1>17, <1>18 DEF IInv

LEMMA NextTileStep ==
  ASSUME IInv, NextTile
  PROVE  IInv'
<1> DEFINE slot0 == (wslot + t + 1) % 2
           need == Only(<<"window", slot0>>, 1)
           second == <<visit, t + 1>>
           third == <<visit, t + 2>>
           asks == t + 2 < NumTiles(visit)
           X2 == {<<second, slot0>>}
           W2 == {Window(second, slot0)}
           Y2 == IF asks THEN {<<third, 1 - slot0>>} ELSE {}
           S2 == IF asks THEN {Window(third, 1 - slot0)} ELSE {}
           Y3 == {<<second, 1 - Parity>>}
           S3 == {RowsOf(second, 1 - Parity)}
<1>1. PlaceInv
  BY DEF IInv
<1>2. /\ pc = "next" /\ visit \in Int /\ visit \in Visits /\ t \in Nat /\ t < NumTiles(visit)
      /\ wslot \in Slots /\ count \in Nat /\ ~LastTile
  BY <1>1 DEF PlaceInv, NextTile, Tiling
<1>3. /\ UNCHANGED <<schedule, visit, t, count, wslot, owed, act, mem>> /\ pc' = "gate" /\ Wait(need)
  BY DEF NextTile
<1>4. /\ schedule \in Schedules /\ NumVisits \in Nat /\ Visits = {i \in Nat : i < NumVisits}
      /\ \A i \in Visits : NumTiles(i) \in Nat /\ NumTiles(i) > 0
  BY <1>1, ScheduleIs DEF PlaceInv
<1>5. /\ Visits' = Visits /\ NumVisits' = NumVisits /\ Prefetches' = Prefetches /\ AtHead' = AtHead
      /\ \A i : NumTiles(i)' = NumTiles(i) /\ WeightSlot(i)' = WeightSlot(i)
  BY <1>3, KeptTerms
<1>6. /\ second \in Tiles /\ (third \in Tiles <=> asks)
      /\ 1 - Parity \in Slots /\ slot0 \in Slots /\ 1 - slot0 \in Slots /\ (wslot + t + 2) % 2 = 1 - slot0
  <2>1. second \in Tiles /\ (third \in Tiles <=> asks)
    BY <1>2, <1>4, TilesAre DEF LastTile
  <2>2. Parity \in Slots
    BY <1>2, Turn DEF Parity
  <2>3. wslot + t + 1 \in Nat /\ (wslot + t + 1) + 1 = wslot + t + 2
    BY <1>2 DEF Slots
  <2>4. slot0 \in Slots /\ (wslot + t + 2) % 2 = 1 - slot0
    BY <2>3, Turn
  <2> HIDE DEF slot0
  <2> QED BY <2>1, <2>2, <2>4 DEF Slots
<1>7. LastTile' = LastTile /\ Tile' = Tile /\ Parity' = Parity
  <2>1. NumTiles(visit)' = NumTiles(visit)
    BY <1>3 DEF NumTiles
  <2> QED BY <1>3, <2>1 DEF LastTile, Tile, Parity
<1>8. WindowAwaited(second, slot0)
  BY <1>2 DEF WindowAwaited
<1>9. Matches(need, W2) /\ Rows(second, 1 - Parity, slot0) = RowsOf(second, 1 - Parity)
  <2> HIDE DEF slot0, second
  <2> QED BY <1>3, <1>6, <1>8, WindowCame
<1>10. flying' = flying \cup S2 \cup S3
  <2>1. Start({Rows(second, 1 - Parity, slot0)} \cup S2)
    BY DEF NextTile
  <2> HIDE DEF S2
  <2> QED BY <1>9, <2>1 DEF Start
<1>11. PlaceInv'
  <2>1. Sems' = Sems /\ Places' = Places /\ schedule' \in Schedules
    BY <1>1, <1>3, KeptTerms DEF Sems, PlaceInv
  <2>2. sem' \in [Sems -> Nat]
    <3>1. \A s \in DOMAIN need : need[s] \in Nat
      BY OnlyNat
    <3> HIDE DEF need
    <3> QED BY <1>1, <1>3, <3>1, WaitKeeps DEF PlaceInv
  <2> QED BY <1>1, <1>2, <1>3, <1>4, <1>5, <1>7, <2>1, <2>2 DEF PlaceInv, Tiling
<1>12. SameResults
  <2>1. \A tile \in Tiles : Computed(tile)' <=> Computed(tile)
    BY <1>2, <1>3 DEF Computed
  <2>2. \A p \in Slots : Leaving(p)' <=> Leaving(p)
    BY <1>2, <1>3, <1>7 DEF Leaving
  <2>3. \A i \in Visits : Pushed(i)' <=> Pushed(i)
    BY <1>2, <1>3 DEF Pushed
  <2> QED BY <1>3, <2>1, <2>2, <2>3 DEF SameResults
<1>13. \A kind \in Kinds : (WaitedHere(kind)' <=> WaitedHere(kind)) /\ (StartedNext(kind)' <=> StartedNext(kind))
  BY <1>2, <1>3, <1>5, <1>7 DEF WaitedHere, StartedNext, AfterWeights, Tiling
<1>14. Family(WeightsDue, WeightsDue', {}, {})
  <2>1. \A kind \in Kinds, i \in Visits : WeightAwaited(kind, i)' <=> WeightAwaited(kind, i)
    BY <1>2, <1>3, <1>5, <1>13 DEF WeightAwaited, Started, AfterWeights, Tiling
  <2> QED BY <1>3, <2>1, Unchanged
<1>15. Family(WindowsDue, WindowsDue', W2, S2)
  <2>1. X2 \in SUBSET (Tiles \X Slots) /\ Y2 \in SUBSET (Tiles \X Slots) /\ X2 \cap Y2 = {}
    <3>1. second # third
      BY <1>2
    <3> HIDE DEF second, third, slot0
    <3> QED BY <1>6, <3>1
  <2>2. \A tile \in Tiles, slot \in Slots : WindowAwaited(tile, slot) <=> <<tile, slot>> \in X2
    BY <1>2 DEF WindowAwaited
  <2>3. \A tile \in Tiles, slot \in Slots : WindowAwaited(tile, slot)' <=> tile = third /\ slot = 1 - slot0
    BY <1>2, <1>3, <1>6, <1>7 DEF WindowAwaited
  <2>4. \A tile \in Tiles, slot \in Slots : WindowAwaited(tile, slot)' <=> <<tile, slot>> \in Y2
    <3> HIDE DEF third, slot0
    <3> QED BY <1>6, <2>3
  <2>5. W2 = {Window(w[1], w[2]) : w \in X2} /\ S2 = {Window(w[1], w[2]) : w \in Y2}
    BY Images
  <2> HIDE DEF X2, Y2, W2, S2
  <2> QED BY <1>1, <1>3, <2>1, <2>2, <2>4, <2>5, OneWindow
<1>16. Family(RowsDue, RowsDue', {}, S3)
  <2>1. Y3 \in SUBSET (Tiles \X Slots) /\ {} \in SUBSET (Tiles \X Slots)
    BY <1>6
  <2>2. \A tile \in Tiles, parity \in Slots :
          ~RowsAwaited(tile, parity) /\ (RowsAwaited(tile, parity)' <=> <<tile, parity>> \in Y3)
    BY <1>2, <1>3, <1>7 DEF RowsAwaited
  <2>3. S3 = {RowsOf(w[1], w[2]) : w \in Y3}
    BY Images
  <2> HIDE DEF Y3, S3
  <2> QED BY <1>1, <1>3, <2>1, <2>2, <2>3, Images, OneRows
<1>17. Matches(need, {} \cup W2 \cup {}) /\ flying' = flying \cup {} \cup S2 \cup S3 /\ Wait(need)
  <2> HIDE DEF W2, S2, S3, need
  <2>1. {} \cup W2 \cup {} = W2
    OBVIOUS
  <2> QED BY <1>3, <1>9, <1>10, <2>1
<1> HIDE DEF W2, S2, S3, need
<1>18. OutInv' /\ FlyingDue' /\ SemDue' /\ Given' /\ PushInv' /\ Delivered'
  BY <1>11, <1>12, <1>14, <1>15, <1>16, <1>17, QuietKeeps
<1>19. WeightsHeld'
  <2>1. \A kind \in Kinds : Using(kind)' => Using(kind)
    BY <1>2, <1>3, <1>13 DEF Using, Tiling
  <2>2. WeightSlot(visit)' = WeightSlot(visit)
    BY <1>3 DEF WeightSlot, Nbuf
  <2>3. WeightsHeld
    BY DEF IInv
  <2> QED BY <1>3, <2>1, <2>2, <2>3 DEF WeightsHeld
<1>20. RowsHeld' /\ PushDelivered'
  <2>1. mem[<<"lhs", Parity>>] = Tile
    BY <1>2 DEF IInv, RowsHeld
  <2> QED BY <1>3, <1>7, <2>1 DEF RowsHeld, PushDelivered
<1> QED BY <1>11, <1>18, <1>19, <1>20 DEF IInv

LEMMA VisitTailStep ==
  ASSUME IInv, VisitTail
  PROVE  IInv'
<1> DEFINE starts == StartsNext /\ AnotherVisit
           K == {"scales", "w2"}
           Y1 == IF starts THEN K \X {visit + 1} ELSE {}
           S1 == IF starts THEN {Load1(kind, visit + 1) : kind \in K} ELSE {}
<1>1. PlaceInv
  BY DEF IInv
<1>2. /\ pc = "tail" /\ visit \in Int /\ visit \in Visits /\ t = 0 /\ t < NumTiles(visit) /\ wslot \in Slots
  BY <1>1 DEF PlaceInv, VisitTail
<1>3. /\ UNCHANGED <<schedule, visit, t, count, owed, act, mem, sem>>
      /\ wslot' = NextWslot /\ pc' = (IF AnotherVisit THEN "prime" ELSE "flush")
      /\ flying' = flying \cup S1
  BY DEF VisitTail, Start
<1>4. /\ schedule \in Schedules /\ NumVisits \in Nat /\ Visits = {i \in Nat : i < NumVisits}
      /\ schedule.streams \in BOOLEAN
      /\ \A i \in Visits : NumTiles(i) \in Nat /\ NumTiles(i) > 0
  BY <1>1, ScheduleIs DEF PlaceInv
<1>5. /\ Visits' = Visits /\ NumVisits' = NumVisits /\ Prefetches' = Prefetches /\ AtHead' = AtHead
      /\ \A i : NumTiles(i)' = NumTiles(i)
  BY <1>3, KeptTerms
<1>6. /\ visit + 1 \in Visits <=> AnotherVisit
      /\ NextWslot \in Slots
  <2>1. visit + 1 \in Visits <=> AnotherVisit
    BY <1>2, <1>4 DEF AnotherVisit
  <2>2. NextWslot \in Slots
    <3>1. wslot + NumTiles(visit) \in Nat
      BY <1>2, <1>4 DEF Slots
    <3> QED BY <3>1, Turn DEF NextWslot
  <2> QED BY <2>1, <2>2
<1>7. PlaceInv'
  <2>1. Sems' = Sems /\ Places' = Places /\ schedule' \in Schedules
    BY <1>1, <1>3, KeptTerms DEF Sems, PlaceInv
  <2> QED BY <1>1, <1>2, <1>3, <1>4, <1>5, <1>6, <2>1 DEF PlaceInv, Tiling
<1>8. SameResults
  <2>1. \A tile \in Tiles : Computed(tile)' <=> Computed(tile)
    BY <1>2, <1>3 DEF Computed
  <2>2. \A p \in Slots : Leaving(p)' <=> Leaving(p)
    BY <1>2, <1>3 DEF Leaving, Parity
  <2>3. \A i \in Visits : Pushed(i)' <=> Pushed(i)
    BY <1>2, <1>3 DEF Pushed
  <2> QED BY <1>3, <2>1, <2>2, <2>3 DEF SameResults
<1>9. Family(WeightsDue, WeightsDue', {}, S1)
  <2>1. \A kind \in Kinds, i \in Visits :
          /\ <<kind, i>> \in Y1 => ~WeightAwaited(kind, i)
          /\ WeightAwaited(kind, i)' <=> WeightAwaited(kind, i) \/ <<kind, i>> \in Y1
    <3> SUFFICES ASSUME NEW kind \in Kinds, NEW i \in Visits
                 PROVE  /\ <<kind, i>> \in Y1 => ~WeightAwaited(kind, i)
                        /\ WeightAwaited(kind, i)' <=> WeightAwaited(kind, i) \/ <<kind, i>> \in Y1
      OBVIOUS
    <3>1. WaitedHere(kind) /\ WaitedHere(kind)'
      BY <1>2, <1>3, <1>5 DEF WaitedHere, AfterWeights, Tiling
    <3>2. StartedNext(kind)' /\ (StartedNext(kind) <=> kind \notin K)
      BY <1>2, <1>3 DEF StartedNext, Kinds
    <3>3. <<kind, i>> \in Y1 <=> StartsNext /\ kind \in K /\ i = visit + 1
      BY <1>6
    <3>4. WeightAwaited(kind, i) <=> Started(kind, i) /\ i > visit
      BY <1>2, <1>4, <3>1 DEF WeightAwaited
    <3>5. WeightAwaited(kind, i)' <=> Started(kind, i)' /\ i > visit
      BY <1>2, <1>3, <1>4, <3>1 DEF WeightAwaited
    <3>6. CASE Prefetches
      <4>1. Started(kind, i)' <=> Started(kind, i)
        BY <1>2, <1>3, <1>5, <3>6 DEF Started, AfterWeights, Tiling
      <4> QED BY <3>3, <3>4, <3>5, <3>6, <4>1 DEF StartsNext
    <3>7. CASE ~Prefetches
      <4>1. i > visit => (Started(kind, i) <=> schedule.streams /\ i = visit + 1 /\ kind \notin K)
        BY <1>2, <1>4, <3>2, <3>7 DEF Started
      <4>2. i > visit => (Started(kind, i)' <=> schedule.streams /\ i = visit + 1)
        BY <1>2, <1>3, <1>4, <1>5, <3>2, <3>7 DEF Started
      <4>3. i = visit + 1 => i > visit
        BY <1>2
      <4> HIDE DEF Y1, K
      <4> QED BY <3>3, <3>4, <3>5, <3>7, <4>1, <4>2, <4>3 DEF StartsNext
    <3> QED BY <3>6, <3>7
  <2>2. Y1 \in SUBSET (Kinds \X Visits) /\ {} \in SUBSET (Kinds \X Visits)
    BY <1>6 DEF Kinds
  <2>3. S1 = {Load1(w[1], w[2]) : w \in Y1}
    BY StartsAre, Images
  <2> HIDE DEF Y1, S1
  <2>4. Family(WeightsDue, WeightsDue', {Load1(w[1], w[2]) : w \in {}}, {Load1(w[1], w[2]) : w \in Y1})
    BY <1>1, <1>3, <2>1, <2>2, WeightsStep
  <2> QED BY <2>3, <2>4, Images
<1>10. \A u : <<visit + 1, u>> \in Tiles => AnotherVisit
  BY <1>6, TilesAre
<1>11. Family(WindowsDue, WindowsDue', {}, {}) /\ Family(RowsDue, RowsDue', {}, {})
  <2>1. \A tile \in Tiles, slot \in Slots : WindowAwaited(tile, slot)' <=> WindowAwaited(tile, slot)
    BY <1>2, <1>3, <1>10 DEF WindowAwaited
  <2>2. \A tile \in Tiles, parity \in Slots : RowsAwaited(tile, parity)' <=> RowsAwaited(tile, parity)
    BY <1>2, <1>3, <1>10 DEF RowsAwaited
  <2> QED BY <1>3, <2>1, <2>2, Unchanged
<1>12. Wait(<<>>) /\ Matches(<<>>, {} \cup {} \cup {}) /\ flying' = flying \cup S1 \cup {} \cup {}
  BY <1>1, <1>3, NoWait, NoMatch
<1> HIDE DEF S1
<1>13. OutInv' /\ FlyingDue' /\ SemDue' /\ Given' /\ PushInv' /\ Delivered'
  BY <1>7, <1>8, <1>9, <1>11, <1>12, QuietKeeps
<1>14. WeightsHeld' /\ RowsHeld' /\ PushDelivered'
  BY <1>3 DEF WeightsHeld, Using, RowsHeld, PushDelivered, Tiling
<1> QED BY <1>7, <1>13, <1>14 DEF IInv

\* A slab that is opened has come, for this tile or for an earlier one.
LEMMA SlabCame ==
  ASSUME IInv, NEW kind \in Kinds, pc \in {"gate", "down"}, SlabWait(kind),
         schedule.streams /\ t = 0 => WeightAwaited(kind, visit),
         ~(schedule.streams /\ t = 0) => Using(kind)
  PROVE  /\ mem[<<kind, WeightSlot(visit)>>] = <<visit>>
         /\ \E need : /\ Wait(need) /\ \A s \in DOMAIN need : need[s] \in Nat
                      /\ Matches(need, IF schedule.streams /\ t = 0 THEN {Load1(kind, visit)} ELSE {})
<1>1. PlaceInv /\ WeightsHeld
  BY DEF IInv
<1>2. visit \in Visits
  BY <1>1 DEF PlaceInv, Tiling
<1>3. CASE schedule.streams /\ t = 0
  <2> DEFINE s == <<kind, WeightSlot(visit)>>
             need == Only(s, 1)
  <2>1. Wait(need)
    BY <1>3 DEF SlabWait
  <2>2. need[s] = 1 /\ s \in DOMAIN need /\ \A r \in DOMAIN need : need[r] \in Nat
    <3>1. need = Only(s, 1)
      OBVIOUS
    <3> HIDE DEF need, s
    <3>2. DOMAIN need = {s} /\ need[s] = 1
      BY <3>1, OnlyIs
    <3> QED BY <3>2
  <2>3. sem[s] >= 1
    <3> HIDE DEF need
    <3> QED BY <2>1, <2>2 DEF Wait
  <2>4. mem[s] = <<visit>> /\ Load1(kind, visit).sem = s /\ Load1(kind, visit).amount = 1
    BY <1>2, <1>3, <2>3, WeightCame
  <2> DEFINE c == Load1(kind, visit)
  <2>5. c.sem = s /\ c.amount = 1
    BY <2>4
  <2> HIDE DEF c, s
  <2>6. Matches(Only(s, 1), {c})
    BY <2>5, OneMatch
  <2> HIDE DEF need
  <2>7. Matches(need, {c})
    BY <2>6 DEF need
  <2>8. Matches(need, IF schedule.streams /\ t = 0 THEN {Load1(kind, visit)} ELSE {})
    BY <1>3, <2>7 DEF c
  <2>9. mem[<<kind, WeightSlot(visit)>>] = <<visit>>
    BY <2>4 DEF s
  <2> QED BY <2>1, <2>2, <2>8, <2>9
<1>4. CASE ~(schedule.streams /\ t = 0)
  <2> DEFINE need == <<>>
  <2>1. Wait(need)
    BY <1>4 DEF SlabWait
  <2>2. mem[<<kind, WeightSlot(visit)>>] = <<visit>>
    BY <1>1, <1>4 DEF WeightsHeld
  <2>3. \A s \in DOMAIN need : need[s] \in Nat
    OBVIOUS
  <2>4. Matches(need, IF schedule.streams /\ t = 0 THEN {Load1(kind, visit)} ELSE {})
    BY <1>4, NoMatch
  <2> HIDE DEF need
  <2> QED BY <2>1, <2>2, <2>3, <2>4
<1> QED BY <1>3, <1>4

LEMMA ProductIs ==
  ASSUME NEW tile, tile = Tile, NEW kinds, \A k \in kinds : mem[<<k, WeightSlot(visit)>>] = <<visit>>
  PROVE  Product(tile, kinds) = tile
<1>1. tile = <<visit, t>> /\ tile[1] = visit /\ tile # Nothing
  BY DEF Tile, Nothing
<1> QED BY <1>1 DEF Product

LEMMA GateStep ==
  ASSUME IInv, Gate
  PROVE  IInv'
<1> DEFINE slab == schedule.streams /\ t = 0
           starts == StartsNext /\ LastTile /\ AnotherVisit
           X1 == IF slab THEN {<<"w1", visit>>} ELSE {}
           W1 == IF slab THEN {Load1("w1", visit)} ELSE {}
           Y1 == IF starts THEN {<<"w1", visit + 1>>} ELSE {}
           S1 == IF starts THEN {Load1("w1", visit + 1)} ELSE {}
<1>1. PlaceInv
  BY DEF IInv
<1>2. /\ pc = "gate" /\ visit \in Int /\ visit \in Visits /\ t \in Nat /\ t < NumTiles(visit)
  BY <1>1 DEF PlaceInv, Gate, Tiling
<1>3. /\ UNCHANGED <<schedule, visit, t, count, wslot, owed, mem>> /\ pc' = "down" /\ SlabWait("w1")
      /\ flying' = flying \cup S1
      /\ act' = Product(mem[<<"lhs", Parity>>], {"w1", "scales"})
  BY DEF Gate, Start
<1>4. /\ schedule \in Schedules /\ NumVisits \in Nat /\ Visits = {i \in Nat : i < NumVisits}
      /\ schedule.streams \in BOOLEAN /\ schedule.distance \in 0..2
      /\ \A i \in Visits : NumTiles(i) \in Nat /\ NumTiles(i) > 0
  BY <1>1, ScheduleIs DEF PlaceInv
<1>5. /\ Visits' = Visits /\ NumVisits' = NumVisits /\ Prefetches' = Prefetches /\ AtHead' = AtHead
      /\ \A i : NumTiles(i)' = NumTiles(i) /\ WeightSlot(i)' = WeightSlot(i)
  BY <1>3, KeptTerms
<1>6. LastTile' = LastTile /\ Tile' = Tile /\ Parity' = Parity /\ NextWslot' = NextWslot
  <2>1. NumTiles(visit)' = NumTiles(visit)
    BY <1>3 DEF NumTiles
  <2> QED BY <1>3, <2>1 DEF LastTile, Tile, Parity, NextWslot
<1>7. /\ \A kind \in Kinds : WaitedHere(kind) <=> kind \in AtHead \/ t > 0
      /\ \A kind \in Kinds : WaitedHere(kind)' <=> kind \in AtHead \/ t > 0 \/ kind = "w1"
      /\ \A kind \in Kinds : ~StartedNext(kind) /\ (StartedNext(kind)' <=> kind = "w1" /\ LastTile)
      /\ "scales" \in AtHead /\ ("w1" \in AtHead <=> ~schedule.streams) /\ "w1" \in Kinds /\ "scales" \in Kinds
  BY <1>2, <1>3, <1>5, <1>6 DEF WaitedHere, StartedNext, AfterWeights, Tiling, AtHead, Kinds
<1>8. slab => WeightAwaited("w1", visit)
  <2>1. Started("w1", visit)
    BY <1>2, <1>4 DEF Started, AfterWeights, Tiling, Prefetches
  <2> QED BY <1>2, <1>7, <2>1 DEF WeightAwaited
<1>9. ~slab => Using("w1")
  BY <1>2, <1>7 DEF Using, Tiling
<1>10. /\ mem[<<"w1", WeightSlot(visit)>>] = <<visit>>
       /\ \E need : Wait(need) /\ (\A s \in DOMAIN need : need[s] \in Nat) /\ Matches(need, W1)
  BY <1>2, <1>3, <1>7, <1>8, <1>9, SlabCame
<1>11. PICK need : Wait(need) /\ (\A s \in DOMAIN need : need[s] \in Nat) /\ Matches(need, W1)
  BY <1>10
<1>12. PlaceInv'
  <2>1. Sems' = Sems /\ Places' = Places /\ schedule' \in Schedules
    BY <1>1, <1>3, KeptTerms DEF Sems, PlaceInv
  <2>2. sem' \in [Sems -> Nat]
    BY <1>1, <1>11, WaitKeeps DEF PlaceInv
  <2> QED BY <1>1, <1>2, <1>3, <1>4, <1>5, <2>1, <2>2 DEF PlaceInv, Tiling
<1>13. SameResults
  <2>1. \A tile \in Tiles : Computed(tile)' <=> Computed(tile)
    BY <1>2, <1>3 DEF Computed
  <2>2. \A p \in Slots : Leaving(p)' <=> Leaving(p)
    BY <1>2, <1>3, <1>6 DEF Leaving
  <2>3. \A i \in Visits : Pushed(i)' <=> Pushed(i)
    BY <1>2, <1>3 DEF Pushed
  <2> QED BY <1>3, <2>1, <2>2, <2>3 DEF SameResults
<1>14. Family(WeightsDue, WeightsDue', W1, S1)
  <2>1. \A kind \in Kinds, i \in Visits :
          /\ <<kind, i>> \in X1 => WeightAwaited(kind, i)
          /\ <<kind, i>> \in Y1 => ~WeightAwaited(kind, i)
          /\ WeightAwaited(kind, i)' <=> (WeightAwaited(kind, i) /\ <<kind, i>> \notin X1) \/ <<kind, i>> \in Y1
    <3> SUFFICES ASSUME NEW kind \in Kinds, NEW i \in Visits
                 PROVE  /\ <<kind, i>> \in X1 => WeightAwaited(kind, i)
                        /\ <<kind, i>> \in Y1 => ~WeightAwaited(kind, i)
                        /\ WeightAwaited(kind, i)' <=>
                             (WeightAwaited(kind, i) /\ <<kind, i>> \notin X1) \/ <<kind, i>> \in Y1
      OBVIOUS
    <3>1. <<kind, i>> \in X1 <=> slab /\ kind = "w1" /\ i = visit
      OBVIOUS
    <3>2. <<kind, i>> \in Y1 <=> StartsNext /\ LastTile /\ kind = "w1" /\ i = visit + 1
      <4>1. visit + 1 \in Visits <=> AnotherVisit
        BY <1>2, <1>4 DEF AnotherVisit
      <4> QED BY <4>1
    <3>3. WeightAwaited(kind, i) <=> Started(kind, i) /\ ~(i < visit \/ (i = visit /\ (kind \in AtHead \/ t > 0)))
      BY <1>7 DEF WeightAwaited
    <3>4. WeightAwaited(kind, i)' <=>
            Started(kind, i)' /\ ~(i < visit \/ (i = visit /\ (kind \in AtHead \/ t > 0 \/ kind = "w1")))
      BY <1>3, <1>7 DEF WeightAwaited
    <3>5. CASE Prefetches
      <4>1. Started(kind, i)' <=> Started(kind, i)
        BY <1>2, <1>3, <1>5, <3>5 DEF Started, AfterWeights, Tiling
      <4>2. ~StartsNext
        BY <3>5 DEF StartsNext
      <4> HIDE DEF X1, Y1
      <4> QED BY <1>2, <1>7, <1>8, <3>1, <3>2, <3>3, <3>4, <4>1, <4>2
    <3>6. CASE ~Prefetches
      <4>1. Started(kind, i) <=> i < visit \/ i = visit
        BY <1>2, <1>4, <1>7, <3>6 DEF Started
      <4>2. Started(kind, i)' <=> i < visit \/ i = visit \/ <<kind, i>> \in Y1
        BY <1>2, <1>3, <1>4, <1>5, <1>7, <3>2, <3>6 DEF Started, StartsNext
      <4>3. i = visit + 1 => ~(i < visit) /\ i # visit
        BY <1>2
      <4> HIDE DEF X1, Y1
      <4> QED BY <1>2, <1>7, <1>8, <3>1, <3>2, <3>3, <3>4, <4>1, <4>2, <4>3
    <3> QED BY <3>5, <3>6
  <2>2. X1 \in SUBSET (Kinds \X Visits)
    BY <1>2, <1>7
  <2>3. Y1 \in SUBSET (Kinds \X Visits)
    BY <1>2, <1>4, <1>7 DEF AnotherVisit
  <2>4. W1 = {Load1(w[1], w[2]) : w \in X1} /\ S1 = {Load1(w[1], w[2]) : w \in Y1}
    BY Images
  <2> HIDE DEF X1, Y1, W1, S1
  <2>5. Family(WeightsDue, WeightsDue', {Load1(w[1], w[2]) : w \in X1}, {Load1(w[1], w[2]) : w \in Y1})
    BY <1>1, <1>3, <2>1, <2>2, <2>3, WeightsStep
  <2> QED BY <2>4, <2>5
<1>15. Family(WindowsDue, WindowsDue', {}, {}) /\ Family(RowsDue, RowsDue', {}, {})
  <2>1. \A tile \in Tiles, slot \in Slots : WindowAwaited(tile, slot)' <=> WindowAwaited(tile, slot)
    BY <1>2, <1>3, <1>6 DEF WindowAwaited
  <2>2. \A tile \in Tiles, parity \in Slots : RowsAwaited(tile, parity)' <=> RowsAwaited(tile, parity)
    BY <1>2, <1>3, <1>6 DEF RowsAwaited
  <2> QED BY <1>3, <2>1, <2>2, Unchanged
<1>16. Matches(need, W1 \cup {} \cup {}) /\ flying' = flying \cup S1 \cup {} \cup {} /\ Wait(need)
  <2> HIDE DEF W1, S1
  <2>1. W1 \cup {} \cup {} = W1
    OBVIOUS
  <2> QED BY <1>3, <1>11, <2>1
<1> HIDE DEF S1, W1
<1>17. OutInv' /\ FlyingDue' /\ SemDue' /\ Given' /\ PushInv' /\ Delivered'
  BY <1>12, <1>13, <1>14, <1>15, <1>16, QuietKeeps
<1>18. WeightsHeld'
  <2>1. \A kind \in Kinds : Using(kind)' => kind = "w1" \/ Using(kind)
    BY <1>2, <1>3, <1>7 DEF Using, Tiling
  <2>2. WeightSlot(visit)' = WeightSlot(visit)
    BY <1>3 DEF WeightSlot, Nbuf
  <2>3. WeightsHeld
    BY DEF IInv
  <2> QED BY <1>3, <1>10, <2>1, <2>2, <2>3 DEF WeightsHeld
<1>19. RowsHeld' /\ PushDelivered'
  <2> DEFINE rows == mem[<<"lhs", Parity>>]
  <2>1. rows = Tile
    BY <1>2 DEF IInv, RowsHeld
  <2>2. Using("scales")
    BY <1>2, <1>7 DEF Using, Tiling
  <2>3. mem[<<"scales", WeightSlot(visit)>>] = <<visit>>
    BY <1>7, <2>2 DEF IInv, WeightsHeld
  <2>4. \A k \in {"w1", "scales"} : mem[<<k, WeightSlot(visit)>>] = <<visit>>
    BY <1>10, <2>3
  <2>5. act' = Product(rows, {"w1", "scales"})
    BY <1>3
  <2> HIDE DEF rows
  <2>6. act' = Tile
    BY <2>1, <2>4, <2>5, ProductIs
  <2> QED BY <1>3, <1>6, <2>6 DEF RowsHeld, PushDelivered
<1> QED BY <1>12, <1>17, <1>18, <1>19 DEF IInv

\* What is kept by any step of the core.
LEMMA StepKeeps ==
  ASSUME IInv, PlaceInv', OutInv', schedule' = schedule, NEW need, NEW W1, NEW W2, NEW W3, NEW W4,
         NEW S1, NEW S2, NEW S3, NEW S4, NEW P,
         Family(WeightsDue, WeightsDue', W1, S1), Family(WindowsDue, WindowsDue', W2, S2),
         Family(RowsDue, RowsDue', W3, S3), Family(OutsDue, OutsDue', W4, S4),
         PushesDue' = PushesDue \cup P,
         Wait(need), Matches(need, W1 \cup W2 \cup W3 \cup W4),
         flying' = flying \cup (S1 \cup S2 \cup S3 \cup S4) \cup P,
         \A place \in Places : place[1] \notin {"out", "oscl"} => mem'[place] = mem[place],
         \A i \in Visits :
           /\ Pushed(i) => Pushed(i)' /\ PushRows(i) \notin P /\ PushScl(i) \notin P
           /\ Pushed(i)' /\ ~Pushed(i) => PushRows(i) \in P /\ PushScl(i) \in P
  PROVE  FlyingDue' /\ SemDue' /\ Given' /\ PushInv'
<1> DEFINE W == W1 \cup W2 \cup W3 \cup W4
           S == S1 \cup S2 \cup S3 \cup S4
<1>1. PlaceInv /\ OutInv
  BY DEF IInv
<1>2. Family(Single, Single', W, S)
  BY <1>1, FromFamilies
<1>3. Matches(need, W)
  OBVIOUS
<1>4. flying' = flying \cup S \cup P
  OBVIOUS
<1> HIDE DEF W, S
<1>5. CoreStep(need, W, S, P)
  BY <1>2, <1>3, <1>4 DEF CoreStep, Family, Matches
<1>6. FlyingDue' /\ SemDue' /\ Given'
  BY <1>5, CoreKeeps
<1>7. PushInv'
  BY <1>5, PushKeeps
<1> QED BY <1>6, <1>7

\* What leaves a parity's staging buffers is waited for.
LEMMA OutsCame ==
  ASSUME IInv, NEW parities \in SUBSET Slots, \A p \in parities : owed[p] > 0 => Leaving(p), Wait(Owing(parities))
  PROVE  /\ \A s \in DOMAIN Owing(parities) : Owing(parities)[s] \in Nat
         /\ Matches(Owing(parities), {RowsOut(p) : p \in {p \in parities : Leaving(p)}} \cup
                                     {SclOut(p) : p \in {p \in parities : Leaving(p)}})
         /\ \A p \in parities : Leaving(p) =>
              mem[<<RowsTo, Staged(p)>>] = Staged(p) /\ mem[<<SclTo, Staged(p)>>] = Staged(p)
<1> DEFINE need == Owing(parities)
           Q == {p \in parities : Leaving(p)}
           W == {RowsOut(p) : p \in Q} \cup {SclOut(p) : p \in Q}
<1>1. PlaceInv /\ OutInv
  BY DEF IInv
<1>2. Q = {p \in parities : owed[p] > 0} /\ Q \subseteq Slots
  BY DEF Leaving
<1>3. need = [s \in {"out", "oscl"} \X Q |-> IF s[1] = "out" THEN owed[s[2]] ELSE 1]
  BY <1>2 DEF Owing
<1> HIDE DEF Q, need
<1>4. /\ \A p \in Q : <<"out", p>> \in DOMAIN need /\ need[<<"out", p>>] = owed[p]
      /\ \A p \in Q : <<"oscl", p>> \in DOMAIN need /\ need[<<"oscl", p>>] = 1
      /\ \A s \in DOMAIN need : \E p \in Q : s = <<"out", p>> \/ s = <<"oscl", p>>
      /\ \A s \in DOMAIN need : need[s] \in Nat
  <2>1. \A p \in Q : <<"out", p>> \in DOMAIN need /\ need[<<"out", p>>] = owed[p]
    BY <1>3, PairIs
  <2>2. \A p \in Q : <<"oscl", p>> \in DOMAIN need /\ need[<<"oscl", p>>] = 1
    BY <1>3, PairIs
  <2>3. \A s \in DOMAIN need : \E p \in Q : s = <<"out", p>> \/ s = <<"oscl", p>>
    BY <1>3
  <2>4. \A p \in Q : owed[p] \in Nat
    BY <1>1, <1>2 DEF PlaceInv
  <2>5. ASSUME NEW s \in DOMAIN need PROVE need[s] \in Nat
    <3>1. PICK p \in Q : s = <<"out", p>> \/ s = <<"oscl", p>>
      BY <2>3
    <3> QED BY <2>1, <2>2, <2>4, <3>1
  <2> QED BY <2>1, <2>2, <2>3, <2>5
<1>5. \A p \in Q : /\ Leaving(p) /\ p \in Slots
                   /\ RowsOut(p).sem = <<"out", p>> /\ RowsOut(p).amount = owed[p]
                   /\ SclOut(p).sem = <<"oscl", p>> /\ SclOut(p).amount = 1
                   /\ RowsOut(p) \in Single /\ SclOut(p) \in Single
  <2>1. \A p \in Q : Leaving(p) /\ p \in Slots
    BY <1>2 DEF Q
  <2>2. \A p \in Q : RowsOut(p) \in OutsDue /\ SclOut(p) \in OutsDue
    BY <2>1, OutsAre
  <2>3. \A p \in Q : /\ RowsOut(p).sem = <<"out", p>> /\ RowsOut(p).amount = owed[p]
                     /\ SclOut(p).sem = <<"oscl", p>> /\ SclOut(p).amount = 1
    BY <1>1, <2>1, OutFacts
  <2>4. OutsDue \subseteq Single
    BY DEF Single
  <2> QED BY <2>1, <2>2, <2>3, <2>4
<1>6. Matches(need, W)
  <2>1. ASSUME NEW w \in W PROVE w.sem \in DOMAIN need /\ need[w.sem] = w.amount
    <3>1. PICK p \in Q : w = RowsOut(p) \/ w = SclOut(p)
      OBVIOUS
    <3>2. CASE w = RowsOut(p)
      <4>1. w.sem = <<"out", p>> /\ w.amount = owed[p]
        BY <1>5, <3>2
      <4>2. <<"out", p>> \in DOMAIN need /\ need[<<"out", p>>] = owed[p]
        BY <1>4
      <4> QED BY <4>1, <4>2
    <3>3. CASE w = SclOut(p)
      <4>1. w.sem = <<"oscl", p>> /\ w.amount = 1
        BY <1>5, <3>3
      <4>2. <<"oscl", p>> \in DOMAIN need /\ need[<<"oscl", p>>] = 1
        BY <1>4
      <4> QED BY <4>1, <4>2
    <3> QED BY <3>1, <3>2, <3>3
  <2>2. ASSUME NEW s \in DOMAIN need PROVE \E w \in W : w.sem = s
    <3>1. PICK p \in Q : s = <<"out", p>> \/ s = <<"oscl", p>>
      BY <1>4
    <3>2. RowsOut(p) \in W /\ SclOut(p) \in W
      OBVIOUS
    <3> HIDE DEF W
    <3> QED BY <1>5, <3>1, <3>2
  <2> HIDE DEF W
  <2> QED BY <2>1, <2>2 DEF Matches
<1>7. ASSUME NEW p \in Q
      PROVE  mem[<<RowsTo, Staged(p)>>] = Staged(p) /\ mem[<<SclTo, Staged(p)>>] = Staged(p)
  <2>1. \A s \in DOMAIN need : sem[s] >= need[s]
    BY DEF Wait, need
  <2> DEFINE c == RowsOut(p)
             d == SclOut(p)
             to == <<RowsTo, Staged(p)>>
             too == <<SclTo, Staged(p)>>
  <2>2. /\ c \in Single /\ sem[c.sem] >= c.amount
        /\ d \in Single /\ sem[d.sem] >= d.amount
    <3> DEFINE r == <<"out", p>>
               s == <<"oscl", p>>
    <3>1. r \in DOMAIN need /\ need[r] = owed[p] /\ s \in DOMAIN need /\ need[s] = 1
      BY <1>4
    <3>2. c \in Single /\ c.sem = r /\ c.amount = owed[p] /\ d \in Single /\ d.sem = s /\ d.amount = 1
      BY <1>5
    <3> HIDE DEF r, s, c, d
    <3>3. sem[r] >= need[r] /\ sem[s] >= need[s]
      BY <2>1, <3>1
    <3> QED BY <3>1, <3>2, <3>3
  <2>3. /\ to \in DOMAIN c.moves /\ c.moves[to] = <<"out", p>>
        /\ too \in DOMAIN d.moves /\ d.moves[too] = <<"oscl", p>>
    BY <1>1, <1>5, OutFacts
  <2>4. to[2] = Staged(p) /\ too[2] = Staged(p)
    OBVIOUS
  <2> HIDE DEF c, d, to, too
  <2>5. mem[to] = Gives(c, to) /\ mem[too] = Gives(d, too)
    BY <2>2, <2>3, WaitedFor
  <2>6. Gives(c, to) = to[2] /\ Gives(d, too) = too[2]
    <3>1. c.moves[to][1] = "out" /\ d.moves[too][1] = "oscl"
      BY <2>3, PairIs
    <3> QED BY <3>1 DEF Gives
  <2> QED BY <2>4, <2>5, <2>6 DEF to, too
<1> QED BY <1>4, <1>6, <1>7 DEF need, Q

\* The results that leave: those of X have been waited for, those of Y follow.
LEMMA OutsStep ==
  ASSUME PlaceInv, OutInv, PlaceInv', OutInv', schedule' = schedule,
         NEW X \in SUBSET Slots, NEW Y \in SUBSET Slots, NEW V, NEW S,
         \A p \in X : Leaving(p), \A p \in Y : ~Leaving(p),
         \A p \in Slots : Leaving(p)' <=> (Leaving(p) /\ p \notin X) \/ p \in Y,
         \A p \in Slots : Leaving(p)' /\ p \notin Y => RowsOut(p)' = RowsOut(p) /\ SclOut(p)' = SclOut(p),
         \A c : c \in V <=> \E p \in X : c = RowsOut(p) \/ c = SclOut(p),
         \A c : c \in S <=> \E p \in Y : c = RowsOut(p)' \/ c = SclOut(p)'
  PROVE  Family(OutsDue, OutsDue', V, S)
<1> DEFINE Old(c, p) == c = RowsOut(p) \/ c = SclOut(p)
           New(c, p) == c = RowsOut(p)' \/ c = SclOut(p)'
           D == OutsDue
           E == OutsDue'
<1>1. /\ \A c : c \in D <=> \E p \in Slots : Leaving(p) /\ Old(c, p)
      /\ \A c : c \in E <=> \E p \in Slots : Leaving(p)' /\ New(c, p)
      /\ \A c : c \in V <=> \E p \in X : Old(c, p)
      /\ \A c : c \in S <=> \E p \in Y : New(c, p)
  BY NextDue, OutsAre
<1>2. \A p \in Slots : Leaving(p)' /\ p \notin Y => \A c : New(c, p) <=> Old(c, p)
  OBVIOUS
<1>3. \A p, q : /\ <<"out", p>> = <<"out", q>> => p = q
                /\ <<"oscl", p>> = <<"oscl", q>> => p = q
                /\ <<"out", p>> # <<"oscl", q>>
  OBVIOUS
<1>4. \A p \in Slots : Leaving(p) => \A c : Old(c, p) => c.sem = <<"out", p>> \/ c.sem = <<"oscl", p>>
  BY OutFacts
<1>5. \A p \in Slots : Leaving(p)' => \A c : New(c, p) => c.sem = <<"out", p>> \/ c.sem = <<"oscl", p>>
  <2>1. (PlaceInv /\ OutInv => \A p \in Slots : Leaving(p) =>
          /\ Staged(p) \in Tiles /\ mem[<<"oscl", p>>] = Staged(p)
          /\ RowsOut(p).sem = <<"out", p>> /\ SclOut(p).sem = <<"oscl", p>>
          /\ RowsOut(p).amount = owed[p] /\ owed[p] \in Nat /\ owed[p] > 0 /\ SclOut(p).amount = 1
          /\ DOMAIN RowsOut(p).moves = {<<RowsTo, Staged(p)>>}
          /\ RowsOut(p).moves[<<RowsTo, Staged(p)>>] = <<"out", p>>
          /\ DOMAIN SclOut(p).moves = {<<SclTo, Staged(p)>>}
          /\ SclOut(p).moves[<<SclTo, Staged(p)>>] = <<"oscl", p>>
          /\ ~schedule.ship => Staged(p)[1] = visit)'
    BY OutFacts, PTL
  <2>2. \A p \in Slots : Leaving(p)' => RowsOut(p)'.sem = <<"out", p>> /\ SclOut(p)'.sem = <<"oscl", p>>
    BY <2>1 DEF Slots
  <2> QED BY <2>2
<1> HIDE DEF Old, New, D, E
<1>6. \A p, q \in Slots : Leaving(p) /\ Leaving(q) => \A c : Old(c, p) /\ Old(c, q) => p = q
  BY <1>3, <1>4
<1>7. \A p, q \in Slots : Leaving(p)' /\ Leaving(q) => \A c : New(c, p) /\ Old(c, q) => p = q
  BY <1>3, <1>4, <1>5
<1>8. V \subseteq D
  BY <1>1
<1>9. S \cap D = {}
  BY <1>1, <1>7
<1>10. E \subseteq (D \ V) \cup S
  <2> SUFFICES ASSUME NEW c, NEW p \in Slots, Leaving(p)', New(c, p) PROVE c \in (D \ V) \cup S
    BY <1>1
  <2>1. CASE p \in Y
    BY <1>1, <2>1
  <2>2. CASE p \notin Y
    <3>1. Leaving(p) /\ p \notin X /\ Old(c, p)
      BY <1>2, <2>2
    <3>2. c \in D
      BY <1>1, <3>1
    <3>3. c \notin V
      BY <1>1, <1>6, <3>1
    <3> QED BY <3>2, <3>3
  <2> QED BY <2>1, <2>2
<1>11. (D \ V) \cup S \subseteq E
  <2>1. S \subseteq E
    BY <1>1
  <2>2. ASSUME NEW c \in D, c \notin V PROVE c \in E
    <3>1. PICK p \in Slots : Leaving(p) /\ Old(c, p)
      BY <1>1
    <3>2. p \notin X /\ p \notin Y
      BY <1>1, <2>2, <3>1
    <3>3. Leaving(p)' /\ New(c, p)
      BY <1>2, <3>1, <3>2
    <3> QED BY <1>1, <3>3
  <2> QED BY <2>1, <2>2
<1> QED BY <1>8, <1>9, <1>10, <1>11 DEF Family, D, E

LEMMA ReuseGuardStep ==
  ASSUME IInv, ReuseGuard
  PROVE  IInv'
<1> DEFINE need == Owing({Parity})
           X == {p \in {Parity} : Leaving(p)}
           V == {RowsOut(p) : p \in X} \cup {SclOut(p) : p \in X}
<1>1. PlaceInv /\ OutInv /\ Delivered
  BY DEF IInv
<1>2. pc = "guard" /\ visit \in Visits /\ t \in Nat /\ t < NumTiles(visit) /\ Parity \in Slots
  BY <1>1, Turn DEF PlaceInv, ReuseGuard, Tiling, Parity
<1>3. /\ UNCHANGED <<schedule, visit, t, count, wslot, owed, act, mem, flying>> /\ pc' = "rows" /\ Wait(need)
  BY DEF ReuseGuard
<1>4. /\ Visits' = Visits /\ NumVisits' = NumVisits /\ Prefetches' = Prefetches /\ AtHead' = AtHead
      /\ Tiles' = Tiles /\ RowsTo' = RowsTo /\ SclTo' = SclTo /\ Places' = Places
      /\ \A i : NumTiles(i)' = NumTiles(i) /\ WeightSlot(i)' = WeightSlot(i)
      /\ \A tile : Blocks(tile)' = Blocks(tile)
  BY <1>3, KeptTerms
<1>5. LastTile' = LastTile /\ Tile' = Tile /\ Parity' = Parity /\ NextWslot' = NextWslot
  <2>1. NumTiles(visit)' = NumTiles(visit)
    BY <1>3 DEF NumTiles
  <2> QED BY <1>3, <2>1 DEF LastTile, Tile, Parity, NextWslot
<1>6. /\ \A p \in {Parity} : owed[p] > 0 => Leaving(p)
      /\ \A p \in Slots : Leaving(p)' <=> Leaving(p) /\ p # Parity
  BY <1>2, <1>3, <1>5 DEF Leaving
<1>7. /\ \A s \in DOMAIN need : need[s] \in Nat
      /\ Matches(need, V)
      /\ \A p \in {Parity} : Leaving(p) =>
           mem[<<RowsTo, Staged(p)>>] = Staged(p) /\ mem[<<SclTo, Staged(p)>>] = Staged(p)
  BY <1>2, <1>3, <1>6, OutsCame
<1> HIDE DEF need
<1>8. PlaceInv'
  <2>1. Sems' = Sems /\ schedule' \in Schedules
    BY <1>1, <1>3 DEF Sems, PlaceInv
  <2>2. sem' \in [Sems -> Nat]
    BY <1>1, <1>3, <1>7, WaitKeeps DEF PlaceInv
  <2> QED BY <1>1, <1>2, <1>3, <1>4, <2>1, <2>2 DEF PlaceInv, Tiling
<1>9. /\ \A p : Staged(p)' = Staged(p) /\ RowsOut(p)' = RowsOut(p) /\ SclOut(p)' = SclOut(p)
      /\ \A tile : Computed(tile)' <=> Computed(tile)
  BY <1>2, <1>3, <1>4 DEF Staged, RowsOut, SclOut, Computed
<1>10. OutInv'
  <2>1. ASSUME NEW p \in Slots, owed[p] > 0
        PROVE  /\ Staged(p) \in Tiles /\ Computed(Staged(p))' /\ mem[<<"oscl", p>>] = Staged(p)
               /\ owed[p] = Blocks(Staged(p)) /\ (~schedule.ship => Staged(p)[1] = visit)
    <3>1. /\ Staged(p) \in Tiles /\ Computed(Staged(p)) /\ mem[<<"oscl", p>>] = Staged(p)
          /\ owed[p] = Blocks(Staged(p)) /\ (~schedule.ship => Staged(p)[1] = visit)
      BY <1>1, <2>1 DEF OutInv
    <3>2. PICK tile \in Tiles : tile = Staged(p)
      BY <3>1
    <3>3. Computed(tile)'
      BY <1>9, <3>1, <3>2
    <3>4. Computed(Staged(p))'
      BY <1>9, <3>2, <3>3 DEF Computed
    <3> QED BY <3>1, <3>4
  <2>2. owed[0] > 0 /\ owed[1] > 0 => Staged(0) # Staged(1)
    BY <1>1 DEF OutInv
  <2> QED BY <1>3, <1>4, <1>9, <2>1, <2>2 DEF OutInv
<1>11. Delivered'
  <2>1. ASSUME NEW tile \in Tiles, Computed(tile), \A p \in Slots : Leaving(p)' => Staged(p) # tile
        PROVE  mem[<<RowsTo, tile>>] = tile /\ mem[<<SclTo, tile>>] = tile
    <3>1. CASE Leaving(Parity) /\ Staged(Parity) = tile
      BY <1>7, <3>1
    <3>2. CASE ~(Leaving(Parity) /\ Staged(Parity) = tile)
      <4>1. \A p \in Slots : Leaving(p) => Staged(p) # tile
        BY <1>6, <2>1, <3>2
      <4> QED BY <1>1, <2>1, <4>1 DEF Delivered
    <3> QED BY <3>1, <3>2
  <2> QED BY <1>3, <1>4, <1>9, <2>1 DEF Delivered
<1>12. Family(OutsDue, OutsDue', V, {})
  <2>1. X \in SUBSET Slots /\ \A p \in X : Leaving(p)
    BY <1>2
  <2>2. \A p \in Slots : Leaving(p)' <=> (Leaving(p) /\ p \notin X) \/ p \in {}
    BY <1>6
  <2>3. \A c : c \in V <=> \E p \in X : c = RowsOut(p) \/ c = SclOut(p)
    OBVIOUS
  <2> HIDE DEF X, V
  <2> QED BY <1>1, <1>3, <1>8, <1>9, <1>10, <2>1, <2>2, <2>3, OutsStep
<1>13. Family(WeightsDue, WeightsDue', {}, {}) /\ Family(WindowsDue, WindowsDue', {}, {})
       /\ Family(RowsDue, RowsDue', {}, {})
  <2>1. \A kind \in Kinds : (WaitedHere(kind)' <=> WaitedHere(kind)) /\ (StartedNext(kind)' <=> StartedNext(kind))
    BY <1>2, <1>3, <1>4, <1>5 DEF WaitedHere, StartedNext, AfterWeights, Tiling
  <2>2. \A kind \in Kinds, i \in Visits : WeightAwaited(kind, i)' <=> WeightAwaited(kind, i)
    BY <1>2, <1>3, <1>4, <2>1 DEF WeightAwaited, Started, AfterWeights, Tiling
  <2>3. \A tile \in Tiles, slot \in Slots : WindowAwaited(tile, slot)' <=> WindowAwaited(tile, slot)
    BY <1>2, <1>3, <1>5 DEF WindowAwaited
  <2>4. \A tile \in Tiles, parity \in Slots : RowsAwaited(tile, parity)' <=> RowsAwaited(tile, parity)
    BY <1>2, <1>3, <1>5 DEF RowsAwaited
  <2> QED BY <1>3, <2>2, <2>3, <2>4, Unchanged
<1>14. PushesDue' = PushesDue \cup {} /\ \A i \in Visits : Pushed(i)' <=> Pushed(i)
  <2>1. \A i \in Visits : Pushed(i)' <=> Pushed(i)
    BY <1>2, <1>3 DEF Pushed
  <2>2. PushesDue' = PushesDue
    BY <1>3, <1>4, <2>1, NextDue, PushesAre
  <2> QED BY <2>1, <2>2
<1>15. FlyingDue' /\ SemDue' /\ Given' /\ PushInv'
  <2> HIDE DEF V
  <2>1. {} \cup {} \cup {} \cup V = V /\ flying' = flying \cup ({} \cup {} \cup {} \cup {}) \cup {}
    BY <1>3
  <2>2. Matches(need, {} \cup {} \cup {} \cup V)
    BY <1>7, <2>1
  <2>3. Wait(need)
    BY <1>3 DEF need
  <2>4. schedule' = schedule /\ mem' = mem
    BY <1>3
  <2>5. \A i \in Visits :
          /\ Pushed(i) => Pushed(i)' /\ PushRows(i) \notin {} /\ PushScl(i) \notin {}
          /\ Pushed(i)' /\ ~Pushed(i) => PushRows(i) \in {} /\ PushScl(i) \in {}
    BY <1>14
  <2> QED BY <1>8, <1>10, <1>12, <1>13, <1>14, <2>1, <2>2, <2>3, <2>4, <2>5, StepKeeps
<1>16. WeightsHeld' /\ RowsHeld' /\ PushDelivered'
  <2>1. \A kind \in Kinds : Using(kind)' <=> Using(kind)
    BY <1>2, <1>3, <1>4, <1>5 DEF Using, WaitedHere, Tiling, AfterWeights
  <2>2. WeightSlot(visit)' = WeightSlot(visit)
    BY <1>3 DEF WeightSlot, Nbuf
  <2>3. WeightsHeld
    BY DEF IInv
  <2> QED BY <1>3, <2>1, <2>2, <2>3 DEF WeightsHeld, RowsHeld, PushDelivered
<1> QED BY <1>8, <1>10, <1>11, <1>15, <1>16 DEF IInv

LEMMA DownStep ==
  ASSUME IInv, Down
  PROVE  IInv'
<1> DEFINE slab == schedule.streams /\ t = 0
           X1 == IF slab THEN {<<"w2", visit>>} ELSE {}
           W1 == IF slab THEN {Load1("w2", visit)} ELSE {}
           result == Product(act, {"w2", "scales"})
<1>1. PlaceInv /\ OutInv /\ Delivered
  BY DEF IInv
<1>2. /\ pc = "down" /\ visit \in Int /\ visit \in Visits /\ t \in Nat /\ t < NumTiles(visit)
      /\ count \in Nat /\ wslot \in Slots
  BY <1>1 DEF PlaceInv, Down, Tiling
<1>3. /\ UNCHANGED <<schedule, visit, wslot>> /\ SlabWait("w2")
      /\ mem' = [mem EXCEPT ![<<"out", Parity>>] = result, ![<<"oscl", Parity>>] = result]
      /\ owed' = [owed EXCEPT ![Parity] = Blocks(Tile)]
      /\ count' = count + 1 /\ act' = Nothing
      /\ t' = (IF LastTile THEN 0 ELSE t + 1) /\ pc' = (IF LastTile THEN "tail" ELSE "guard")
      /\ flying' = flying \cup (IF schedule.ship THEN Leave("recv", "rscl") ELSE Leave("contrib", "cscl"))
  BY DEF Down, Start
<1>4. /\ schedule \in Schedules /\ NumVisits \in Nat /\ Visits = {i \in Nat : i < NumVisits}
      /\ schedule.streams \in BOOLEAN /\ schedule.distance \in 0..2 /\ schedule.ship \in BOOLEAN
      /\ \A i \in Visits : NumTiles(i) \in Nat /\ NumTiles(i) > 0
  BY <1>1, ScheduleIs DEF PlaceInv
<1>5. /\ Visits' = Visits /\ NumVisits' = NumVisits /\ Prefetches' = Prefetches /\ AtHead' = AtHead
      /\ Tiles' = Tiles /\ RowsTo' = RowsTo /\ SclTo' = SclTo /\ Places' = Places
      /\ \A i : NumTiles(i)' = NumTiles(i) /\ WeightSlot(i)' = WeightSlot(i)
      /\ \A tile : Blocks(tile)' = Blocks(tile)
  BY <1>3, KeptTerms
<1>6. /\ Parity \in Slots /\ Parity' = 1 - Parity /\ NextWslot' = NextWslot /\ Tile' = <<visit, t'>>
      /\ ~LastTile => Tile' = <<visit, t + 1>>
      /\ (LastTile <=> t + 1 = NumTiles(visit))
  <2>1. NumTiles(visit)' = NumTiles(visit) /\ NumTiles(visit) \in Nat
    BY <1>2, <1>3, <1>4 DEF NumTiles
  <2> QED BY <1>2, <1>3, <2>1, Turn DEF LastTile, Tile, Parity, NextWslot
<1>7. PICK q \in Slots : q = Parity
  BY <1>6
<1>8. PICK last \in BOOLEAN : last <=> LastTile
  OBVIOUS
<1>9. <<visit, t>> \in Tiles
  BY <1>2, <1>4, TilesAre
<1>10. PICK T \in Tiles : T = <<visit, t>> /\ T[1] = visit /\ T[2] = t /\ Tile = T
  BY <1>9 DEF Tile
<1>11. /\ \A kind \in Kinds : WaitedHere(kind) <=> kind \in AtHead \/ t > 0 \/ kind = "w1"
       /\ \A kind \in Kinds : WaitedHere(kind)'
       /\ \A kind \in Kinds : /\ StartedNext(kind) <=> kind = "w1" /\ LastTile
                              /\ StartedNext(kind)' <=> kind = "w1" /\ LastTile
       /\ "scales" \in AtHead /\ ("w2" \in AtHead <=> ~schedule.streams) /\ ("w1" \in AtHead <=> ~schedule.streams)
       /\ "w1" \in Kinds /\ "w2" \in Kinds /\ "scales" \in Kinds
  BY <1>2, <1>3, <1>5 DEF WaitedHere, StartedNext, AfterWeights, Tiling, AtHead, Kinds
<1>12. slab => WeightAwaited("w2", visit)
  <2>1. Started("w2", visit)
    BY <1>2, <1>4 DEF Started, AfterWeights, Tiling, Prefetches
  <2> QED BY <1>2, <1>11, <2>1 DEF WeightAwaited
<1>13. ~slab => Using("w2")
  BY <1>2, <1>11 DEF Using, Tiling
<1>14. /\ mem[<<"w2", WeightSlot(visit)>>] = <<visit>>
       /\ \E need : Wait(need) /\ (\A s \in DOMAIN need : need[s] \in Nat) /\ Matches(need, W1)
  BY <1>2, <1>3, <1>11, <1>12, <1>13, SlabCame
<1>15. PICK need : Wait(need) /\ (\A s \in DOMAIN need : need[s] \in Nat) /\ Matches(need, W1)
  BY <1>14
<1>16. mem[<<"scales", WeightSlot(visit)>>] = <<visit>>
  <2>1. Using("scales")
    BY <1>2, <1>11 DEF Using, Tiling
  <2> QED BY <1>11, <2>1 DEF IInv, WeightsHeld
<1>17. result = T
  <2>1. act = Tile
    BY <1>2 DEF IInv, RowsHeld
  <2>2. \A k \in {"w2", "scales"} : mem[<<k, WeightSlot(visit)>>] = <<visit>>
    BY <1>14, <1>16
  <2> QED BY <1>10, <2>1, <2>2, ProductIs
<1> HIDE DEF result
<1>18. /\ mem'[<<"out", q>>] = T /\ mem'[<<"oscl", q>>] = T
       /\ \A p \in Slots : p # q => mem'[<<"out", p>>] = mem[<<"out", p>>] /\ mem'[<<"oscl", p>>] = mem[<<"oscl", p>>]
       /\ \A place \in Places : place[1] \notin {"out", "oscl"} => mem'[place] = mem[place]
       /\ mem' = [place \in Places |-> mem'[place]]
  <2> DEFINE r == <<"out", q>>
             s == <<"oscl", q>>
  <2>1. mem' = [mem EXCEPT ![r] = T, ![s] = T]
    BY <1>3, <1>7, <1>17
  <2>2. r \in Places /\ s \in Places /\ r # s /\ r[1] = "out" /\ s[1] = "oscl"
    BY PlacesAre, PairIs
  <2>3. \A p \in Slots : p # q => <<"out", p>> # r /\ <<"out", p>> # s /\ <<"oscl", p>> # r /\ <<"oscl", p>> # s
    OBVIOUS
  <2>4. \A p \in Slots : <<"out", p>> \in Places /\ <<"oscl", p>> \in Places
    BY PlacesAre
  <2> HIDE DEF r, s
  <2>5. mem = [place \in Places |-> mem[place]]
    BY <1>1 DEF PlaceInv
  <2>6. mem' = [place \in Places |-> IF place = r \/ place = s THEN T ELSE mem[place]]
    BY <2>1, <2>2, <2>5
  <2>7. mem'[r] = T /\ mem'[s] = T
    BY <2>2, <2>6
  <2>8. \A p \in Slots : p # q => mem'[<<"out", p>>] = mem[<<"out", p>>] /\ mem'[<<"oscl", p>>] = mem[<<"oscl", p>>]
    BY <2>3, <2>4, <2>6
  <2>9. \A place \in Places : place[1] \notin {"out", "oscl"} => mem'[place] = mem[place]
    BY <2>2, <2>6
  <2>10. mem' = [place \in Places |-> mem'[place]]
    BY <2>6
  <2> QED BY <2>7, <2>8, <2>9, <2>10 DEF r, s
<1>19. /\ owed'[q] = Blocks(T) /\ Blocks(T) > 0 /\ owed' \in [Slots -> Nat]
       /\ \A p \in Slots : p # q => owed'[p] = owed[p]
  <2>1. owed \in [Slots -> Nat] /\ Blocks(T) \in Nat /\ Blocks(T) > 0
    BY <1>1, BlocksIs DEF PlaceInv
  <2>2. owed' = [owed EXCEPT ![q] = Blocks(T)]
    BY <1>3, <1>7, <1>10
  <2> QED BY <2>1, <2>2
<1>20. PlaceInv'
  <2>1. Sems' = Sems /\ schedule' \in Schedules
    BY <1>1, <1>3 DEF Sems, PlaceInv
  <2>2. sem' \in [Sems -> Nat]
    BY <1>1, <1>15, WaitKeeps DEF PlaceInv
  <2>3. t' \in Nat /\ t' < NumTiles(visit) /\ (LastTile => t' = 0)
    BY <1>2, <1>3, <1>4, <1>6
  <2>4. mem' = [place \in Places' |-> mem'[place]]
    BY <1>5, <1>18
  <2>5. CASE LastTile
    BY <1>2, <1>3, <1>4, <1>5, <1>19, <2>1, <2>2, <2>3, <2>4, <2>5 DEF PlaceInv, Tiling
  <2>6. CASE ~LastTile
    BY <1>2, <1>3, <1>4, <1>5, <1>19, <2>1, <2>2, <2>3, <2>4, <2>6 DEF PlaceInv, Tiling
  <2> QED BY <2>5, <2>6
<1>21. /\ \A p \in Slots : Leaving(p)' <=> Leaving(p) \/ p = q
       /\ ~Leaving(q)
       /\ \A p \in Slots : p # q => /\ Staged(p)' = Staged(p) /\ owed'[p] = owed[p]
                                    /\ RowsOut(p)' = RowsOut(p) /\ SclOut(p)' = SclOut(p)
       /\ Staged(q)' = T
  <2>1. ~Leaving(q)
    BY <1>2, <1>7 DEF Leaving
  <2>2. Leaving(q)'
    BY <1>3, <1>19 DEF Leaving
  <2>3. ASSUME NEW p \in Slots, p # q PROVE Leaving(p)' <=> Leaving(p)
    BY <1>2, <1>3, <1>7, <1>19, <2>3 DEF Leaving
  <2>4. ASSUME NEW p \in Slots, p # q
        PROVE  Staged(p)' = Staged(p) /\ RowsOut(p)' = RowsOut(p) /\ SclOut(p)' = SclOut(p)
    BY <1>5, <1>18, <1>19, <2>4 DEF Staged, RowsOut, SclOut
  <2>5. Staged(q)' = T
    BY <1>18 DEF Staged
  <2> QED BY <1>19, <2>1, <2>2, <2>3, <2>4, <2>5
<1>22. \A tile \in Tiles : Computed(tile)' <=> Computed(tile) \/ tile = T
  <2> SUFFICES ASSUME NEW tile \in Tiles PROVE Computed(tile)' <=> Computed(tile) \/ tile = T
    OBVIOUS
  <2>1. /\ tile = <<tile[1], tile[2]>> /\ tile[1] \in Visits /\ tile[2] \in 0..NumTiles(tile[1]) - 1
        /\ tile[1] \in Int /\ tile[2] \in Int
    BY <1>4, TilesAre
  <2>2. tile = T <=> tile[1] = visit /\ tile[2] = t
    BY <1>10, <2>1
  <2>3. Computed(tile) <=> tile[1] < visit \/ (tile[1] = visit /\ tile[2] < t)
    BY <1>2 DEF Computed
  <2>4. CASE LastTile
    <3>1. Computed(tile)' <=> tile[1] < visit \/ tile[1] = visit
      BY <1>3, <2>4 DEF Computed
    <3>2. tile[1] = visit => tile[2] <= t
      BY <1>2, <1>4, <1>6, <2>1, <2>4
    <3> QED BY <1>2, <2>1, <2>2, <2>3, <3>1, <3>2
  <2>5. CASE ~LastTile
    <3>1. Computed(tile)' <=> tile[1] < visit \/ (tile[1] = visit /\ tile[2] < t + 1)
      BY <1>3, <2>5 DEF Computed
    <3> QED BY <1>2, <2>1, <2>2, <2>3, <3>1
  <2> QED BY <2>4, <2>5
<1>23. ~Computed(T)
  BY <1>2, <1>10 DEF Computed
<1>24. ASSUME NEW p \in Slots, p # q, owed[p] > 0
       PROVE  /\ Staged(p) \in Tiles /\ Computed(Staged(p)) /\ mem[<<"oscl", p>>] = Staged(p)
              /\ owed[p] = Blocks(Staged(p)) /\ (~schedule.ship => Staged(p)[1] = visit)
              /\ Staged(p) # T
  BY <1>1, <1>23, <1>24 DEF OutInv
<1>25. OutInv'
  <2>1. ASSUME NEW p \in Slots, owed'[p] > 0
        PROVE  /\ Staged(p)' \in Tiles /\ mem'[<<"oscl", p>>] = Staged(p)'
               /\ owed'[p] = Blocks(Staged(p)') /\ (~schedule.ship => Staged(p)'[1] = visit)
    <3>1. CASE p = q
      BY <1>10, <1>18, <1>19, <1>21, <3>1
    <3>2. CASE p # q
      <4>1. /\ Staged(p) \in Tiles /\ mem[<<"oscl", p>>] = Staged(p)
            /\ owed[p] = Blocks(Staged(p)) /\ (~schedule.ship => Staged(p)[1] = visit)
        BY <1>19, <1>24, <2>1, <3>2
      <4> QED BY <1>18, <1>19, <1>21, <3>2, <4>1
    <3> QED BY <3>1, <3>2
  <2>2. ASSUME NEW p \in Slots, owed'[p] > 0
        PROVE  Computed(Staged(p))'
    <3>1. PICK tile \in Tiles : tile = Staged(p)' /\ Computed(tile)'
      <4>1. CASE p = q
        BY <1>10, <1>21, <1>22, <4>1
      <4>2. CASE p # q
        <5>1. PICK tile \in Tiles : tile = Staged(p) /\ Computed(tile)
          BY <1>19, <1>24, <2>2, <4>2
        <5> QED BY <1>21, <1>22, <4>2, <5>1
      <4> QED BY <4>1, <4>2
    <3> QED BY <3>1 DEF Computed
  <2>3. owed'[0] > 0 /\ owed'[1] > 0 => Staged(0)' # Staged(1)'
    <3>1. ASSUME NEW p \in Slots, p # q, owed'[p] > 0 PROVE Staged(p)' # Staged(q)'
      BY <1>19, <1>21, <1>24, <3>1
    <3>2. 0 \in Slots /\ 1 \in Slots /\ (q = 0 \/ q = 1)
      BY DEF Slots
    <3> QED BY <3>1, <3>2
  <2>4. \A p : Blocks(Staged(p))' = Blocks(Staged(p)')
    BY <1>5 DEF Blocks
  <2> QED BY <1>3, <1>5, <2>1, <2>2, <2>3, <2>4 DEF OutInv
<1>26. Delivered'
  <2>1. ASSUME NEW tile \in Tiles, Computed(tile)', \A p \in Slots : Leaving(p)' => Staged(p)' # tile
        PROVE  mem'[<<RowsTo, tile>>] = tile /\ mem'[<<SclTo, tile>>] = tile
    <3>1. tile # T
      BY <1>21, <2>1
    <3>2. Computed(tile)
      BY <1>22, <2>1, <3>1
    <3>3. \A p \in Slots : Leaving(p) => Staged(p) # tile
      BY <1>21, <2>1
    <3>4. mem[<<RowsTo, tile>>] = tile /\ mem[<<SclTo, tile>>] = tile
      BY <1>1, <3>2, <3>3 DEF Delivered
    <3>5. RowsTo \in {"recv", "contrib"} /\ SclTo \in {"rscl", "cscl"}
      BY DEF RowsTo, SclTo
    <3>6. ASSUME NEW name \in {"contrib", "cscl", "recv", "rscl"} PROVE mem'[<<name, tile>>] = mem[<<name, tile>>]
      <4>1. <<name, tile>> \in Places /\ <<name, tile>>[1] = name
        BY PlacesAre
      <4> QED BY <1>18, <4>1
    <3> QED BY <3>4, <3>5, <3>6
  <2> QED BY <1>5, <2>1 DEF Delivered
<1> DEFINE S4 == {RowsOut(q)', SclOut(q)'}
<1>27. flying' = flying \cup S4
  <2>1. RowsOut(q)' = Move(Only(<<RowsTo, T>>, <<"out", q>>), <<"out", q>>, Blocks(T))
    BY <1>5, <1>19, <1>21 DEF RowsOut
  <2>2. SclOut(q)' = Move(Only(<<SclTo, T>>, <<"oscl", q>>), <<"oscl", q>>, 1)
    BY <1>5, <1>21 DEF SclOut
  <2>3. \A a, b : Leave(a, b) = {Move(Only(<<a, T>>, <<"out", q>>), <<"out", q>>, Blocks(T)),
                               Move(Only(<<b, T>>, <<"oscl", q>>), <<"oscl", q>>, 1)}
    BY <1>7, <1>10 DEF Leave
  <2>4. Leave(RowsTo, SclTo) = S4
    BY <2>1, <2>2, <2>3
  <2>5. (IF schedule.ship THEN Leave("recv", "rscl") ELSE Leave("contrib", "cscl")) = Leave(RowsTo, SclTo)
    BY <1>4 DEF RowsTo, SclTo
  <2> QED BY <1>3, <2>4, <2>5
<1>28. Family(OutsDue, OutsDue', {}, S4)
  <2>1. \A p \in Slots : Leaving(p)' <=> (Leaving(p) /\ p \notin {}) \/ p \in {q}
    BY <1>21
  <2>2. \A p \in Slots : Leaving(p)' /\ p \notin {q} => RowsOut(p)' = RowsOut(p) /\ SclOut(p)' = SclOut(p)
    BY <1>21
  <2>3. /\ \A c : c \in {} <=> \E p \in {} : c = RowsOut(p) \/ c = SclOut(p)
        /\ \A c : c \in S4 <=> \E p \in {q} : c = RowsOut(p)' \/ c = SclOut(p)'
    OBVIOUS
  <2>4. \A p \in {q} : ~Leaving(p)
    BY <1>21
  <2> DEFINE X == {}
             Y == {q}
  <2>5. X \in SUBSET Slots /\ Y \in SUBSET Slots /\ \A p \in X : Leaving(p)
    OBVIOUS
  <2>6. \A p \in Slots : Leaving(p)' <=> (Leaving(p) /\ p \notin X) \/ p \in Y
    BY <2>1
  <2>7. \A c : c \in {} <=> \E p \in X : c = RowsOut(p) \/ c = SclOut(p)
    BY <2>3
  <2>8. \A p \in Slots : Leaving(p)' /\ p \notin Y => RowsOut(p)' = RowsOut(p) /\ SclOut(p)' = SclOut(p)
    BY <2>2
  <2>9. (\A c : c \in S4 <=> \E p \in Y : c = RowsOut(p)' \/ c = SclOut(p)') /\ \A p \in Y : ~Leaving(p)
    BY <2>3, <2>4
  <2> HIDE DEF S4, X, Y
  <2> QED BY <1>1, <1>3, <1>20, <1>25, <2>5, <2>6, <2>7, <2>8, <2>9, OutsStep
<1>29. Family(WeightsDue, WeightsDue', W1, {})
  <2>1. \A kind \in Kinds, i \in Visits :
          /\ <<kind, i>> \in X1 => WeightAwaited(kind, i)
          /\ <<kind, i>> \in {} => ~WeightAwaited(kind, i)
          /\ WeightAwaited(kind, i)' <=> (WeightAwaited(kind, i) /\ <<kind, i>> \notin X1) \/ <<kind, i>> \in {}
    <3> SUFFICES ASSUME NEW kind \in Kinds, NEW i \in Visits
                 PROVE  /\ <<kind, i>> \in X1 => WeightAwaited(kind, i)
                        /\ WeightAwaited(kind, i)' <=> (WeightAwaited(kind, i) /\ <<kind, i>> \notin X1)
      OBVIOUS
    <3>1. <<kind, i>> \in X1 <=> slab /\ kind = "w2" /\ i = visit
      OBVIOUS
    <3>2. WeightAwaited(kind, i) <=>
            Started(kind, i) /\ ~(i < visit \/ (i = visit /\ (kind \in AtHead \/ t > 0 \/ kind = "w1")))
      BY <1>11 DEF WeightAwaited
    <3>3. WeightAwaited(kind, i)' <=> Started(kind, i)' /\ ~(i < visit \/ i = visit)
      BY <1>3, <1>11 DEF WeightAwaited
    <3>4. Started(kind, i)' <=> Started(kind, i)
      BY <1>2, <1>3, <1>5, <1>11 DEF Started, AfterWeights, Tiling
    <3>5. kind \notin AtHead => schedule.streams
      BY <1>4 DEF AtHead, Kinds
    <3>6. kind = "w1" \/ kind = "w2" \/ kind = "scales"
      BY DEF Kinds
    <3> HIDE DEF X1
    <3> QED BY <1>2, <1>11, <1>12, <3>1, <3>2, <3>3, <3>4, <3>5, <3>6
  <2>2. X1 \in SUBSET (Kinds \X Visits)
    BY <1>2, <1>11
  <2>3. W1 = {Load1(w[1], w[2]) : w \in X1} /\ {Load1(w[1], w[2]) : w \in {}} = {}
    BY Images
  <2> HIDE DEF X1, W1
  <2>4. Family(WeightsDue, WeightsDue', {Load1(w[1], w[2]) : w \in X1}, {Load1(w[1], w[2]) : w \in {}})
    BY <1>1, <1>3, <2>1, <2>2, WeightsStep
  <2> QED BY <2>3, <2>4
<1>30. Family(WindowsDue, WindowsDue', {}, {}) /\ Family(RowsDue, RowsDue', {}, {})
  <2>1. LastTile => <<visit, t + 1>> \notin Tiles /\ <<visit, t + 2>> \notin Tiles
    BY <1>2, <1>4, <1>6, TilesAre
  <2>2. \A n \in Nat : (wslot + t + 2) % 2 = (wslot + (t + 1) + 1) % 2
    BY <1>2 DEF Slots
  <2>3. \A tile \in Tiles, slot \in Slots : WindowAwaited(tile, slot)' <=> WindowAwaited(tile, slot)
    <3>1. CASE LastTile
      BY <1>2, <1>3, <1>6, <2>1, <3>1 DEF WindowAwaited
    <3>2. CASE ~LastTile
      <4>1. (t + 1) + 1 = t + 2 /\ (wslot + (t + 1) + 1) % 2 = (wslot + t + 2) % 2
        BY <1>2 DEF Slots
      <4>2. t' = t + 1 /\ pc' = "guard" /\ visit' = visit /\ wslot' = wslot
        BY <1>3, <3>2
      <4>3. ASSUME NEW tile \in Tiles, NEW slot \in Slots
            PROVE  WindowAwaited(tile, slot) <=> tile = <<visit, t + 2>> /\ slot = (wslot + t + 2) % 2
        BY <1>2, <3>2 DEF WindowAwaited
      <4>4. ASSUME NEW tile \in Tiles, NEW slot \in Slots
            PROVE  WindowAwaited(tile, slot)' <=> tile = <<visit, (t + 1) + 1>> /\ slot = (wslot + (t + 1) + 1) % 2
        BY <4>2 DEF WindowAwaited
      <4> QED BY <4>1, <4>3, <4>4
    <3> QED BY <3>1, <3>2
  <2>4. \A tile \in Tiles, parity \in Slots : RowsAwaited(tile, parity)' <=> RowsAwaited(tile, parity)
    <3>1. CASE LastTile
      BY <1>2, <1>3, <2>1, <3>1 DEF RowsAwaited
    <3>2. CASE ~LastTile
      BY <1>2, <1>3, <1>6, <3>2 DEF RowsAwaited
    <3> QED BY <3>1, <3>2
  <2> QED BY <1>3, <2>3, <2>4, Unchanged
<1>31. PushesDue' = PushesDue \cup {} /\ \A i \in Visits : Pushed(i)' <=> Pushed(i)
  <2>1. \A i \in Visits : Pushed(i)' <=> Pushed(i)
    BY <1>2, <1>3 DEF Pushed
  <2>2. PushesDue' = PushesDue
    BY <1>3, <1>5, <2>1, NextDue, PushesAre
  <2> QED BY <2>1, <2>2
<1>32. FlyingDue' /\ SemDue' /\ Given' /\ PushInv'
  <2> DEFINE N == {}
  <2>1. W1 \cup N \cup N \cup N = W1 /\ flying' = flying \cup (N \cup N \cup N \cup S4) \cup N
    BY <1>27
  <2>2. /\ Family(WeightsDue, WeightsDue', W1, N) /\ Family(WindowsDue, WindowsDue', N, N)
        /\ Family(RowsDue, RowsDue', N, N) /\ Family(OutsDue, OutsDue', N, S4)
        /\ PushesDue' = PushesDue \cup N
    BY <1>28, <1>29, <1>30, <1>31
  <2>3. \A i \in Visits :
          /\ Pushed(i) => Pushed(i)' /\ PushRows(i) \notin N /\ PushScl(i) \notin N
          /\ Pushed(i)' /\ ~Pushed(i) => PushRows(i) \in N /\ PushScl(i) \in N
    BY <1>31
  <2> HIDE DEF W1, S4, N
  <2>4. Matches(need, W1 \cup N \cup N \cup N)
    BY <1>15, <2>1
  <2>5. Wait(need) /\ schedule' = schedule
    BY <1>3, <1>15
  <2>6. \A place \in Places : place[1] \notin {"out", "oscl"} => mem'[place] = mem[place]
    BY <1>18
  <2> QED BY <1>20, <1>25, <2>1, <2>2, <2>3, <2>4, <2>5, <2>6, StepKeeps
<1>33. WeightsHeld'
  <2>1. ASSUME NEW kind \in Kinds, Using(kind)' PROVE mem[<<kind, WeightSlot(visit)>>] = <<visit>>
    <3>1. ~LastTile
      BY <1>3, <2>1 DEF Using, Tiling
    <3>2. CASE kind = "w2"
      BY <1>14, <3>2
    <3>3. CASE kind # "w2"
      <4>1. kind = "w1" \/ kind = "scales"
        BY <3>3 DEF Kinds
      <4>2. Using(kind)
        BY <1>2, <1>11, <3>1, <4>1 DEF Using, Tiling
      <4> QED BY <4>2 DEF IInv, WeightsHeld
    <3> QED BY <3>2, <3>3
  <2>2. WeightSlot(visit)' = WeightSlot(visit) /\ WeightSlot(visit) \in 0..2
    <3>1. visit \in Nat
      BY <1>2, <1>4
    <3> QED BY <1>3, <1>4, <3>1, SlotsDiffer DEF WeightSlot, Nbuf
  <2>3. \A kind \in Kinds : mem'[<<kind, WeightSlot(visit)>>] = mem[<<kind, WeightSlot(visit)>>]
    <3> SUFFICES ASSUME NEW kind \in Kinds
                 PROVE  mem'[<<kind, WeightSlot(visit)>>] = mem[<<kind, WeightSlot(visit)>>]
      OBVIOUS
    <3>1. <<kind, WeightSlot(visit)>> \in Places /\ <<kind, WeightSlot(visit)>>[1] = kind
      BY <2>2, PlacesAre
    <3>2. kind # "out" /\ kind # "oscl"
      BY DEF Kinds
    <3> QED BY <1>18, <3>1, <3>2
  <2> QED BY <1>3, <2>1, <2>2, <2>3 DEF WeightsHeld
<1>34. RowsHeld' /\ PushDelivered'
  BY <1>3 DEF RowsHeld, PushDelivered
<1> QED BY <1>20, <1>25, <1>26, <1>32, <1>33, <1>34 DEF IInv

LEMMA FlushStep ==
  ASSUME IInv, Flush
  PROVE  IInv'
<1>1. PlaceInv /\ OutInv /\ Delivered
  BY DEF IInv
<1>2. pc = "flush" /\ visit \in Int /\ visit \in Visits /\ t = 0 /\ wslot \in Slots
  BY <1>1 DEF PlaceInv, Flush
<1>3. /\ UNCHANGED <<schedule, t, count, wslot, act, mem>> /\ visit' = visit + 1
      /\ pc' = (IF AnotherVisit THEN "head" ELSE "transport")
  BY DEF Flush
<1>4. /\ schedule \in Schedules /\ NumVisits \in Nat /\ Visits = {i \in Nat : i < NumVisits}
      /\ schedule.streams \in BOOLEAN /\ schedule.distance \in 0..2 /\ schedule.ship \in BOOLEAN
      /\ \A i \in Visits : NumTiles(i) \in Nat /\ NumTiles(i) > 0
  BY <1>1, ScheduleIs DEF PlaceInv
<1>5. /\ Visits' = Visits /\ NumVisits' = NumVisits /\ Prefetches' = Prefetches /\ AtHead' = AtHead
      /\ Tiles' = Tiles /\ RowsTo' = RowsTo /\ SclTo' = SclTo /\ Places' = Places
      /\ \A i : NumTiles(i)' = NumTiles(i) /\ WeightSlot(i)' = WeightSlot(i)
  BY <1>3, KeptTerms
<1>6. Parity' = Parity /\ Tile' = <<visit + 1, 0>> /\ (visit + 1 \in Visits <=> AnotherVisit)
  BY <1>2, <1>3, <1>4 DEF Parity, Tile, AnotherVisit
<1>7. ASSUME sem' \in [Sems -> Nat], owed' \in [Slots -> Nat]
      PROVE  PlaceInv'
  <2>1. Sems' = Sems /\ schedule' \in Schedules /\ mem' = [place \in Places' |-> mem'[place]]
    BY <1>1, <1>3, <1>5 DEF Sems, PlaceInv
  <2>2. visit' \in Int /\ visit' # -1 /\ visit \in 0..NumVisits - 1
    BY <1>2, <1>3, <1>4
  <2>3. CASE AnotherVisit
    <3>0. NumTiles(visit)' = NumTiles(visit + 1)
      BY <1>3 DEF NumTiles
    <3>1. visit' \in Visits' /\ t' < NumTiles(visit)' /\ pc' = "head" /\ t' = 0
      BY <1>2, <1>3, <1>4, <1>5, <1>6, <2>3, <3>0
    <3> QED BY <1>1, <1>2, <1>3, <1>7, <2>1, <2>2, <2>3, <3>1 DEF PlaceInv, Tiling
  <2>4. CASE ~AnotherVisit
    <3>1. visit' = NumVisits'
      BY <1>2, <1>3, <1>4, <1>5, <2>2, <2>4 DEF AnotherVisit
    <3> QED BY <1>1, <1>2, <1>3, <1>7, <2>1, <2>2, <2>4, <3>1 DEF PlaceInv, Tiling
  <2> QED BY <2>3, <2>4
<1>8. \A tile \in Tiles : Computed(tile)' <=> Computed(tile)
  <2> SUFFICES ASSUME NEW tile \in Tiles PROVE Computed(tile)' <=> Computed(tile)
    OBVIOUS
  <2>1. tile[1] \in Int /\ tile[2] \in Nat
    <3>1. tile[1] \in Visits /\ tile[2] \in 0..NumTiles(tile[1]) - 1
      BY TilesAre
    <3> QED BY <1>4, <3>1
  <2>2. Computed(tile) <=> tile[1] < visit \/ tile[1] = visit
    BY <1>2 DEF Computed
  <2>3. Computed(tile)' <=> tile[1] < visit + 1
    BY <1>2, <1>3, <2>1 DEF Computed
  <2> QED BY <1>2, <2>1, <2>2, <2>3
<1>9. \A p \in Slots : /\ Leaving(p) <=> owed[p] > 0
                       /\ Leaving(p)' <=> owed'[p] > 0
  BY <1>2, <1>3 DEF Leaving
<1>10. /\ Family(WeightsDue, WeightsDue', {}, {}) /\ Family(WindowsDue, WindowsDue', {}, {})
       /\ Family(RowsDue, RowsDue', {}, {})
  <2>1. \A kind \in Kinds : WaitedHere(kind) /\ StartedNext(kind) /\ ~WaitedHere(kind)' /\ ~StartedNext(kind)'
    BY <1>2, <1>3 DEF WaitedHere, StartedNext, AfterWeights, Tiling
  <2>2. ASSUME NEW kind \in Kinds, NEW i \in Visits
        PROVE  WeightAwaited(kind, i)' <=> WeightAwaited(kind, i)
    <3>1. i \in Nat /\ (~AnotherVisit => i # visit + 1) /\ visit \in Nat
      BY <1>2, <1>4, <1>6
    <3>2. WeightAwaited(kind, i) <=> Started(kind, i) /\ ~(i < visit \/ i = visit)
      BY <2>1 DEF WeightAwaited
    <3>3. WeightAwaited(kind, i)' <=> Started(kind, i)' /\ ~(i < visit + 1)
      BY <1>3, <2>1 DEF WeightAwaited
    <3>4. CASE Prefetches
      <4>1. Started(kind, i) <=> i < visit + schedule.distance + 1
        BY <1>2, <3>4 DEF Started, AfterWeights
      <4>2. Started(kind, i)' <=> i < visit + 1 + schedule.distance + 0
        BY <1>3, <1>5, <3>4 DEF Started, AfterWeights, Tiling
      <4> QED BY <1>2, <1>4, <3>1, <3>2, <3>3, <4>1, <4>2
    <3>5. CASE ~Prefetches
      <4>1. Started(kind, i) <=> i < visit \/ i = visit \/ (schedule.streams /\ i = visit + 1)
        BY <1>2, <2>1, <3>1, <3>5 DEF Started
      <4>2. Started(kind, i)' <=> i < visit + 1 \/ (i = visit + 1 /\ (AnotherVisit => schedule.streams))
        BY <1>3, <1>5, <2>1, <3>1, <3>5 DEF Started
      <4> QED BY <1>2, <3>1, <3>2, <3>3, <4>1, <4>2
    <3> QED BY <3>4, <3>5
  <2>3. ASSUME NEW tile \in Tiles, NEW slot \in Slots
        PROVE  WindowAwaited(tile, slot)' <=> WindowAwaited(tile, slot)
    <3>1. (wslot + 0 + 1) % 2 = 1 - wslot
      BY <1>2 DEF Slots
    <3>2. ~AnotherVisit => tile # <<visit + 1, 1>>
      BY <1>6, TilesAre
    <3>3. WindowAwaited(tile, slot) <=> tile = <<visit + 1, 1>> /\ slot = 1 - wslot
      BY <1>2 DEF WindowAwaited
    <3>4. WindowAwaited(tile, slot)' <=> AnotherVisit /\ tile = <<visit + 1, 0 + 1>> /\ slot = (wslot + 0 + 1) % 2
      BY <1>2, <1>3 DEF WindowAwaited
    <3>5. 0 + 1 = 1
      OBVIOUS
    <3> QED BY <3>1, <3>2, <3>3, <3>4, <3>5
  <2>4. ASSUME NEW tile \in Tiles, NEW parity \in Slots
        PROVE  RowsAwaited(tile, parity)' <=> RowsAwaited(tile, parity)
    <3>1. ~AnotherVisit => tile # <<visit + 1, 0>>
      BY <1>6, TilesAre
    <3> QED BY <1>2, <1>3, <1>6, <3>1 DEF RowsAwaited
  <2> QED BY <1>3, <2>2, <2>3, <2>4, Unchanged
<1>11. WeightsHeld' /\ RowsHeld' /\ PushDelivered'
  BY <1>3 DEF WeightsHeld, Using, RowsHeld, PushDelivered, Tiling
<1>12. CASE schedule.ship
  <2>1. UNCHANGED <<owed, flying, sem>>
    BY <1>12 DEF Flush
  <2>2. PlaceInv'
    BY <1>1, <1>7, <2>1 DEF PlaceInv
  <2>3. SameResults
    <3>1. \A i \in Visits : Pushed(i)' <=> Pushed(i)
      BY <1>3, <1>12 DEF Pushed
    <3> QED BY <1>3, <1>8, <1>9, <1>12, <2>1, <3>1 DEF SameResults
  <2>4. OutInv' /\ FlyingDue' /\ SemDue' /\ Given' /\ PushInv' /\ Delivered'
    <3> DEFINE N == {}
               need == <<>>
    <3>1. Wait(need) /\ Matches(need, N \cup N \cup N) /\ flying' = flying \cup N \cup N \cup N
      <4>1. N \cup N \cup N = {}
        OBVIOUS
      <4> QED BY <1>1, <2>1, <4>1, NoWait, NoMatch
    <3>2. /\ Family(WeightsDue, WeightsDue', N, N) /\ Family(WindowsDue, WindowsDue', N, N)
          /\ Family(RowsDue, RowsDue', N, N)
      BY <1>10
    <3> HIDE DEF N, need
    <3> QED BY <2>2, <2>3, <3>1, <3>2, QuietKeeps
  <2> QED BY <1>11, <2>2, <2>4 DEF IInv
<1>13. CASE ~schedule.ship
  <2> DEFINE N == {}
             P == Push(visit)
             need == Owing(Slots)
             X == {p \in Slots : Leaving(p)}
             V == {RowsOut(p) : p \in X} \cup {SclOut(p) : p \in X}
  <2>1. Wait(need) /\ flying' = flying \cup P /\ owed' = [p \in Slots |-> 0]
    BY <1>13 DEF Flush, Start
  <2>2. /\ \A s \in DOMAIN need : need[s] \in Nat
        /\ Matches(need, V)
        /\ \A p \in Slots : Leaving(p) =>
             mem[<<RowsTo, Staged(p)>>] = Staged(p) /\ mem[<<SclTo, Staged(p)>>] = Staged(p)
    <3>1. Slots \in SUBSET Slots /\ \A p \in Slots : owed[p] > 0 => Leaving(p)
      BY <1>9
    <3> QED BY <2>1, <3>1, OutsCame
  <2> HIDE DEF need
  <2>3. PlaceInv'
    <3>1. owed' \in [Slots -> Nat]
      BY <2>1
    <3>2. sem' \in [Sems -> Nat]
      BY <1>1, <2>1, <2>2, WaitKeeps DEF PlaceInv
    <3> QED BY <1>7, <3>1, <3>2
  <2>4. \A p \in Slots : ~Leaving(p)' /\ owed'[p] = 0
    BY <1>9, <2>1
  <2>5. OutInv'
    <3>1. 0 \in Slots
      BY DEF Slots
    <3> QED BY <2>4, <3>1 DEF OutInv
  <2>6. Delivered'
    <3>1. ASSUME NEW tile \in Tiles, Computed(tile)
          PROVE  mem[<<RowsTo, tile>>] = tile /\ mem[<<SclTo, tile>>] = tile
      BY <1>1, <2>2, <3>1 DEF Delivered
    <3> QED BY <1>3, <1>5, <1>8, <3>1 DEF Delivered
  <2>7. Family(OutsDue, OutsDue', V, N)
    <3> DEFINE Y == {}
    <3>1. X \in SUBSET Slots /\ (\A p \in X : Leaving(p)) /\ Y \in SUBSET Slots /\ \A p \in Y : ~Leaving(p)
      OBVIOUS
    <3>2. \A p \in Slots : Leaving(p)' <=> (Leaving(p) /\ p \notin X) \/ p \in Y
      BY <2>4
    <3>3. \A c : c \in V <=> \E p \in X : c = RowsOut(p) \/ c = SclOut(p)
      OBVIOUS
    <3>4. \A c : c \in N <=> \E p \in Y : c = RowsOut(p)' \/ c = SclOut(p)'
      OBVIOUS
    <3>5. \A p \in Slots : Leaving(p)' /\ p \notin Y => RowsOut(p)' = RowsOut(p) /\ SclOut(p)' = SclOut(p)
      BY <2>4
    <3> HIDE DEF X, Y, V, N
    <3> QED BY <1>1, <1>3, <2>3, <2>5, <3>1, <3>2, <3>3, <3>4, <3>5, OutsStep
  <2>8. PICK v \in Visits : v = visit
    BY <1>2
  <2>9. P = {PushRows(v), PushScl(v)}
    BY <2>8, PushFacts
  <2>10. \A i \in Visits : (Pushed(i) <=> i < visit) /\ (Pushed(i)' <=> i < visit \/ i = v)
    BY <1>2, <1>3, <1>4, <1>13, <2>8 DEF Pushed
  <2> HIDE DEF P
  <2>11. PushesDue' = PushesDue \cup P
    <3>1. \A c : c \in PushesDue' <=> \E i \in Visits : Pushed(i)' /\ (c = PushRows(i) \/ c = PushScl(i))
      BY <1>3, NextDue
    <3>2. \A c : c \in PushesDue <=> \E i \in Visits : Pushed(i) /\ (c = PushRows(i) \/ c = PushScl(i))
      BY PushesAre
    <3>3. \A i \in Visits : Pushed(i)' <=> Pushed(i) \/ i = v
      BY <2>10
    <3>4. v \in Visits
      OBVIOUS
    <3> QED BY <2>9, <3>1, <3>2, <3>3, <3>4
  <2>12. \A i \in Visits :
           /\ Pushed(i) => Pushed(i)' /\ PushRows(i) \notin P /\ PushScl(i) \notin P
           /\ Pushed(i)' /\ ~Pushed(i) => PushRows(i) \in P /\ PushScl(i) \in P
    <3> SUFFICES ASSUME NEW i \in Visits
                 PROVE  /\ Pushed(i) => Pushed(i)' /\ PushRows(i) \notin P /\ PushScl(i) \notin P
                        /\ Pushed(i)' /\ ~Pushed(i) => PushRows(i) \in P /\ PushScl(i) \in P
      OBVIOUS
    <3>1. Pushed(i) => i # v
      BY <1>2, <2>8, <2>10
    <3>2. i # v => PushRows(i) \notin P /\ PushScl(i) \notin P
      BY <1>1, <2>9, PushApart
    <3> QED BY <2>9, <2>10, <3>1, <3>2
  <2>13. FlyingDue' /\ SemDue' /\ Given' /\ PushInv'
    <3>1. /\ Family(WeightsDue, WeightsDue', N, N) /\ Family(WindowsDue, WindowsDue', N, N)
          /\ Family(RowsDue, RowsDue', N, N)
      BY <1>10
    <3>2. N \cup N \cup N \cup V = V /\ flying' = flying \cup (N \cup N \cup N \cup N) \cup P
      BY <2>1
    <3> HIDE DEF N, V
    <3>3. Matches(need, N \cup N \cup N \cup V)
      BY <2>2, <3>2
    <3>4. schedule' = schedule /\ Wait(need)
      BY <1>3, <2>1
    <3>5. \A place \in Places : place[1] \notin {"out", "oscl"} => mem'[place] = mem[place]
      BY <1>3
    <3> QED BY <2>3, <2>5, <2>7, <2>11, <2>12, <3>1, <3>2, <3>3, <3>4, <3>5, StepKeeps
  <2> QED BY <1>11, <2>3, <2>5, <2>6, <2>13 DEF IInv
<1> QED BY <1>4, <1>12, <1>13

\* When every visit is over nothing is loaded any more.
LEMMA NoLoads ==
  PlaceInv /\ pc \in {"transport", "done"} => WeightsDue = {} /\ WindowsDue = {} /\ RowsDue = {}
<1> SUFFICES ASSUME PlaceInv, pc \in {"transport", "done"}
             PROVE  WeightsDue = {} /\ WindowsDue = {} /\ RowsDue = {}
  OBVIOUS
<1>1. \A kind, i : i \in Visits => ~WeightAwaited(kind, i)
  <2>1. NumVisits \in Nat /\ Visits = {i \in Nat : i < NumVisits} /\ visit \in Int
        /\ (visit = NumVisits \/ (NumVisits = 0 /\ visit = -1))
    BY ScheduleIs DEF PlaceInv
  <2>2. \A i \in Visits : i < visit
    BY <2>1
  <2> QED BY <2>2 DEF WeightAwaited
<1>2. \A tile, slot : ~WindowAwaited(tile, slot) /\ ~RowsAwaited(tile, slot)
  BY DEF WindowAwaited, RowsAwaited
<1>3. WeightsDue = {}
  BY <1>1, WeightsAre
<1>4. WindowsDue = {}
  BY <1>2, WindowsAre
<1>5. RowsDue = {}
  BY <1>2, RowsAre
<1> QED BY <1>3, <1>4, <1>5

\* A semaphore that holds the amounts of all pushes holds those of each.
LEMMA AllPushed ==
  IInv /\ sem[<<"push", 0>>] >= MapThenSumSet(Blocks, Tiles) /\ sem[<<"push scl", 0>>] >= Cardinality(Tiles) =>
    RowsPushed = Tiles /\ SclPushed = Tiles
<1> DEFINE sum(S) == MapThenSumSet(Blocks, S)
           R == RowsPushed
           C == SclPushed
<1>1. ASSUME IInv
      PROVE  /\ IsFiniteSet(Tiles) /\ R \subseteq Tiles /\ C \subseteq Tiles
             /\ sem[<<"push", 0>>] = sum(R) /\ sem[<<"push scl", 0>>] = Cardinality(C)
  BY <1>1, TilesFinite DEF IInv, PlaceInv, PushInv, RowsPushed, SclPushed
<1> HIDE DEF sum, R, C
<1>2. ASSUME IInv, Cardinality(C) >= Cardinality(Tiles)
      PROVE  C = Tiles
  <2>1. Cardinality(C) <= Cardinality(Tiles) /\ Cardinality(C) \in Nat /\ Cardinality(Tiles) \in Nat
    BY <1>1, <1>2, FS_Subset, FS_CardinalityType
  <2>2. Cardinality(C) = Cardinality(Tiles)
    BY <1>2, <2>1
  <2> QED BY <1>1, <1>2, <2>2, FS_Subset
<1>3. ASSUME IInv, sum(R) >= sum(Tiles)
      PROVE  R = Tiles
  <2>1. IsFiniteSet(R) /\ IsFiniteSet(Tiles \ R) /\ R \in SUBSET Tiles
    BY <1>1, <1>3, FS_Subset
  <2>2. sum(R) \in Nat /\ sum(Tiles \ R) \in Nat /\ (Tiles \ R # {} => sum(Tiles \ R) > 0)
    BY <2>1, TileSums DEF sum
  <2>3. sum(Tiles) = sum(R) + sum(Tiles \ R)
    BY <1>1, <1>3, <2>1, TileSums DEF sum
  <2>4. Tiles \ R = {}
    BY <1>3, <2>2, <2>3
  <2> QED BY <2>1, <2>4
<1>4. IInv /\ sem[<<"push", 0>>] >= sum(Tiles) /\ sem[<<"push scl", 0>>] >= Cardinality(Tiles) =>
        R = Tiles /\ C = Tiles
  BY <1>1, <1>2, <1>3
<1> QED BY <1>4 DEF sum, R, C

LEMMA PairOf == \A A, B : \A s \in A \X B : s = <<s[1], s[2]>> /\ s[1] \in A /\ s[2] \in B
OBVIOUS

LEMMA TransportStep ==
  ASSUME IInv, Transport
  PROVE  IInv'
<1>1. PlaceInv /\ OutInv /\ Delivered
  BY DEF IInv
<1>2. /\ pc = "transport" /\ visit \in Int /\ t = 0 /\ (visit = NumVisits \/ (NumVisits = 0 /\ visit = -1))
  BY <1>1 DEF PlaceInv, Transport
<1>3. UNCHANGED <<schedule, visit, t, count, wslot, owed, act, mem, flying>> /\ pc' = "done"
  BY DEF Transport
<1>4. /\ schedule \in Schedules /\ NumVisits \in Nat /\ Visits = {i \in Nat : i < NumVisits}
      /\ schedule.ship \in BOOLEAN /\ \A i \in Visits : NumTiles(i) \in Nat /\ NumTiles(i) > 0
  BY <1>1, ScheduleIs DEF PlaceInv
<1>5. /\ Visits' = Visits /\ NumVisits' = NumVisits /\ Tiles' = Tiles /\ RowsTo' = RowsTo /\ SclTo' = SclTo
      /\ Places' = Places /\ Sems' = Sems
      /\ \A tile : Blocks(tile)' = Blocks(tile)
  BY <1>3, KeptTerms DEF Sems
<1>6. sem' \in [Sems -> Nat] => PlaceInv'
  BY <1>1, <1>2, <1>3, <1>4, <1>5 DEF PlaceInv, Tiling
<1>7. /\ \A p : Staged(p)' = Staged(p)
      /\ \A tile : Computed(tile)' <=> Computed(tile)
      /\ \A p \in Slots : ~Leaving(p)'
      /\ \A i \in Visits : ~Pushed(i)'
  BY <1>2, <1>3, <1>4 DEF Staged, Computed, Leaving, Pushed
<1>8. OutInv'
  <2>1. ASSUME NEW p \in Slots, owed[p] > 0
        PROVE  /\ Staged(p) \in Tiles /\ Computed(Staged(p))' /\ mem[<<"oscl", p>>] = Staged(p)
               /\ owed[p] = Blocks(Staged(p)) /\ (~schedule.ship => Staged(p)[1] = visit)
    <3>1. /\ Staged(p) \in Tiles /\ Computed(Staged(p)) /\ mem[<<"oscl", p>>] = Staged(p)
          /\ owed[p] = Blocks(Staged(p)) /\ (~schedule.ship => Staged(p)[1] = visit)
      BY <1>1, <2>1 DEF OutInv
    <3>2. PICK tile \in Tiles : tile = Staged(p)
      BY <3>1
    <3>3. Computed(tile)'
      BY <1>7, <3>1, <3>2
    <3>4. Computed(Staged(p))'
      BY <1>7, <3>2, <3>3 DEF Computed
    <3> QED BY <3>1, <3>4
  <2>2. owed[0] > 0 /\ owed[1] > 0 => Staged(0) # Staged(1)
    BY <1>1 DEF OutInv
  <2> QED BY <1>3, <1>5, <1>7, <2>1, <2>2 DEF OutInv
<1>9. WeightsDue = {} /\ WindowsDue = {} /\ RowsDue = {}
  BY <1>1, <1>2, NoLoads
<1>10. WeightsHeld' /\ RowsHeld'
  BY <1>3 DEF WeightsHeld, Using, RowsHeld, Tiling
<1>11. ASSUME \A p \in Slots : Leaving(p) =>
                mem[<<RowsTo, Staged(p)>>] = Staged(p) /\ mem[<<SclTo, Staged(p)>>] = Staged(p)
       PROVE  Delivered'
  <2>1. ASSUME NEW tile \in Tiles, Computed(tile)
        PROVE  mem[<<RowsTo, tile>>] = tile /\ mem[<<SclTo, tile>>] = tile
    BY <1>1, <1>11, <2>1 DEF Delivered
  <2> QED BY <1>3, <1>5, <1>7, <2>1 DEF Delivered
<1>12. CASE schedule.ship
  <2> DEFINE N == {}
             need == Owing(Slots)
             X == {p \in Slots : Leaving(p)}
             V == {RowsOut(p) : p \in X} \cup {SclOut(p) : p \in X}
  <2>1. Wait(need)
    BY <1>12 DEF Transport
  <2>2. /\ \A s \in DOMAIN need : need[s] \in Nat
        /\ Matches(need, V)
        /\ \A p \in Slots : Leaving(p) =>
             mem[<<RowsTo, Staged(p)>>] = Staged(p) /\ mem[<<SclTo, Staged(p)>>] = Staged(p)
    <3>1. Slots \in SUBSET Slots /\ \A p \in Slots : owed[p] > 0 => Leaving(p)
      BY <1>2 DEF Leaving
    <3> QED BY <2>1, <3>1, OutsCame
  <2> HIDE DEF need
  <2>3. PlaceInv'
    <3>1. sem' \in [Sems -> Nat]
      BY <1>1, <2>1, <2>2, WaitKeeps DEF PlaceInv
    <3> QED BY <1>6, <3>1
  <2>4. Delivered'
    BY <1>11, <2>2
  <2>5. WeightsDue' = {} /\ WindowsDue' = {} /\ RowsDue' = {}
    <3>1. (PlaceInv /\ pc \in {"transport", "done"} => WeightsDue = {} /\ WindowsDue = {} /\ RowsDue = {})'
      BY NoLoads, PTL
    <3> QED BY <1>3, <2>3, <3>1
  <2>6. Family(OutsDue, OutsDue', V, N)
    <3> DEFINE Y == {}
    <3>1. X \in SUBSET Slots /\ (\A p \in X : Leaving(p)) /\ Y \in SUBSET Slots /\ \A p \in Y : ~Leaving(p)
      OBVIOUS
    <3>2. \A p \in Slots : Leaving(p)' <=> (Leaving(p) /\ p \notin X) \/ p \in Y
      BY <1>7
    <3>3. \A c : c \in V <=> \E p \in X : c = RowsOut(p) \/ c = SclOut(p)
      OBVIOUS
    <3>4. \A c : c \in N <=> \E p \in Y : c = RowsOut(p)' \/ c = SclOut(p)'
      OBVIOUS
    <3>5. \A p \in Slots : Leaving(p)' /\ p \notin Y => RowsOut(p)' = RowsOut(p) /\ SclOut(p)' = SclOut(p)
      BY <1>7
    <3> HIDE DEF X, Y, V, N
    <3> QED BY <1>1, <1>3, <1>8, <2>3, <3>1, <3>2, <3>3, <3>4, <3>5, OutsStep
  <2>7. \A i \in Visits : ~Pushed(i)
    BY <1>12 DEF Pushed
  <2>8. PushesDue' = PushesDue \cup N
    <3>1. PushesDue' = {} /\ PushesDue = {}
      BY <1>3, <1>7, <2>7, NextDue, PushesAre
    <3> QED BY <3>1
  <2>9. FlyingDue' /\ SemDue' /\ Given' /\ PushInv'
    <3>1. /\ Family(WeightsDue, WeightsDue', N, N) /\ Family(WindowsDue, WindowsDue', N, N)
          /\ Family(RowsDue, RowsDue', N, N)
      BY <1>9, <2>5 DEF Family
    <3>2. N \cup N \cup N \cup V = V /\ flying' = flying \cup (N \cup N \cup N \cup N) \cup N
      BY <1>3
    <3> HIDE DEF N, V
    <3>3. Matches(need, N \cup N \cup N \cup V)
      BY <2>2, <3>2
    <3>4. schedule' = schedule /\ Wait(need)
      BY <1>3, <2>1
    <3>5. \A place \in Places : place[1] \notin {"out", "oscl"} => mem'[place] = mem[place]
      BY <1>3
    <3>6. \A i \in Visits :
            /\ Pushed(i) => Pushed(i)' /\ PushRows(i) \notin N /\ PushScl(i) \notin N
            /\ Pushed(i)' /\ ~Pushed(i) => PushRows(i) \in N /\ PushScl(i) \in N
      BY <1>7, <2>7
    <3> QED BY <1>8, <2>3, <2>6, <2>8, <3>1, <3>2, <3>3, <3>4, <3>5, <3>6, StepKeeps
  <2>10. PushDelivered'
    BY <1>3, <1>12 DEF PushDelivered
  <2> QED BY <1>8, <1>10, <2>3, <2>4, <2>9, <2>10 DEF IInv
<1>13. CASE ~schedule.ship
  <2> DEFINE rows == <<"push", 0>>
             scl == <<"push scl", 0>>
             total == MapThenSumSet(Blocks, Tiles)
             size == Cardinality(Tiles)
             need == [s \in {"push", "push scl"} \X {0} |-> IF s[1] = "push" THEN total ELSE size]
  <2>1. Wait(need)
    BY <1>13 DEF Transport
  <2>2. /\ DOMAIN need = {rows, scl} /\ need[rows] = total /\ need[scl] = size
        /\ rows \in Sems /\ scl \in Sems /\ rows # scl
    <3> HIDE DEF total, size
    <3>1. rows \in {"push", "push scl"} \X {0} /\ scl \in {"push", "push scl"} \X {0}
          /\ rows[1] = "push" /\ scl[1] = "push scl"
      OBVIOUS
    <3>2. ASSUME NEW s \in {"push", "push scl"} \X {0} PROVE s = rows \/ s = scl
      <4>1. s = <<s[1], s[2]>> /\ s[1] \in {"push", "push scl"} /\ s[2] \in {0}
        BY PairOf
      <4>2. CASE s[1] = "push"
        BY <4>1, <4>2
      <4>3. CASE s[1] = "push scl"
        BY <4>1, <4>3
      <4> QED BY <4>1, <4>2, <4>3
    <3>3. rows \in Sems /\ scl \in Sems
      BY PlacesAre
    <3> HIDE DEF rows, scl
    <3> QED BY <3>1, <3>2, <3>3
  <2>3. IsFiniteSet(Tiles) /\ total \in Nat /\ size \in Nat
    BY <1>4, TilesFinite, TileSums, FS_CardinalityType
  <2>4. sem[rows] >= total /\ sem[scl] >= size
    <3> HIDE DEF need, rows, scl, total, size
    <3> QED BY <2>1, <2>2 DEF Wait
  <2>5. RowsPushed = Tiles /\ SclPushed = Tiles
    BY <2>4, AllPushed
  <2>6. sem[rows] = total /\ sem[scl] = size
    BY <2>5 DEF IInv, PushInv
  <2>7. \A p \in Slots : ~Leaving(p) /\ ~(owed[p] > 0)
    <3> SUFFICES ASSUME NEW p \in Slots, owed[p] > 0 PROVE FALSE
      BY DEF Leaving
    <3>1. Staged(p) \in Tiles /\ Staged(p)[1] = visit
      BY <1>1, <1>13 DEF OutInv
    <3>2. visit \in Visits
      BY <3>1, TilesAre
    <3> QED BY <1>2, <1>4, <3>2
  <2>8. Single = {}
    <3>1. OutsDue = {}
      BY <2>7, OutsAre
    <3> QED BY <1>9, <3>1 DEF Single, LoadsDue
  <2>9. \A tile \in Tiles : Pushed(tile[1]) /\ PushRows(tile[1]) \notin flying /\ PushScl(tile[1]) \notin flying
    BY <2>5 DEF RowsPushed, SclPushed
  <2>10. flying = {}
    <3> SUFFICES ASSUME NEW c \in flying PROVE FALSE
      OBVIOUS
    <3>1. c \in PushesDue
      BY <2>8 DEF IInv, FlyingDue, Due
    <3>2. PICK i \in Visits : c = PushRows(i) \/ c = PushScl(i)
      BY <3>1, PushesAre
    <3>3. <<i, 0>> \in Tiles /\ <<i, 0>>[1] = i
      <4>1. 0 \in 0..NumTiles(i) - 1
        BY <1>4
      <4> QED BY <4>1, TilesAre
    <3> QED BY <2>9, <3>2, <3>3
  <2>11. /\ sem' \in [Sems -> Nat] /\ sem'[rows] = 0 /\ sem'[scl] = 0
         /\ \A s \in Sems : s # rows /\ s # scl => sem'[s] = sem[s]
    <3>1. sem \in [Sems -> Nat]
      BY <1>1 DEF PlaceInv
    <3> HIDE DEF need, rows, scl, total, size
    <3>2. sem' = [s \in Sems |-> IF s = rows \/ s = scl THEN sem[s] - need[s] ELSE sem[s]]
      BY <2>1, <2>2 DEF Wait
    <3>3. sem'[rows] = 0 /\ sem'[scl] = 0
      BY <2>2, <2>3, <2>6, <3>2
    <3>4. \A s \in Sems : s # rows /\ s # scl => sem'[s] = sem[s]
      BY <3>2
    <3>5. sem' = [s \in Sems |-> sem'[s]] /\ \A s \in Sems : sem'[s] \in Nat
      BY <3>1, <3>2, <3>3, <3>4
    <3> QED BY <3>3, <3>4, <3>5
  <2> HIDE DEF need
  <2>12. PlaceInv'
    BY <1>6, <2>11
  <2>13. Due' = {} /\ Single' = {}
    <3>1. (PlaceInv /\ pc = "done" => Due = {})'
      BY DoneDue, PTL
    <3>2. Due' = {}
      BY <1>3, <2>12, <3>1
    <3> QED BY <3>2 DEF Due
  <2>14. Delivered'
    BY <1>11, <2>7
  <2>15. SemDue'
    <3>1. ASSUME NEW s \in Sems, s[1] \notin {"push", "push scl"} PROVE sem'[s] = 0
      <4>1. s # rows /\ s # scl
        <5>1. rows[1] = "push" /\ scl[1] = "push scl"
          OBVIOUS
        <5> HIDE DEF rows, scl
        <5> QED BY <3>1, <5>1
      <4>2. sem[s] = 0
        BY <2>8, <3>1 DEF IInv, SemDue
      <4> QED BY <2>11, <4>1, <4>2
    <3> QED BY <1>5, <2>13, <3>1 DEF SemDue
  <2>16. PushInv'
    <3>1. RowsPushed' = {} /\ SclPushed' = {}
      <4>1. \A tile \in Tiles : tile[1] \in Visits
        BY TilesAre
      <4>2. \A tile \in Tiles : ~Pushed(tile[1])'
        BY <1>3 DEF Pushed
      <4> QED BY <1>5, <4>2 DEF RowsPushed, SclPushed, Pushed
    <3>2. (MapThenSumSet(Blocks, {}) = 0)' /\ Cardinality({}) = 0
      <4>1. MapThenSumSet(Blocks, {})' = MapThenSumSet(Blocks, {})
        BY <1>3, KeptSums
      <4>2. MapThenSumSet(Blocks, {}) = 0
        BY FS_EmptySet, TileSums
      <4> QED BY <4>1, <4>2, FS_EmptySet
    <3> QED BY <2>11, <3>1, <3>2 DEF PushInv
  <2>17. FlyingDue' /\ Given'
    BY <1>3, <2>10, <2>13 DEF FlyingDue, Given
  <2>18. PushDelivered'
    <3>1. ASSUME NEW tile \in Tiles PROVE mem[<<"recv", tile>>] = tile /\ mem[<<"rscl", tile>>] = tile
      <4> DEFINE i == tile[1]
                 c == PushRows(i)
                 d == PushScl(i)
                 to == <<"recv", tile>>
                 too == <<"rscl", tile>>
      <4>1. i \in Visits /\ tile \in TilesOf(i)
        BY TilesAre
      <4>2. c \in Due /\ c \notin flying /\ d \in Due /\ d \notin flying
        BY <2>9, <4>1, PushesAre DEF Due
      <4>3. /\ to \in DOMAIN c.moves /\ c.moves[to] = <<"contrib", tile>>
            /\ too \in DOMAIN d.moves /\ d.moves[too] = <<"cscl", tile>>
        <5>1. to \in {"recv"} \X TilesOf(i) /\ too \in {"rscl"} \X TilesOf(i) /\ to[2] = tile /\ too[2] = tile
          BY <4>1
        <5> HIDE DEF to, too, i
        <5>2. /\ DOMAIN c.moves = {"recv"} \X TilesOf(i) /\ DOMAIN d.moves = {"rscl"} \X TilesOf(i)
              /\ \A x \in {"recv"} \X TilesOf(i) : c.moves[x] = <<"contrib", x[2]>>
              /\ \A x \in {"rscl"} \X TilesOf(i) : d.moves[x] = <<"cscl", x[2]>>
          BY PushFacts
        <5> HIDE DEF c, d
        <5> QED BY <5>1, <5>2
      <4>4. to[2] = tile /\ too[2] = tile
        OBVIOUS
      <4> HIDE DEF c, d, to, too, i
      <4>5. mem[to] = Gives(c, to) /\ mem[too] = Gives(d, too)
        BY <4>2, <4>3 DEF IInv, Given
      <4>6. c.moves[to][1] = "contrib" /\ d.moves[too][1] = "cscl"
        BY <4>3, PairIs
      <4>7. mem[to] = tile /\ mem[too] = tile
        BY <4>4, <4>5, <4>6 DEF Gives
      <4> QED BY <4>7 DEF to, too
    <3> QED BY <1>3, <1>5, <3>1 DEF PushDelivered
  <2> QED BY <1>8, <1>10, <2>12, <2>14, <2>15, <2>16, <2>17, <2>18 DEF IInv
<1> QED BY <1>4, <1>12, <1>13

-----------------------------------------------------------------------------
(* The invariant holds of every behaviour.                                   *)

LEMMA StutterStep ==
  ASSUME IInv, UNCHANGED vars
  PROVE  IInv'
<1> DEFINE N == {}
           need == <<>>
<1>1. UNCHANGED <<schedule, pc, visit, t, count, wslot, owed, act, mem, flying, sem>> /\ PlaceInv
  BY DEF vars, IInv
<1>2. /\ Visits' = Visits /\ NumVisits' = NumVisits /\ Prefetches' = Prefetches /\ AtHead' = AtHead
      /\ Tiles' = Tiles /\ Places' = Places /\ Sems' = Sems
      /\ \A i : NumTiles(i)' = NumTiles(i) /\ WeightSlot(i)' = WeightSlot(i)
  BY <1>1, KeptTerms DEF Sems
<1>3. LastTile' = LastTile /\ Tile' = Tile /\ Parity' = Parity /\ NextWslot' = NextWslot
      /\ NumTiles(visit)' = NumTiles(visit)
  <2>1. NumTiles(visit)' = NumTiles(visit)
    BY <1>1 DEF NumTiles
  <2> QED BY <1>1, <2>1 DEF LastTile, Tile, Parity, NextWslot
<1>4. PlaceInv'
  BY <1>1, <1>2, <1>3 DEF PlaceInv
<1>5. SameResults
  <2>1. \A tile \in Tiles : Computed(tile)' <=> Computed(tile)
    BY <1>1 DEF Computed
  <2>2. \A p \in Slots : Leaving(p)' <=> Leaving(p)
    BY <1>1, <1>3 DEF Leaving
  <2>3. \A i \in Visits : Pushed(i)' <=> Pushed(i)
    BY <1>1 DEF Pushed
  <2> QED BY <1>1, <2>1, <2>2, <2>3 DEF SameResults
<1>6. \A kind \in Kinds : (WaitedHere(kind)' <=> WaitedHere(kind)) /\ (StartedNext(kind)' <=> StartedNext(kind))
  BY <1>1, <1>2, <1>3 DEF WaitedHere, StartedNext
<1>7. /\ Family(WeightsDue, WeightsDue', N, N) /\ Family(WindowsDue, WindowsDue', N, N)
      /\ Family(RowsDue, RowsDue', N, N)
  <2>1. \A kind \in Kinds, i \in Visits : WeightAwaited(kind, i)' <=> WeightAwaited(kind, i)
    BY <1>1, <1>2, <1>6 DEF WeightAwaited, Started
  <2>2. \A tile \in Tiles, slot \in Slots : WindowAwaited(tile, slot)' <=> WindowAwaited(tile, slot)
    BY <1>1, <1>3 DEF WindowAwaited
  <2>3. \A tile \in Tiles, parity \in Slots : RowsAwaited(tile, parity)' <=> RowsAwaited(tile, parity)
    BY <1>1, <1>3 DEF RowsAwaited
  <2> QED BY <1>1, <2>1, <2>2, <2>3, Unchanged
<1>8. Wait(need) /\ Matches(need, N \cup N \cup N) /\ flying' = flying \cup N \cup N \cup N
  <2>1. N \cup N \cup N = {}
    OBVIOUS
  <2> QED BY <1>1, <2>1, NoWait, NoMatch
<1> HIDE DEF N, need
<1>9. OutInv' /\ FlyingDue' /\ SemDue' /\ Given' /\ PushInv' /\ Delivered'
  BY <1>4, <1>5, <1>7, <1>8, QuietKeeps
<1>10. WeightsHeld' /\ RowsHeld' /\ PushDelivered'
  <2>1. \A kind \in Kinds : Using(kind)' <=> Using(kind)
    BY <1>1, <1>3, <1>6 DEF Using
  <2>2. WeightSlot(visit)' = WeightSlot(visit)
    BY <1>1 DEF WeightSlot, Nbuf
  <2>3. WeightsHeld /\ RowsHeld /\ PushDelivered
    BY DEF IInv
  <2> QED BY <1>1, <1>2, <1>3, <2>1, <2>2, <2>3 DEF WeightsHeld, RowsHeld, PushDelivered
<1> QED BY <1>4, <1>9, <1>10 DEF IInv

LEMMA NextIInv == IInv /\ [Next]_vars => IInv'
<1> SUFFICES ASSUME IInv, [Next]_vars PROVE IInv'
  OBVIOUS
<1>1. CASE Prologue
  BY <1>1, PrologueStep
<1>2. CASE Prime
  BY <1>2, PrimeStep
<1>3. CASE VisitHead
  BY <1>3, VisitHeadStep
<1>4. CASE WeightWaits
  BY <1>4, WeightWaitsStep
<1>5. CASE ReuseGuard
  BY <1>5, ReuseGuardStep
<1>6. CASE RowsReady
  BY <1>6, RowsReadyStep
<1>7. CASE NextTile
  BY <1>7, NextTileStep
<1>8. CASE Gate
  BY <1>8, GateStep
<1>9. CASE Down
  BY <1>9, DownStep
<1>10. CASE VisitTail
  BY <1>10, VisitTailStep
<1>11. CASE Flush
  BY <1>11, FlushStep
<1>12. CASE Transport
  BY <1>12, TransportStep
<1>13. CASE Done
  BY <1>13, StutterStep DEF Done
<1>14. ASSUME NEW copy \in flying, Land(copy) PROVE IInv'
  BY <1>14, LandStep
<1>15. CASE UNCHANGED vars
  BY <1>15, StutterStep
<1> QED BY <1>1, <1>2, <1>3, <1>4, <1>5, <1>6, <1>7, <1>8, <1>9, <1>10, <1>11, <1>12, <1>13, <1>14, <1>15
        DEF Next

LEMMA Inductive == Spec => []IInv
<1>1. Init => IInv
  BY InitIInv
<1>2. IInv /\ [Next]_vars => IInv'
  BY NextIInv
<1> QED BY <1>1, <1>2, PTL DEF Spec

\* The product at hand is always that of the current tile, and what is on its
\* way to a tile's place is that tile's result: no buffer is written over
\* before its reader is through (kernel.py:1196-1219, 1715-1728).
THEOREM ProductsRight == Spec => []RightTiles
<1>1. IInv => RightTiles
  <2> SUFFICES ASSUME IInv PROVE RightTiles
    OBVIOUS
  <2>1. flying \subseteq Due /\ PlaceInv /\ OutInv /\ (pc = "down" => act = Tile)
    BY DEF IInv, FlyingDue, RowsHeld
  <2>2. ASSUME NEW copy \in flying, NEW to \in DOMAIN copy.moves,
               to[1] \in {"contrib", "cscl", "recv", "rscl"}
        PROVE  Content(copy.moves[to]) = to[2]
    <3>1. copy \in Due /\ Content(copy.moves[to]) = Gives(copy, to)
      BY <2>1, GivesHolds DEF IInv, GivesRight
    <3>2. copy \notin LoadsDue
      BY <2>1, <2>2, Heads DEF Kinds
    <3>3. copy.moves[to][1] # "hbm"
      <4>1. CASE copy \in OutsDue
        BY <2>1, <4>1, Heads
      <4>2. CASE copy \in PushesDue
        BY <2>1, <4>2, Heads
      <4> QED BY <3>1, <3>2, <4>1, <4>2 DEF Due, Single
    <3> QED BY <3>1, <3>3 DEF Gives
  <2> QED BY <2>1, <2>2 DEF RightTiles
<1> QED BY <1>1, Inductive, PTL

\* No two copies in flight write the same buffer, and none writes what another
\* one reads: each slot has retired when it is refilled
\* (kernel.py:1283-1294, 1300-1305).
THEOREM CopiesApart == Spec => []NoClash
<1>1. IInv => NoClash
  BY ApartHolds DEF IInv, FlyingDue, Apart, NoClash
<1> QED BY <1>1, Inductive, PTL

\* When the kernel is done every tile and its scales are delivered, nothing is
\* in flight and every semaphore is back at zero (kernel.py:1730-1738, 1819-1844).
THEOREM RunLeavesNothing == Spec => []NothingLeft
<1>1. IInv => NothingLeft
  <2> SUFFICES ASSUME IInv, pc = "done"
               PROVE  /\ flying = {} /\ \A s \in Sems : sem[s] = 0
                      /\ \A tile \in Tiles : mem[<<"recv", tile>>] = tile /\ mem[<<"rscl", tile>>] = tile
    BY DEF NothingLeft
  <2>1. Due = {}
    BY DoneDue DEF IInv
  <2>2. flying = {} /\ Single = {}
    BY <2>1 DEF IInv, FlyingDue, Due
  <2>3. sem[<<"push", 0>>] = 0 /\ sem[<<"push scl", 0>>] = 0
    <3>1. RowsPushed = {} /\ SclPushed = {}
      BY DEF RowsPushed, SclPushed, Pushed
    <3>2. MapThenSumSet(Blocks, {}) = 0 /\ Cardinality({}) = 0
      BY FS_EmptySet, TileSums
    <3> QED BY <3>1, <3>2 DEF IInv, PushInv
  <2>4. ASSUME NEW s \in Sems PROVE sem[s] = 0
    <3>1. CASE s[1] \notin {"push", "push scl"}
      BY <2>2, <3>1 DEF IInv, SemDue
    <3>2. CASE s[1] \in {"push", "push scl"}
      <4>1. s = <<"push", 0>> \/ s = <<"push scl", 0>>
        <5>1. \A x, y : <<x, y>>[1] = x
          OBVIOUS
        <5>2. s \in {"push", "push scl"} \X {0}
          BY <3>2, PairOf DEF Sems
        <5>3. s = <<s[1], s[2]>> /\ s[1] \in {"push", "push scl"} /\ s[2] \in {0}
          BY <5>2, PairOf
        <5>4. CASE s[1] = "push"
          BY <5>3, <5>4
        <5>5. CASE s[1] = "push scl"
          BY <5>3, <5>5
        <5> QED BY <5>3, <5>4, <5>5
      <4> QED BY <2>3, <4>1
    <3> QED BY <3>1, <3>2
  <2>5. ASSUME NEW tile \in Tiles
        PROVE  mem[<<"recv", tile>>] = tile /\ mem[<<"rscl", tile>>] = tile
    <3>1. CASE ~schedule.ship
      BY <3>1 DEF IInv, PushDelivered
    <3>2. CASE schedule.ship
      <4>1. Computed(tile)
        <5>1. /\ tile[1] \in Visits /\ NumVisits \in Nat /\ Visits = {i \in Nat : i < NumVisits}
              /\ (visit = NumVisits \/ NumVisits = 0)
          BY ScheduleIs, TilesAre DEF IInv, PlaceInv
        <5> QED BY <5>1 DEF Computed
      <4>2. \A p \in Slots : ~Leaving(p)
        BY DEF Leaving
      <4>3. mem[<<RowsTo, tile>>] = tile /\ mem[<<SclTo, tile>>] = tile
        BY <4>1, <4>2 DEF IInv, Delivered
      <4> QED BY <3>2, <4>3 DEF RowsTo, SclTo
    <3>3. schedule.ship \in BOOLEAN
      BY ScheduleIs DEF IInv, PlaceInv
    <3> QED BY <3>1, <3>2, <3>3
  <2> QED BY <2>2, <2>4, <2>5
<1> QED BY <1>1, Inductive, PTL

-----------------------------------------------------------------------------
\* The combine kernel.

LEMMA ParityOf ==
  ASSUME NEW k \in Nat
  PROVE  /\ BufferOf(k) \in ParitySet
         /\ \E q \in Nat : k = Parities * q + BufferOf(k)
<1>1. Parities \in Nat /\ Parities > 0
  BY CombineSteps
<1>2. /\ k % Parities \in 0..Parities - 1
      /\ k = Parities * (k \div Parities) + (k % Parities)
      /\ k \div Parities \in Nat
  BY <1>1
<1> QED  BY <1>1, <1>2 DEF BufferOf, ParitySet

LEMMA Multiple ==
  ASSUME NEW p \in Nat, NEW a \in Nat, NEW b \in Nat, a < b, p > 0
  PROVE  p * b - p * a >= p
<1>1. p * b = p * a + p * (b - a)  OBVIOUS
<1>2. p * (b - a) >= p
  <2>1. b - a \in Nat /\ b - a >= 1  OBVIOUS
  <2> QED  BY <2>1
<1> QED  BY <1>1, <1>2

\* Two numbers of one rotation work in different buffers.
LEMMA ParitiesApart ==
  ASSUME NEW i \in Nat, NEW j \in Nat, i < j, j < i + Parities
  PROVE  BufferOf(i) # BufferOf(j)
<1> SUFFICES ASSUME BufferOf(i) = BufferOf(j) PROVE FALSE  OBVIOUS
<1>1. Parities \in Nat /\ Parities > 0  BY CombineSteps
<1>2. PICK a \in Nat : i = Parities * a + BufferOf(i)  BY ParityOf
<1>3. PICK b \in Nat : j = Parities * b + BufferOf(j)  BY ParityOf
<1>4. BufferOf(i) \in Nat  BY ParityOf, <1>1 DEF ParitySet
<1>5. j - i = Parities * b - Parities * a
  <2>1. Parities * a \in Nat /\ Parities * b \in Nat  BY <1>1
  <2> QED  BY <1>2, <1>3, <1>4, <2>1
<1>6. a < b
  <2> SUFFICES ASSUME ~(a < b) PROVE FALSE  OBVIOUS
  <2>1. CASE a = b  BY <2>1, <1>1, <1>5
  <2>2. CASE b < a
    <3>1. Parities * a - Parities * b >= Parities  BY <2>2, <1>1, Multiple
    <3> QED  BY <3>1, <1>1, <1>5
  <2> QED  BY <2>1, <2>2
<1>7. Parities * b - Parities * a >= Parities  BY <1>1, <1>6, Multiple
<1> QED  BY <1>1, <1>5, <1>7

\* The remainder is the only number below Parities that far from a multiple.
LEMMA ParityIs ==
  ASSUME NEW q \in Nat, NEW r \in ParitySet
  PROVE  BufferOf(Parities * q + r) = r
<1> DEFINE k == Parities * q + r
<1>1. Parities \in Nat /\ Parities > 0 /\ r \in Nat /\ r < Parities
  BY CombineSteps DEF ParitySet
<1>2. Parities * q \in Nat /\ k \in Nat  BY <1>1
<1>3. PICK b \in Nat : k = Parities * b + BufferOf(k)  BY <1>2, ParityOf
<1>4. BufferOf(k) \in Nat /\ BufferOf(k) < Parities  BY <1>1, <1>2, ParityOf DEF ParitySet
<1>5. Parities * b \in Nat  BY <1>1
<1>6. CASE q < b
  <2>1. Parities * b - Parities * q >= Parities  BY <1>1, <1>6, Multiple
  <2> QED  BY <2>1, <1>1, <1>2, <1>3, <1>4, <1>5
<1>7. CASE b < q
  <2>1. Parities * q - Parities * b >= Parities  BY <1>1, <1>7, Multiple
  <2> QED  BY <2>1, <1>1, <1>2, <1>3, <1>4, <1>5
<1>8. CASE b = q
  <2>1. Parities * b = Parities * q  BY <1>8
  <2>2. BufferOf(k) = k - Parities * b  BY <1>2, <1>3, <1>4, <1>5, <1>1
  <2> QED  BY <2>1, <2>2, <1>1, <1>2
<1>9. q < b \/ b < q \/ b = q  BY <1>3
<1> QED  BY <1>6, <1>7, <1>8, <1>9

\* A number and the one a rotation before it share a buffer.
LEMMA ParityBefore ==
  ASSUME NEW s \in Nat, s >= Parities
  PROVE  s - Parities \in Nat /\ BufferOf(s - Parities) = BufferOf(s)
<1>1. Parities \in Nat /\ Parities > 0  BY CombineSteps
<1>2. s - Parities \in Nat  BY <1>1
<1>3. PICK a \in Nat : s - Parities = Parities * a + BufferOf(s - Parities)
  BY <1>2, ParityOf
<1>4. BufferOf(s - Parities) \in ParitySet  BY <1>2, ParityOf
<1>5. s = Parities * (a + 1) + BufferOf(s - Parities)
  <2>1. Parities * (a + 1) = Parities * a + Parities  BY <1>1
  <2>2. Parities * a \in Nat /\ BufferOf(s - Parities) \in Nat  BY <1>1, <1>4 DEF ParitySet
  <2> QED  BY <1>1, <1>3, <2>1, <2>2
<1>6. BufferOf(Parities * (a + 1) + BufferOf(s - Parities)) = BufferOf(s - Parities)
  BY <1>4, ParityIs
<1> QED  BY <1>2, <1>5, <1>6

\* The requests after the last step begin with the first buffer again.
LEMMA ParityOfRestart ==
  ASSUME NEW j \in ParitySet
  PROVE  BufferOf(Steps + j) = j
<1>1. Steps \in Nat /\ BufferOf(Steps) = 0  BY CombineSteps DEF BufferOf
<1>2. PICK q \in Nat : Steps = Parities * q + 0  BY <1>1, ParityOf
<1>3. Steps = Parities * q  BY <1>2, CombineSteps
<1> QED  BY <1>3, ParityIs

-----------------------------------------------------------------------------
Inside == {"rows", "store", "request", "reduce"}

\* The requests before this one have been waited for.
Consumed ==
  IF stage = "done" THEN Steps + Lead
  ELSE IF stage \in {"store", "request", "reduce"} THEN step + 1 ELSE step

\* The requests before this one have been made.
Requested ==
  IF stage = "begin" THEN 0
  ELSE IF stage = "reduce" THEN step + Lead + 1 ELSE step + Lead

\* The stores before this one have been waited for.
Released ==
  LET before == IF stage \in {"request", "reduce"} THEN step + 1 ELSE step
  IN IF stage = "done" THEN Steps
     ELSE IF before > Parities THEN before - Parities ELSE 0

\* What follows concerns requests and stores as pairs of bounds, so that the
\* steps of the proof can say which bound an action moves.
CombinePlaces ==
  /\ stage \in Inside => step < Steps
  /\ stage = "begin" => step = 0
  /\ stage \in {"drain", "done"} => step = Steps

RowInv ==
  /\ coming \subseteq Consumed..Requested - 1
  /\ \A k \in Consumed..Requested - 1 :
       /\ row_sem[BufferOf(k)] = IF k \in coming THEN 0 ELSE 1
       /\ k \notin coming => row_buf[BufferOf(k)] = StepOf(k)
  /\ \A p \in ParitySet :
       (\A k \in Consumed..Requested - 1 : BufferOf(k) # p) => row_sem[p] = 0
  /\ stage \in {"store", "request", "reduce"} => row_buf[BufferOf(step)] = step

StoreInv ==
  /\ leaving \subseteq Released..step - 1
  /\ \A s \in Released..step - 1 :
       /\ out_sem[BufferOf(s)] = IF s \in leaving THEN 0 ELSE 1
       /\ out_buf[BufferOf(s)] = s
  /\ \A p \in ParitySet :
       (\A s \in Released..step - 1 : BufferOf(s) # p) => out_sem[p] = 0
  /\ \A s \in 0..step - 1 : s \notin leaving => written[s] = s

CombineInv == TypeOK /\ CombinePlaces /\ RowInv /\ StoreInv

LEMMA Bounds ==
  ASSUME CombineInv
  PROVE  /\ step \in Nat /\ Steps \in Nat /\ Lead \in Nat /\ Parities \in Nat
         /\ 0 < Lead /\ Lead < Parities /\ Parities <= Steps /\ step <= Steps
         /\ Consumed \in Nat /\ Requested \in Nat /\ Released \in Nat
         /\ Requested <= step + Parities /\ Consumed >= step
         /\ step <= Released + Parities
         /\ Released <= step
BY CombineSteps DEF CombineInv, TypeOK, CombinePlaces, Inside, Consumed, Requested, Released

LEMMA InitCombineInv == CombineInit => CombineInv
<1> SUFFICES ASSUME CombineInit PROVE CombineInv  OBVIOUS
<1>1. /\ Parities \in Nat /\ Lead \in Nat /\ Steps \in Nat /\ Parities > 0
      /\ Lead < Parities /\ Steps >= Parities
  BY CombineSteps
<1>2. TypeOK  BY <1>1 DEF CombineInit, TypeOK, ParitySet, StepSet, None
<1>3. CombinePlaces  BY <1>1 DEF CombineInit, CombinePlaces, Inside
<1>4. Consumed = 0 /\ Requested = 0 /\ Released = 0
  BY <1>1 DEF CombineInit, Consumed, Requested, Released
<1>5. RowInv  BY <1>1, <1>4 DEF CombineInit, RowInv, ParitySet
<1>6. StoreInv  BY <1>1, <1>4 DEF CombineInit, StoreInv, ParitySet
<1> QED  BY <1>2, <1>3, <1>5, <1>6 DEF CombineInv

\* ParitiesApart, whichever is the greater.
LEMMA CombineApart ==
  ASSUME NEW i \in Nat, NEW j \in Nat, i # j, i < j + Parities, j < i + Parities
  PROVE  BufferOf(i) # BufferOf(j)
<1>1. CASE i < j  BY <1>1, ParitiesApart
<1>2. CASE j < i  BY <1>2, ParitiesApart
<1> QED  BY <1>1, <1>2

LEMMA RowsLandStep ==
  ASSUME CombineInv, NEW k \in coming, RowsLand(k)
  PROVE  CombineInv'
<1> USE DEF CombineInv
<1>1. /\ Consumed' = Consumed /\ Requested' = Requested /\ Released' = Released
      /\ step' = step /\ stage' = stage
  BY DEF RowsLand, Consumed, Requested, Released
<1>2. k \in Consumed..Requested - 1 /\ k \in Nat  BY Bounds DEF RowInv
<1>3. BufferOf(k) \in ParitySet  BY <1>2, ParityOf
<1>4. row_sem[BufferOf(k)] = 0  BY <1>2 DEF RowInv
<1>5. StepOf(k) \in StepSet
  BY <1>2, Bounds DEF StepOf, StepSet
<1>6. TypeOK'
  BY <1>3, <1>5, <1>4 DEF TypeOK, RowsLand
<1>7. CombinePlaces'  BY <1>1 DEF CombinePlaces
<1>8. RowInv'
  <2>1. (coming \subseteq Consumed..Requested - 1)'  BY <1>1 DEF RowInv, RowsLand
  <2>2. ASSUME NEW l \in Consumed..Requested - 1
        PROVE  /\ row_sem'[BufferOf(l)] = IF l \in coming' THEN 0 ELSE 1
               /\ l \notin coming' => row_buf'[BufferOf(l)] = StepOf(l)
    <3>1. l \in Nat /\ BufferOf(l) \in ParitySet  BY Bounds, ParityOf
    <3>2. CASE l = k
      BY <3>2, <1>3, <1>4 DEF RowsLand, TypeOK
    <3>3. CASE l # k
      <4>1. BufferOf(l) # BufferOf(k)  BY <1>2, <3>1, <3>3, Bounds, CombineApart
      <4> QED  BY <4>1, <3>1, <3>3, <1>3 DEF RowsLand, TypeOK, RowInv
    <3> QED  BY <3>2, <3>3
  <2>3. ASSUME NEW p \in ParitySet, \A l \in Consumed..Requested - 1 : BufferOf(l) # p
        PROVE  row_sem'[p] = 0
    <3>1. p # BufferOf(k)  BY <2>3, <1>2
    <3> QED  BY <3>1, <2>3, <1>3 DEF RowsLand, TypeOK, RowInv
  <2>4. ASSUME stage \in {"store", "request", "reduce"}
        PROVE  row_buf'[BufferOf(step)] = step
    <3>1. step \in Nat /\ BufferOf(step) \in ParitySet  BY Bounds, ParityOf
    <3>2. step < k  BY <2>4, <1>2, Bounds DEF Consumed
    <3>3. BufferOf(step) # BufferOf(k)  BY <3>1, <3>2, <1>2, Bounds, CombineApart
    <3> QED  BY <2>4, <3>1, <3>3, <1>3 DEF RowsLand, TypeOK, RowInv
  <2> QED  BY <2>1, <2>2, <2>3, <2>4, <1>1 DEF RowInv
<1>9. StoreInv'  BY <1>1 DEF StoreInv, RowsLand
<1> QED  BY <1>6, <1>7, <1>8, <1>9

LEMMA StoreLandsStep ==
  ASSUME CombineInv, NEW s \in leaving, StoreLands(s)
  PROVE  CombineInv'
<1> USE DEF CombineInv
<1>1. /\ Consumed' = Consumed /\ Requested' = Requested /\ Released' = Released
      /\ step' = step /\ stage' = stage
  BY DEF StoreLands, Consumed, Requested, Released
<1>2. s \in Released..step - 1 /\ s \in Nat /\ s \in StepSet
  BY Bounds DEF StoreInv, TypeOK
<1>3. BufferOf(s) \in ParitySet  BY <1>2, ParityOf
<1>4. out_sem[BufferOf(s)] = 0 /\ out_buf[BufferOf(s)] = s  BY <1>2 DEF StoreInv
<1>5. TypeOK'
  BY <1>2, <1>3, <1>4 DEF TypeOK, StoreLands
<1>6. CombinePlaces'  BY <1>1 DEF CombinePlaces
<1>7. RowInv'  BY <1>1 DEF RowInv, StoreLands
<1>8. StoreInv'
  <2>1. (leaving \subseteq Released..step - 1)'  BY <1>1 DEF StoreInv, StoreLands
  <2>2. ASSUME NEW z \in Released..step - 1
        PROVE  /\ out_sem'[BufferOf(z)] = IF z \in leaving' THEN 0 ELSE 1
               /\ out_buf'[BufferOf(z)] = z
    <3>1. z \in Nat /\ BufferOf(z) \in ParitySet  BY Bounds, ParityOf
    <3>2. CASE z = s
      BY <3>2, <1>3, <1>4 DEF StoreLands, TypeOK
    <3>3. CASE z # s
      <4>1. BufferOf(z) # BufferOf(s)  BY <1>2, <3>1, <3>3, Bounds, CombineApart
      <4> QED  BY <4>1, <3>1, <3>3, <1>3 DEF StoreLands, TypeOK, StoreInv
    <3> QED  BY <3>2, <3>3
  <2>3. ASSUME NEW p \in ParitySet, \A z \in Released..step - 1 : BufferOf(z) # p
        PROVE  out_sem'[p] = 0
    <3>1. p # BufferOf(s)  BY <2>3, <1>2
    <3> QED  BY <3>1, <2>3, <1>3 DEF StoreLands, TypeOK, StoreInv
  <2>4. ASSUME NEW z \in 0..step - 1, z \notin leaving'
        PROVE  written'[z] = z
    <3>1. z \in StepSet  BY Bounds DEF StepSet
    <3>2. CASE z = s  BY <3>1, <3>2, <1>4 DEF StoreLands, TypeOK
    <3>3. CASE z # s  BY <2>4, <3>1, <3>3, <1>2 DEF StoreLands, TypeOK, StoreInv
    <3> QED  BY <3>2, <3>3
  <2> QED  BY <2>1, <2>2, <2>3, <2>4, <1>1 DEF StoreInv
<1> QED  BY <1>5, <1>6, <1>7, <1>8

LEMMA FirstRowsStep ==
  ASSUME CombineInv, FirstRows
  PROVE  CombineInv'
<1> USE DEF CombineInv
<1>1. /\ step = 0 /\ step' = 0 /\ Consumed = 0 /\ Consumed' = 0
      /\ Requested = 0 /\ Requested' = Lead /\ Released = 0 /\ Released' = 0
  BY Bounds DEF FirstRows, CombinePlaces, Consumed, Requested, Released
<1>2. TypeOK'  BY <1>1, Bounds DEF TypeOK, FirstRows
<1>3. CombinePlaces'  BY <1>1, Bounds DEF CombinePlaces, FirstRows, Inside
<1>4. RowInv'
  <2>1. (coming \subseteq Consumed..Requested - 1)'  BY <1>1 DEF FirstRows
  <2>2. ASSUME NEW l \in 0..Lead - 1
        PROVE  row_sem'[BufferOf(l)] = 0 /\ l \in coming'
    <3>1. l \in Nat /\ BufferOf(l) \in ParitySet  BY Bounds, ParityOf
    <3> QED  BY <1>1, <3>1, Bounds DEF FirstRows, RowInv
  <2>3. ASSUME NEW p \in ParitySet PROVE row_sem'[p] = 0
    BY <1>1, Bounds DEF FirstRows, RowInv
  <2> QED  BY <1>1, <2>1, <2>2, <2>3 DEF RowInv, FirstRows
<1>5. StoreInv'  BY <1>1 DEF StoreInv, FirstRows
<1> QED  BY <1>2, <1>3, <1>4, <1>5

LEMMA AwaitRowsStep ==
  ASSUME CombineInv, AwaitRows
  PROVE  CombineInv'
<1> USE DEF CombineInv
<1>1. /\ step' = step /\ step < Steps /\ Consumed = step /\ Consumed' = step + 1
      /\ Requested' = Requested /\ Requested = step + Lead /\ Released' = Released
  BY Bounds DEF AwaitRows, CombinePlaces, Consumed, Requested, Released, Inside
<1>2. step \in Nat /\ BufferOf(step) \in ParitySet  BY Bounds, ParityOf
<1>3. step \in Consumed..Requested - 1  BY <1>1, Bounds
<1>4. step \notin coming /\ row_sem[BufferOf(step)] = 1
  BY <1>3 DEF AwaitRows, RowInv
<1>5. row_buf[BufferOf(step)] = step
  BY <1>1, <1>3, <1>4 DEF RowInv, StepOf
<1>6. TypeOK'  BY <1>2, <1>4 DEF TypeOK, AwaitRows
<1>7. CombinePlaces'  BY <1>1 DEF CombinePlaces, AwaitRows, Inside
<1>8. RowInv'
  <2>1. (coming \subseteq Consumed..Requested - 1)'
    BY <1>1, <1>4, Bounds DEF RowInv, AwaitRows
  <2>2. ASSUME NEW l \in step + 1..Requested - 1
        PROVE  /\ row_sem'[BufferOf(l)] = IF l \in coming' THEN 0 ELSE 1
               /\ l \notin coming' => row_buf'[BufferOf(l)] = StepOf(l)
    <3>1. l \in Nat /\ BufferOf(l) \in ParitySet  BY Bounds, ParityOf
    <3>2. BufferOf(l) # BufferOf(step)  BY <1>2, <3>1, Bounds, CombineApart
    <3>3. l \in Consumed..Requested - 1  BY <1>1, Bounds
    <3> QED  BY <3>1, <3>2, <3>3, <1>2 DEF AwaitRows, TypeOK, RowInv
  <2>3. ASSUME NEW p \in ParitySet, \A l \in step + 1..Requested - 1 : BufferOf(l) # p
        PROVE  row_sem'[p] = 0
    <3>1. CASE p = BufferOf(step)  BY <3>1, <1>2, <1>4 DEF AwaitRows, TypeOK
    <3>2. CASE p # BufferOf(step)
      <4>1. \A l \in Consumed..Requested - 1 : BufferOf(l) # p
        BY <2>3, <3>2, <1>1, Bounds
      <4> QED  BY <4>1, <3>2, <1>2 DEF AwaitRows, TypeOK, RowInv
    <3> QED  BY <3>1, <3>2
  <2> QED  BY <1>1, <1>5, <2>1, <2>2, <2>3 DEF RowInv, AwaitRows
<1>9. StoreInv'  BY <1>1 DEF StoreInv, AwaitRows
<1> QED  BY <1>6, <1>7, <1>8, <1>9

LEMMA AwaitStoreStep ==
  ASSUME CombineInv, AwaitStore
  PROVE  CombineInv'
<1> USE DEF CombineInv
<1>1. /\ step' = step /\ step < Steps /\ Consumed' = Consumed /\ Requested' = Requested
  BY Bounds DEF AwaitStore, CombinePlaces, Consumed, Requested, Inside
<1>2. step \in Nat /\ BufferOf(step) \in ParitySet  BY Bounds, ParityOf
<1>3. CombinePlaces'  BY <1>1 DEF CombinePlaces, AwaitStore, Inside
<1>4. RowInv'
  <2>1. stage = "store" /\ stage' = "request" /\ row_buf' = row_buf /\ coming' = coming
        /\ row_sem' = row_sem
    BY DEF AwaitStore
  <2> QED  BY <1>1, <2>1 DEF RowInv
<1>5. CASE step < Parities /\ out_sem' = out_sem
  <2>1. Released = 0 /\ Released' = 0  BY <1>5, Bounds DEF Released, AwaitStore
  <2>2. TypeOK'  BY <1>5 DEF TypeOK, AwaitStore
  <2>3. StoreInv'  BY <1>1, <1>5, <2>1 DEF StoreInv, AwaitStore
  <2> QED  BY <2>2, <2>3, <1>3, <1>4
<1>6. CASE /\ step >= Parities /\ out_sem[BufferOf(step)] >= 1
           /\ out_sem' = [out_sem EXCEPT ![BufferOf(step)] = @ - 1]
  <2> DEFINE old == step - Parities
  <2>1. old \in Nat /\ BufferOf(old) = BufferOf(step)  BY <1>2, <1>6, ParityBefore
  <2>2. Released = old /\ Released' = old + 1
    BY <1>6, Bounds DEF Released, AwaitStore
  <2>3. old \in Released..step - 1  BY <2>1, <2>2, Bounds
  <2>4. old \notin leaving /\ out_sem[BufferOf(step)] = 1
    BY <1>6, <2>1, <2>3 DEF StoreInv
  <2>5. TypeOK'  BY <1>2, <1>6, <2>4 DEF TypeOK, AwaitStore
  <2>6. (leaving \subseteq Released..step - 1)'
    BY <1>1, <2>2, <2>4, Bounds DEF StoreInv, AwaitStore
  <2>7. ASSUME NEW z \in old + 1..step - 1
        PROVE  /\ out_sem'[BufferOf(z)] = IF z \in leaving' THEN 0 ELSE 1
               /\ out_buf'[BufferOf(z)] = z
    <3>1. z \in Nat /\ BufferOf(z) \in ParitySet  BY <2>1, Bounds, ParityOf
    <3>2. BufferOf(z) # BufferOf(step)  BY <1>2, <2>1, <3>1, Bounds, CombineApart
    <3>3. z \in Released..step - 1  BY <2>1, <2>2, Bounds
    <3> QED  BY <1>2, <1>6, <3>1, <3>2, <3>3 DEF AwaitStore, TypeOK, StoreInv
  <2>8. ASSUME NEW p \in ParitySet, \A z \in old + 1..step - 1 : BufferOf(z) # p
        PROVE  out_sem'[p] = 0
    <3>1. CASE p = BufferOf(step)  BY <3>1, <1>2, <1>6, <2>4 DEF TypeOK
    <3>2. CASE p # BufferOf(step)
      <4>1. \A z \in Released..step - 1 : BufferOf(z) # p
        BY <2>8, <2>1, <2>2, <3>2, Bounds
      <4> QED  BY <4>1, <3>2, <1>2, <1>6 DEF TypeOK, StoreInv
    <3> QED  BY <3>1, <3>2
  <2>9. StoreInv'
    BY <1>1, <2>2, <2>6, <2>7, <2>8 DEF StoreInv, AwaitStore
  <2> QED  BY <2>5, <2>9, <1>3, <1>4
<1> QED  BY <1>5, <1>6 DEF AwaitStore

LEMMA RequestStep ==
  ASSUME CombineInv, Request
  PROVE  CombineInv'
<1> USE DEF CombineInv
<1> DEFINE new == step + Lead
<1>1. /\ step' = step /\ step < Steps /\ Consumed' = Consumed /\ Consumed = step + 1
      /\ Requested = new /\ Requested' = new + 1 /\ Released' = Released
  BY Bounds DEF Request, CombinePlaces, Consumed, Requested, Released, Inside
<1>2. new \in Nat /\ BufferOf(new) \in ParitySet  BY Bounds, ParityOf
<1>3. row_sem[BufferOf(new)] = 0
  <2>1. ASSUME NEW l \in Consumed..Requested - 1 PROVE BufferOf(l) # BufferOf(new)
    <3>1. l \in Nat  BY Bounds
    <3> QED  BY <3>1, <1>1, <1>2, Bounds, CombineApart
  <2> QED  BY <2>1, <1>2 DEF RowInv
<1>4. TypeOK'
  <2>1. new \in 0..Steps + Lead - 1  BY <1>1, <1>2, Bounds
  <2> HIDE DEF new
  <2>2. coming' = coming \cup {new}  BY DEF Request, new
  <2> QED  BY <2>1, <2>2 DEF TypeOK, Request
<1>5. CombinePlaces'  BY <1>1 DEF CombinePlaces, Request, Inside
<1>6. RowInv'
  <2>1. (coming \subseteq Consumed..Requested - 1)'
    <3>1. coming \subseteq Consumed..new - 1  BY <1>1 DEF RowInv
    <3>2. new \in Consumed..new  BY <1>1, <1>2, Bounds
    <3>3. Consumed..new - 1 \subseteq Consumed..new  BY <1>2, Bounds
    <3>4. (new + 1) - 1 = new  BY <1>2
    <3> HIDE DEF new
    <3>5. coming' = coming \cup {new}  BY DEF Request, new
    <3> QED  BY <3>1, <3>2, <3>3, <3>4, <3>5, <1>1
  <2>2. ASSUME NEW l \in Consumed..new
        PROVE  /\ row_sem'[BufferOf(l)] = IF l \in coming' THEN 0 ELSE 1
               /\ l \notin coming' => row_buf'[BufferOf(l)] = StepOf(l)
    <3>1. CASE l = new  BY <3>1, <1>3 DEF Request
    <3>2. CASE l # new
      <4>1. l \in Consumed..Requested - 1  BY <3>2, <1>1, <1>2, Bounds
      <4> QED  BY <4>1, <3>2 DEF Request, RowInv
    <3> QED  BY <3>1, <3>2
  <2>3. ASSUME NEW p \in ParitySet, \A l \in Consumed..new : BufferOf(l) # p
        PROVE  row_sem'[p] = 0
    <3>1. \A l \in Consumed..Requested - 1 : BufferOf(l) # p  BY <2>3, <1>1, <1>2, Bounds
    <3> QED  BY <3>1 DEF Request, RowInv
  <2>4. row_buf'[BufferOf(step)] = step  BY DEF Request, RowInv
  <2>5. (new + 1) - 1 = new  BY <1>2
  <2> QED  BY <1>1, <2>1, <2>2, <2>3, <2>4, <2>5 DEF RowInv, Request
<1>7. StoreInv'  BY <1>1 DEF StoreInv, Request
<1> QED  BY <1>4, <1>5, <1>6, <1>7

LEMMA ReduceStep ==
  ASSUME CombineInv, Reduce
  PROVE  CombineInv'
<1> USE DEF CombineInv
<1>1. /\ step' = step + 1 /\ step < Steps /\ Consumed' = Consumed
      /\ Consumed = step + 1 /\ Requested' = Requested /\ Released' = Released
  BY Bounds DEF Reduce, CombinePlaces, Consumed, Requested, Released, Inside
<1>2. step \in StepSet /\ BufferOf(step) \in ParitySet
  BY <1>1, Bounds, ParityOf DEF StepSet
<1>3. row_buf[BufferOf(step)] = step  BY DEF Reduce, RowInv
<1>4. Released <= step /\ step < Released + Parities
  BY <1>1, Bounds DEF Released, Reduce
<1>5. ASSUME NEW z \in Released..step - 1 PROVE BufferOf(z) # BufferOf(step)
  <2>1. z \in Nat /\ step \in Nat  BY Bounds
  <2> QED  BY <2>1, <1>4, Bounds, CombineApart
<1>6. out_sem[BufferOf(step)] = 0  BY <1>2, <1>5 DEF StoreInv
<1>7. TypeOK'
  <2>1. step + 1 \in 0..Steps  BY <1>1, Bounds
  <2>2. stage' \in {"rows", "drain"}  BY DEF Reduce
  <2> QED  BY <1>2, <1>3, <2>1, <2>2 DEF TypeOK, Reduce
<1>8. CombinePlaces'  BY <1>1, Bounds DEF CombinePlaces, Reduce, Inside
<1>9. RowInv'
  <2>1. stage' \notin {"store", "request", "reduce"}  BY DEF Reduce
  <2>2. coming' = coming /\ row_buf' = row_buf /\ row_sem' = row_sem  BY DEF Reduce
  <2> QED  BY <1>1, <2>1, <2>2 DEF RowInv
<1>10. StoreInv'
  <2>1. (step + 1) - 1 = step  BY Bounds
  <2>2. leaving' \subseteq Released..step
    <3>1. step \in Released..step /\ Released..step - 1 \subseteq Released..step
      BY <1>4, Bounds
    <3> QED  BY <3>1 DEF Reduce, StoreInv
  <2>3. ASSUME NEW z \in Released..step
        PROVE  /\ out_sem'[BufferOf(z)] = IF z \in leaving' THEN 0 ELSE 1
               /\ out_buf'[BufferOf(z)] = z
    <3>1. CASE z = step  BY <3>1, <1>2, <1>3, <1>6 DEF Reduce, TypeOK
    <3>2. CASE z # step
      <4>1. z \in Released..step - 1  BY <3>2, Bounds
      <4>2. z \in Nat /\ BufferOf(z) \in ParitySet  BY Bounds, ParityOf
      <4>3. BufferOf(z) # BufferOf(step)  BY <4>1, <1>5
      <4> QED  BY <4>1, <4>2, <4>3, <1>2, <3>2 DEF Reduce, TypeOK, StoreInv
    <3> QED  BY <3>1, <3>2
  <2>4. ASSUME NEW p \in ParitySet, \A z \in Released..step : BufferOf(z) # p
        PROVE  out_sem'[p] = 0
    <3>1. \A z \in Released..step - 1 : BufferOf(z) # p  BY <2>4, Bounds
    <3> QED  BY <3>1 DEF Reduce, StoreInv
  <2>5. ASSUME NEW z \in 0..step, z \notin leaving'
        PROVE  written'[z] = z
    <3>1. z # step /\ z \notin leaving  BY <2>5 DEF Reduce
    <3>2. z \in 0..step - 1  BY <3>1, Bounds
    <3> QED  BY <3>1, <3>2 DEF Reduce, StoreInv
  <2> QED  BY <1>1, <2>1, <2>2, <2>3, <2>4, <2>5 DEF StoreInv
<1> QED  BY <1>7, <1>8, <1>9, <1>10

\* When the drains have passed, every request and every store has landed.
LEMMA DrainedAll ==
  ASSUME CombineInv, Drain
  PROVE  /\ step = Steps /\ coming = {} /\ leaving = {}
         /\ \A p \in ParitySet : row_sem[p] = IF p < Lead THEN 1 ELSE 0
         /\ \A p \in ParitySet : out_sem[p] = 1
<1> USE DEF CombineInv
<1>1. /\ step = Steps /\ Consumed = Steps /\ Requested = Steps + Lead
      /\ Released = Steps - Parities
  BY Bounds DEF Drain, CombinePlaces, Consumed, Requested, Released
<1>2. ASSUME NEW k \in Steps..Steps + Lead - 1
      PROVE  k \notin coming /\ row_sem[BufferOf(k)] = 1
    <2> DEFINE j == k - Steps
    <2>1. j \in ParitySet /\ j \in 0..Lead - 1 /\ k = Steps + j  BY Bounds DEF ParitySet
    <2>2. BufferOf(k) = j  BY <2>1, ParityOfRestart
    <2>3. row_sem[BufferOf(k)] >= 1  BY <2>1, <2>2 DEF Drain
    <2>4. k \in Consumed..Requested - 1  BY <1>1, Bounds
    <2>5. row_sem[BufferOf(k)] = IF k \in coming THEN 0 ELSE 1  BY <2>4 DEF RowInv
    <2> QED  BY <2>3, <2>5
<1>3. coming = {}
  <2>1. coming \subseteq Steps..Steps + Lead - 1  BY <1>1, Bounds DEF RowInv
  <2> QED  BY <2>1, <1>2
<1>4. ASSUME NEW p \in ParitySet
      PROVE  row_sem[p] = IF p < Lead THEN 1 ELSE 0
  <2>1. p \in Nat /\ p < Parities  BY Bounds DEF ParitySet
  <2>2. CASE p < Lead
    <3>1. Steps + p \in Steps..Steps + Lead - 1  BY <2>1, <2>2, Bounds
    <3>2. BufferOf(Steps + p) = p  BY ParityOfRestart
    <3> QED  BY <3>1, <3>2, <1>2, <2>2
  <2>3. CASE ~(p < Lead)
    <3>1. ASSUME NEW k \in Consumed..Requested - 1 PROVE BufferOf(k) # p
      <4> DEFINE j == k - Steps
      <4>1. j \in ParitySet /\ j < Lead /\ k = Steps + j  BY <1>1, Bounds DEF ParitySet
      <4>2. BufferOf(k) = j  BY <4>1, ParityOfRestart
      <4> QED  BY <4>1, <4>2, <2>3
    <3> QED  BY <3>1, <2>3 DEF RowInv
  <2> QED  BY <2>2, <2>3
<1>5. ASSUME NEW s \in Released..step - 1 PROVE s \notin leaving
  <2>1. s \in Nat /\ BufferOf(s) \in ParitySet  BY Bounds, ParityOf
  <2>2. out_sem[BufferOf(s)] >= 1  BY <2>1 DEF Drain
  <2> QED  BY <2>2 DEF StoreInv
<1>6. leaving = {}  BY <1>5 DEF StoreInv
<1>7. ASSUME NEW p \in ParitySet PROVE out_sem[p] = 1
  <2>1. out_sem[p] >= 1  BY DEF Drain
  <2>2. PICK s \in Released..step - 1 : BufferOf(s) = p  BY <2>1 DEF StoreInv
  <2> QED  BY <2>2, <1>6 DEF StoreInv
<1> QED  BY <1>1, <1>3, <1>4, <1>6, <1>7

LEMMA DrainStep ==
  ASSUME CombineInv, Drain
  PROVE  CombineInv'
<1> USE DEF CombineInv
<1>1. /\ step' = Steps /\ step = Steps /\ stage' = "done" /\ Consumed' = Steps + Lead
      /\ Requested' = Steps + Lead /\ Released' = Steps
  BY DrainedAll DEF Drain, Consumed, Requested, Released
<1>2. \A p \in ParitySet : row_sem'[p] = 0 /\ out_sem'[p] = 0
  BY DrainedAll DEF Drain
<1>3. coming' = {} /\ leaving' = {}  BY DrainedAll DEF Drain
<1>4. TypeOK'
  <2>1. row_sem' \in [ParitySet -> Nat] /\ out_sem' \in [ParitySet -> Nat]
    BY <1>2 DEF Drain
  <2> QED  BY <2>1, <1>1, <1>3, Bounds DEF TypeOK, Drain
<1>5. CombinePlaces'  BY <1>1 DEF CombinePlaces, Inside
<1>6. (Steps + Lead)..(Steps + Lead) - 1 = {} /\ Steps..Steps - 1 = {}  BY Bounds
<1>7. RowInv'  BY <1>1, <1>2, <1>3, <1>6 DEF RowInv
<1>8. StoreInv'
  <2>1. ASSUME NEW z \in 0..step - 1 PROVE written'[z] = z
    BY DrainedAll DEF Drain, StoreInv
  <2> QED  BY <2>1, <1>1, <1>2, <1>3, <1>6 DEF StoreInv
<1> QED  BY <1>4, <1>5, <1>7, <1>8

LEMMA NextCombineInv == CombineInv /\ [CombineNext]_combineVars => CombineInv'
<1> SUFFICES ASSUME CombineInv, [CombineNext]_combineVars PROVE CombineInv'  OBVIOUS
<1>1. CASE FirstRows  BY <1>1, FirstRowsStep
<1>2. CASE AwaitRows  BY <1>2, AwaitRowsStep
<1>3. CASE AwaitStore  BY <1>3, AwaitStoreStep
<1>4. CASE Request  BY <1>4, RequestStep
<1>5. CASE Reduce  BY <1>5, ReduceStep
<1>6. CASE Drain  BY <1>6, DrainStep
<1>7. CASE CombineDone \/ UNCHANGED combineVars
  BY <1>7 DEF CombineDone, combineVars, CombineInv, TypeOK, CombinePlaces, RowInv, StoreInv, Consumed,
              Requested, Released
<1>8. CASE \E k \in coming : RowsLand(k)  BY <1>8, RowsLandStep
<1>9. CASE \E s \in leaving : StoreLands(s)  BY <1>9, StoreLandsStep
<1> QED  BY <1>1, <1>2, <1>3, <1>4, <1>5, <1>6, <1>7, <1>8, <1>9 DEF CombineNext

LEMMA CombineInductive == CombineSpec => []CombineInv
<1> QED  BY InitCombineInv, NextCombineInv, PTL DEF CombineSpec

-----------------------------------------------------------------------------
\* Every variable keeps its type, no semaphore goes below zero and no request
\* is made beyond the ones that are drained (kernel.py:2212-2290).
THEOREM TypeCorrect == CombineSpec => []TypeOK
<1>1. CombineInv => TypeOK  BY DEF CombineInv
<1> QED  BY <1>1, CombineInductive, PTL

\* Whatever the rotation and the lead below it, a step reduces its own rows,
\* in a buffer that no copy is on its way into or out of, and stores leave
\* with their own sums (kernel.py:2238-2272).
THEOREM StepsOwnBuffers == CombineSpec => []OwnSteps
<1>1. ASSUME CombineInv PROVE OwnSteps
  <2> USE <1>1 DEF CombineInv
  <2>1. ASSUME stage = "reduce"
        PROVE  /\ row_buf[BufferOf(step)] = step
               /\ \A k \in coming : BufferOf(k) # BufferOf(step)
               /\ \A s \in leaving : BufferOf(s) # BufferOf(step)
    <3>1. step \in Nat /\ Consumed = step + 1 /\ step < Released + Parities
      BY <2>1, Bounds DEF Consumed, Released
    <3>2. ASSUME NEW k \in coming PROVE BufferOf(k) # BufferOf(step)
      <4>1. k \in Consumed..Requested - 1  BY DEF RowInv
      <4>2. k \in Nat  BY <4>1, Bounds
      <4> QED  BY <4>1, <4>2, <3>1, Bounds, CombineApart
    <3>3. ASSUME NEW s \in leaving PROVE BufferOf(s) # BufferOf(step)
      <4>1. s \in Released..step - 1  BY DEF StoreInv
      <4>2. s \in Nat  BY <4>1, Bounds
      <4> QED  BY <4>1, <4>2, <3>1, Bounds, CombineApart
    <3> QED  BY <2>1, <3>2, <3>3 DEF RowInv
  <2>2. \A s \in leaving : out_buf[BufferOf(s)] = s  BY DEF StoreInv
  <2> QED  BY <2>1, <2>2 DEF OwnSteps
<1> QED  BY <1>1, CombineInductive, PTL

\* At the end every step's sums are in HBM and nothing is in flight or
\* counted that a later call would take for its own (kernel.py:2284-2290).
THEOREM CombineComplete == CombineSpec => []Complete
<1>1. ASSUME CombineInv PROVE Complete
  <2> USE <1>1 DEF CombineInv
  <2> SUFFICES ASSUME stage = "done"
               PROVE  /\ \A s \in StepSet : written[s] = s
                      /\ coming = {} /\ leaving = {}
                      /\ \A p \in ParitySet : row_sem[p] = 0 /\ out_sem[p] = 0
    BY DEF Complete
  <2>1. /\ step = Steps /\ Consumed = Steps + Lead /\ Requested = Steps + Lead
        /\ Released = Steps
    BY DEF CombinePlaces, Consumed, Requested, Released
  <2>2. (Steps + Lead)..(Steps + Lead) - 1 = {} /\ Steps..Steps - 1 = {}  BY Bounds
  <2>3. coming = {} /\ leaving = {}  BY <2>1, <2>2 DEF RowInv, StoreInv
  <2>4. \A p \in ParitySet : row_sem[p] = 0 /\ out_sem[p] = 0
    BY <2>1, <2>2 DEF RowInv, StoreInv
  <2>5. \A s \in StepSet : written[s] = s  BY <2>1, <2>3 DEF StoreInv, StepSet
  <2> QED  BY <2>3, <2>4, <2>5
<1> QED  BY <1>1, CombineInductive, PTL
=============================================================================

------------------------- MODULE MoeExchangeProofs -------------------------
(***************************************************************************)
(* Proofs about MoeExchange, for every number of shards, every routing and  *)
(* every number of rounds: the two phases of _all_pairs_barrier keep the    *)
(* shards together, free the semaphore of the collective id before anyone   *)
(* leaves, and make the exchange an all-to-all.                             *)
(*                                                                          *)
(* A shard goes through two barriers a round.  Signalled(s) counts the      *)
(* first phases that s has signalled, Met(s) those that it has passed, when *)
(* it signals the second phase, and Left(s) the second phases it has        *)
(* passed.  What a semaphore holds, and what is on its way to it, are the   *)
(* signals of the shards that are one count ahead.                          *)
(***************************************************************************)
EXTENDS MoeExchange, FiniteSums, FunctionTheorems, FiniteSetTheorems, TLAPS

Signalled(s) ==
  2 * (round[s] - 1) +
  (IF pc[s] \in {"layer", "gathering"} THEN 0
   ELSE IF pc[s] \in {"entry1", "entry2", "inside"} THEN 1 ELSE 2)

Met(s) ==
  2 * (round[s] - 1) +
  (IF pc[s] \in {"layer", "gathering", "entry1"} THEN 0
   ELSE IF pc[s] \in {"entry2", "inside", "exit1"} THEN 1 ELSE 2)

Left(s) ==
  2 * (round[s] - 1) +
  (IF pc[s] \in {"layer", "gathering", "entry1", "entry2"} THEN 0
   ELSE IF pc[s] \in {"inside", "exit1", "exit2"} THEN 1 ELSE 2)

\* The shards whose signal for the current phase of s has been sent.
Ahead1(s) == {d \in Shards : Signalled(d) > Met(s)}
Ahead2(s) == {d \in Shards : Met(d) > Left(s)}

PhaseTypes ==
  /\ pc \in [Shards -> Places] /\ round \in [Shards -> 1..Rounds]
  /\ signalled["barrier"] \in [Shards -> Nat] /\ signalled["second"] \in [Shards -> Nat]
  /\ sem["barrier"] \in [Shards -> Nat] /\ sem["second"] \in [Shards -> Nat]
  /\ DOMAIN signalled = Phases /\ DOMAIN sem = Sems

\* Nobody passes a phase before all have signalled it.
Order == \A s, d \in Shards : Met(s) <= Signalled(d) /\ Left(s) <= Met(d)

\* Nobody enters the kernel before all have given their routing.
GatherInv ==
  \A s, d \in Shards : pc[s] \notin {"layer", "gathering"} =>
    round[d] > round[s] \/ (round[d] = round[s] /\ pc[d] # "layer")

CountInv ==
  \A s \in Shards :
    /\ sem["barrier"][s] + signalled["barrier"][s] = Cardinality(Ahead1(s))
    /\ sem["second"][s] + signalled["second"][s] = Cardinality(Ahead2(s))

IInv == PhaseTypes /\ Order /\ GatherInv /\ CountInv

LEMMA ShardsFinite ==
  /\ EP \in Nat /\ EP > 0
  /\ IsFiniteSet(Shards) /\ Cardinality(Shards) = EP
<1>1. EP \in Nat /\ EP > 0  BY PlanArguments
<1> QED  BY <1>1, FS_Interval DEF Shards

\* A set of shards as large as their number is all of them.
LEMMA AllShards ==
  ASSUME NEW S \in SUBSET Shards
  PROVE  /\ IsFiniteSet(S) /\ Cardinality(S) \in Nat /\ Cardinality(S) <= EP
         /\ Cardinality(S) >= EP => S = Shards
<1>1. IsFiniteSet(S) /\ Cardinality(S) <= Cardinality(Shards)
      /\ (Cardinality(Shards) = Cardinality(S) => Shards = S)
  BY ShardsFinite, FS_Subset
<1>2. Cardinality(S) \in Nat  BY <1>1, FS_CardinalityType
<1> QED  BY <1>1, <1>2, ShardsFinite

\* One phase is at most one count ahead of the other.
LEMMA Lockstep ==
  ASSUME PhaseTypes, Order, NEW s \in Shards, NEW d \in Shards
  PROVE  /\ Signalled(d) \in Nat /\ Met(d) \in Nat /\ Left(d) \in Nat
         /\ Signalled(d) <= Left(d) + 1
         /\ Signalled(d) <= Met(s) + 1 /\ Met(d) <= Left(s) + 1
<1>1. ASSUME NEW x \in Shards
      PROVE  /\ Signalled(x) \in Nat /\ Met(x) \in Nat /\ Left(x) \in Nat
             /\ Signalled(x) <= Left(x) + 1
  <2>1. round[x] \in Nat /\ round[x] >= 1 /\ pc[x] \in Places
    BY RoundsAssumption DEF PhaseTypes
  <2> QED  BY <2>1 DEF Signalled, Met, Left, Places
<1>2. Left(d) <= Met(s) /\ Met(d) <= Signalled(s) /\ Left(s) <= Met(d)  BY DEF Order
<1> QED  BY <1>1, <1>2

LEMMA InitIInv == Init => IInv
<1> SUFFICES ASSUME Init PROVE IInv  OBVIOUS
<1>1. Rounds \in Nat /\ Rounds >= 1  BY RoundsAssumption
<1>2. PhaseTypes
  <2>1. {"barrier", "second"} \subseteq Sems /\ "layer" \in Places
    BY DEF Sems, Phases, Places
  <2> QED  BY <1>1, <2>1 DEF Init, PhaseTypes, Phases
<1>3. ASSUME NEW s \in Shards PROVE Signalled(s) = 0 /\ Met(s) = 0 /\ Left(s) = 0
  BY DEF Init, Signalled, Met, Left
<1>4. Order  BY <1>3 DEF Order
<1>5. GatherInv  BY DEF Init, GatherInv
<1>6. CountInv
  <2> SUFFICES ASSUME NEW s \in Shards
               PROVE  /\ sem["barrier"][s] + signalled["barrier"][s] = Cardinality(Ahead1(s))
                      /\ sem["second"][s] + signalled["second"][s] = Cardinality(Ahead2(s))
    BY DEF CountInv
  <2>1. Ahead1(s) = {} /\ Ahead2(s) = {}  BY <1>3 DEF Ahead1, Ahead2
  <2>2. {"barrier", "second"} \subseteq Sems  BY DEF Sems, Phases
  <2> QED  BY <2>1, <2>2, FS_EmptySet DEF Init, Phases
<1> QED  BY <1>2, <1>4, <1>5, <1>6 DEF IInv

\* A shard that sends its first-phase signals joins those ahead of the others.
LEMMA FirstSignals ==
  ASSUME IInv, NEW s \in Shards, SignalOthers(s, "barrier"),
         sem'["barrier"] = [sem["barrier"] EXCEPT ![s] = @ + 1],
         sem'["second"] = sem["second"], DOMAIN sem' = Sems,
         Signalled(s) = Left(s), Signalled(s)' = Signalled(s) + 1,
         \A d \in Shards \ {s} : Signalled(d)' = Signalled(d),
         \A d \in Shards : Met(d)' = Met(d) /\ Left(d)' = Left(d)
  PROVE  /\ Order' /\ CountInv'
         /\ signalled'["barrier"] \in [Shards -> Nat]
         /\ signalled'["second"] \in [Shards -> Nat] /\ DOMAIN signalled' = Phases
         /\ sem'["barrier"] \in [Shards -> Nat] /\ sem'["second"] \in [Shards -> Nat]
<1> USE DEF IInv
<1>1. /\ signalled'["barrier"] =
           [d \in Shards |-> IF d = s THEN signalled["barrier"][d]
                             ELSE signalled["barrier"][d] + 1]
      /\ signalled'["second"] = signalled["second"] /\ DOMAIN signalled' = Phases
  BY DEF SignalOthers, PhaseTypes, Phases
<1>2. Order'  BY Lockstep DEF Order
<1>3. ASSUME NEW x \in Shards
      PROVE  /\ (sem["barrier"][x] + signalled["barrier"][x])' = Cardinality(Ahead1(x)')
             /\ (sem["second"][x] + signalled["second"][x])' = Cardinality(Ahead2(x)')
  <2>1. Signalled(s) = Met(x)
    BY Lockstep DEF Order
  <2>2. Ahead1(x)' = Ahead1(x) \cup {s} /\ s \notin Ahead1(x)
    BY <2>1, Lockstep DEF Ahead1
  <2>3. IsFiniteSet(Ahead1(x)) /\ Cardinality(Ahead1(x)) \in Nat
    BY AllShards DEF Ahead1
  <2>4. Cardinality(Ahead1(x)') = Cardinality(Ahead1(x)) + 1
    BY <2>2, <2>3, FS_AddElement
  <2>5. Ahead2(x)' = Ahead2(x)  BY DEF Ahead2
  <2>6. sem'["barrier"][x] + signalled'["barrier"][x]
          = sem["barrier"][x] + signalled["barrier"][x] + 1
    BY <1>1 DEF PhaseTypes
  <2> QED  BY <1>1, <2>3, <2>4, <2>5, <2>6 DEF CountInv
<1> QED  BY <1>1, <1>2, <1>3 DEF CountInv, PhaseTypes

LEMMA EnterStep ==
  ASSUME IInv, NEW s \in Shards, Enter(s)
  PROVE  IInv'
<1> USE DEF IInv
<1>1. /\ pc[s] = "gathering" /\ pc' = [pc EXCEPT ![s] = "entry1"] /\ round' = round
      /\ round[s] \in Nat
  BY RoundsAssumption DEF Enter, Goto, PhaseTypes
<1>2. /\ Signalled(s) = Left(s) /\ Signalled(s)' = Signalled(s) + 1
      /\ Met(s)' = Met(s) /\ Left(s)' = Left(s)
  BY <1>1 DEF Signalled, Met, Left, PhaseTypes
<1>3. \A d \in Shards \ {s} :
        Signalled(d)' = Signalled(d) /\ Met(d)' = Met(d) /\ Left(d)' = Left(d)
  BY <1>1 DEF Signalled, Met, Left, PhaseTypes
<1>4. /\ SignalOthers(s, "barrier") /\ DOMAIN sem' = Sems
      /\ sem'["barrier"] = [sem["barrier"] EXCEPT ![s] = @ + 1]
      /\ sem'["second"] = sem["second"]
  BY DEF Enter, PhaseTypes, Sems, Phases
<1>5. /\ Order' /\ CountInv'
      /\ signalled'["barrier"] \in [Shards -> Nat]
      /\ signalled'["second"] \in [Shards -> Nat] /\ DOMAIN signalled' = Phases
      /\ sem'["barrier"] \in [Shards -> Nat] /\ sem'["second"] \in [Shards -> Nat]
  BY <1>2, <1>3, <1>4, FirstSignals
<1>6. PhaseTypes'  BY <1>1, <1>4, <1>5 DEF PhaseTypes, Places
<1>7. GatherInv'
  BY <1>1 DEF GatherInv, Gathered, Enter, PhaseTypes
<1> QED  BY <1>5, <1>6, <1>7

LEMMA DrainTransportStep ==
  ASSUME IInv, NEW s \in Shards, DrainTransport(s)
  PROVE  IInv'
<1> USE DEF IInv
<1>1. /\ pc[s] = "inside" /\ pc' = [pc EXCEPT ![s] = "exit1"] /\ round' = round
      /\ round[s] \in Nat
  BY RoundsAssumption DEF DrainTransport, Goto, PhaseTypes
<1>2. /\ Signalled(s) = Left(s) /\ Signalled(s)' = Signalled(s) + 1
      /\ Met(s)' = Met(s) /\ Left(s)' = Left(s)
  BY <1>1 DEF Signalled, Met, Left, PhaseTypes
<1>3. \A d \in Shards \ {s} :
        Signalled(d)' = Signalled(d) /\ Met(d)' = Met(d) /\ Left(d)' = Left(d)
  BY <1>1 DEF Signalled, Met, Left, PhaseTypes
<1>4. /\ SignalOthers(s, "barrier") /\ DOMAIN sem' = Sems
      /\ sem'["barrier"] = [sem["barrier"] EXCEPT ![s] = @ + 1]
      /\ sem'["second"] = sem["second"]
  <2>1. "barrier" \in Sems /\ "second" \in Sems  BY DEF Sems, Phases
  <2>2. sem' = [x \in Sems |->
          [sem[x] EXCEPT ![s] = CASE x = "barrier" -> @ + 1
                                  [] x = "second" -> @
                                  [] OTHER -> @ - Awaited(s)[x]]]
    BY DEF DrainTransport
  <2>3. sem'["barrier"] = [sem["barrier"] EXCEPT ![s] = @ + 1]  BY <2>1, <2>2
  <2>4. sem'["second"] = [sem["second"] EXCEPT ![s] = @]  BY <2>1, <2>2
  <2>5. sem'["second"] = sem["second"]  BY <2>4 DEF PhaseTypes
  <2> QED  BY <2>2, <2>3, <2>5 DEF DrainTransport
<1>5. /\ Order' /\ CountInv'
      /\ signalled'["barrier"] \in [Shards -> Nat]
      /\ signalled'["second"] \in [Shards -> Nat] /\ DOMAIN signalled' = Phases
      /\ sem'["barrier"] \in [Shards -> Nat] /\ sem'["second"] \in [Shards -> Nat]
  BY <1>2, <1>3, <1>4, FirstSignals
<1>6. PhaseTypes'  BY <1>1, <1>4, <1>5 DEF PhaseTypes, Places
<1>7. GatherInv'  BY <1>1 DEF GatherInv, PhaseTypes
<1> QED  BY <1>5, <1>6, <1>7

LEMMA GatherStep ==
  ASSUME IInv, NEW s \in Shards, Gather(s)
  PROVE  IInv'
<1> USE DEF IInv
<1>1. /\ pc[s] = "layer" /\ pc' = [pc EXCEPT ![s] = "gathering"] /\ round' = round
      /\ sem' = sem /\ signalled' = signalled
  BY DEF Gather, Goto
<1>2. \A d \in Shards :
        Signalled(d)' = Signalled(d) /\ Met(d)' = Met(d) /\ Left(d)' = Left(d)
  BY <1>1 DEF Signalled, Met, Left, PhaseTypes
<1>3. Order'  BY <1>2 DEF Order
<1>4. \A d \in Shards : Ahead1(d)' = Ahead1(d) /\ Ahead2(d)' = Ahead2(d)
  BY <1>2 DEF Ahead1, Ahead2
<1>5. CountInv'  BY <1>1, <1>4 DEF CountInv
<1>6. PhaseTypes'  BY <1>1 DEF PhaseTypes, Places
<1>7. GatherInv'  BY <1>1 DEF GatherInv, PhaseTypes
<1> QED  BY <1>3, <1>5, <1>6, <1>7

\* What a shard knows that passes the first phase: all have signalled it, so
\* all have left the phase before.
LEMMA FirstMet ==
  ASSUME IInv, NEW s \in Shards, sem["barrier"][s] >= NumSignals
  PROVE  /\ sem["barrier"][s] = EP /\ signalled["barrier"][s] = 0
         /\ \A d \in Shards : Signalled(d) = Met(s) + 1 /\ Left(d) = Met(s)
<1> USE DEF IInv
<1>1. Ahead1(s) \in SUBSET Shards  BY DEF Ahead1
<1>2. /\ Cardinality(Ahead1(s)) \in Nat /\ Cardinality(Ahead1(s)) <= EP
      /\ Cardinality(Ahead1(s)) >= EP => Ahead1(s) = Shards
  BY <1>1, AllShards
<1>3. /\ sem["barrier"][s] \in Nat /\ signalled["barrier"][s] \in Nat
      /\ sem["barrier"][s] + signalled["barrier"][s] = Cardinality(Ahead1(s))
  BY DEF PhaseTypes, CountInv
<1>4. /\ sem["barrier"][s] = EP /\ signalled["barrier"][s] = 0 /\ Ahead1(s) = Shards
  BY <1>2, <1>3, ShardsFinite DEF NumSignals
<1>5. ASSUME NEW d \in Shards PROVE Signalled(d) = Met(s) + 1 /\ Left(d) = Met(s)
  <2>1. Signalled(d) > Met(s)  BY <1>4 DEF Ahead1
  <2>2. /\ Signalled(d) \in Nat /\ Left(d) \in Nat /\ Met(s) \in Nat
        /\ Signalled(d) <= Met(s) + 1 /\ Signalled(d) <= Left(d) + 1
    BY Lockstep
  <2>3. Left(d) <= Met(s)  BY DEF Order
  <2> QED  BY <2>1, <2>2, <2>3
<1> QED  BY <1>4, <1>5

LEMMA PassFirstStep ==
  ASSUME IInv, NEW s \in Shards, PassFirst(s)
  PROVE  IInv'
<1> USE DEF IInv
<1>1. /\ \/ pc[s] = "entry1" /\ pc' = [pc EXCEPT ![s] = "entry2"]
         \/ pc[s] = "exit1" /\ pc' = [pc EXCEPT ![s] = "exit2"]
      /\ round' = round /\ round[s] \in Nat
  BY RoundsAssumption DEF PassFirst, Goto, PhaseTypes
<1>2. /\ Signalled(s)' = Signalled(s) /\ Left(s)' = Left(s)
      /\ Met(s)' = Met(s) + 1
  BY <1>1 DEF Signalled, Met, Left, PhaseTypes
<1>3. \A d \in Shards \ {s} :
        Signalled(d)' = Signalled(d) /\ Met(d)' = Met(d) /\ Left(d)' = Left(d)
  BY <1>1 DEF Signalled, Met, Left, PhaseTypes
<1>4. /\ sem["barrier"][s] = EP /\ signalled["barrier"][s] = 0
      /\ \A d \in Shards : Signalled(d) = Met(s) + 1 /\ Left(d) = Met(s)
  BY FirstMet DEF PassFirst
<1>5. /\ sem' = [sem EXCEPT !["barrier"][s] = @ - NumSignals, !["second"][s] = @ + 1]
      /\ SignalOthers(s, "second")
  BY DEF PassFirst
<1>6. /\ sem'["barrier"] = [sem["barrier"] EXCEPT ![s] = @ - NumSignals]
      /\ sem'["second"] = [sem["second"] EXCEPT ![s] = @ + 1] /\ DOMAIN sem' = Sems
  BY <1>5 DEF PhaseTypes, Sems, Phases
<1>7. /\ signalled'["second"] =
           [d \in Shards |-> IF d = s THEN signalled["second"][d]
                             ELSE signalled["second"][d] + 1]
      /\ signalled'["barrier"] = signalled["barrier"] /\ DOMAIN signalled' = Phases
  BY <1>5 DEF SignalOthers, PhaseTypes, Phases
<1>8. \A d \in Shards : Signalled(d) \in Nat /\ Met(d) \in Nat /\ Left(d) \in Nat
  BY Lockstep
<1>9. Order'  BY <1>2, <1>3, <1>4, <1>8 DEF Order
<1>10. GatherInv'  BY <1>1 DEF GatherInv, PhaseTypes
<1>11. sem'["barrier"][s] = 0
  BY <1>4, <1>6, ShardsFinite DEF NumSignals, PhaseTypes
<1>12. /\ sem'["barrier"] \in [Shards -> Nat] /\ sem'["second"] \in [Shards -> Nat]
       /\ signalled'["barrier"] \in [Shards -> Nat]
       /\ signalled'["second"] \in [Shards -> Nat]
  BY <1>6, <1>7, <1>11 DEF PhaseTypes
<1>13. PhaseTypes'  BY <1>1, <1>6, <1>7, <1>12 DEF PhaseTypes, Places
<1>14. ASSUME NEW x \in Shards
       PROVE  (sem["barrier"][x] + signalled["barrier"][x])' = Cardinality(Ahead1(x)')
  <2>1. CASE x = s
    <3>1. Ahead1(s)' = {}  BY <1>2, <1>3, <1>4, <1>8 DEF Ahead1
    <3> QED  BY <2>1, <3>1, <1>4, <1>7, <1>11, FS_EmptySet
  <2>2. CASE x # s
    <3>1. Ahead1(x)' = Ahead1(x)  BY <2>2, <1>2, <1>3 DEF Ahead1
    <3>2. sem'["barrier"][x] = sem["barrier"][x]  BY <2>2, <1>6 DEF PhaseTypes
    <3> QED  BY <3>1, <3>2, <1>7 DEF CountInv
  <2> QED  BY <2>1, <2>2
<1>15. ASSUME NEW x \in Shards
       PROVE  (sem["second"][x] + signalled["second"][x])' = Cardinality(Ahead2(x)')
  <2>1. Ahead2(x)' = Ahead2(x) \cup {s} /\ s \notin Ahead2(x)
    BY <1>2, <1>3, <1>4, <1>8 DEF Ahead2
  <2>2. IsFiniteSet(Ahead2(x)) /\ Cardinality(Ahead2(x)) \in Nat
    BY AllShards DEF Ahead2
  <2>3. Cardinality(Ahead2(x)') = Cardinality(Ahead2(x)) + 1
    BY <2>1, <2>2, FS_AddElement
  <2>4. sem'["second"][x] + signalled'["second"][x]
          = sem["second"][x] + signalled["second"][x] + 1
    BY <1>6, <1>7 DEF PhaseTypes
  <2> QED  BY <2>3, <2>4 DEF CountInv
<1>16. CountInv'  BY <1>14, <1>15 DEF CountInv
<1> QED  BY <1>9, <1>10, <1>13, <1>16

\* What a shard knows that passes the second phase: all have passed the first.
LEMMA SecondMet ==
  ASSUME IInv, NEW s \in Shards, sem["second"][s] >= NumSignals
  PROVE  /\ sem["second"][s] = EP /\ signalled["second"][s] = 0
         /\ \A d \in Shards : Met(d) = Left(s) + 1
<1> USE DEF IInv
<1>1. Ahead2(s) \in SUBSET Shards  BY DEF Ahead2
<1>2. /\ Cardinality(Ahead2(s)) \in Nat /\ Cardinality(Ahead2(s)) <= EP
      /\ Cardinality(Ahead2(s)) >= EP => Ahead2(s) = Shards
  BY <1>1, AllShards
<1>3. /\ sem["second"][s] \in Nat /\ signalled["second"][s] \in Nat
      /\ sem["second"][s] + signalled["second"][s] = Cardinality(Ahead2(s))
  BY DEF PhaseTypes, CountInv
<1>4. /\ sem["second"][s] = EP /\ signalled["second"][s] = 0 /\ Ahead2(s) = Shards
  BY <1>2, <1>3, ShardsFinite DEF NumSignals
<1>5. ASSUME NEW d \in Shards PROVE Met(d) = Left(s) + 1
  <2>1. Met(d) > Left(s)  BY <1>4 DEF Ahead2
  <2>2. Met(d) \in Nat /\ Left(s) \in Nat /\ Met(d) <= Left(s) + 1  BY Lockstep
  <2> QED  BY <2>1, <2>2
<1> QED  BY <1>4, <1>5

LEMMA PassSecondStep ==
  ASSUME IInv, NEW s \in Shards, PassSecond(s)
  PROVE  IInv'
<1> USE DEF IInv
<1>1. /\ \/ pc[s] = "entry2" /\ pc' = [pc EXCEPT ![s] = "inside"]
         \/ pc[s] = "exit2" /\ pc' = [pc EXCEPT ![s] = "out"]
      /\ round' = round /\ round[s] \in Nat /\ signalled' = signalled
  BY RoundsAssumption DEF PassSecond, Goto, PhaseTypes
<1>2. /\ Signalled(s)' = Signalled(s) /\ Left(s)' = Left(s) + 1 /\ Met(s)' = Met(s)
  BY <1>1 DEF Signalled, Met, Left, PhaseTypes
<1>3. \A d \in Shards \ {s} :
        Signalled(d)' = Signalled(d) /\ Met(d)' = Met(d) /\ Left(d)' = Left(d)
  BY <1>1 DEF Signalled, Met, Left, PhaseTypes
<1>4. /\ sem["second"][s] = EP /\ signalled["second"][s] = 0
      /\ \A d \in Shards : Met(d) = Left(s) + 1
  BY SecondMet DEF PassSecond
<1>5. /\ sem'["second"] = [sem["second"] EXCEPT ![s] = @ - NumSignals]
      /\ sem'["barrier"] = sem["barrier"] /\ DOMAIN sem' = Sems
  BY DEF PassSecond, PhaseTypes, Sems, Phases
<1>6. \A d \in Shards : Signalled(d) \in Nat /\ Met(d) \in Nat /\ Left(d) \in Nat
  BY Lockstep
<1>7. Order'  BY <1>2, <1>3, <1>4, <1>6 DEF Order
<1>8. GatherInv'  BY <1>1 DEF GatherInv, PhaseTypes
<1>9. sem'["second"][s] = 0
  BY <1>4, <1>5, ShardsFinite DEF NumSignals, PhaseTypes
<1>10. PhaseTypes'  BY <1>1, <1>5, <1>9 DEF PhaseTypes, Places
<1>11. ASSUME NEW x \in Shards
       PROVE  (sem["second"][x] + signalled["second"][x])' = Cardinality(Ahead2(x)')
  <2>1. CASE x = s
    <3>1. Ahead2(s)' = {}  BY <1>2, <1>3, <1>4, <1>6 DEF Ahead2
    <3> QED  BY <2>1, <3>1, <1>1, <1>4, <1>9, FS_EmptySet
  <2>2. CASE x # s
    <3>1. Ahead2(x)' = Ahead2(x)  BY <2>2, <1>2, <1>3 DEF Ahead2
    <3>2. sem'["second"][x] = sem["second"][x]  BY <2>2, <1>5 DEF PhaseTypes
    <3> QED  BY <3>1, <3>2, <1>1 DEF CountInv
  <2> QED  BY <2>1, <2>2
<1>12. \A x \in Shards : Ahead1(x)' = Ahead1(x)  BY <1>2, <1>3 DEF Ahead1
<1>13. CountInv'  BY <1>1, <1>5, <1>11, <1>12 DEF CountInv
<1> QED  BY <1>7, <1>8, <1>10, <1>13

LEMMA SignalStep ==
  ASSUME IInv, NEW b \in Phases, NEW x \in Shards, Signal(b, x)
  PROVE  IInv'
<1> USE DEF IInv
<1>1. /\ signalled[b][x] > 0 /\ pc' = pc /\ round' = round
      /\ signalled' = [signalled EXCEPT ![b][x] = @ - 1]
      /\ sem' = [sem EXCEPT ![b][x] = @ + 1]
  BY DEF Signal
<1>2. /\ sem[b] \in [Shards -> Nat] /\ signalled[b] \in [Shards -> Nat]
      /\ b \in Sems /\ b \in DOMAIN signalled /\ b \in DOMAIN sem
  BY DEF PhaseTypes, Phases, Sems
<1>3. ASSUME NEW f \in Phases, f # b
      PROVE  signalled'[f] = signalled[f] /\ sem'[f] = sem[f]
  BY <1>1, <1>3 DEF PhaseTypes, Sems, Phases
<1>4. /\ signalled'[b] = [signalled[b] EXCEPT ![x] = @ - 1]
      /\ sem'[b] = [sem[b] EXCEPT ![x] = @ + 1]
  BY <1>1, <1>2
<1>5. signalled'[b] \in [Shards -> Nat] /\ sem'[b] \in [Shards -> Nat]
  BY <1>1, <1>2, <1>4
<1>6. \A f \in Phases : signalled'[f] \in [Shards -> Nat] /\ sem'[f] \in [Shards -> Nat]
  BY <1>3, <1>5 DEF PhaseTypes, Phases
<1>7. DOMAIN signalled' = Phases /\ DOMAIN sem' = Sems
  BY <1>1 DEF PhaseTypes
<1>8. PhaseTypes'  BY <1>1, <1>6, <1>7 DEF PhaseTypes, Phases
<1>9. ASSUME NEW f \in Phases, NEW d \in Shards
      PROVE  sem'[f][d] + signalled'[f][d] = sem[f][d] + signalled[f][d]
  BY <1>1, <1>2, <1>3, <1>4
<1>10. \A d \in Shards :
         Signalled(d)' = Signalled(d) /\ Met(d)' = Met(d) /\ Left(d)' = Left(d)
  BY <1>1 DEF Signalled, Met, Left
<1>11. \A d \in Shards : Ahead1(d)' = Ahead1(d) /\ Ahead2(d)' = Ahead2(d)
  BY <1>10 DEF Ahead1, Ahead2
<1>12. CountInv'  BY <1>9, <1>11 DEF CountInv, Phases
<1>13. Order' /\ GatherInv'  BY <1>1, <1>10 DEF Order, GatherInv
<1> QED  BY <1>8, <1>12, <1>13

LEMMA CombineStep ==
  ASSUME IInv, NEW s \in Shards, Combine(s)
  PROVE  IInv'
<1> USE DEF IInv
<1>1. /\ pc[s] = "out" /\ sem' = sem /\ signalled' = signalled
      /\ pc' = [pc EXCEPT ![s] = IF round[s] < Rounds THEN "layer" ELSE "done"]
      /\ round' = [round EXCEPT ![s] = IF @ < Rounds THEN @ + 1 ELSE @]
      /\ round[s] \in 1..Rounds /\ Rounds \in Nat
  BY RoundsAssumption DEF Combine, Goto, PhaseTypes
<1>2. \/ pc'[s] = "layer" /\ round'[s] = round[s] + 1 /\ round[s] < Rounds
      \/ pc'[s] = "done" /\ round'[s] = round[s]
  BY <1>1 DEF PhaseTypes
<1>3. Signalled(s)' = Signalled(s) /\ Met(s)' = Met(s) /\ Left(s)' = Left(s)
  BY <1>1, <1>2 DEF Signalled, Met, Left
<1>4. \A d \in Shards \ {s} : pc'[d] = pc[d] /\ round'[d] = round[d]
  BY <1>1 DEF PhaseTypes
<1>5. \A d \in Shards \ {s} :
        Signalled(d)' = Signalled(d) /\ Met(d)' = Met(d) /\ Left(d)' = Left(d)
  BY <1>4 DEF Signalled, Met, Left
<1>6. Order'  BY <1>3, <1>5 DEF Order
<1>7. \A d \in Shards : Ahead1(d)' = Ahead1(d) /\ Ahead2(d)' = Ahead2(d)
  BY <1>3, <1>5 DEF Ahead1, Ahead2
<1>8. CountInv'  BY <1>1, <1>7 DEF CountInv
<1>9. PhaseTypes'  BY <1>1, <1>2 DEF PhaseTypes, Places
<1>10. GatherInv'
  <2> SUFFICES ASSUME NEW a \in Shards, NEW d \in Shards,
                      pc'[a] \notin {"layer", "gathering"}
               PROVE  round'[d] > round'[a] \/ (round'[d] = round'[a] /\ pc'[d] # "layer")
    BY DEF GatherInv
  <2>1. \A x \in Shards : round[x] \in Nat  BY <1>1 DEF PhaseTypes
  <2>2. round'[a] = round[a] /\ pc[a] \notin {"layer", "gathering"}
    BY <1>1, <1>2, <1>4
  <2>3. round[d] > round[a] \/ (round[d] = round[a] /\ pc[d] # "layer")
    BY <2>2 DEF GatherInv
  <2> QED  BY <1>1, <1>2, <1>4, <2>1, <2>2, <2>3
<1> QED  BY <1>6, <1>8, <1>9, <1>10

\* The other steps leave the barriers alone.
LEMMA OtherStep ==
  ASSUME IInv, pc' = pc, round' = round, signalled' = signalled,
         sem'["barrier"] = sem["barrier"], sem'["second"] = sem["second"],
         DOMAIN sem' = DOMAIN sem
  PROVE  IInv'
<1> USE DEF IInv
<1>1. \A d \in Shards :
        Signalled(d)' = Signalled(d) /\ Met(d)' = Met(d) /\ Left(d)' = Left(d)
  BY DEF Signalled, Met, Left
<1>2. \A d \in Shards : Ahead1(d)' = Ahead1(d) /\ Ahead2(d)' = Ahead2(d)
  BY <1>1 DEF Ahead1, Ahead2
<1>3. CountInv'  BY <1>2 DEF CountInv
<1>4. Order' /\ GatherInv'  BY <1>1 DEF Order, GatherInv
<1>5. PhaseTypes'  BY DEF PhaseTypes
<1> QED  BY <1>3, <1>4, <1>5

LEMMA CopyStep ==
  ASSUME NEW x \in RemoteSems \cup {"mehop", "mehop_scl"}, NEW d, NEW n,
         sem' = [sem EXCEPT ![x][d] = n]
  PROVE  /\ sem'["barrier"] = sem["barrier"] /\ sem'["second"] = sem["second"]
         /\ DOMAIN sem' = DOMAIN sem
<1>1. x # "barrier" /\ x # "second"  BY DEF RemoteSems
<1> QED  BY <1>1

LEMMA NextIInv == IInv /\ [Next]_vars => IInv'
<1> SUFFICES ASSUME IInv, [Next]_vars PROVE IInv'  OBVIOUS
<1>1. CASE UNCHANGED vars  BY <1>1, OtherStep DEF vars
<1>2. ASSUME NEW s \in Shards, Step(s) PROVE IInv'
  <2>1. CASE Gather(s)  BY <2>1, GatherStep
  <2>2. CASE Enter(s)  BY <2>2, EnterStep
  <2>3. CASE PassFirst(s)  BY <2>3, PassFirstStep
  <2>4. CASE PassSecond(s)  BY <2>4, PassSecondStep
  <2>5. CASE VisitStep(s)  BY <2>5, OtherStep DEF VisitStep
  <2>6. CASE DrainTransport(s)  BY <2>6, DrainTransportStep
  <2>7. CASE Combine(s)  BY <2>7, CombineStep
  <2> QED  BY <1>2, <2>1, <2>2, <2>3, <2>4, <2>5, <2>6, <2>7 DEF Step
<1>3. CASE Deliver
  <2>1. ASSUME NEW b \in Phases, NEW d \in Shards, Signal(b, d) PROVE IInv'
    BY <2>1, SignalStep
  <2>2. ASSUME NEW c \in queued, Read(c) PROVE IInv'
    <3> DEFINE x == IF c.what = "rows" THEN "send" ELSE "send_scl"
    <3>1. x \in RemoteSems  BY DEF RemoteSems
    <3>2. sem' = [sem EXCEPT ![x][ShardOf(c.e)] = sem[x][ShardOf(c.e)] + c.amount]
      BY <2>2 DEF Read
    <3>3. /\ sem'["barrier"] = sem["barrier"] /\ sem'["second"] = sem["second"]
          /\ DOMAIN sem' = DOMAIN sem
      BY <3>1, <3>2, CopyStep
    <3> QED  BY <2>2, <3>3, OtherStep DEF Read
  <2>3. ASSUME NEW c, NEW from, Lands(c, from) PROVE IInv'
    <3>1. Receipt(c) \in RemoteSems \cup {"mehop", "mehop_scl"}
      BY DEF Receipt, RemoteSems
    <3>2. sem' = [sem EXCEPT ![Receipt(c)][c.to] = sem[Receipt(c)][c.to] + c.amount]
      BY <2>3 DEF Lands
    <3>3. /\ sem'["barrier"] = sem["barrier"] /\ sem'["second"] = sem["second"]
          /\ DOMAIN sem' = DOMAIN sem
      BY <3>1, <3>2, CopyStep
    <3> QED  BY <2>3, <3>3, OtherStep DEF Lands
  <2>4. ASSUME NEW c \in queued, Hop(c) PROVE IInv'  BY <2>3, <2>4 DEF Hop
  <2>5. ASSUME NEW c \in sent, Land(c) PROVE IInv'  BY <2>3, <2>5 DEF Land
  <2> QED  BY <1>3, <2>1, <2>2, <2>4, <2>5 DEF Deliver
<1>4. CASE AllDone  BY <1>1, <1>4 DEF AllDone
<1> QED  BY <1>1, <1>2, <1>3, <1>4 DEF Next

LEMMA Inductive == Spec => []IInv
<1> QED  BY InitIInv, NextIInv, PTL DEF Spec

\* Once a shard is out, the semaphore of the collective id is spent on every
\* shard and no signal for it is on its way, for every number of shards and
\* rounds: another kernel may use it (kernel.py:474-489).
THEOREM CollectiveFree == Spec => []BarrierFree
<1>1. IInv => BarrierFree
  <2> SUFFICES ASSUME IInv, NEW s \in Shards, pc[s] = "out", NEW d \in Shards
               PROVE  sem["barrier"][d] = 0 /\ signalled["barrier"][d] = 0
    BY DEF BarrierFree
  <2> USE DEF IInv
  <2>1. \A x \in Shards : round[x] \in Nat /\ round[x] >= 1
    BY RoundsAssumption DEF PhaseTypes
  <2>2. Left(s) = 2 * round[s]  BY <2>1 DEF Left
  <2>3. Met(d) >= 2 * round[s] /\ Met(d) \in Nat  BY <2>2, Lockstep DEF Order
  <2>4. ASSUME NEW x \in Shards PROVE Signalled(x) <= 2 * round[s]
    <3>1. Signalled(x) \in Nat /\ Signalled(x) <= 2 * round[s] + 1
      <4>1. Met(s) = 2 * round[s]  BY <2>1 DEF Met
      <4> QED  BY <4>1, Lockstep
    <3>2. CASE pc[x] \in {"layer", "gathering"}
      <4>1. Signalled(x) = 2 * (round[x] - 1)  BY <2>1, <3>2 DEF Signalled
      <4> QED  BY <2>1, <3>1, <4>1
    <3>3. CASE pc[x] \notin {"layer", "gathering"}
      <4>1. round[s] >= round[x]  BY <2>1, <3>3 DEF GatherInv
      <4>2. Signalled(x) <= 2 * round[x]  BY <2>1, <3>3 DEF Signalled
      <4> QED  BY <2>1, <3>1, <4>1, <4>2
    <3> QED  BY <3>2, <3>3
  <2>5. Ahead1(d) = {}
    BY <2>1, <2>3, <2>4, Lockstep DEF Ahead1
  <2>6. sem["barrier"][d] + signalled["barrier"][d] = 0
    BY <2>5, FS_EmptySet DEF CountInv
  <2> QED  BY <2>6 DEF PhaseTypes
<1> QED  BY <1>1, Inductive, PTL

\* How the exchange maps to the all-to-all, one shard's step at a time.
LEMMA GiveStep ==
  ASSUME IInv, NEW s \in Shards, DrainTransport(s)
  PROVE  Abstract!Give(s)
<1> DEFINE given == [d \in Shards |-> Given(d)]
           taken == [d \in Shards |-> Taken(d)]
<1>1. /\ pc[s] = "inside" /\ pc' = [pc EXCEPT ![s] = "exit1"] /\ round' = round
      /\ round \in [Shards -> 1..Rounds] /\ pc \in [Shards -> Places]
      /\ round[s] \in Nat /\ round[s] <= Rounds /\ Rounds \in Nat
  BY RoundsAssumption DEF DrainTransport, Goto, IInv, PhaseTypes
<1>2. Given(s) = round[s] - 1 /\ Taken(s) = round[s] - 1
  BY <1>1 DEF Given, Taken
<1>3. Given(s)' = Given(s) + 1 /\ Taken(s)' = Taken(s)
  BY <1>1 DEF Given, Taken
<1>4. \A d \in Shards \ {s} : Given(d)' = Given(d) /\ Taken(d)' = Taken(d)
  BY <1>1 DEF Given, Taken
<1>5. given' = [given EXCEPT ![s] = @ + 1]  BY <1>3, <1>4
<1>6. taken' = taken  BY <1>3, <1>4
<1>7. given[s] = taken[s] /\ given[s] < Rounds  BY <1>1, <1>2
<1> QED  BY <1>5, <1>6, <1>7 DEF Abstract!Give

LEMMA TakeStep ==
  ASSUME IInv, NEW s \in Shards, PassSecond(s), pc[s] = "exit2"
  PROVE  Abstract!Take(s)
<1> DEFINE given == [d \in Shards |-> Given(d)]
           taken == [d \in Shards |-> Taken(d)]
<1>1. /\ pc' = [pc EXCEPT ![s] = "out"] /\ round' = round
      /\ round \in [Shards -> 1..Rounds] /\ pc \in [Shards -> Places]
      /\ \A d \in Shards : round[d] \in Nat /\ round[d] >= 1
  BY RoundsAssumption DEF PassSecond, Goto, IInv, PhaseTypes
<1>2. Given(s) = round[s] /\ Taken(s) = round[s] - 1
  BY <1>1 DEF Given, Taken
<1>3. Given(s)' = Given(s) /\ Taken(s)' = Taken(s) + 1
  BY <1>1 DEF Given, Taken
<1>4. \A d \in Shards \ {s} : Given(d)' = Given(d) /\ Taken(d)' = Taken(d)
  BY <1>1 DEF Given, Taken
<1>5. taken' = [taken EXCEPT ![s] = @ + 1] /\ given' = given
  BY <1>3, <1>4
<1>6. ASSUME NEW d \in Shards PROVE Given(d) >= round[s]
  <2>1. Met(d) = Left(s) + 1  BY SecondMet DEF PassSecond
  <2>2. Left(s) = 2 * round[s] - 1  BY <1>1 DEF Left
  <2>3. Met(d) = 2 * round[s]  BY <1>1, <2>1, <2>2
  <2>4. CASE pc[d] \in {"layer", "gathering", "entry1"}
    BY <1>1, <2>3, <2>4 DEF Met, Given
  <2>5. CASE pc[d] \in {"entry2", "inside", "exit1"}
    BY <1>1, <2>3, <2>5 DEF Met
  <2>6. CASE pc[d] \in {"exit2", "out", "done"}
    BY <1>1, <2>3, <2>6 DEF Met, Given
  <2> QED  BY <1>1, <2>4, <2>5, <2>6 DEF Places
<1>7. taken[s] < given[s] /\ \A d \in Shards : given[d] >= given[s]
  BY <1>1, <1>2, <1>6
<1> QED  BY <1>5, <1>7 DEF Abstract!Take

\* A step that moves no shard past its drain or out of the kernel stutters.
LEMMA Stutter ==
  ASSUME \A d \in Shards : Given(d)' = Given(d) /\ Taken(d)' = Taken(d)
  PROVE  UNCHANGED Abstract!vars
BY DEF Abstract!vars

LEMMA Idle ==
  ASSUME pc' = pc, round' = round
  PROVE  UNCHANGED Abstract!vars
<1>1. \A d \in Shards : Given(d)' = Given(d) /\ Taken(d)' = Taken(d)
  BY DEF Given, Taken
<1> QED  BY <1>1, Stutter

LEMMA Quiet ==
  ASSUME IInv, NEW s \in Shards,
         Gather(s) \/ Enter(s) \/ PassFirst(s) \/ (PassSecond(s) /\ pc[s] = "entry2")
  PROVE  UNCHANGED Abstract!vars
<1>1. /\ round' = round /\ pc \in [Shards -> Places]
      /\ \/ pc[s] \in {"layer", "gathering", "entry1", "entry2"}
            /\ \E p \in {"gathering", "entry1", "entry2", "inside"} : pc' = [pc EXCEPT ![s] = p]
         \/ pc[s] = "exit1" /\ pc' = [pc EXCEPT ![s] = "exit2"]
  BY DEF Gather, Enter, PassFirst, PassSecond, Goto, IInv, PhaseTypes
<1>2. \A d \in Shards : Given(d)' = Given(d) /\ Taken(d)' = Taken(d)
  BY <1>1 DEF Given, Taken
<1> QED  BY <1>2, Stutter

LEMMA NextCall ==
  ASSUME IInv, NEW s \in Shards, Combine(s)
  PROVE  UNCHANGED Abstract!vars
<1>1. /\ pc[s] = "out" /\ round[s] \in 1..Rounds /\ Rounds \in Nat
      /\ pc' = [pc EXCEPT ![s] = IF round[s] < Rounds THEN "layer" ELSE "done"]
      /\ round' = [round EXCEPT ![s] = IF @ < Rounds THEN @ + 1 ELSE @]
      /\ pc \in [Shards -> Places] /\ round \in [Shards -> 1..Rounds]
  BY RoundsAssumption DEF Combine, Goto, IInv, PhaseTypes
<1>2. \/ pc'[s] = "layer" /\ round'[s] = round[s] + 1
      \/ pc'[s] = "done" /\ round'[s] = round[s]
  BY <1>1
<1>3. Given(s)' = Given(s) /\ Taken(s)' = Taken(s)
  BY <1>1, <1>2 DEF Given, Taken
<1>4. \A d \in Shards \ {s} : Given(d)' = Given(d) /\ Taken(d)' = Taken(d)
  BY <1>1 DEF Given, Taken
<1> QED  BY <1>3, <1>4, Stutter

\* The exchange is an all-to-all, fairness aside: a shard leaves the kernel of
\* a round only when every shard has pushed its rows of that round and waited
\* for its copies (kernel.py:1819-1847).
THEOREM IsAllToAll == Spec => Abstract!Init /\ [][Abstract!Next]_Abstract!vars
<1>1. Init => Abstract!Init
  BY DEF Init, Given, Taken, Abstract!Init
<1>2. IInv /\ [Next]_vars => [Abstract!Next]_Abstract!vars
  <2> SUFFICES ASSUME IInv, [Next]_vars
               PROVE  Abstract!Next \/ UNCHANGED Abstract!vars
    OBVIOUS
  <2>1. CASE UNCHANGED vars  BY <2>1, Idle DEF vars
  <2>2. ASSUME NEW s \in Shards, Step(s)
        PROVE  Abstract!Next \/ UNCHANGED Abstract!vars
    <3>1. CASE Gather(s) \/ Enter(s) \/ PassFirst(s)  BY <3>1, Quiet
    <3>2. CASE PassSecond(s)
      <4>1. pc[s] \in {"entry2", "exit2"}  BY <3>2 DEF PassSecond
      <4>2. CASE pc[s] = "entry2"  BY <3>2, <4>2, Quiet
      <4>3. CASE pc[s] = "exit2"  BY <3>2, <4>3, TakeStep DEF Abstract!Next
      <4> QED  BY <4>1, <4>2, <4>3
    <3>3. CASE VisitStep(s)  BY <3>3, Idle DEF VisitStep
    <3>4. CASE DrainTransport(s)  BY <3>4, GiveStep DEF Abstract!Next
    <3>5. CASE Combine(s)  BY <3>5, NextCall
    <3> QED  BY <2>2, <3>1, <3>2, <3>3, <3>4, <3>5 DEF Step
  <2>3. CASE Deliver
    BY <2>3, Idle DEF Deliver, Signal, Read, Hop, Land, Lands
  <2>4. CASE AllDone  BY <2>1, <2>4 DEF AllDone
  <2> QED  BY <2>1, <2>2, <2>3, <2>4 DEF Next
<1> QED  BY <1>1, <1>2, Inductive, PTL DEF Spec

-----------------------------------------------------------------------------
\* Sums.

\* The sum over the runs of several experts is one over pairs.
LEMMA SumRunsIs ==
  ASSUME NEW table, NEW E, IsFiniteSet(E), NEW D
  PROVE  SumRuns(table, E, D) = SumOf([e \in E |-> SumOf(table[e], D)], E)
<1> DEFINE f == [e \in E |-> SumOf(table[e], D)]
           A(p) == [T \in SUBSET E |-> IF T = {} THEN 0
                      ELSE SumOf(table[OneOf(T)], D) + p[T \ {OneOf(T)}]]
           q == CHOOSE p : p = A(p)
<1>1. SumRuns(table, E, D) = q[E]
  BY DEF SumRuns, MapThenSumSet, MapThenFoldSet, OneOf
<1>2. \A p : IsSum(p, f, E) <=> p = A(p)
  <2> SUFFICES ASSUME NEW p PROVE [T \in SUBSET E |-> Added(p, f, T)] = A(p)
    BY DEF IsSum
  <2>1. \A T \in SUBSET E : Added(p, f, T) = IF T = {} THEN 0
                      ELSE SumOf(table[OneOf(T)], D) + p[T \ {OneOf(T)}]
    BY OneOfIs DEF Added
  <2> QED BY <2>1
<1>3. \E p : p = A(p)
  <2> HIDE DEF A
  <2> QED BY <1>2, SumExists
<1>4. q = A(q)
  <2> HIDE DEF A
  <2> QED BY <1>3
<1>5. IsSum(q, f, E)
  <2> HIDE DEF A, q
  <2> QED BY <1>2, <1>4
<1>6. E \in SUBSET E
  OBVIOUS
<1> HIDE DEF q, f
<1>7. SumOf(f, E) = q[E]
  BY <1>5, <1>6, SumOfValues
<1> QED BY <1>1, <1>7 DEF f

\* The runs of one expert among the pairs of an expert and a shard.
Row(e, D) == {e} \X D

LEMMA SumRow ==
  ASSUME NEW f, NEW D, IsFiniteSet(D), \A d \in D : f[d] \in Nat,
         NEW e, NEW g, \A d \in D : g[<<e, d>>] = f[d]
  PROVE  SumOf(f, D) = SumOf(g, Row(e, D))
<1> DEFINE Row1(T) == {e} \X T
           Bad == {T \in SUBSET D : SumOf(f, T) # SumOf(g, Row1(T))}
<1> SUFFICES ASSUME Bad # {} PROVE FALSE
  <2>1. D \in SUBSET D
    OBVIOUS
  <2> QED BY <2>1 DEF Row
<1>1. PICK T \in Bad : \A U \in SUBSET T : U # T => U \notin Bad
  <2>1. Bad \subseteq SUBSET D
    OBVIOUS
  <2> HIDE DEF Bad
  <2> QED BY <2>1, Smallest
<1>2. T \in SUBSET D /\ SumOf(f, T) # SumOf(g, Row1(T)) /\ IsFiniteSet(T)
  BY FS_Subset
<1>3. IsFiniteSet(Row1(T)) /\ \A p \in Row1(T) : g[p] \in Nat
  <2>1. IsFiniteSet({e}) /\ IsFiniteSet(Row1(T))
    BY <1>2, FS_Singleton, FS_Product
  <2>2. ASSUME NEW p \in Row1(T) PROVE g[p] \in Nat
    <3>1. PICK d \in T : p = <<e, d>>
      OBVIOUS
    <3> QED BY <1>2, <3>1
  <2> QED BY <2>1, <2>2
<1>4. T # {}
  <2>1. Row1({}) = {}
    OBVIOUS
  <2>2. SumOf(f, {}) = 0 /\ SumOf(g, {}) = 0
    BY FS_EmptySet, Sums
  <2> HIDE DEF Row1, Bad
  <2> QED BY <1>2, <2>1, <2>2
<1>5. PICK d : d \in T
  BY <1>4
<1>6. /\ Row1(T \ {d}) = Row1(T) \ {<<e, d>>} /\ <<e, d>> \in Row1(T)
      /\ g[<<e, d>>] = f[d]
  BY <1>2, <1>5
<1>7. SumOf(f, T \ {d}) = SumOf(g, Row1(T \ {d}))
  <2>1. T \ {d} \in SUBSET T /\ T \ {d} # T /\ T \ {d} \in SUBSET D
    BY <1>2, <1>5
  <2>2. T \ {d} \notin Bad
    <3> HIDE DEF Bad
    <3> QED BY <1>1, <2>1
  <2> QED BY <2>1, <2>2
<1>8. SumOf(f, T) = f[d] + SumOf(f, T \ {d})
  <2>1. IsFiniteSet(T) /\ \A x \in T : f[x] \in Nat
    BY <1>2
  <2> HIDE DEF Row1, Bad
  <2>2. \A x \in T : SumOf(f, T) = f[x] + SumOf(f, T \ {x})
    BY ONLY <2>1, Sums
  <2> QED BY <1>5, <2>2
<1>9. SumOf(g, Row1(T)) = g[<<e, d>>] + SumOf(g, Row1(T) \ {<<e, d>>})
  <2> DEFINE V == Row1(T)
  <2>1. IsFiniteSet(V) /\ (\A p \in V : g[p] \in Nat) /\ <<e, d>> \in V
    BY <1>3, <1>6
  <2> HIDE DEF Row1, Bad, V
  <2>2. \A x \in V : SumOf(g, V) = g[x] + SumOf(g, V \ {x})
    BY <2>1, Sums
  <2>3. SumOf(g, V) = g[<<e, d>>] + SumOf(g, V \ {<<e, d>>})
    BY <2>1, <2>2
  <2> QED BY <2>3 DEF V
<1> HIDE DEF Row1, Bad
<1> QED BY <1>2, <1>6, <1>7, <1>8, <1>9

LEMMA SumPairs ==
  ASSUME NEW table, NEW E, IsFiniteSet(E), NEW D, IsFiniteSet(D), NEW f,
         \A e \in E : \A d \in D : f[<<e, d>>] = table[e][d] /\ table[e][d] \in Nat
  PROVE  SumRuns(table, E, D) = SumOf(f, E \X D)
<1> DEFINE g == [e \in E |-> SumOf(table[e], D)]
           Bad == {T \in SUBSET E : SumOf(g, T) # SumOf(f, T \X D)}
<1>1. SUFFICES ASSUME Bad # {} PROVE FALSE
  <2>1. E \in SUBSET E
    OBVIOUS
  <2>2. Bad = {} => SumOf(g, E) = SumOf(f, E \X D)
    BY <2>1
  <2> HIDE DEF g, Bad
  <2>3. SumRuns(table, E, D) = SumOf(g, E)
    BY SumRunsIs DEF g
  <2> QED BY <2>2, <2>3
<1>2. PICK T \in Bad : \A U \in SUBSET T : U # T => U \notin Bad
  <2>1. Bad \subseteq SUBSET E
    OBVIOUS
  <2> HIDE DEF Bad
  <2> QED BY <1>1, <2>1, Smallest
<1>3. T \in SUBSET E /\ SumOf(g, T) # SumOf(f, T \X D) /\ IsFiniteSet(T)
  BY FS_Subset
<1>4. \A e \in T : g[e] = SumOf(table[e], D) /\ g[e] \in Nat
  BY <1>3, Sums
<1>5. IsFiniteSet(T \X D) /\ \A p \in T \X D : f[p] \in Nat
  BY <1>3, FS_Product
<1> HIDE DEF g
<1>6. T # {}
  <2>1. {} \X D = {}
    OBVIOUS
  <2>2. SumOf(g, {}) = 0 /\ SumOf(f, {}) = 0
    BY FS_EmptySet, Sums
  <2> QED BY <1>3, <2>1, <2>2
<1>7. PICK e : e \in T
  BY <1>6
<1> DEFINE U == T \ {e}
<1>8. SumOf(g, U) = SumOf(f, U \X D)
  <2>1. U \in SUBSET T /\ U # T /\ U \in SUBSET E
    BY <1>3, <1>7
  <2>2. U \notin Bad
    <3> HIDE DEF Bad, U
    <3> QED BY <1>2, <2>1
  <2> QED BY <2>1, <2>2
<1>9. SumOf(g, T) = g[e] + SumOf(g, U)
  <2>1. \A x \in T : SumOf(g, T) = g[x] + SumOf(g, T \ {x})
    BY <1>3, <1>4, Sums
  <2> QED BY <1>7, <2>1
<1>10. SumOf(f, T \X D) = SumOf(f, {e} \X D) + SumOf(f, U \X D)
  <2> DEFINE V == T \X D
             W == {e} \X D
  <2>1. W \in SUBSET V /\ V \ W = U \X D
    BY <1>7
  <2>2. IsFiniteSet(V) /\ \A p \in V : f[p] \in Nat
    BY <1>5
  <2> HIDE DEF U, V, W, Bad
  <2>3. \A X \in SUBSET V : SumOf(f, V) = SumOf(f, X) + SumOf(f, V \ X)
    BY <2>2, Sums
  <2>4. SumOf(f, V) = SumOf(f, W) + SumOf(f, V \ W)
    BY <2>1, <2>3
  <2> QED BY <2>1, <2>4 DEF V, W
<1>11. SumOf(table[e], D) = SumOf(f, {e} \X D)
  <2>1. /\ \A d \in D : table[e][d] \in Nat
        /\ \A d \in D : f[<<e, d>>] = table[e][d]
    BY <1>3, <1>7
  <2>2. SumOf(table[e], D) = SumOf(f, Row(e, D))
    BY <2>1, SumRow
  <2> QED BY <2>2 DEF Row
<1> HIDE DEF U, Bad
<1> QED BY <1>3, <1>4, <1>7, <1>8, <1>9, <1>10, <1>11

-----------------------------------------------------------------------------
\* The tables.

\* Division by a positive number.
LEMMA Division ==
  ASSUME NEW n \in Int, NEW m \in Nat \ {0}
  PROVE  /\ n \div m \in Int /\ n % m \in 0..m - 1
         /\ n = m * (n \div m) + (n % m)
OBVIOUS

LEMMA DivisionGrows ==
  ASSUME NEW a \in Nat, NEW b \in Nat, a =< b, NEW m \in Nat \ {0}
  PROVE  a \div m \in Nat /\ b \div m \in Nat /\ a \div m =< b \div m
<1> DEFINE p == a \div m
           q == b \div m
<1>1. /\ p \in Int /\ q \in Int /\ a % m \in 0..m - 1 /\ b % m \in 0..m - 1
      /\ a = m * p + (a % m) /\ b = m * q + (b % m)
  BY Division
<1> DEFINE r == a % m
           s == b % m
<1> HIDE DEF p, q, r, s
<1>2. /\ p \in Int /\ q \in Int /\ r \in 0..m - 1 /\ s \in 0..m - 1
      /\ a = m * p + r /\ b = m * q + s
  BY <1>1 DEF r, s
<1>3. ASSUME NEW x \in Int, x < 0 PROVE m * x =< -m
  <2>1. -x - 1 \in Nat
    BY <1>3
  <2>2. m * (-x - 1) >= 0
    BY <2>1
  <2>3. m * (-x - 1) = -(m * x) - m
    OBVIOUS
  <2>4. m * x \in Int
    OBVIOUS
  <2> QED BY <2>2, <2>3, <2>4
<1>4. p >= 0
  <2>1. p < 0 => m * p =< -m
    BY <1>2, <1>3
  <2>2. m * p \in Int
    BY <1>2
  <2> QED BY <1>2, <2>1, <2>2
<1>5. q - p >= 0
  <2>1. q - p < 0 => m * (q - p) =< -m
    BY <1>2, <1>3
  <2>2. m * (q - p) = m * q - m * p /\ m * q \in Int /\ m * p \in Int
    BY <1>2
  <2> QED BY <1>2, <2>1, <2>2
<1>6. p \in Nat /\ q \in Nat /\ p =< q
  BY <1>2, <1>4, <1>5
<1> QED BY <1>6 DEF p, q

LEMMA AlignUpIs ==
  ASSUME NEW v \in Nat, NEW m \in Nat \ {0}
  PROVE  AlignUp(v, m) \in Nat /\ AlignUp(v, m) >= v /\ (v = 0 => AlignUp(v, m) = 0)
<1> DEFINE q == (-v) \div m
           r == (-v) % m
<1>1. q \in Int /\ r \in 0..m - 1 /\ -v = m * q + r
  BY Division
<1>2. AlignUp(v, m) = -(q * m)
  BY DEF AlignUp
<1>3. v = 0 => q = 0
  <2> SUFFICES ASSUME v = 0 PROVE q = 0
    OBVIOUS
  <2>1. 0 \div m \in Nat /\ 0 = m * (0 \div m) + (0 % m) /\ 0 % m \in 0..m - 1
    BY DivisionGrows, Division
  <2>2. m * (0 \div m) >= m \/ 0 \div m = 0
    <3> DEFINE z == 0 \div m
    <3> HIDE DEF z
    <3>1. z \in Nat
      BY <2>1 DEF z
    <3>2. z # 0 => m * (z - 1) >= 0 /\ m * (z - 1) = m * z - m
      BY <3>1
    <3>3. m * z >= m \/ z = 0
      BY <3>1, <3>2
    <3> QED BY <3>3 DEF z
  <2>3. 0 \div m = 0
    BY <2>1, <2>2
  <2> QED BY <2>3
<1> HIDE DEF q, r
<1>4. q * m = m * q /\ m * q \in Int
  BY <1>1
<1> QED BY <1>1, <1>2, <1>3, <1>4

LEMMA MirrorRunTilesIs ==
  ASSUME NEW start \in Nat, NEW rows \in Nat
  PROVE  /\ MirrorRunTiles(start, rows) \in Nat
         /\ rows > 0 => MirrorRunTiles(start, rows) > 0
<1>1. TileM \in Nat \ {0}
  BY PlanArguments
<1>2. CASE rows = 0
  BY <1>2 DEF MirrorRunTiles
<1>3. CASE rows > 0
  <2>1. start + rows - 1 \in Nat /\ start =< start + rows - 1
    BY <1>3
  <2>2. start \div TileM \in Nat /\ (start + rows - 1) \div TileM \in Nat
        /\ start \div TileM =< (start + rows - 1) \div TileM
    BY <1>1, <2>1, DivisionGrows
  <2> QED BY <1>3, <2>2 DEF MirrorRunTiles
<1> QED BY <1>2, <1>3

\* Experts lie in the slabs of shards.
LEMMA ExpertFacts ==
  /\ IsFiniteSet(Experts) /\ IsFiniteSet(Shards)
  /\ \A e \in Experts : e \in Nat /\ ShardOf(e) \in Shards /\ e \in ExpertsOf(ShardOf(e))
  /\ \A s \in Shards : \A e \in ExpertsOf(s) : e \in Experts /\ ShardOf(e) = s
  /\ \A s \in Shards : IsFiniteSet(ExpertsOf(s)) /\ ExpertsOf(s) \in SUBSET Experts
<1>1. EP \in Nat \ {0} /\ GLocal \in Nat \ {0} /\ EP * GLocal \in Nat
  BY PlanArguments
<1>2. IsFiniteSet(Experts) /\ IsFiniteSet(Shards)
  BY <1>1, FS_Interval DEF Experts, Shards
<1>3. ASSUME NEW e \in Experts
      PROVE  e \in Nat /\ ShardOf(e) \in Shards /\ e \in ExpertsOf(ShardOf(e))
  <2>1. e \in Nat /\ e < EP * GLocal
    BY <1>1 DEF Experts
  <2> DEFINE q == e \div GLocal
             m == e % GLocal
  <2>2. q \in Int /\ m \in 0..GLocal - 1 /\ e = GLocal * q + m
    BY <1>1, <2>1, Division
  <2>3. q \in Nat
    BY <1>1, <2>1, DivisionGrows
  <2> HIDE DEF q, m
  <2>4. q < EP
    <3> SUFFICES ASSUME q - EP \in Nat PROVE FALSE
      BY <1>1, <2>3
    <3>1. GLocal * (q - EP) >= 0
      BY <1>1
    <3>2. GLocal * (q - EP) = GLocal * q - EP * GLocal
      BY <1>1, <2>3
    <3> QED BY <1>1, <2>1, <2>2, <2>3, <3>1, <3>2
  <2> QED BY <1>1, <2>1, <2>3, <2>4 DEF ShardOf, Shards, ExpertsOf, q
<1>4. \A s \in Shards : ExpertsOf(s) \in SUBSET Experts
  BY DEF ExpertsOf
<1>5. \A s \in Shards : IsFiniteSet(ExpertsOf(s))
  BY <1>2, <1>4, FS_Subset
<1> QED BY <1>2, <1>3, <1>4, <1>5 DEF ExpertsOf

\* The pairs of an expert that a shard owns can be counted.
LEMMA HistIs ==
  ASSUME NEW r, NEW d \in Shards, NEW e
  PROVE  Hist(r, PairsOf(d), e) \in Nat
<1>1. NumPairs \in Nat
  BY PlanArguments DEF NumPairs
<1>2. IsFiniteSet(Pairs)
  BY <1>1, FS_Interval DEF Pairs
<1>3. {p \in PairsOf(d) : r[p] = e} \in SUBSET Pairs
  BY DEF PairsOf
<1> QED BY <1>2, <1>3, FS_Subset, FS_CardinalityType DEF Hist

\* The tables of a routing: runs are padded, an empty one to nothing, and a run
\* of rows has a scale for each tile it lies in.
LEMMA TablesAre ==
  ASSUME NEW r
  PROVE  LET t == RunTables(CountRows(r)) IN
         \A e \in Experts :
           /\ t.expert_rows[e] \in Nat
           /\ \A d \in Shards :
                /\ t.run_rows[e][d] \in Nat /\ t.aligned[e][d] \in Nat
                /\ t.run_tiles[e][d] \in Nat
                /\ t.aligned[e][d] > 0 <=> t.run_rows[e][d] > 0
                /\ t.aligned[e][d] > 0 => t.run_tiles[e][d] > 0
<1> DEFINE t == RunTables(CountRows(r))
           rows == CountRows(r)
           aligned == AlignedRuns(rows)
           start == [e \in Experts |-> ExclusiveSums(aligned[e])]
<1>1. /\ t.run_rows = rows /\ t.aligned = aligned
      /\ t.expert_rows = [e \in Experts |-> SumOf(aligned[e], Shards)]
      /\ t.run_tiles = [e \in Experts |-> [d \in Shards |->
                          MirrorRunTiles(start[e][d], aligned[e][d])]]
  BY DEF RunTables, SlabRuns, TablesOf
<1>2. \A e \in Experts : \A d \in Shards : rows[e][d] \in Nat
  BY HistIs DEF CountRows
<1> HIDE DEF t, rows
<1>3. \A e \in Experts : \A d \in Shards : aligned[e][d] = AlignUp(rows[e][d], RowBlk)
  BY DEF AlignedRuns
<1>4. \A e \in Experts : \A d \in Shards :
        /\ aligned[e][d] \in Nat
        /\ aligned[e][d] > 0 <=> rows[e][d] > 0
  <2> SUFFICES ASSUME NEW e \in Experts, NEW d \in Shards
               PROVE  aligned[e][d] \in Nat /\ (aligned[e][d] > 0 <=> rows[e][d] > 0)
    OBVIOUS
  <2>1. rows[e][d] \in Nat /\ RowBlk \in Nat \ {0}
    BY <1>2, PlanArguments
  <2> DEFINE v == rows[e][d]
  <2> HIDE DEF v
  <2>2. AlignUp(v, RowBlk) \in Nat /\ AlignUp(v, RowBlk) >= v
        /\ (v = 0 => AlignUp(v, RowBlk) = 0)
    BY <2>1, AlignUpIs DEF v
  <2> HIDE DEF aligned
  <2> QED BY <1>3, <2>1, <2>2 DEF v
<1>5. \A e \in Experts : DOMAIN aligned[e] = Shards
  BY DEF AlignedRuns
<1> HIDE DEF aligned
<1>6. \A e \in Experts : \A d \in Shards : start[e][d] \in Nat
  <2> SUFFICES ASSUME NEW e \in Experts, NEW d \in Shards PROVE start[e][d] \in Nat
    OBVIOUS
  <2>1. start[e][d] = SumOf(aligned[e], {c \in Shards : c < d})
    BY <1>5 DEF ExclusiveSums
  <2>2. \A c \in Shards : aligned[e][c] \in Nat
    BY <1>4
  <2>3. {c \in Shards : c < d} \in SUBSET Shards /\ IsFiniteSet(Shards)
    BY ExpertFacts
  <2>4. \A T \in SUBSET Shards : SumOf(aligned[e], T) \in Nat
    BY <2>2, <2>3, Sums
  <2> HIDE DEF start
  <2> QED BY <2>1, <2>3, <2>4
<1>7. \A e \in Experts : SumOf(aligned[e], Shards) \in Nat
  BY <1>4, ExpertFacts, Sums
<1> HIDE DEF start
<1>8. \A e \in Experts : \A d \in Shards :
        /\ MirrorRunTiles(start[e][d], aligned[e][d]) \in Nat
        /\ aligned[e][d] > 0 => MirrorRunTiles(start[e][d], aligned[e][d]) > 0
  BY <1>4, <1>6, MirrorRunTilesIs
<1> QED BY <1>1, <1>2, <1>4, <1>7, <1>8 DEF t

\* Elements with keys of their own have every rank below their number.
LEMMA Ranks ==
  ASSUME NEW S, IsFiniteSet(S), NEW key, \A e \in S : key[e] \in Int,
         \A e, f \in S : key[e] = key[f] => e = f
  PROVE  \A n \in 0..Cardinality(S) - 1 :
           \E e \in S : Cardinality({f \in S : key[f] < key[e]}) = n
<1> DEFINE Under(e) == {f \in S : key[f] < key[e]}
           rank == [e \in S |-> Cardinality(Under(e))]
           T == 0..Cardinality(S) - 1
<1>1. Cardinality(S) \in Nat
  BY FS_CardinalityType
<1>2. ASSUME NEW e \in S PROVE IsFiniteSet(Under(e)) /\ Cardinality(Under(e)) \in T
  <2>1. Under(e) \in SUBSET S /\ Under(e) # S
    OBVIOUS
  <2> HIDE DEF Under
  <2>2. IsFiniteSet(Under(e)) /\ Cardinality(Under(e)) =< Cardinality(S)
        /\ Cardinality(Under(e)) # Cardinality(S)
    BY <2>1, FS_Subset
  <2>3. Cardinality(Under(e)) \in Nat
    BY <2>2, FS_CardinalityType
  <2> QED BY <1>1, <2>2, <2>3
<1>3. ASSUME NEW e \in S, NEW f \in S, key[e] < key[f]
      PROVE  Cardinality(Under(e)) < Cardinality(Under(f))
  <2>1. Under(e) \in SUBSET Under(f) /\ Under(e) # Under(f)
    BY <1>3
  <2> HIDE DEF Under
  <2>2. Cardinality(Under(e)) =< Cardinality(Under(f))
        /\ Cardinality(Under(e)) # Cardinality(Under(f))
    BY <1>2, <2>1, FS_Subset
  <2> QED BY <1>1, <1>2, <2>2
<1>4. rank \in [S -> T]
  <2> HIDE DEF T, Under
  <2> QED BY <1>2
<1>5. \A e, f \in S : rank[e] = rank[f] => e = f
  <2> SUFFICES ASSUME NEW e \in S, NEW f \in S, rank[e] = rank[f] PROVE e = f
    OBVIOUS
  <2>1. rank[e] = Cardinality(Under(e)) /\ rank[f] = Cardinality(Under(f))
    OBVIOUS
  <2> HIDE DEF rank, Under
  <2>2. Cardinality(Under(e)) \in Int /\ Cardinality(Under(f)) \in Int
    BY <1>1, <1>2
  <2>3. /\ key[e] < key[f] => Cardinality(Under(e)) < Cardinality(Under(f))
        /\ key[f] < key[e] => Cardinality(Under(f)) < Cardinality(Under(e))
    BY <1>3
  <2> DEFINE a == Cardinality(Under(e))
             b == Cardinality(Under(f))
  <2> HIDE DEF T
  <2>4. ~(key[e] < key[f]) /\ ~(key[f] < key[e])
    <3>1. a = b /\ a \in Int /\ (key[e] < key[f] => a < b) /\ (key[f] < key[e] => b < a)
      BY <2>1, <2>2, <2>3
    <3> HIDE DEF a, b
    <3> QED BY <3>1
  <2>5. key[e] \in Int /\ key[f] \in Int
    OBVIOUS
  <2>6. key[e] = key[f]
    BY <2>4, <2>5
  <2> QED BY <2>6
<1>6. IsFiniteSet(T) /\ Cardinality(T) = Cardinality(S)
  BY <1>1, FS_Interval
<1>7. rank \in Surjection(S, T)
  <2> HIDE DEF rank, T
  <2>1. rank \in Injection(S, T)
    BY <1>4, <1>5, Fun_IsInj
  <2> QED BY <1>6, <2>1, FS_Injection
<1> QED BY <1>7 DEF Surjection

LEMMA KeysDiffer ==
  ASSUME NEW G \in Nat \ {0}, NEW a \in 0..G - 1, NEW b \in 0..G - 1,
         NEW m \in Int, NEW n \in Int, a - m * G = b - n * G
  PROVE  a = b
<1>1. ASSUME NEW x \in Int, NEW y \in Int, x < y PROVE y * G - x * G >= G
  <2>1. y - x - 1 \in Nat
    BY <1>1
  <2>2. (y - x - 1) * G >= 0
    BY <2>1
  <2>3. (y - x - 1) * G = y * G - x * G - G
    OBVIOUS
  <2> QED BY <2>2, <2>3
<1>2. m * G \in Int /\ n * G \in Int
  OBVIOUS
<1>3. ~(m < n) /\ ~(n < m)
  <2>1. (m < n => n * G - m * G >= G) /\ (n < m => m * G - n * G >= G)
    BY <1>1
  <2> QED BY <1>2, <2>1
<1>4. m = n
  BY <1>3
<1> QED BY <1>2, <1>4

\* expert_visit_list gives a shard experts of its own, each at most once.
LEMMA VisitsOnce ==
  ASSUME NEW t, \A e \in Experts : t.expert_rows[e] \in Nat, NEW s \in Shards
  PROVE  /\ NumVisits(t, s) \in Nat
         /\ \A i \in 0..NumVisits(t, s) - 1 :
              Visit(t, s, i) \in ExpertsOf(s) /\ VisitRank(t, Visit(t, s, i)) = i
<1> DEFINE S == ExpertsOf(s)
           key == [e \in S |-> VisitKey(t, e)]
<1>1. IsFiniteSet(S) /\ S \in SUBSET Experts /\ \A e \in S : e \in Nat /\ ShardOf(e) = s
  BY ExpertFacts
<1>2. GLocal \in Nat \ {0}
  BY PlanArguments
<1>3. \A e \in S : key[e] \in Int
  <2> SUFFICES ASSUME NEW e \in S PROVE VisitKey(t, e) \in Int
    OBVIOUS
  <2>1. e % GLocal \in Int /\ t.expert_rows[e] \in Int
    BY <1>1, <1>2
  <2> QED BY <1>2, <2>1 DEF VisitKey
<1>4. \A e, f \in S : key[e] = key[f] => e = f
  <2> SUFFICES ASSUME NEW e \in S, NEW f \in S, VisitKey(t, e) = VisitKey(t, f)
               PROVE  e = f
    OBVIOUS
  <2> DEFINE a == e % GLocal
             b == f % GLocal
             m == t.expert_rows[e]
             n == t.expert_rows[f]
             x == e \div GLocal
             y == f \div GLocal
  <2>1. /\ a \in 0..GLocal - 1 /\ e = GLocal * x + a /\ x \in Int
        /\ b \in 0..GLocal - 1 /\ f = GLocal * y + b /\ y \in Int
    <3>1. e \in Int /\ f \in Int
      BY <1>1
    <3>2. a \in 0..GLocal - 1 /\ e = GLocal * x + a /\ x \in Int
      BY <1>2, <3>1, Division
    <3>3. b \in 0..GLocal - 1 /\ f = GLocal * y + b /\ y \in Int
      BY <1>2, <3>1, Division
    <3> QED BY <3>2, <3>3
  <2>2. x = y
    BY <1>1 DEF ShardOf
  <2>3. m \in Int /\ n \in Int /\ a - m * GLocal = b - n * GLocal
    BY <1>1 DEF VisitKey
  <2> HIDE DEF a, b, m, n, x, y
  <2>4. a = b
    BY <1>2, <2>1, <2>3, KeysDiffer
  <2> QED BY <2>1, <2>2, <2>4
<1>5. ASSUME NEW e \in S
      PROVE  VisitRank(t, e) = Cardinality({f \in S : key[f] < key[e]})
  <2>1. ShardOf(e) = s
    BY <1>1
  <2>2. {f \in ExpertsOf(ShardOf(e)) : VisitKey(t, f) < VisitKey(t, e)}
          = {f \in S : key[f] < key[e]}
    BY <2>1
  <2> QED BY <2>2 DEF VisitRank
<1>6. NumVisits(t, s) \in Nat /\ NumVisits(t, s) =< Cardinality(S) /\ Cardinality(S) \in Nat
  <2>1. {e \in S : t.expert_rows[e] > 0} \in SUBSET S
    OBVIOUS
  <2> QED BY <1>1, <2>1, FS_Subset, FS_CardinalityType DEF NumVisits
<1> HIDE DEF S, key
<1>7. \A n \in 0..Cardinality(S) - 1 :
        \E e \in S : Cardinality({f \in S : key[f] < key[e]}) = n
  BY <1>1, <1>3, <1>4, Ranks
<1>8. ASSUME NEW i \in 0..NumVisits(t, s) - 1
      PROVE  Visit(t, s, i) \in S /\ VisitRank(t, Visit(t, s, i)) = i
  <2>1. \E e \in S : VisitRank(t, e) = i
    <3>1. i \in 0..Cardinality(S) - 1
      BY <1>6
    <3>2. PICK e \in S : Cardinality({f \in S : key[f] < key[e]}) = i
      BY <1>7, <3>1
    <3> QED BY <1>5, <3>2
  <2> QED BY <2>1 DEF Visit, S
<1> QED BY <1>6, <1>8 DEF S

-----------------------------------------------------------------------------
\* The copies.  Every counter of a shard is owed one amount for each run of a
\* set of runs, which are pairs of an expert and a shard.

Counters == Sems \ Phases
What(x) == IF x \in {"send", "recv", "mehop"} THEN "rows" ELSE "scales"

RunsOf(x, s) ==
  CASE x \in {"send", "send_scl"} -> ExpertsOf(s) \X (Shards \ {s})
    [] x \in {"recv", "recv_scl"} -> (Experts \ ExpertsOf(s)) \X {s}
    [] OTHER -> ExpertsOf(s) \X {s}

Amounts(t, w) == [p \in Experts \X Shards |-> Amount(t, p[1], p[2], w)]

\* What a call's operands agree on.
RunsAgree(t) ==
  \A e \in Experts, d \in Shards :
    /\ t.run_rows[e][d] \in Nat /\ t.aligned[e][d] \in Nat /\ t.run_tiles[e][d] \in Nat
    /\ t.aligned[e][d] > 0 <=> t.run_rows[e][d] > 0
    /\ t.aligned[e][d] > 0 => t.run_tiles[e][d] > 0

VisitsAgree(visits, s) ==
  /\ \A i \in DOMAIN visits : i \in Nat /\ visits[i] \in ExpertsOf(s)
  /\ \A i, j \in DOMAIN visits : visits[i] = visits[j] => i = j

Consistent(o) ==
  /\ RunsAgree(o.runs)
  /\ \A s \in Shards : VisitsAgree(o.visit[s], s)
  /\ \A s \in Shards, x \in Counters :
       o.owed[s][x] = SumOf(Amounts(o.runs, What(x)), RunsOf(x, s))

LEMMA CountersAre ==
  Counters = {"send", "recv", "send_scl", "recv_scl", "mehop", "mehop_scl"}
BY DEF Counters, Sems, Phases, RemoteSems

LEMMA RunSets ==
  ASSUME NEW s \in Shards, NEW x \in Counters
  PROVE  RunsOf(x, s) \in SUBSET (Experts \X Shards) /\ IsFiniteSet(RunsOf(x, s))
<1>1. RunsOf(x, s) \in SUBSET (Experts \X Shards)
  BY DEF RunsOf, ExpertsOf
<1>2. IsFiniteSet(Experts \X Shards)
  BY ExpertFacts, FS_Product
<1> QED BY <1>1, <1>2, FS_Subset

\* An amount is a number, and only runs without rows have none.
LEMMA AmountsAre ==
  ASSUME NEW t, RunsAgree(t), NEW e \in Experts, NEW d \in Shards, NEW w \in Whats
  PROVE  /\ Amount(t, e, d, w) \in Nat /\ Amounts(t, w)[<<e, d>>] = Amount(t, e, d, w)
         /\ t.aligned[e][d] > 0 => Amount(t, e, d, w) > 0
         /\ ~(t.aligned[e][d] > 0) /\ w = "rows" => Amount(t, e, d, w) = 0
BY DEF Amount, Amounts, RunsAgree

\* What other experts send is what all send but for one's own.
LEMMA OtherRuns ==
  ASSUME NEW table, \A e \in Experts, d \in Shards : table[e][d] \in Nat,
         NEW s \in Shards, NEW f,
         \A e \in Experts \ ExpertsOf(s) : f[<<e, s>>] = table[e][s]
  PROVE  SumRuns(table, Experts, {s}) - SumRuns(table, ExpertsOf(s), {s})
           = SumOf(f, (Experts \ ExpertsOf(s)) \X {s})
<1> DEFINE g == [p \in Experts \X Shards |-> table[p[1]][p[2]]]
           All == Experts \X {s}
           Mine == ExpertsOf(s) \X {s}
           Others == (Experts \ ExpertsOf(s)) \X {s}
<1>1. /\ IsFiniteSet(Experts) /\ IsFiniteSet(ExpertsOf(s)) /\ IsFiniteSet({s})
      /\ ExpertsOf(s) \in SUBSET Experts
  BY ExpertFacts, FS_Singleton
<1>2. \A e \in Experts : \A d \in {s} : g[<<e, d>>] = table[e][d] /\ table[e][d] \in Nat
  OBVIOUS
<1>3. SumRuns(table, Experts, {s}) = SumOf(g, All)
  <2> HIDE DEF g
  <2> QED BY <1>1, <1>2, SumPairs
<1>4. SumRuns(table, ExpertsOf(s), {s}) = SumOf(g, Mine)
  <2>1. \A e \in ExpertsOf(s) : \A d \in {s} :
          g[<<e, d>>] = table[e][d] /\ table[e][d] \in Nat
    BY <1>1, <1>2
  <2> HIDE DEF g
  <2> QED BY <1>1, <2>1, SumPairs
<1>5. /\ IsFiniteSet(All) /\ \A p \in All : g[p] \in Nat
      /\ Mine \in SUBSET All /\ All \ Mine = Others /\ Others \in SUBSET All
  <2>1. IsFiniteSet(All)
    BY <1>1, FS_Product
  <2>2. \A p \in All : g[p] \in Nat
    BY <1>2
  <2>3. Mine \in SUBSET All /\ All \ Mine = Others /\ Others \in SUBSET All
    BY <1>1
  <2> QED BY <2>1, <2>2, <2>3
<1>6. \A p \in Others : f[p] = g[p]
  OBVIOUS
<1> HIDE DEF g, All, Mine, Others
<1>7. SumOf(g, All) = SumOf(g, Mine) + SumOf(g, Others)
      /\ SumOf(g, Mine) \in Nat /\ SumOf(g, Others) \in Nat
  BY <1>5, Sums
<1>8. SumOf(f, Others) = SumOf(g, Others)
  BY <1>5, <1>6, FS_Subset, SameSums
<1> QED BY <1>3, <1>4, <1>7, <1>8 DEF Others

\* drain_transport waits for the amounts of the runs.
LEMMA OwedIs ==
  ASSUME NEW t, RunsAgree(t), NEW s \in Shards, NEW x \in Counters
  PROVE  Owed(t, s)[x] = SumOf(Amounts(t, What(x)), RunsOf(x, s))
<1> DEFINE f(w) == Amounts(t, w)
<1>1. /\ IsFiniteSet(ExpertsOf(s)) /\ IsFiniteSet({s}) /\ IsFiniteSet(Shards \ {s})
      /\ \A e \in ExpertsOf(s) : e \in Experts /\ ShardOf(e) = s
      /\ \A e \in Experts \ ExpertsOf(s) : ShardOf(e) # s
  BY ExpertFacts, FS_Singleton, FS_Subset, FS_Difference DEF ExpertsOf
<1>2. /\ \A e \in Experts, d \in Shards : t.run_rows[e][d] \in Nat
      /\ \A e \in Experts, d \in Shards : t.aligned[e][d] \in Nat
      /\ \A e \in Experts, d \in Shards : t.run_tiles[e][d] \in Nat
  BY DEF RunsAgree
<1>3. \A e \in Experts, d \in Shards :
        /\ f("scales")[<<e, d>>] = t.run_tiles[e][d]
        /\ ShardOf(e) = d => f("rows")[<<e, d>>] = t.aligned[e][d]
        /\ ShardOf(e) # d => f("rows")[<<e, d>>] = t.run_rows[e][d]
  BY DEF Amounts, Amount
<1> HIDE DEF f
<1>4. SumRuns(t.run_rows, ExpertsOf(s), Shards \ {s})
        = SumOf(f("rows"), ExpertsOf(s) \X (Shards \ {s}))
  <2>1. \A e \in ExpertsOf(s) : \A d \in Shards \ {s} :
          f("rows")[<<e, d>>] = t.run_rows[e][d] /\ t.run_rows[e][d] \in Nat
    BY <1>1, <1>2, <1>3
  <2> QED BY <1>1, <2>1, SumPairs
<1>5. SumRuns(t.run_tiles, ExpertsOf(s), Shards \ {s})
        = SumOf(f("scales"), ExpertsOf(s) \X (Shards \ {s}))
  <2>1. \A e \in ExpertsOf(s) : \A d \in Shards \ {s} :
          f("scales")[<<e, d>>] = t.run_tiles[e][d] /\ t.run_tiles[e][d] \in Nat
    BY <1>1, <1>2, <1>3
  <2> QED BY <1>1, <2>1, SumPairs
<1>6. SumRuns(t.aligned, ExpertsOf(s), {s}) = SumOf(f("rows"), ExpertsOf(s) \X {s})
  <2>1. \A e \in ExpertsOf(s) : \A d \in {s} :
          f("rows")[<<e, d>>] = t.aligned[e][d] /\ t.aligned[e][d] \in Nat
    BY <1>1, <1>2, <1>3
  <2> QED BY <1>1, <2>1, SumPairs
<1>7. SumRuns(t.run_tiles, ExpertsOf(s), {s}) = SumOf(f("scales"), ExpertsOf(s) \X {s})
  <2>1. \A e \in ExpertsOf(s) : \A d \in {s} :
          f("scales")[<<e, d>>] = t.run_tiles[e][d] /\ t.run_tiles[e][d] \in Nat
    BY <1>1, <1>2, <1>3
  <2> QED BY <1>1, <2>1, SumPairs
<1>8. SumRuns(t.run_rows, Experts, {s}) - SumRuns(t.run_rows, ExpertsOf(s), {s})
        = SumOf(f("rows"), (Experts \ ExpertsOf(s)) \X {s})
  <2>1. \A e \in Experts \ ExpertsOf(s) : f("rows")[<<e, s>>] = t.run_rows[e][s]
    BY <1>1, <1>3
  <2> QED BY <1>2, <2>1, OtherRuns
<1>9. SumRuns(t.run_tiles, Experts, {s}) - SumRuns(t.run_tiles, ExpertsOf(s), {s})
        = SumOf(f("scales"), (Experts \ ExpertsOf(s)) \X {s})
  <2>1. \A e \in Experts \ ExpertsOf(s) : f("scales")[<<e, s>>] = t.run_tiles[e][s]
    BY <1>3
  <2> QED BY <1>2, <2>1, OtherRuns
<1>10. x \in {"send", "recv", "send_scl", "recv_scl", "mehop", "mehop_scl"}
  BY CountersAre
<1>11. CASE x = "send"
  BY <1>11, <1>4 DEF Owed, Counts, What, RunsOf, f
<1>12. CASE x = "recv"
  BY <1>12, <1>8 DEF Owed, Counts, What, RunsOf, f
<1>13. CASE x = "send_scl"
  BY <1>13, <1>5 DEF Owed, Counts, What, RunsOf, f
<1>14. CASE x = "recv_scl"
  BY <1>14, <1>9 DEF Owed, Counts, What, RunsOf, f
<1>15. CASE x = "mehop"
  BY <1>15, <1>6 DEF Owed, Counts, What, RunsOf, f
<1>16. CASE x = "mehop_scl"
  BY <1>16, <1>7 DEF Owed, Counts, What, RunsOf, f
<1> QED BY <1>10, <1>11, <1>12, <1>13, <1>14, <1>15, <1>16

LEMMA PlanIs ==
  ASSUME NEW r
  PROVE  Consistent(Operands(r))
<1> DEFINE t == RunTables(CountRows(r))
           o == Operands(r)
<1>1. RunsAgree(t) /\ \A e \in Experts : t.expert_rows[e] \in Nat
  BY TablesAre DEF RunsAgree
<1> HIDE DEF t
<1>2. /\ o.runs = t
      /\ o.visit = [s \in Shards |-> [i \in 0..NumVisits(t, s) - 1 |-> Visit(t, s, i)]]
      /\ o.owed = [s \in Shards |-> Owed(t, s)]
  BY DEF Operands, t
<1> HIDE DEF o
<1>3. ASSUME NEW s \in Shards PROVE VisitsAgree(o.visit[s], s)
  <2>1. /\ NumVisits(t, s) \in Nat
        /\ \A i \in 0..NumVisits(t, s) - 1 :
             Visit(t, s, i) \in ExpertsOf(s) /\ VisitRank(t, Visit(t, s, i)) = i
    BY <1>1, VisitsOnce
  <2>2. o.visit[s] = [i \in 0..NumVisits(t, s) - 1 |-> Visit(t, s, i)]
    BY <1>2
  <2> QED BY <2>1, <2>2 DEF VisitsAgree
<1>4. ASSUME NEW s \in Shards, NEW x \in Counters
      PROVE  o.owed[s][x] = SumOf(Amounts(o.runs, What(x)), RunsOf(x, s))
  <2>1. o.owed[s][x] = Owed(t, s)[x]
    BY <1>2
  <2> QED BY <1>1, <1>2, <2>1, OwedIs
<1> QED BY <1>1, <1>2, <1>3, <1>4 DEF Consistent, o

-----------------------------------------------------------------------------
\* The invariant of the copies.

\* Where a shard is while others may write into its buffers.
Awaiting == {"entry1", "entry2", "inside"}

\* The expert has been computed and its copies pushed, in its shard's round.
Pushed(e) ==
  \E i \in DOMAIN Visits(ShardOf(e)) :
    i < visit[ShardOf(e)] /\ Visits(ShardOf(e))[i] = e

Live(e, d) == Table(d).aligned[e][d] > 0
OnWay(C, e, d, w) == \E c \in C : c.e = e /\ c.to = d /\ c.what = w

\* The runs that a counter of s has counted are those whose copy was pushed
\* and has been read or has landed, as the counter takes it.
Through(x) == IF x \in {"send", "send_scl"} THEN queued ELSE queued \cup sent
Counted(x, s) ==
  {p \in RunsOf(x, s) : /\ Pushed(p[1]) /\ Table(s).aligned[p[1]][p[2]] > 0
                        /\ ~OnWay(Through(x), p[1], p[2], What(x))}
Held(x, s) ==
  IF pc[s] \in Awaiting THEN SumOf(Amounts(Table(s), What(x)), Counted(x, s)) ELSE 0

DataTypes ==
  /\ visit \in [Shards -> Nat] /\ contrib \in [Experts -> Nat]
  /\ recv \in [Whats -> [Shards -> [Experts -> Nat]]]
  /\ \A x \in Counters : sem[x] \in [Shards -> Nat]
  /\ \A r \in 1..Rounds : Consistent(calls[r])

\* Visits count within a call.
VisitInv ==
  \A s \in Shards :
    pc[s] \in {"layer", "gathering", "entry1", "entry2", "done"} => visit[s] = 0

\* A copy is one of the round that its receiver and its sender are in.
CopyInv ==
  \A c \in queued \cup sent :
    /\ c.e \in Experts /\ c.to \in Shards /\ c.what \in Whats
    /\ c = [e |-> c.e, to |-> c.to, what |-> c.what,
            amount |-> Amount(Table(c.to), c.e, c.to, c.what), round |-> round[c.to]]
    /\ round[ShardOf(c.e)] = round[c.to]
    /\ pc[c.to] \in Awaiting /\ Live(c.e, c.to) /\ Pushed(c.e)
    /\ c \in queued => pc[ShardOf(c.e)] = "inside"
    /\ c \in sent => pc[ShardOf(c.e)] \in {"inside", "exit1"} /\ ~Own(c)

Apart == queued \cap sent = {}

\* The contributions of an expert are of its shard's round.
ContribInv == \A e \in Experts : Pushed(e) => contrib[e] = round[ShardOf(e)]

SemInv == \A x \in Counters, s \in Shards : sem[x][s] = Held(x, s)

\* A shard that has drained has been sent all its runs, and has what arrived.
DrainInv == \A d \in Shards, e \in Experts : pc[d] = "exit1" /\ Live(e, d) => Pushed(e)

Arrived(e, d, w) ==
  \/ pc[d] \in {"exit1", "exit2", "out"}
  \/ pc[d] \in Awaiting /\ Pushed(e) /\ ~OnWay(queued \cup sent, e, d, w)
RecvInv ==
  \A d \in Shards, e \in Experts, w \in Whats :
    Live(e, d) /\ Arrived(e, d, w) => recv[w][d][e] = round[d]

CopiesInv ==
  /\ DataTypes /\ VisitInv /\ CopyInv /\ Apart
  /\ ContribInv /\ SemInv /\ DrainInv /\ RecvInv

LEMMA InitCopiesInv == Init => CopiesInv
<1> SUFFICES ASSUME Init PROVE CopiesInv
  OBVIOUS
<1>1. /\ pc = [s \in Shards |-> "layer"] /\ visit = [s \in Shards |-> 0]
      /\ queued = {} /\ sent = {} /\ contrib = [e \in Experts |-> 0]
      /\ recv = [w \in Whats |-> [d \in Shards |-> [e \in Experts |-> 0]]]
      /\ \A x \in Counters : sem[x] = [s \in Shards |-> 0]
  BY DEF Init, Counters
<1>2. \A r \in 1..Rounds : Consistent(calls[r])
  <2>1. PICK l \in CallLists : calls = [i \in 1..Rounds |-> Operands(l[i])]
    BY DEF Init
  <2> QED BY <2>1, PlanIs
<1>3. DataTypes
  BY <1>1, <1>2 DEF DataTypes
<1>4. \A e \in Experts : ~Pushed(e)
  <2> SUFFICES ASSUME NEW e \in Experts, NEW i \in DOMAIN Visits(ShardOf(e)),
                      i < visit[ShardOf(e)]
               PROVE  FALSE
    BY DEF Pushed
  <2>1. /\ ShardOf(e) \in Shards /\ round[ShardOf(e)] \in 1..Rounds
    BY ExpertFacts, RoundsAssumption DEF Init
  <2>2. i \in Nat /\ visit[ShardOf(e)] = 0
    BY <1>1, <1>2, <2>1 DEF Consistent, VisitsAgree, Visits
  <2> QED BY <2>2
<1>5. VisitInv /\ CopyInv /\ Apart /\ ContribInv
  BY <1>1, <1>4 DEF VisitInv, CopyInv, Apart, ContribInv
<1>6. \A s \in Shards : pc[s] \notin Awaiting /\ pc[s] \notin {"exit1", "exit2", "out"}
  BY <1>1 DEF Awaiting
<1>7. SemInv
  BY <1>1, <1>6 DEF SemInv, Held
<1>8. DrainInv /\ RecvInv
  BY <1>6 DEF DrainInv, RecvInv, Arrived
<1> QED BY <1>3, <1>5, <1>7, <1>8 DEF CopiesInv

\* While a shard computes, all are between the two barriers of its round.
LEMMA InsideMeets ==
  ASSUME IInv, NEW s \in Shards, pc[s] = "inside", NEW d \in Shards
  PROVE  round[d] = round[s] /\ pc[d] \in {"entry2", "inside", "exit1"}
<1>1. /\ round[s] \in Nat /\ round[d] \in Nat /\ pc[d] \in Places
      /\ round[s] >= 1 /\ round[d] >= 1
  BY RoundsAssumption DEF IInv, PhaseTypes
<1>2. Left(s) <= Met(d) /\ Met(d) <= Signalled(s)
  BY DEF IInv, Order
<1>3. Left(s) = 2 * (round[s] - 1) + 1 /\ Signalled(s) = 2 * (round[s] - 1) + 1
  BY DEF Left, Signalled
<1>4. /\ Met(d) >= 2 * (round[d] - 1) /\ Met(d) <= 2 * round[d]
      /\ pc[d] \in {"layer", "gathering", "entry1"} => Met(d) = 2 * (round[d] - 1)
      /\ pc[d] \in {"exit2", "out", "done"} => Met(d) = 2 * round[d]
      /\ pc[d] \in {"entry2", "inside", "exit1"} => Met(d) = 2 * (round[d] - 1) + 1
  BY <1>1 DEF Met
<1> QED BY <1>1, <1>2, <1>3, <1>4 DEF Places

\* While a shard awaits copies, those that may have pushed some are in its
\* round, and have not left the barrier at their exit.
LEMMA AwaitingMeets ==
  ASSUME IInv, NEW s \in Shards, pc[s] \in Awaiting, NEW d \in Shards,
         pc[d] \in {"inside", "exit1", "exit2", "out"}
  PROVE  round[d] = round[s] /\ pc[d] \in {"inside", "exit1"}
<1>1. /\ round[s] \in Nat /\ round[d] \in Nat /\ round[s] >= 1 /\ round[d] >= 1
  BY RoundsAssumption DEF IInv, PhaseTypes
<1>2. round[d] >= round[s] /\ Met(d) <= Signalled(s)
  BY <1>1 DEF IInv, Order, GatherInv, Awaiting
<1>3. Signalled(s) = 2 * (round[s] - 1) + 1
  BY DEF Signalled, Awaiting
<1>4. /\ pc[d] \in {"exit2", "out"} => Met(d) = 2 * round[d]
      /\ pc[d] \in {"inside", "exit1"} => Met(d) = 2 * (round[d] - 1) + 1
  BY <1>1 DEF Met
<1> QED BY <1>1, <1>2, <1>3, <1>4

\* Before a shard enters, nobody has pushed anything in its round.
LEMMA EnterMeets ==
  ASSUME IInv, NEW s \in Shards, pc[s] = "gathering", Gathered(s), NEW d \in Shards
  PROVE  pc[d] \in {"layer", "gathering", "entry1", "entry2", "done"}
<1>1. /\ round[s] \in Nat /\ round[d] \in Nat /\ pc[d] \in Places
      /\ round[s] >= 1 /\ round[d] >= 1
  BY RoundsAssumption DEF IInv, PhaseTypes
<1>2. round[d] >= round[s] /\ Met(d) <= Signalled(s)
  BY <1>1 DEF IInv, Order, Gathered
<1>3. Signalled(s) = 2 * (round[s] - 1)
  BY <1>1 DEF Signalled
<1>4. pc[d] \in {"inside", "exit1", "exit2", "out"} =>
        Met(d) \in Int /\ Met(d) >= 2 * (round[d] - 1) + 1
  BY <1>1 DEF Met
<1> QED BY <1>1, <1>2, <1>3, <1>4 DEF Places

\* When a shard is out, nobody awaits copies or is about to leave.
LEMMA OutMeets ==
  ASSUME IInv, NEW s \in Shards, pc[s] = "out", NEW d \in Shards
  PROVE  pc[d] \notin Awaiting /\ pc[d] # "exit1"
<1>1. /\ round[s] \in Nat /\ round[d] \in Nat /\ round[s] >= 1 /\ round[d] >= 1
  BY RoundsAssumption DEF IInv, PhaseTypes
<1>2. Left(s) <= Met(d)
      /\ (pc[d] \notin {"layer", "gathering"} => round[s] >= round[d])
  BY <1>1 DEF IInv, Order, GatherInv
<1>3. Left(s) = 2 * round[s]
  BY <1>1 DEF Left
<1>4. pc[d] \in {"entry1", "entry2", "inside", "exit1"} =>
        Met(d) \in Int /\ Met(d) <= 2 * (round[d] - 1) + 1
  BY <1>1 DEF Met
<1> QED BY <1>1, <1>2, <1>3, <1>4 DEF Awaiting

\* A step that leaves the rounds, the visits and the copies alone.
LEMMA SameData ==
  ASSUME UNCHANGED <<calls, round, visit>>
  PROVE  /\ \A s : Table(s)' = Table(s)
         /\ \A e : Pushed(e)' = Pushed(e)
         /\ \A e, d : Live(e, d)' = Live(e, d)
         /\ UNCHANGED <<queued, sent>> =>
              /\ \A x : Through(x)' = Through(x)
              /\ \A x, s : Counted(x, s)' = Counted(x, s)
<1>1. \A s : Table(s)' = Table(s) /\ Visits(s)' = Visits(s)
  BY DEF Table, Visits
<1>2. \A e : Pushed(e)' = Pushed(e)
  BY <1>1 DEF Pushed
<1>3. \A e, d : Live(e, d)' = Live(e, d)
  BY <1>1 DEF Live
<1>4. ASSUME UNCHANGED <<queued, sent>>
      PROVE  /\ \A x : Through(x)' = Through(x)
             /\ \A x, s : Counted(x, s)' = Counted(x, s)
  <2>1. \A x : Through(x)' = Through(x)
    BY <1>4 DEF Through
  <2> QED BY <1>1, <1>2, <2>1 DEF Counted
<1> QED BY <1>1, <1>2, <1>3, <1>4

LEMMA NothingCounted ==
  ASSUME DataTypes, PhaseTypes, \A d \in Shards : visit[d] = 0
  PROVE  /\ \A e \in Experts : ~Pushed(e)
         /\ \A x \in Counters, s \in Shards : Counted(x, s) = {}
<1>1. \A e \in Experts : ~Pushed(e)
  <2> SUFFICES ASSUME NEW e \in Experts, NEW i \in DOMAIN Visits(ShardOf(e)),
                      i < visit[ShardOf(e)]
               PROVE  FALSE
    BY DEF Pushed
  <2>1. ShardOf(e) \in Shards
    BY ExpertFacts
  <2>2. Consistent(calls[round[ShardOf(e)]])
    BY <2>1 DEF DataTypes, PhaseTypes
  <2>3. i \in Nat
    BY <2>1, <2>2 DEF Consistent, VisitsAgree, Visits
  <2> QED BY <2>1, <2>3
<1>2. ASSUME NEW x \in Counters, NEW s \in Shards PROVE Counted(x, s) = {}
  <2>1. RunsOf(x, s) \in SUBSET (Experts \X Shards)
    BY RunSets
  <2>2. \A p \in RunsOf(x, s) : p[1] \in Experts
    BY <2>1
  <2> QED BY <1>1, <2>2 DEF Counted
<1> QED BY <1>1, <1>2

\* A step of a shard to another place, which leaves the data alone.
LEMMA MoveStep ==
  ASSUME IInv, CopiesInv, NEW s \in Shards, NEW q,
         pc' = [pc EXCEPT ![s] = q], UNCHANGED <<calls, round, visit>>,
         UNCHANGED <<contrib, recv, queued, sent>>, \A x \in Counters : sem'[x] = sem[x],
         pc[s] # "inside", q # "exit1", \A c \in sent : ShardOf(c.e) # s,
         q \in {"layer", "gathering", "entry1", "entry2", "done"} => visit[s] = 0,
         q \in {"exit2", "out"} => pc[s] \in {"exit1", "exit2"},
         pc[s] \in Awaiting => q \in Awaiting,
         pc[s] \notin Awaiting /\ q \in Awaiting => \A d \in Shards : visit[d] = 0
  PROVE  CopiesInv'
<1> USE DEF CopiesInv
<1>1. /\ \A d : Table(d)' = Table(d)
      /\ \A e : Pushed(e)' = Pushed(e)
      /\ \A e, d : Live(e, d)' = Live(e, d)
      /\ \A x, d : Counted(x, d)' = Counted(x, d)
  BY SameData
<1>2. \A d \in Shards : pc'[d] = IF d = s THEN q ELSE pc[d]
  BY DEF IInv, PhaseTypes
<1>3. DataTypes'
  BY DEF DataTypes
<1>4. VisitInv'
  BY <1>2 DEF VisitInv
<1>5. CopyInv'
  <2> SUFFICES ASSUME NEW c \in queued \cup sent
               PROVE  /\ pc'[c.to] \in Awaiting
                      /\ c \in queued => pc'[ShardOf(c.e)] = "inside"
                      /\ c \in sent => pc'[ShardOf(c.e)] \in {"inside", "exit1"}
    BY <1>1 DEF CopyInv, Own
  <2>1. /\ c.to \in Shards /\ ShardOf(c.e) \in Shards /\ pc[c.to] \in Awaiting
        /\ c \in queued => pc[ShardOf(c.e)] = "inside"
        /\ c \in sent => pc[ShardOf(c.e)] \in {"inside", "exit1"}
    BY ExpertFacts DEF CopyInv
  <2> QED BY <1>2, <2>1
<1>6. Apart' /\ ContribInv'
  BY <1>1 DEF Apart, ContribInv
<1>7. SemInv'
  <2> SUFFICES ASSUME NEW x \in Counters, NEW d \in Shards PROVE sem[x][d] = Held(x, d)'
    BY DEF SemInv
  <2>1. CASE pc'[d] \in Awaiting <=> pc[d] \in Awaiting
    BY <1>1, <2>1 DEF SemInv, Held
  <2>2. CASE ~(pc'[d] \in Awaiting <=> pc[d] \in Awaiting)
    <3>1. pc[d] \notin Awaiting /\ pc'[d] \in Awaiting /\ \A f \in Shards : visit[f] = 0
      BY <1>2, <2>2
    <3>2. Counted(x, d) = {}
      BY <3>1, NothingCounted DEF IInv
    <3>3. sem[x][d] = 0
      BY <3>1 DEF SemInv, Held
    <3>4. SumOf(Amounts(Table(d), What(x)), {}) = 0
      BY FS_EmptySet, Sums
    <3> QED BY <1>1, <3>1, <3>2, <3>3, <3>4 DEF Held
  <2> QED BY <2>1, <2>2
<1>8. DrainInv'
  BY <1>1, <1>2 DEF DrainInv
<1>9. RecvInv'
  <2> SUFFICES ASSUME NEW d \in Shards, NEW e \in Experts, NEW w \in Whats,
                      Live(e, d), Arrived(e, d, w)'
               PROVE  recv[w][d][e] = round[d]
    BY <1>1 DEF RecvInv
  <2>1. Arrived(e, d, w)
    <3>1. OnWay(queued \cup sent, e, d, w)' = OnWay(queued \cup sent, e, d, w)
      BY DEF OnWay
    <3>2. CASE pc'[d] \in {"exit1", "exit2", "out"}
      BY <1>2, <3>2 DEF Arrived
    <3>3. CASE pc'[d] \in Awaiting /\ Pushed(e) /\ ~OnWay(queued \cup sent, e, d, w)
      <4>1. pc[d] \in Awaiting
        BY <1>2, <3>3, NothingCounted DEF IInv
      <4> QED BY <3>3, <4>1 DEF Arrived
    <3> QED BY <1>1, <3>1, <3>2, <3>3 DEF Arrived
  <2> QED BY <2>1 DEF RecvInv
<1> QED BY <1>3, <1>4, <1>5, <1>6, <1>7, <1>8, <1>9

\* A step that leaves the shards and the data alone.
LEMMA KeepStep ==
  ASSUME CopiesInv, pc' = pc, UNCHANGED <<calls, round, visit>>,
         UNCHANGED <<contrib, recv, queued, sent>>, \A x \in Counters : sem'[x] = sem[x]
  PROVE  CopiesInv'
<1> USE DEF CopiesInv
<1>1. /\ \A d : Table(d)' = Table(d)
      /\ \A e : Pushed(e)' = Pushed(e)
      /\ \A e, d : Live(e, d)' = Live(e, d)
      /\ \A x, d : Counted(x, d)' = Counted(x, d)
  BY SameData
<1>2. DataTypes' /\ VisitInv' /\ Apart'
  BY DEF DataTypes, VisitInv, Apart
<1>3. CopyInv'
  BY <1>1 DEF CopyInv, Own
<1>4. ContribInv' /\ DrainInv'
  BY <1>1 DEF ContribInv, DrainInv
<1>5. SemInv'
  BY <1>1 DEF SemInv, Held
<1>6. RecvInv'
  BY <1>1 DEF RecvInv, Arrived, OnWay
<1> QED BY <1>2, <1>3, <1>4, <1>5, <1>6

LEMMA SentPartners ==
  ASSUME IInv, CopiesInv, NEW c \in sent
  PROVE  /\ ShardOf(c.e) \in Shards /\ c.to \in Shards
         /\ pc[ShardOf(c.e)] \in {"inside", "exit1"} /\ pc[c.to] \in Awaiting
         /\ round[ShardOf(c.e)] = round[c.to]
BY ExpertFacts DEF CopiesInv, CopyInv

LEMMA GatherCopies ==
  ASSUME IInv, CopiesInv, NEW s \in Shards, Gather(s)
  PROVE  CopiesInv'
<1>1. /\ pc[s] = "layer" /\ pc' = [pc EXCEPT ![s] = "gathering"] /\ visit[s] = 0
      /\ UNCHANGED <<calls, round, visit>> /\ UNCHANGED <<contrib, recv, queued, sent>>
      /\ sem' = sem
  BY DEF Gather, Goto, CopiesInv, VisitInv
<1>2. \A c \in sent : ShardOf(c.e) # s
  BY <1>1, SentPartners
<1> QED BY <1>1, <1>2, MoveStep DEF Awaiting

LEMMA EnterCopies ==
  ASSUME IInv, CopiesInv, NEW s \in Shards, Enter(s)
  PROVE  CopiesInv'
<1>1. /\ pc[s] = "gathering" /\ pc' = [pc EXCEPT ![s] = "entry1"] /\ Gathered(s)
      /\ UNCHANGED <<calls, round, visit>> /\ UNCHANGED <<contrib, recv, queued, sent>>
      /\ sem' = [sem EXCEPT !["barrier"][s] = @ + 1]
  BY DEF Enter, Goto
<1>2. \A c \in sent : ShardOf(c.e) # s
  BY <1>1, SentPartners
<1>3. \A d \in Shards : visit[d] = 0
  BY <1>1, EnterMeets DEF CopiesInv, VisitInv
<1>4. \A x \in Counters : sem'[x] = sem[x]
  BY <1>1 DEF Counters, Phases, IInv, PhaseTypes
<1>5. visit[s] = 0 /\ pc[s] # "inside"
  BY <1>1, <1>3
<1> QED BY <1>1, <1>2, <1>3, <1>4, <1>5, MoveStep DEF Awaiting

LEMMA PassFirstCopies ==
  ASSUME IInv, CopiesInv, NEW s \in Shards, PassFirst(s)
  PROVE  CopiesInv'
<1>1. /\ UNCHANGED <<calls, round, visit>> /\ UNCHANGED <<contrib, recv, queued, sent>>
      /\ sem["barrier"][s] >= NumSignals
      /\ sem' = [sem EXCEPT !["barrier"][s] = @ - NumSignals, !["second"][s] = @ + 1]
  BY DEF PassFirst
<1>2. \A x \in Counters : sem'[x] = sem[x]
  BY <1>1 DEF Counters, Phases, IInv, PhaseTypes
<1>3. CASE pc[s] = "entry1" /\ pc' = [pc EXCEPT ![s] = "entry2"]
  <2>1. visit[s] = 0
    BY <1>3 DEF CopiesInv, VisitInv
  <2>2. \A c \in sent : ShardOf(c.e) # s
    BY <1>3, SentPartners
  <2> QED BY <1>1, <1>2, <1>3, <2>1, <2>2, MoveStep DEF Awaiting
<1>4. CASE pc[s] = "exit1" /\ pc' = [pc EXCEPT ![s] = "exit2"]
  <2>1. ASSUME NEW c \in sent, ShardOf(c.e) = s PROVE FALSE
    <3>1. /\ c.to \in Shards /\ pc[c.to] \in Awaiting /\ round[c.to] = round[s]
          /\ round[s] \in Nat /\ round[s] >= 1
      BY <2>1, SentPartners, RoundsAssumption DEF IInv, PhaseTypes
    <3>2. Signalled(c.to) = Met(s) + 1
      BY <1>1, <3>1, FirstMet
    <3>3. Signalled(c.to) = 2 * (round[s] - 1) + 1
      BY <3>1 DEF Signalled, Awaiting
    <3>4. Met(s) = 2 * (round[s] - 1) + 1
      BY <1>4 DEF Met
    <3> QED BY <3>1, <3>2, <3>3, <3>4
  <2> QED BY <1>1, <1>2, <1>4, <2>1, MoveStep DEF Awaiting
<1> QED BY <1>3, <1>4 DEF PassFirst, Goto

LEMMA PassSecondCopies ==
  ASSUME IInv, CopiesInv, NEW s \in Shards, PassSecond(s)
  PROVE  CopiesInv'
<1>1. /\ UNCHANGED <<calls, round, visit>> /\ UNCHANGED <<contrib, recv, queued, sent>>
      /\ sem' = [sem EXCEPT !["second"][s] = @ - NumSignals]
      /\ \/ pc[s] = "entry2" /\ pc' = [pc EXCEPT ![s] = "inside"]
         \/ pc[s] = "exit2" /\ pc' = [pc EXCEPT ![s] = "out"]
  BY DEF PassSecond, Goto
<1>2. \A x \in Counters : sem'[x] = sem[x]
  BY <1>1 DEF Counters, Phases, IInv, PhaseTypes
<1>3. \A c \in sent : ShardOf(c.e) # s
  BY <1>1, SentPartners
<1> QED BY <1>1, <1>2, <1>3, MoveStep DEF Awaiting

LEMMA SignalCopies ==
  ASSUME IInv, CopiesInv, NEW b \in Phases, NEW d \in Shards, Signal(b, d)
  PROVE  CopiesInv'
<1>1. /\ pc' = pc /\ UNCHANGED <<calls, round, visit>>
      /\ UNCHANGED <<contrib, recv, queued, sent>>
      /\ sem' = [sem EXCEPT ![b][d] = @ + 1]
  BY DEF Signal
<1>2. \A x \in Counters : sem'[x] = sem[x]
  BY <1>1 DEF Counters, IInv, PhaseTypes
<1> QED BY <1>1, <1>2, KeepStep

LEMMA CombineCopies ==
  ASSUME IInv, CopiesInv, NEW s \in Shards, Combine(s)
  PROVE  CopiesInv'
<1> USE DEF CopiesInv
<1>1. /\ pc[s] = "out" /\ UNCHANGED <<calls, sem, contrib, recv, queued, sent>>
      /\ pc' = [pc EXCEPT ![s] = IF round[s] < Rounds THEN "layer" ELSE "done"]
      /\ round' = [round EXCEPT ![s] = IF @ < Rounds THEN @ + 1 ELSE @]
      /\ visit' = [visit EXCEPT ![s] = 0]
      /\ round \in [Shards -> 1..Rounds] /\ visit \in [Shards -> Nat]
      /\ pc \in [Shards -> Places]
  BY DEF Combine, Goto, IInv, PhaseTypes, DataTypes
<1>2. /\ \A d \in Shards \ {s} :
           pc'[d] = pc[d] /\ round'[d] = round[d] /\ visit'[d] = visit[d]
      /\ pc'[s] \in {"layer", "done"} /\ visit'[s] = 0
  BY <1>1
<1>3. \A d \in Shards : pc[d] \notin Awaiting /\ pc[d] # "exit1"
  BY <1>1, OutMeets
<1>4. \A d \in Shards : pc'[d] \notin Awaiting /\ pc'[d] # "exit1"
  BY <1>2, <1>3 DEF Awaiting
<1>5. queued = {} /\ sent = {}
  BY <1>3 DEF CopyInv
<1>6. DataTypes'
  BY <1>1 DEF DataTypes
<1>7. VisitInv' /\ CopyInv' /\ Apart' /\ DrainInv'
  BY <1>1, <1>2, <1>4, <1>5 DEF VisitInv, CopyInv, Apart, DrainInv
<1>8. SemInv'
  BY <1>1, <1>3, <1>4 DEF SemInv, Held
<1>9. ContribInv'
  <2> SUFFICES ASSUME NEW e \in Experts, Pushed(e)'
               PROVE  contrib[e] = round'[ShardOf(e)]
    BY <1>1 DEF ContribInv
  <2>1. ShardOf(e) \in Shards
    BY ExpertFacts
  <2>2. ShardOf(e) # s
    <3> SUFFICES ASSUME ShardOf(e) = s PROVE FALSE
      OBVIOUS
    <3>1. PICK i \in DOMAIN Visits(s)' : i < 0
      BY <1>2 DEF Pushed
    <3>2. round'[s] \in 1..Rounds
      BY <1>1, RoundsAssumption
    <3>3. Consistent(calls'[round'[s]])
      BY <1>6, <3>2 DEF DataTypes
    <3>4. i \in Nat
      BY <3>1, <3>3 DEF Consistent, VisitsAgree, Visits
    <3> QED BY <3>1, <3>4
  <2>3. round'[ShardOf(e)] = round[ShardOf(e)] /\ visit'[ShardOf(e)] = visit[ShardOf(e)]
    BY <1>2, <2>1, <2>2
  <2>4. Visits(ShardOf(e))' = Visits(ShardOf(e))
    BY <1>1, <2>3 DEF Visits
  <2>5. Pushed(e)
    BY <2>3, <2>4 DEF Pushed
  <2> QED BY <2>3, <2>5 DEF ContribInv
<1>10. RecvInv'
  <2> SUFFICES ASSUME NEW d \in Shards, NEW e \in Experts, NEW w \in Whats,
                      Live(e, d)', Arrived(e, d, w)'
               PROVE  recv[w][d][e] = round'[d]
    BY <1>1 DEF RecvInv
  <2>1. pc'[d] \in {"exit1", "exit2", "out"}
    BY <1>4 DEF Arrived
  <2>2. d # s
    BY <1>2, <2>1
  <2>3. round'[d] = round[d] /\ pc'[d] = pc[d]
    BY <1>2, <2>2
  <2>4. Live(e, d)
    BY <1>1, <2>3 DEF Live, Table
  <2>5. Arrived(e, d, w)
    BY <2>1, <2>3 DEF Arrived
  <2> QED BY <2>3, <2>4, <2>5 DEF RecvInv
<1> QED BY <1>6, <1>7, <1>8, <1>9, <1>10

LEMMA VisitStepCopies ==
  ASSUME IInv, CopiesInv, NEW s \in Shards, VisitStep(s)
  PROVE  CopiesInv'
<1> DEFINE f == Visits(s)[visit[s]]
           N == PushExpert(s, f)
<1> USE DEF CopiesInv
<1>1. /\ pc[s] = "inside" /\ visit[s] \in DOMAIN Visits(s)
      /\ UNCHANGED <<calls, pc, round, sem, recv, sent>>
      /\ contrib' = [contrib EXCEPT ![f] = round[s]] /\ queued' = queued \cup N
      /\ visit' = [visit EXCEPT ![s] = @ + 1] /\ visit \in [Shards -> Nat]
      /\ contrib \in [Experts -> Nat] /\ round \in [Shards -> 1..Rounds] /\ 1..Rounds \subseteq Nat
  BY DEF VisitStep, VisitsLeft, DataTypes, IInv, PhaseTypes
<1>2. Consistent(calls[round[s]])
  BY <1>1 DEF DataTypes
<1>3. /\ \A i \in DOMAIN Visits(s) : i \in Nat /\ Visits(s)[i] \in ExpertsOf(s)
      /\ \A i, j \in DOMAIN Visits(s) : Visits(s)[i] = Visits(s)[j] => i = j
  BY <1>2 DEF Consistent, VisitsAgree, Visits
<1>4. f \in Experts /\ ShardOf(f) = s
  BY <1>1, <1>3, ExpertFacts
<1>5. \A d : Table(d)' = Table(d) /\ Visits(d)' = Visits(d)
  BY <1>1 DEF Table, Visits
<1>6. \A e \in Experts : Pushed(e)' <=> Pushed(e) \/ e = f
  <2> SUFFICES ASSUME NEW e \in Experts PROVE Pushed(e)' <=> Pushed(e) \/ e = f
    OBVIOUS
  <2>1. CASE ShardOf(e) # s
    <3>1. ShardOf(e) \in Shards /\ visit'[ShardOf(e)] = visit[ShardOf(e)] /\ e # f
      BY <2>1, <1>1, <1>4, ExpertFacts
    <3> QED BY <3>1, <1>5 DEF Pushed
  <2>2. CASE ShardOf(e) = s
    <3>1. visit'[s] = visit[s] + 1 /\ visit[s] \in Nat
      BY <1>1
    <3>2. \A i \in DOMAIN Visits(s) : i < visit'[s] <=> i < visit[s] \/ i = visit[s]
      BY <1>3, <3>1
    <3>3. Pushed(e)' <=> \E i \in DOMAIN Visits(s) : i < visit'[s] /\ Visits(s)[i] = e
      BY <2>2, <1>5 DEF Pushed
    <3>4. Pushed(e) <=> \E i \in DOMAIN Visits(s) : i < visit[s] /\ Visits(s)[i] = e
      BY <2>2 DEF Pushed
    <3> QED BY <1>1, <3>2, <3>3, <3>4
  <2> QED BY <2>1, <2>2
<1>7. ~Pushed(f)
  <2>1. \A i \in DOMAIN Visits(s) : Visits(s)[i] = f => i = visit[s]
    BY <1>1, <1>3
  <2>2. \A i \in DOMAIN Visits(s) : i \in Nat /\ (i < visit[s] => i # visit[s])
    BY <1>1, <1>3
  <2> QED BY <1>4, <2>1, <2>2 DEF Pushed
<1>8. \A d \in Shards : /\ round[d] = round[s] /\ pc[d] \in {"entry2", "inside", "exit1"}
                        /\ Table(d) = Table(s)
  BY <1>1, InsideMeets DEF Table
<1>9. \A e, d : Live(e, d)' = Live(e, d)
  BY <1>5 DEF Live
<1>10. \A d \in Shards : Live(f, d) => pc[d] \in Awaiting
  BY <1>4, <1>7, <1>8 DEF DrainInv, Awaiting
<1> HIDE DEF f
<1>11. ASSUME NEW c \in N
       PROVE  /\ c.e = f /\ c.to \in Shards /\ c.what \in Whats /\ Live(f, c.to)
              /\ c = [e |-> f, to |-> c.to, what |-> c.what,
                      amount |-> Amount(Table(s), f, c.to, c.what), round |-> round[s]]
  <2>1. PICK d \in Shards, w \in Whats :
          /\ Table(s).aligned[f][d] > 0
          /\ c = [e |-> f, to |-> d, what |-> w,
                  amount |-> Amount(Table(s), f, d, w), round |-> round[s]]
    BY DEF PushExpert
  <2>2. Live(f, d)
    BY <2>1, <1>8 DEF Live
  <2> QED BY <2>1, <2>2
<1>12. \A d \in Shards, w \in Whats : Live(f, d) => OnWay(N, f, d, w)
  <2> SUFFICES ASSUME NEW d \in Shards, NEW w \in Whats, Live(f, d)
               PROVE  OnWay(N, f, d, w)
    OBVIOUS
  <2> DEFINE c == [e |-> f, to |-> d, what |-> w,
                   amount |-> Amount(Table(s), f, d, w), round |-> round[s]]
  <2>1. Table(s).aligned[f][d] > 0
    BY <1>8 DEF Live
  <2>2. c \in N
    BY <2>1 DEF PushExpert
  <2>3. c.e = f /\ c.to = d /\ c.what = w
    OBVIOUS
  <2> HIDE DEF c, N
  <2> QED BY <2>2, <2>3 DEF OnWay
<1> HIDE DEF N
<1>13. DataTypes'
  <2>1. round[s] \in Nat /\ visit[s] + 1 \in Nat
    BY <1>1
  <2>2. contrib' \in [Experts -> Nat]
    BY <1>1, <2>1
  <2>3. visit' \in [Shards -> Nat]
    BY <1>1, <2>1
  <2> QED BY <1>1, <2>2, <2>3 DEF DataTypes
<1>14. VisitInv'
  BY <1>1 DEF VisitInv
<1>15. CopyInv'
  <2> SUFFICES ASSUME NEW c \in queued \cup N \cup sent
               PROVE  /\ c.e \in Experts /\ c.to \in Shards /\ c.what \in Whats
                      /\ c = [e |-> c.e, to |-> c.to, what |-> c.what,
                              amount |-> Amount(Table(c.to), c.e, c.to, c.what),
                              round |-> round[c.to]]
                      /\ round[ShardOf(c.e)] = round[c.to]
                      /\ pc[c.to] \in Awaiting /\ Live(c.e, c.to) /\ Pushed(c.e)'
                      /\ c \in queued \cup N => pc[ShardOf(c.e)] = "inside"
                      /\ c \in sent => pc[ShardOf(c.e)] \in {"inside", "exit1"} /\ ~Own(c)
    BY <1>1, <1>5, <1>9 DEF CopyInv, Own
  <2>1. CASE c \in N
    <3>1. c.e \in Experts /\ Pushed(c.e)' /\ c.to \in Shards
      BY <2>1, <1>4, <1>6, <1>11
    <3>2. c \notin sent
      BY <2>1, <1>7, <1>11 DEF CopyInv
    <3>3. Table(c.to) = Table(s) /\ round[c.to] = round[s] /\ ShardOf(c.e) = s
      BY <2>1, <1>4, <1>8, <1>11
    <3>4. pc[c.to] \in Awaiting /\ Live(c.e, c.to)
      BY <2>1, <1>10, <1>11
    <3> QED BY <2>1, <3>1, <3>2, <3>3, <3>4, <1>1, <1>11
  <2>2. CASE c \notin N
    <3>1. c \in queued \cup sent /\ c.e \in Experts
      BY <2>2 DEF CopyInv
    <3>2. Pushed(c.e)'
      BY <3>1, <1>6 DEF CopyInv
    <3> QED BY <2>2, <3>1, <3>2 DEF CopyInv
  <2> QED BY <2>1, <2>2
<1>16. Apart'
  <2>1. \A c \in N : c \notin sent
    BY <1>7, <1>11 DEF CopyInv
  <2> QED BY <2>1, <1>1 DEF Apart
<1>17. ContribInv'
  <2> SUFFICES ASSUME NEW e \in Experts, Pushed(e)'
               PROVE  contrib'[e] = round[ShardOf(e)]
    BY <1>1 DEF ContribInv
  <2>1. CASE e = f
    BY <2>1, <1>1, <1>4
  <2>2. CASE e # f
    BY <2>2, <1>1, <1>6 DEF ContribInv
  <2> QED BY <2>1, <2>2
<1>18. \A C, e, d, w : OnWay(C \cup N, e, d, w) <=> OnWay(C, e, d, w) \/ OnWay(N, e, d, w)
  BY DEF OnWay
<1>19. \A e, d, w : OnWay(N, e, d, w) => e = f
  BY <1>11 DEF OnWay
<1>20. \A x : Through(x)' = Through(x) \cup N
  BY <1>1 DEF Through
<1>21. ASSUME NEW x \in Counters, NEW d \in Shards
       PROVE  Counted(x, d)' = Counted(x, d)
  <2> SUFFICES ASSUME NEW p \in RunsOf(x, d)
               PROVE  /\ Pushed(p[1])' /\ Table(d).aligned[p[1]][p[2]] > 0
                         /\ ~OnWay(Through(x) \cup N, p[1], p[2], What(x))
                      <=> /\ Pushed(p[1]) /\ Table(d).aligned[p[1]][p[2]] > 0
                          /\ ~OnWay(Through(x), p[1], p[2], What(x))
    BY <1>5, <1>20 DEF Counted
  <2>1. p[1] \in Experts /\ p[2] \in Shards /\ What(x) \in Whats
    BY RunSets DEF What, Whats
  <2>2. CASE p[1] # f
    BY <2>1, <2>2, <1>6, <1>18, <1>19
  <2>3. CASE p[1] = f
    <3>1. Table(d).aligned[p[1]][p[2]] > 0 => Live(f, p[2])
      BY <2>1, <2>3, <1>8 DEF Live
    <3>2. Table(d).aligned[p[1]][p[2]] > 0 =>
            OnWay(Through(x) \cup N, p[1], p[2], What(x))
      BY <2>1, <2>3, <3>1, <1>12, <1>18
    <3> QED BY <2>3, <3>2, <1>7
  <2> QED BY <2>2, <2>3
<1>22. SemInv'
  BY <1>1, <1>5, <1>21 DEF SemInv, Held
<1>23. DrainInv'
  BY <1>1, <1>6, <1>9 DEF DrainInv
<1>24. RecvInv'
  <2> SUFFICES ASSUME NEW d \in Shards, NEW e \in Experts, NEW w \in Whats,
                      Live(e, d), Arrived(e, d, w)'
               PROVE  recv[w][d][e] = round[d]
    BY <1>1, <1>9 DEF RecvInv
  <2>1. Arrived(e, d, w)
    <3>1. CASE pc[d] \in {"exit1", "exit2", "out"}
      BY <3>1 DEF Arrived
    <3>2. CASE /\ pc[d] \in Awaiting /\ Pushed(e)'
               /\ ~OnWay((queued \cup sent) \cup N, e, d, w)
      <4>1. e # f
        BY <3>2, <1>12, <1>18
      <4> QED BY <3>2, <4>1, <1>6, <1>18 DEF Arrived
    <3>3. queued' \cup sent' = (queued \cup sent) \cup N
      BY <1>1
    <3> QED BY <1>1, <3>1, <3>2, <3>3 DEF Arrived
  <2> QED BY <2>1 DEF RecvInv
<1> QED BY <1>13, <1>14, <1>15, <1>16, <1>17, <1>22, <1>23, <1>24

\* A copy is the only one of its run and kind.
LEMMA CopyFacts ==
  ASSUME IInv, CopiesInv, NEW c \in queued \cup sent
  PROVE  /\ c.e \in Experts /\ c.to \in Shards /\ c.what \in Whats
         /\ ShardOf(c.e) \in Shards /\ Table(ShardOf(c.e)) = Table(c.to)
         /\ round[ShardOf(c.e)] = round[c.to] /\ c.round = round[c.to]
         /\ contrib[c.e] = round[c.to] /\ Pushed(c.e)
         /\ Table(c.to).aligned[c.e][c.to] > 0 /\ pc[c.to] \in Awaiting
         /\ c.amount = Amount(Table(c.to), c.e, c.to, c.what)
         /\ \A b \in queued \cup sent :
              b.e = c.e /\ b.to = c.to /\ b.what = c.what => b = c
<1>1. /\ c.e \in Experts /\ c.to \in Shards /\ c.what \in Whats
      /\ round[ShardOf(c.e)] = round[c.to] /\ Pushed(c.e) /\ Live(c.e, c.to)
      /\ pc[c.to] \in Awaiting
  BY DEF CopiesInv, CopyInv
<1>2. \A b \in queued \cup sent :
        b = [e |-> b.e, to |-> b.to, what |-> b.what,
             amount |-> Amount(Table(b.to), b.e, b.to, b.what), round |-> round[b.to]]
  BY DEF CopiesInv, CopyInv
<1>3. ShardOf(c.e) \in Shards /\ contrib[c.e] = round[c.to]
  BY <1>1, ExpertFacts DEF CopiesInv, ContribInv
<1>4. Table(ShardOf(c.e)) = Table(c.to) /\ Table(c.to).aligned[c.e][c.to] > 0
  BY <1>1 DEF Table, Live
<1>5. c = [e |-> c.e, to |-> c.to, what |-> c.what,
           amount |-> Amount(Table(c.to), c.e, c.to, c.what), round |-> round[c.to]]
  BY <1>2
<1>6. c.round = round[c.to] /\ c.amount = Amount(Table(c.to), c.e, c.to, c.what)
  BY <1>5
<1>7. ASSUME NEW b \in queued \cup sent, b.e = c.e, b.to = c.to, b.what = c.what
      PROVE  b = c
  <2>1. b = [e |-> b.e, to |-> b.to, what |-> b.what,
             amount |-> Amount(Table(b.to), b.e, b.to, b.what), round |-> round[b.to]]
    BY <1>2
  <2> QED BY <1>5, <1>7, <2>1
<1> QED BY <1>1, <1>3, <1>4, <1>6, <1>7

\* A counter goes up by one run, whose copy gets through.
LEMMA CountsOne ==
  ASSUME IInv, CopiesInv, UNCHANGED <<calls, round, pc>>,
         NEW s \in Shards, NEW x \in Counters, pc[s] \in Awaiting,
         NEW e \in Experts, NEW d \in Shards, <<e, d>> \in RunsOf(x, s),
         <<e, d>> \notin Counted(x, s), Counted(x, s)' = Counted(x, s) \cup {<<e, d>>},
         sem'[x][s] = sem[x][s] + Amount(Table(s), e, d, What(x))
  PROVE  sem'[x][s] = Held(x, s)' /\ sem'[x][s] \in Nat
<1> DEFINE A == Amounts(Table(s), What(x))
           C == Counted(x, s)
           p == <<e, d>>
<1>1. RunsAgree(Table(s)) /\ What(x) \in Whats
  BY DEF CopiesInv, DataTypes, IInv, PhaseTypes, Consistent, Table, What, Whats
<1>2. \A q \in Experts \X Shards : A[q] \in Nat
  <2> SUFFICES ASSUME NEW a \in Experts, NEW b \in Shards PROVE A[<<a, b>>] \in Nat
    OBVIOUS
  <2> QED BY <1>1, AmountsAre
<1>3. A[p] = Amount(Table(s), e, d, What(x))
  BY <1>1, AmountsAre
<1>4. C \cup {p} \in SUBSET (Experts \X Shards) /\ IsFiniteSet(C \cup {p})
  <2>1. C \cup {p} \in SUBSET RunsOf(x, s)
    BY DEF Counted
  <2> QED BY <2>1, RunSets, FS_Subset
<1>5. sem[x][s] = SumOf(A, C)
  BY DEF CopiesInv, SemInv, Held
<1>6. Table(s)' = Table(s)
  BY DEF Table
<1>7. Held(x, s)' = SumOf(A, C \cup {p})
  BY <1>6 DEF Held
<1> DEFINE U == C \cup {p}
<1>8. p \in U /\ U \ {p} = C /\ C \in SUBSET U
  OBVIOUS
<1>9. \A q \in U : A[q] \in Nat
  <2> HIDE DEF A, C, p
  <2> QED BY <1>2, <1>4
<1> HIDE DEF A, C, p, U
<1>10. /\ \A q \in U : SumOf(A, U) = A[q] + SumOf(A, U \ {q})
       /\ \A T \in SUBSET U : SumOf(A, T) \in Nat
  BY <1>4, <1>9, Sums DEF U
<1>11. SumOf(A, U) = A[p] + SumOf(A, C) /\ SumOf(A, C) \in Nat /\ A[p] \in Nat
  BY <1>8, <1>9, <1>10
<1> DEFINE m == SumOf(A, C)
           n == A[p]
<1>12. Held(x, s)' = n + m /\ m \in Nat /\ n \in Nat
  BY <1>7, <1>11 DEF U
<1>13. sem'[x][s] = m + n
  BY <1>3, <1>5
<1> HIDE DEF m, n
<1> QED BY <1>12, <1>13

\* A copy that gets through counts for its run, and for no other.
LEMMA GetsThrough ==
  ASSUME IInv, CopiesInv, UNCHANGED <<calls, round, visit>>,
         NEW s \in Shards, NEW x \in Counters, NEW c \in Through(x),
         Through(x)' = Through(x) \ {c}
  PROVE  /\ c.what = What(x) /\ <<c.e, c.to>> \in RunsOf(x, s) =>
              /\ <<c.e, c.to>> \notin Counted(x, s)
              /\ Counted(x, s)' = Counted(x, s) \cup {<<c.e, c.to>>}
         /\ ~(c.what = What(x) /\ <<c.e, c.to>> \in RunsOf(x, s)) =>
              Counted(x, s)' = Counted(x, s)
<1>1. Through(x) \subseteq queued \cup sent
  BY DEF Through
<1>2. /\ Pushed(c.e) /\ Table(ShardOf(c.e)) = Table(c.to)
      /\ Table(c.to).aligned[c.e][c.to] > 0
      /\ \A b \in Through(x) : b.e = c.e /\ b.to = c.to /\ b.what = c.what => b = c
  BY <1>1, CopyFacts
<1>3. Table(s)' = Table(s) /\ \A e : Pushed(e)' = Pushed(e)
  BY SameData
<1> DEFINE Way(p) == OnWay(Through(x), p[1], p[2], What(x))
           k == <<c.e, c.to>>
<1>4. ASSUME NEW p \in RunsOf(x, s), c.what # What(x) \/ p # k
      PROVE  Way(p)' <=> Way(p)
  <2>1. PICK e \in Experts, d \in Shards : p = <<e, d>>
    BY RunSets
  <2>2. ~(c.e = e /\ c.to = d /\ c.what = What(x))
    BY <1>4, <2>1
  <2>3. OnWay(Through(x), e, d, What(x))' <=> OnWay(Through(x), e, d, What(x))
    BY <2>2 DEF OnWay
  <2> QED BY <2>1, <2>3
<1>5. ASSUME c.what = What(x) PROVE Way(k) /\ ~Way(k)'
  <2>1. OnWay(Through(x), c.e, c.to, What(x))
    BY <1>5 DEF OnWay
  <2>2. ~OnWay(Through(x) \ {c}, c.e, c.to, What(x))
    BY <1>2, <1>5 DEF OnWay
  <2> QED BY <2>1, <2>2
<1>6. /\ Counted(x, s) = {p \in RunsOf(x, s) : /\ Pushed(p[1]) /\ ~Way(p)
                                                /\ Table(s).aligned[p[1]][p[2]] > 0}
      /\ Counted(x, s)' = {p \in RunsOf(x, s) : /\ Pushed(p[1]) /\ ~Way(p)'
                                                 /\ Table(s).aligned[p[1]][p[2]] > 0}
  BY <1>3 DEF Counted
<1>7. k \in RunsOf(x, s) => /\ Pushed(k[1]) /\ Table(s).aligned[k[1]][k[2]] > 0
  <2>1. k \in RunsOf(x, s) => s \in {c.to, ShardOf(c.e)}
    BY DEF RunsOf, ExpertsOf
  <2> QED BY <1>2, <2>1
<1> HIDE DEF Way, k
<1>8. c.what = What(x) /\ k \in RunsOf(x, s) =>
        k \notin Counted(x, s) /\ Counted(x, s)' = Counted(x, s) \cup {k}
  BY <1>4, <1>5, <1>6, <1>7
<1>9. ~(c.what = What(x) /\ k \in RunsOf(x, s)) => Counted(x, s)' = Counted(x, s)
  BY <1>4, <1>6
<1> QED BY <1>8, <1>9 DEF k

LEMMA ReadCopies ==
  ASSUME IInv, CopiesInv, NEW c \in queued, Read(c)
  PROVE  CopiesInv'
<1> DEFINE y == IF c.what = "rows" THEN "send" ELSE "send_scl"
           a == ShardOf(c.e)
<1>1. /\ c.e \in Experts /\ c.to \in Shards /\ c.what \in Whats /\ a \in Shards
      /\ c.round = round[c.to] /\ contrib[c.e] = round[c.to] /\ Table(a) = Table(c.to)
      /\ c.amount = Amount(Table(c.to), c.e, c.to, c.what)
      /\ c = [e |-> c.e, to |-> c.to, what |-> c.what,
              amount |-> Amount(Table(c.to), c.e, c.to, c.what), round |-> round[c.to]]
  BY CopyFacts DEF CopiesInv, CopyInv
<1>2. [c EXCEPT !.round = contrib[c.e]] = c
  BY <1>1
<1>3. /\ UNCHANGED <<calls, round, visit>> /\ UNCHANGED <<pc, contrib, recv>>
      /\ queued' = queued \ {c} /\ sent' = sent \cup {c} /\ ~Own(c)
      /\ sem' = [sem EXCEPT ![y][a] = @ + c.amount]
  BY <1>2 DEF Read
<1>4. queued' \cup sent' = queued \cup sent
  BY <1>3
<1>5. pc[a] = "inside" /\ y \in Counters /\ What(y) = c.what
  BY <1>1, CountersAre DEF CopiesInv, CopyInv, What, Whats
<1>6. <<c.e, c.to>> \in RunsOf(y, a)
  BY <1>1, <1>3, ExpertFacts DEF RunsOf, Own
<1> HIDE DEF y, a
<1>7. /\ \A d : Table(d)' = Table(d)
      /\ \A e : Pushed(e)' = Pushed(e)
      /\ \A e, d : Live(e, d)' = Live(e, d)
  BY <1>3, SameData
<1>8. /\ \A x \in Counters : sem[x] \in [Shards -> Nat] /\ x \in DOMAIN sem
      /\ DOMAIN sem' = DOMAIN sem
  BY <1>3 DEF CopiesInv, DataTypes, Counters, IInv, PhaseTypes
<1>9. /\ \A x \in Counters : sem'[x] = IF x = y THEN [sem[y] EXCEPT ![a] = @ + c.amount]
                                       ELSE sem[x]
      /\ sem'[y][a] = sem[y][a] + c.amount
      /\ \A s \in Shards : s # a => sem'[y][s] = sem[y][s]
  BY <1>1, <1>3, <1>5, <1>8
<1>10. sem'[y][a] = Held(y, a)' /\ sem'[y][a] \in Nat
  <2>1. Through(y) = queued /\ Through(y)' = queued \ {c}
    BY <1>3 DEF Through, y
  <2>2. /\ <<c.e, c.to>> \notin Counted(y, a)
        /\ Counted(y, a)' = Counted(y, a) \cup {<<c.e, c.to>>}
    BY <1>1, <1>3, <1>5, <1>6, <2>1, GetsThrough
  <2>3. sem'[y][a] = sem[y][a] + Amount(Table(a), c.e, c.to, What(y))
    BY <1>1, <1>5, <1>9
  <2>4. pc[a] \in Awaiting
    BY <1>5 DEF Awaiting
  <2> QED BY <1>1, <1>3, <1>5, <1>6, <2>2, <2>3, <2>4, CountsOne
<1>11. ASSUME NEW x \in Counters, NEW s \in Shards, x # y \/ s # a
       PROVE  Counted(x, s)' = Counted(x, s)
  <2>1. CASE x \in {"send", "send_scl"}
    <3>1. Through(x) = queued /\ Through(x)' = queued \ {c}
      BY <1>3, <2>1 DEF Through
    <3>2. ~(c.what = What(x) /\ <<c.e, c.to>> \in RunsOf(x, s))
      <4>1. x # y => c.what # What(x)
        BY <1>1, <2>1 DEF y, What, Whats
      <4>2. s # a => <<c.e, c.to>> \notin RunsOf(x, s)
        BY <2>1 DEF RunsOf, ExpertsOf, a
      <4> QED BY <1>11, <4>1, <4>2
    <3> QED BY <1>3, <3>1, <3>2, GetsThrough
  <2>2. CASE x \notin {"send", "send_scl"}
    <3>1. Through(x)' = Through(x)
      BY <1>4, <2>2 DEF Through
    <3> QED BY <1>7, <3>1 DEF Counted
  <2> QED BY <2>1, <2>2
<1>12. DataTypes'
  <2>1. sem'[y] \in [Shards -> Nat]
    BY <1>1, <1>5, <1>8, <1>9, <1>10
  <2>2. \A x \in Counters : sem'[x] \in [Shards -> Nat]
    BY <1>8, <1>9, <2>1
  <2> QED BY <1>3, <2>2 DEF CopiesInv, DataTypes
<1>13. VisitInv'
  BY <1>3 DEF CopiesInv, VisitInv
<1>14. CopyInv'
  <2> SUFFICES ASSUME NEW b \in queued' \cup sent'
               PROVE  /\ b.e \in Experts /\ b.to \in Shards /\ b.what \in Whats
                      /\ b = [e |-> b.e, to |-> b.to, what |-> b.what,
                              amount |-> Amount(Table(b.to), b.e, b.to, b.what),
                              round |-> round[b.to]]
                      /\ round[ShardOf(b.e)] = round[b.to]
                      /\ pc[b.to] \in Awaiting /\ Live(b.e, b.to) /\ Pushed(b.e)
                      /\ b \in queued' => pc[ShardOf(b.e)] = "inside"
                      /\ b \in sent' => pc[ShardOf(b.e)] \in {"inside", "exit1"} /\ ~Own(b)
    BY <1>3, <1>7 DEF CopyInv, Own
  <2>1. b \in queued \cup sent
    BY <1>4
  <2>2. b \in queued' => pc[ShardOf(b.e)] = "inside"
    BY <1>3 DEF CopiesInv, CopyInv
  <2>3. b \in sent' => pc[ShardOf(b.e)] \in {"inside", "exit1"} /\ ~Own(b)
    BY <1>3, <1>5 DEF CopiesInv, CopyInv, a
  <2> QED BY <2>1, <2>2, <2>3 DEF CopiesInv, CopyInv
<1>15. Apart'
  BY <1>3 DEF CopiesInv, Apart
<1>16. ContribInv' /\ DrainInv'
  BY <1>3, <1>7 DEF CopiesInv, ContribInv, DrainInv
<1>17. SemInv'
  <2> SUFFICES ASSUME NEW x \in Counters, NEW s \in Shards, x # y \/ s # a
               PROVE  sem'[x][s] = Held(x, s)'
    BY <1>10 DEF SemInv
  <2>1. sem'[x][s] = sem[x][s]
    BY <1>9
  <2>2. Held(x, s)' = Held(x, s)
    BY <1>3, <1>7, <1>11 DEF Held
  <2> QED BY <2>1, <2>2 DEF CopiesInv, SemInv
<1>18. RecvInv'
  BY <1>3, <1>4, <1>7 DEF CopiesInv, RecvInv, Arrived, OnWay
<1> QED BY <1>12, <1>13, <1>14, <1>15, <1>16, <1>17, <1>18 DEF CopiesInv

LEMMA LandsCopies ==
  ASSUME IInv, CopiesInv, NEW c \in queued \cup sent, Lands(c, c.round),
         queued' \subseteq queued, sent' \subseteq sent,
         queued' \cup sent' = (queued \cup sent) \ {c},
         queued' = queued \/ (Own(c) /\ c \in queued /\ queued' = queued \ {c})
  PROVE  CopiesInv'
<1> DEFINE y == Receipt(c)
           a == c.to
<1>1. /\ c.e \in Experts /\ a \in Shards /\ c.what \in Whats /\ ShardOf(c.e) \in Shards
      /\ c.round = round[a] /\ pc[a] \in Awaiting
      /\ c.amount = Amount(Table(a), c.e, a, c.what)
  BY CopyFacts
<1>2. /\ UNCHANGED <<calls, round, visit>> /\ UNCHANGED <<pc, contrib>>
      /\ sem' = [sem EXCEPT ![y][a] = @ + c.amount]
      /\ recv' = [recv EXCEPT ![c.what][a][c.e] = c.round]
  BY DEF Lands
<1>3. /\ y \in Counters /\ What(y) = c.what /\ y \notin {"send", "send_scl"}
      /\ y \in {"recv", "recv_scl"} <=> ~Own(c)
  BY <1>1, CountersAre DEF What, Whats, Receipt
<1>4. <<c.e, a>> \in RunsOf(y, a)
  BY <1>1, <1>3, ExpertFacts DEF RunsOf, Own
<1> HIDE DEF y, a
<1>5. /\ \A d : Table(d)' = Table(d)
      /\ \A e : Pushed(e)' = Pushed(e)
      /\ \A e, d : Live(e, d)' = Live(e, d)
  BY <1>2, SameData
<1>6. /\ \A x \in Counters : sem[x] \in [Shards -> Nat] /\ x \in DOMAIN sem
      /\ DOMAIN sem' = DOMAIN sem
  BY <1>2 DEF CopiesInv, DataTypes, Counters, IInv, PhaseTypes
<1>7. /\ \A x \in Counters : sem'[x] = IF x = y THEN [sem[y] EXCEPT ![a] = @ + c.amount]
                                       ELSE sem[x]
      /\ sem'[y][a] = sem[y][a] + c.amount
      /\ \A s \in Shards : s # a => sem'[y][s] = sem[y][s]
  BY <1>1, <1>2, <1>3, <1>6
<1>8. \A x \in Counters : x \notin {"send", "send_scl"} =>
        c \in Through(x) /\ Through(x)' = Through(x) \ {c}
  BY DEF Through
<1>9. sem'[y][a] = Held(y, a)' /\ sem'[y][a] \in Nat
  <2>1. /\ <<c.e, a>> \notin Counted(y, a)
        /\ Counted(y, a)' = Counted(y, a) \cup {<<c.e, a>>}
    <3>1. c \in Through(y) /\ Through(y)' = Through(y) \ {c}
      BY <1>3, <1>8
    <3> QED BY <1>1, <1>2, <1>3, <1>4, <3>1, GetsThrough DEF a
  <2>2. sem'[y][a] = sem[y][a] + Amount(Table(a), c.e, a, What(y))
    BY <1>1, <1>3, <1>7
  <2> QED BY <1>1, <1>2, <1>3, <1>4, <2>1, <2>2, CountsOne
<1>10. ASSUME NEW x \in Counters, NEW s \in Shards, x # y \/ s # a
       PROVE  Counted(x, s)' = Counted(x, s)
  <2>1. CASE x \in {"send", "send_scl"} /\ queued' = queued
    <3>1. Through(x)' = Through(x)
      BY <2>1 DEF Through
    <3> QED BY <1>5, <3>1 DEF Counted
  <2>2. CASE /\ x \in {"send", "send_scl"}
             /\ Own(c) /\ c \in queued /\ queued' = queued \ {c}
    <3>1. c \in Through(x) /\ Through(x)' = Through(x) \ {c}
      BY <2>2 DEF Through
    <3>2. <<c.e, c.to>> \notin RunsOf(x, s)
      BY <2>2 DEF RunsOf, ExpertsOf, Own
    <3> QED BY <1>2, <3>1, <3>2, GetsThrough
  <2>3. CASE x \notin {"send", "send_scl"}
    <3>1. ~(c.what = What(x) /\ <<c.e, c.to>> \in RunsOf(x, s))
      <4>1. s # a => <<c.e, c.to>> \notin RunsOf(x, s)
        BY <2>3 DEF RunsOf, a
      <4>2. ASSUME s = a, x # y, c.what = What(x) PROVE <<c.e, c.to>> \notin RunsOf(x, s)
        <5>1. CASE x \in {"recv", "recv_scl"}
          <6>1. Own(c)
            BY <1>1, <4>2, <5>1 DEF y, Receipt, What, Whats
          <6> QED BY <1>1, <4>2, <5>1, <6>1 DEF RunsOf, ExpertsOf, Own, a
        <5>2. CASE x \in {"mehop", "mehop_scl"}
          <6>1. ~Own(c)
            BY <1>1, <4>2, <5>2 DEF y, Receipt, What, Whats
          <6> QED BY <1>1, <4>2, <5>2, <6>1 DEF RunsOf, ExpertsOf, Own, a
        <5> QED BY <2>3, <5>1, <5>2, CountersAre
      <4> QED BY <1>10, <4>1, <4>2
    <3>2. c \in Through(x) /\ Through(x)' = Through(x) \ {c}
      BY <1>8, <2>3
    <3> QED BY <1>2, <3>1, <3>2, GetsThrough
  <2> QED BY <2>1, <2>2, <2>3
<1>11. recv' \in [Whats -> [Shards -> [Experts -> Nat]]]
  <2>1. c.round \in Nat
    BY <1>1, RoundsAssumption DEF IInv, PhaseTypes
  <2> QED BY <1>1, <1>2, <2>1 DEF CopiesInv, DataTypes
<1>12. DataTypes'
  <2>1. sem'[y] \in [Shards -> Nat]
    BY <1>1, <1>3, <1>6, <1>7, <1>9
  <2>2. \A x \in Counters : sem'[x] \in [Shards -> Nat]
    BY <1>6, <1>7, <2>1
  <2> QED BY <1>2, <1>11, <2>2 DEF CopiesInv, DataTypes
<1>13. VisitInv'
  BY <1>2 DEF CopiesInv, VisitInv
<1>14. CopyInv'
  <2> SUFFICES ASSUME NEW b \in queued' \cup sent'
               PROVE  /\ b.e \in Experts /\ b.to \in Shards /\ b.what \in Whats
                      /\ b = [e |-> b.e, to |-> b.to, what |-> b.what,
                              amount |-> Amount(Table(b.to), b.e, b.to, b.what),
                              round |-> round[b.to]]
                      /\ round[ShardOf(b.e)] = round[b.to]
                      /\ pc[b.to] \in Awaiting /\ Live(b.e, b.to) /\ Pushed(b.e)
                      /\ b \in queued' => pc[ShardOf(b.e)] = "inside"
                      /\ b \in sent' => pc[ShardOf(b.e)] \in {"inside", "exit1"} /\ ~Own(b)
    BY <1>2, <1>5 DEF CopyInv, Own
  <2> QED BY DEF CopiesInv, CopyInv
<1>15. Apart'
  BY DEF CopiesInv, Apart
<1>16. ContribInv' /\ DrainInv'
  BY <1>2, <1>5 DEF CopiesInv, ContribInv, DrainInv
<1>17. SemInv'
  <2> SUFFICES ASSUME NEW x \in Counters, NEW s \in Shards, x # y \/ s # a
               PROVE  sem'[x][s] = Held(x, s)'
    BY <1>9 DEF SemInv
  <2>1. sem'[x][s] = sem[x][s]
    BY <1>7
  <2>2. Held(x, s)' = Held(x, s)
    BY <1>2, <1>5, <1>10 DEF Held
  <2> QED BY <2>1, <2>2 DEF CopiesInv, SemInv
<1>18. RecvInv'
  <2> SUFFICES ASSUME NEW d \in Shards, NEW e \in Experts, NEW w \in Whats,
                      Live(e, d), Arrived(e, d, w)'
               PROVE  recv'[w][d][e] = round[d]
    BY <1>2, <1>5 DEF RecvInv
  <2>1. CASE w = c.what /\ d = a /\ e = c.e
    BY <2>1, <1>1, <1>2 DEF CopiesInv, DataTypes
  <2>2. CASE ~(w = c.what /\ d = a /\ e = c.e)
    <3>1. recv'[w][d][e] = recv[w][d][e]
      BY <2>2, <1>1, <1>2 DEF CopiesInv, DataTypes
    <3>2. OnWay(queued \cup sent, e, d, w)' <=> OnWay(queued \cup sent, e, d, w)
      BY <2>2 DEF OnWay, a
    <3>3. Arrived(e, d, w)
      BY <1>2, <1>5, <3>2 DEF Arrived
    <3> QED BY <3>1, <3>3 DEF CopiesInv, RecvInv
  <2> QED BY <2>1, <2>2
<1> QED BY <1>12, <1>13, <1>14, <1>15, <1>16, <1>17, <1>18 DEF CopiesInv

LEMMA HopCopies ==
  ASSUME IInv, CopiesInv, NEW c \in queued, Hop(c)
  PROVE  CopiesInv'
<1>1. contrib[c.e] = c.round /\ c \notin sent
  BY CopyFacts DEF CopiesInv, Apart
<1>2. Lands(c, c.round) /\ queued' = queued \ {c} /\ sent' = sent /\ Own(c)
  BY <1>1 DEF Hop
<1>3. queued' \cup sent' = (queued \cup sent) \ {c}
  BY <1>1, <1>2
<1> QED BY <1>2, <1>3, LandsCopies

LEMMA LandCopies ==
  ASSUME IInv, CopiesInv, NEW c \in sent, Land(c)
  PROVE  CopiesInv'
<1>1. Lands(c, c.round) /\ queued' = queued /\ sent' = sent \ {c} /\ c \notin queued
  BY DEF Land, CopiesInv, Apart
<1>2. queued' \cup sent' = (queued \cup sent) \ {c}
  BY <1>1
<1> QED BY <1>1, <1>2, LandsCopies

\* The waits of drain_transport let a shard go only when all its runs have been
\* counted, and they use up what was counted.
LEMMA AllCounted ==
  ASSUME IInv, CopiesInv, NEW s \in Shards, pc[s] = "inside", NEW x \in Counters,
         sem[x][s] >= Awaited(s)[x]
  PROVE  /\ sem[x][s] = Awaited(s)[x]
         /\ \A p \in RunsOf(x, s) :
              Table(s).aligned[p[1]][p[2]] > 0 => p \in Counted(x, s)
<1> DEFINE A == Amounts(Table(s), What(x))
           R == RunsOf(x, s)
           C == Counted(x, s)
<1>1. Consistent(calls[round[s]])
  BY DEF CopiesInv, DataTypes, IInv, PhaseTypes
<1>2. RunsAgree(Table(s)) /\ Awaited(s)[x] = SumOf(A, R) /\ What(x) \in Whats
  BY <1>1 DEF Consistent, Table, Awaited, What, Whats
<1>3. sem[x][s] = SumOf(A, C)
  BY DEF CopiesInv, SemInv, Held, Awaiting
<1>4. R \in SUBSET (Experts \X Shards) /\ IsFiniteSet(R) /\ C \in SUBSET R
  BY RunSets DEF Counted
<1>5. \A q \in R : A[q] \in Nat /\ (Table(s).aligned[q[1]][q[2]] > 0 => A[q] > 0)
  <2> SUFFICES ASSUME NEW e \in Experts, NEW d \in Shards
               PROVE  /\ A[<<e, d>>] \in Nat
                      /\ Table(s).aligned[e][d] > 0 => A[<<e, d>>] > 0
    BY <1>4
  <2> QED BY <1>2, AmountsAre
<1> HIDE DEF A, R, C
<1>6. /\ SumOf(A, R) = SumOf(A, C) + SumOf(A, R \ C)
      /\ SumOf(A, C) \in Nat /\ SumOf(A, R \ C) \in Nat
  <2>1. \A T \in SUBSET R : SumOf(A, R) = SumOf(A, T) + SumOf(A, R \ T) /\ SumOf(A, T) \in Nat
    BY <1>4, <1>5, Sums
  <2>2. R \ C \in SUBSET R
    OBVIOUS
  <2> QED BY <1>4, <2>1, <2>2
<1>7. SumOf(A, R \ C) = 0 /\ SumOf(A, R) = SumOf(A, C)
  <2> DEFINE m == SumOf(A, C)
             n == SumOf(A, R \ C)
             k == SumOf(A, R)
  <2>1. k = m + n /\ m \in Nat /\ n \in Nat /\ m >= k
    BY <1>2, <1>3, <1>6
  <2> HIDE DEF m, n, k
  <2>2. n = 0 /\ k = m
    BY <2>1
  <2> QED BY <2>2 DEF m, n, k
<1>8. ASSUME NEW p \in R \ C PROVE A[p] = 0
  <2> DEFINE D == R \ C
  <2>1. IsFiniteSet(D) /\ \A q \in D : A[q] \in Nat
    BY <1>4, <1>5, FS_Subset
  <2> HIDE DEF D
  <2>2. /\ \A q \in D : SumOf(A, D) = A[q] + SumOf(A, D \ {q})
        /\ \A T \in SUBSET D : SumOf(A, T) \in Nat
    BY <2>1, Sums
  <2>3. p \in D /\ D \ {p} \in SUBSET D
    BY DEF D
  <2> DEFINE m == SumOf(A, D \ {p})
             n == A[p]
  <2>4. m \in Nat /\ n \in Nat /\ SumOf(A, D) = n + m
    BY <2>1, <2>2, <2>3
  <2>5. SumOf(A, D) = 0
    BY <1>7 DEF D
  <2>6. n + m = 0
    BY <2>4, <2>5
  <2> HIDE DEF m, n
  <2>7. n = 0
    BY <2>4, <2>6
  <2> QED BY <2>7 DEF n
<1>9. ASSUME NEW p \in R, Table(s).aligned[p[1]][p[2]] > 0 PROVE p \in C
  BY <1>5, <1>8, <1>9
<1> QED BY <1>2, <1>3, <1>7, <1>9 DEF R, C

LEMMA DrainTransportCopies ==
  ASSUME IInv, CopiesInv, NEW s \in Shards, DrainTransport(s)
  PROVE  CopiesInv'
<1>1. /\ pc[s] = "inside" /\ pc' = [pc EXCEPT ![s] = "exit1"]
      /\ \A x \in Counters : sem[x][s] >= Awaited(s)[x]
      /\ UNCHANGED <<calls, round, visit>> /\ UNCHANGED <<contrib, recv, queued, sent>>
      /\ sem' = [x \in Sems |->
           [sem[x] EXCEPT ![s] = CASE x = "barrier" -> @ + 1
                                   [] x = "second" -> @
                                   [] OTHER -> @ - Awaited(s)[x]]]
  BY DEF DrainTransport, Goto, Counters
<1>2. \A d \in Shards : pc'[d] = IF d = s THEN "exit1" ELSE pc[d]
  BY <1>1 DEF IInv, PhaseTypes
<1>3. /\ \A d : Table(d)' = Table(d)
      /\ \A e : Pushed(e)' = Pushed(e)
      /\ \A e, d : Live(e, d)' = Live(e, d)
      /\ \A x, d : Counted(x, d)' = Counted(x, d)
  BY <1>1, SameData
<1>4. \A x \in Counters :
        /\ sem[x][s] = Awaited(s)[x]
        /\ \A p \in RunsOf(x, s) :
             Table(s).aligned[p[1]][p[2]] > 0 => p \in Counted(x, s)
  BY <1>1, AllCounted
<1>5. \A x \in Counters : /\ sem[x] \in [Shards -> Nat]
                          /\ sem'[x] = [sem[x] EXCEPT ![s] = @ - Awaited(s)[x]]
  <2> SUFFICES ASSUME NEW x \in Counters
               PROVE  sem'[x] = [sem[x] EXCEPT ![s] = @ - Awaited(s)[x]]
    BY DEF CopiesInv, DataTypes
  <2>1. x \in Sems /\ x # "barrier" /\ x # "second"
    BY DEF Counters, Phases
  <2> QED BY <1>1, <2>1
<1>6. ASSUME NEW x \in Counters
      PROVE  /\ sem'[x] \in [Shards -> Nat] /\ sem'[x][s] = 0
             /\ \A d \in Shards \ {s} : sem'[x][d] = sem[x][d]
  <2>1. sem[x][s] \in Nat /\ sem[x][s] = Awaited(s)[x]
    BY <1>4, <1>5
  <2>2. sem[x][s] - Awaited(s)[x] = 0
    BY <2>1
  <2>3. sem'[x] = [sem[x] EXCEPT ![s] = 0]
    BY <1>5, <2>2
  <2> DEFINE m == sem[x]
             n == sem'[x]
  <2>4. m \in [Shards -> Nat] /\ n = [m EXCEPT ![s] = 0]
    BY <1>5, <2>3
  <2> HIDE DEF m, n
  <2>5. n \in [Shards -> Nat] /\ n[s] = 0 /\ \A d \in Shards \ {s} : n[d] = m[d]
    BY <2>4
  <2> QED BY <2>5 DEF m, n
<1>7. ASSUME NEW e \in Experts, NEW w \in Whats, Live(e, s)
      PROVE  Pushed(e) /\ ~OnWay(queued \cup sent, e, s, w)
  <2> DEFINE x == IF ShardOf(e) = s THEN (IF w = "rows" THEN "mehop" ELSE "mehop_scl")
                  ELSE (IF w = "rows" THEN "recv" ELSE "recv_scl")
  <2>1. x \in Counters /\ What(x) = w
    BY CountersAre DEF What, Whats
  <2>2. <<e, s>> \in RunsOf(x, s)
    BY ExpertFacts DEF RunsOf, ExpertsOf
  <2>3. Through(x) = queued \cup sent
    BY DEF Through
  <2> HIDE DEF x
  <2>4. <<e, s>> \in Counted(x, s)
    BY <1>4, <1>7, <2>1, <2>2 DEF Live
  <2> QED BY <2>1, <2>3, <2>4 DEF Counted
<1>8. ASSUME NEW c \in queued \cup sent
      PROVE  c.to # s /\ (c \in queued => ShardOf(c.e) # s)
  <2>1. /\ c.e \in Experts /\ c.to \in Shards /\ c.what \in Whats /\ Live(c.e, c.to)
        /\ Table(ShardOf(c.e)) = Table(c.to)
    BY CopyFacts DEF Live
  <2>2. c.to # s
    BY <1>7, <2>1 DEF OnWay
  <2>3. ASSUME c \in queued, ShardOf(c.e) = s PROVE FALSE
    <3> DEFINE x == IF c.what = "rows" THEN "send" ELSE "send_scl"
    <3>1. x \in Counters /\ What(x) = c.what /\ Through(x) = queued
      BY <2>1, CountersAre DEF What, Whats, Through
    <3>2. <<c.e, c.to>> \in RunsOf(x, s)
      BY <2>1, <2>2, <2>3, ExpertFacts DEF RunsOf
    <3> HIDE DEF x
    <3>3. <<c.e, c.to>> \in Counted(x, s)
      BY <1>4, <2>1, <2>3, <3>1, <3>2 DEF Live
    <3>4. ~OnWay(queued, c.e, c.to, c.what)
      BY <3>1, <3>3 DEF Counted
    <3> QED BY <2>3, <3>4 DEF OnWay
  <2> QED BY <2>2, <2>3
<1>9. DataTypes'
  BY <1>1, <1>6 DEF CopiesInv, DataTypes
<1>10. VisitInv'
  BY <1>1, <1>2 DEF CopiesInv, VisitInv
<1>11. CopyInv'
  <2> SUFFICES ASSUME NEW c \in queued \cup sent
               PROVE  /\ pc'[c.to] \in Awaiting
                      /\ c \in queued => pc'[ShardOf(c.e)] = "inside"
                      /\ c \in sent => pc'[ShardOf(c.e)] \in {"inside", "exit1"}
    BY <1>1, <1>3 DEF CopiesInv, CopyInv, Own
  <2>1. /\ c.to \in Shards /\ ShardOf(c.e) \in Shards /\ pc[c.to] \in Awaiting
        /\ c \in queued => pc[ShardOf(c.e)] = "inside"
        /\ c \in sent => pc[ShardOf(c.e)] \in {"inside", "exit1"}
    BY ExpertFacts DEF CopiesInv, CopyInv
  <2> QED BY <1>2, <1>8, <2>1
<1>12. Apart' /\ ContribInv'
  BY <1>1, <1>3 DEF CopiesInv, Apart, ContribInv
<1>13. SemInv'
  <2> SUFFICES ASSUME NEW x \in Counters, NEW d \in Shards PROVE sem'[x][d] = Held(x, d)'
    BY DEF SemInv
  <2>1. CASE d = s
    BY <1>2, <1>6, <2>1 DEF Held, Awaiting
  <2>2. CASE d # s
    <3>1. Held(x, d)' = Held(x, d)
      BY <1>2, <1>3, <2>2 DEF Held
    <3> QED BY <1>6, <2>2, <3>1 DEF CopiesInv, SemInv
  <2> QED BY <2>1, <2>2
<1>14. DrainInv'
  <2> SUFFICES ASSUME NEW d \in Shards, NEW e \in Experts, pc'[d] = "exit1", Live(e, d)
               PROVE  Pushed(e)
    BY <1>3 DEF DrainInv
  <2>1. CASE d = s
    BY <1>7, <2>1 DEF Whats
  <2>2. CASE d # s
    BY <1>2, <2>2 DEF CopiesInv, DrainInv
  <2> QED BY <2>1, <2>2
<1>15. RecvInv'
  <2> SUFFICES ASSUME NEW d \in Shards, NEW e \in Experts, NEW w \in Whats,
                      Live(e, d), Arrived(e, d, w)'
               PROVE  recv[w][d][e] = round[d]
    BY <1>1, <1>3 DEF RecvInv
  <2>1. Arrived(e, d, w)
    <3>1. CASE d = s
      BY <1>1, <1>7, <3>1 DEF Arrived, Awaiting
    <3>2. CASE d # s
      <4>1. pc'[d] = pc[d]
        BY <1>2, <3>2
      <4> QED BY <1>1, <1>3, <4>1 DEF Arrived, OnWay
    <3> QED BY <3>1, <3>2
  <2> QED BY <2>1 DEF CopiesInv, RecvInv
<1> QED BY <1>9, <1>10, <1>11, <1>12, <1>13, <1>14, <1>15 DEF CopiesInv

LEMMA NextCopiesInv == IInv /\ CopiesInv /\ [Next]_vars => CopiesInv'
<1> SUFFICES ASSUME IInv, CopiesInv, [Next]_vars PROVE CopiesInv'
  OBVIOUS
<1>1. CASE UNCHANGED vars
  BY <1>1, KeepStep DEF vars
<1>2. ASSUME NEW s \in Shards, Step(s) PROVE CopiesInv'
  BY <1>2, GatherCopies, EnterCopies, PassFirstCopies, PassSecondCopies, VisitStepCopies,
     DrainTransportCopies, CombineCopies DEF Step
<1>3. CASE Deliver
  BY <1>3, SignalCopies, ReadCopies, HopCopies, LandCopies DEF Deliver
<1>4. CASE AllDone
  BY <1>1, <1>4 DEF AllDone
<1> QED BY <1>1, <1>2, <1>3, <1>4 DEF Next

LEMMA CopiesInductive == Spec => []CopiesInv
<1> QED BY InitCopiesInv, NextCopiesInv, Inductive, PTL DEF Spec

\* A copy is only under way once its receiver is in the same call and past the
\* first phase of the barrier at its entry, and until it has drained, and no
\* source is read after its shard has drained: the remote DMAs write without
\* bounds checks, into an arrival buffer that belongs to one call
\* (kernel.py:1819-1847).
THEOREM LandsInTime == Spec => []LandsInside
<1>1. IInv /\ CopiesInv => LandsInside
  <2> SUFFICES ASSUME IInv, CopiesInv, NEW c \in queued \cup sent
               PROVE  /\ round[c.to] = c.round
                      /\ pc[c.to] \in {"entry2", "inside"}
                      /\ pc[ShardOf(c.e)] = "inside" \/ c \in sent
    BY DEF LandsInside
  <2> DEFINE a == c.to
             b == ShardOf(c.e)
  <2>1. c = [e |-> c.e, to |-> c.to, what |-> c.what,
             amount |-> Amount(Table(c.to), c.e, c.to, c.what), round |-> round[c.to]]
    BY DEF CopiesInv, CopyInv
  <2>2. c.round = round[c.to]
    BY <2>1
  <2>3. /\ a \in Shards /\ b \in Shards /\ round[b] = round[a] /\ pc[a] \in Awaiting
        /\ c \in queued => pc[b] = "inside"
        /\ pc[b] \in {"inside", "exit1"}
    BY ExpertFacts DEF CopiesInv, CopyInv
  <2>4. Left(b) <= Met(a) /\ round[a] \in Nat
    BY <2>3 DEF IInv, Order, PhaseTypes
  <2>5. pc[a] # "entry1"
    BY <2>3, <2>4 DEF Left, Met
  <2> QED BY <2>2, <2>3, <2>5 DEF Awaiting
<1> QED BY <1>1, Inductive, CopiesInductive, PTL

\* What a shard combines is this round's: every run of rows of its tokens has
\* arrived, with its scales, and holds what its expert computed in this round,
\* whatever the order in which copies read and land (kernel.py:1744-1847).
THEOREM CombinesThisRound == Spec => []RowsThisRound
<1>1. IInv /\ CopiesInv => RowsThisRound
  <2> SUFFICES ASSUME IInv, CopiesInv, NEW s \in Shards, pc[s] = "out",
                      NEW e \in Experts, NEW w \in Whats, Table(s).run_rows[e][s] > 0
               PROVE  recv[w][s][e] = round[s]
    BY DEF RowsThisRound
  <2>1. RunsAgree(Table(s))
    BY DEF CopiesInv, DataTypes, IInv, PhaseTypes, Consistent, Table
  <2>2. Live(e, s)
    BY <2>1 DEF RunsAgree, Live
  <2>3. Arrived(e, s, w)
    BY DEF Arrived
  <2> QED BY <2>2, <2>3 DEF CopiesInv, RecvInv
<1> QED BY <1>1, Inductive, CopiesInductive, PTL

\* A shard that is out of the kernel has left nothing behind: its semaphores,
\* which the next call uses again, are spent, and no copy from it or to it is
\* under way.
THEOREM LeavesNothing == Spec => []NothingLeft
<1>1. IInv /\ CopiesInv => NothingLeft
  <2> SUFFICES ASSUME IInv, CopiesInv, NEW s \in Shards,
                      pc[s] \in {"out", "layer", "gathering", "done"}
               PROVE  /\ \A x \in Sems \ {"barrier"} : sem[x][s] = 0
                      /\ \A c \in queued \cup sent : ShardOf(c.e) # s /\ c.to # s
    BY DEF NothingLeft
  <2>1. \A x \in Counters : sem[x][s] = 0
    BY DEF CopiesInv, SemInv, Held, Awaiting
  <2>2. \A c \in queued \cup sent : ShardOf(c.e) # s /\ c.to # s
    BY DEF CopiesInv, CopyInv, Awaiting
  <2>3. sem["second"][s] = 0
    <3>1. Left(s) = Signalled(s)
      BY DEF Left, Signalled
    <3>2. \A d \in Shards : Met(d) <= Signalled(s) /\ Met(d) \in Nat
      BY Lockstep DEF IInv, Order
    <3>3. Ahead2(s) = {}
      BY <3>1, <3>2, Lockstep DEF Ahead2, IInv
    <3>4. sem["second"][s] + signalled["second"][s] = 0
      BY <3>3, FS_EmptySet DEF IInv, CountInv
    <3> QED BY <3>4 DEF IInv, PhaseTypes
  <2> QED BY <2>1, <2>2, <2>3 DEF Counters, Phases
<1> QED BY <1>1, Inductive, CopiesInductive, PTL
=============================================================================

------------------------------ MODULE AllToAll ------------------------------
(***************************************************************************)
(* What the exchange of the fused MoE layer promises, whatever moves the    *)
(* rows: in every round each member gives what it computed, and takes the   *)
(* round only when all have given.                                          *)
(***************************************************************************)
EXTENDS Naturals

CONSTANTS Members, Rounds

VARIABLES
  given,  \* given[m]: rounds that m has given
  taken   \* taken[m]: rounds that m has taken

vars == <<given, taken>>

Init == given = [m \in Members |-> 0] /\ taken = [m \in Members |-> 0]

Give(m) ==
  /\ given[m] = taken[m] /\ given[m] < Rounds
  /\ given' = [given EXCEPT ![m] = @ + 1]
  /\ UNCHANGED taken

Take(m) ==
  /\ taken[m] < given[m]
  /\ \A n \in Members : given[n] >= given[m]
  /\ taken' = [taken EXCEPT ![m] = @ + 1]
  /\ UNCHANGED given

Next == \E m \in Members : Give(m) \/ Take(m)

Spec == Init /\ [][Next]_vars /\ WF_vars(Next)
=============================================================================

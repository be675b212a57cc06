--------------------------- MODULE MCMoeExchange ---------------------------
(* Small instances of MoeExchange: three shards of one expert, two tokens   *)
(* each, one selection a token.                                             *)
EXTENDS MoeExchange

\* The experts of the six pairs: all choose one expert; each shard the next
\* one's; each its own; a mix of run lengths.
OneHot == [p \in Pairs |-> 0]
Ring == [p \in Pairs |-> (Owner(p) + 1) % EP]
Home == [p \in Pairs |-> Owner(p)]
Mixed == [p \in Pairs |-> IF p \in {0, 1, 4} THEN 1 ELSE 2]

TwoCalls == {<<OneHot, Ring>>, <<Ring, OneHot>>, <<Home, Mixed>>}
=============================================================================

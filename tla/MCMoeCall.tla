----------------------------- MODULE MCMoeCall -----------------------------
(* A small instance of MoeCall: two shards of two experts and six tokens,   *)
(* two selections each.                                                      *)
EXTENDS MoeCall

Choices2 == {<<0, 1>>, <<2, 0>>, <<0, 3>>, <<1, 2>>, <<3, 1>>, <<2, 3>>}

\* On the first shard `a` tokens choose u and the others v, on the second the
\* tokens choose x and y in turn.
Mixed(u, v, a, x, y) ==
  [p \in Pairs |->
     LET token == Token(p)
         choice == IF token < TLocal THEN (IF token < a THEN u ELSE v)
                   ELSE (IF token % 2 = 0 THEN x ELSE y) IN
     choice[(p % TopK) + 1]]

MixedRoutings == {Mixed(u, v, a, x, y) : u, v, x, y \in Choices2, a \in 1..TLocal}
=============================================================================

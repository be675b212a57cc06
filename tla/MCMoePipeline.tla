--------------------------- MODULE MCMoePipeline ---------------------------
(* The schedules that MoePipeline is checked for: every prefetch distance,  *)
(* weights streamed or not, tiles committed or shipped, and experts of one  *)
(* to three tiles.  A list of distance + 2 experts uses a slot twice.       *)
EXTENDS MoePipeline

TileCounts == {<<>>, <<3>>, <<2, 1>>, <<1, 1, 2>>, <<1, 2, 1, 1>>}

AllSchedules ==
  {s \in [distance : 0..2, streams : BOOLEAN, ship : BOOLEAN, tiles : TileCounts] :
     Len(s.tiles) <= s.distance + 2}
=============================================================================

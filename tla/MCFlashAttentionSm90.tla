------------------------ MODULE MCFlashAttentionSm90 ------------------------
(* Small instances of FlashAttentionSm90.                                   *)
EXTENDS FlashAttentionSm90

\* The range l..u-1 of a tile whose rows start in the block d.
At(l, u, d) == [lb |-> l, ub |-> u, diagonal |-> [w \in WGs |-> d]]

\* What an output covers of Q and K: in a persistent kernel nothing; with 64 rows
\* to a warpgroup and 64 or 128 columns the rows of Q of its own warpgroup; with
\* 128 rows or 256 columns, which are written in pieces, those of wg0 only.  The
\* residuals come behind the output, in the first slot of K.
Apart == [w \in WGs |-> {}]
OwnRows == [w \in WGs |-> {Rows(w)}]
FirstRows == [w \in WGs |-> {Rows("wg0")}]
OwnRowsAndK == [w \in WGs |-> {Rows(w), <<"k", 0>>}]

\* Three tiles of two blocks, one block, or none because the range is inverted.
ThreeTiles ==
  [tiles |-> 3, ranges |-> {At(0, 2, 0), At(1, 2, 1), At(2, 1, 2)},
   persistent |-> TRUE, causal |-> FALSE, bias |-> FALSE, mask |-> "none",
   under |-> Apart]

\* One tile of up to four blocks, or none, with causality, a bias and a mask.
OneTile(mask, under) ==
  [tiles |-> 1,
   ranges |-> {At(0, 4, 3), At(1, 4, 3), At(2, 4, 3), At(0, 1, 0), At(2, 2, 2)},
   persistent |-> FALSE, causal |-> TRUE, bias |-> TRUE, mask |-> mask,
   under |-> under]

SomeLaunches ==
  {ThreeTiles, OneTile("full", OwnRows), OneTile("row", FirstRows)}

\* One tile of one to three blocks, with residuals.
Residuals ==
  {[tiles |-> 1, ranges |-> {At(0, 1, 0), At(0, 2, 0), At(0, 3, 0)},
    persistent |-> FALSE, causal |-> FALSE, bias |-> FALSE, mask |-> "none",
    under |-> OwnRowsAndK]}

\* k_start = 512 and is_causal with 1024 rows, block_q = 64, block_kv = 128:
\* the tiles of the rows 0..127, 512..639 and 640..767.
LeftPadded ==
  {[tiles |-> 1, ranges |-> {At(4, 1, 0), At(4, 5, 4), At(4, 6, 5)},
    persistent |-> FALSE, causal |-> TRUE, bias |-> FALSE, mask |-> "none",
    under |-> OwnRows]}
=============================================================================

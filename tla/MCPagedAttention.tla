-------------------------- MODULE MCPagedAttention --------------------------
(* The calls that PagedAttention is checked for.  Every shape runs in both  *)
(* layouts, with and without a sliding window, and attends to everything,   *)
(* to everything without an update, to the cache only or to the new tokens  *)
(* only; the last two also on either device of a group, and there to the    *)
(* cache without an update too.  A column has two lanes, and SMEM room for  *)
(* three steps: a launch with more is cut.                                  *)
EXTENDS PagedAttention, TLC

\* Two decoding sequences in two lanes, whose cached tokens end at a page's
\* end and within one, then one that prefills over cached tokens: it has
\* more query blocks than one and a key block of both kinds of tokens.
Ragged ==
  [page |-> 2, decode_query_size |-> 1,
   decode |-> [bkv |-> 4, bq |-> 1, batch |-> 2], prefill |-> [bkv |-> 4, bq |-> 3, batch |-> 2],
   cu_q_lens |-> (0 :> 0 @@ 1 :> 1 @@ 2 :> 2 @@ 3 :> 7),
   kv_lens |-> (0 :> 9 @@ 1 :> 12 @@ 2 :> 14),
   distribution |-> <<2, 2, 3>>]

\* Speculative decoding of up to two queries: a sequence uses one of them,
\* the next one two, which begin within a page and end in another, here and
\* in the cache.  Then a prefilling sequence without cached tokens.
Speculative ==
  [page |-> 2, decode_query_size |-> 2,
   decode |-> [bkv |-> 8, bq |-> 2, batch |-> 2], prefill |-> [bkv |-> 8, bq |-> 3, batch |-> 1],
   cu_q_lens |-> (0 :> 0 @@ 1 :> 1 @@ 2 :> 3 @@ 3 :> 7),
   kv_lens |-> (0 :> 5 @@ 1 :> 11 @@ 2 :> 4),
   distribution |-> <<2, 3, 3>>]

\* Pages of two columns, and query blocks longer than key blocks.
LongQueries ==
  [page |-> 4, decode_query_size |-> 1,
   decode |-> [bkv |-> 4, bq |-> 1, batch |-> 1], prefill |-> [bkv |-> 4, bq |-> 6, batch |-> 1],
   cu_q_lens |-> (0 :> 0 @@ 1 :> 3 @@ 2 :> 9),
   kv_lens |-> (0 :> 6 @@ 1 :> 11),
   distribution |-> <<0, 0, 2>>]

\* The pages of a sequence are not next to each other, and one is spare.
WithPages(shape, ranks) ==
  LET n == Cardinality(DOMAIN shape.kv_lens)
      longest == Max({shape.kv_lens[s] : s \in DOMAIN shape.kv_lens})
      all == n * CeilDiv(CeilDiv(longest, shape.page), ranks) IN
  shape @@ [num_pages |-> all + 1,
            page_indices |-> [i \in 0..all - 1 |-> all - i]]

Purposes ==
  {[scope |-> "FULL", skip_kv_update |-> FALSE], [scope |-> "FULL", skip_kv_update |-> TRUE],
   [scope |-> "CACHE_ONLY", skip_kv_update |-> FALSE],
   [scope |-> "NEW_TOKENS_ONLY", skip_kv_update |-> FALSE]}

Shapes == {Ragged, Speculative, LongQueries}
Layouts == {"HEAD_ALONG_SUBLANE", "SEQ_ALONG_LANE"}

OneDevice ==
  {WithPages(shape, 1) @@ purpose @@ [layout |-> layout, window |-> window]
     @@ [cp_group_size |-> 0, cp_rank |-> 0] :
     shape \in Shapes, purpose \in Purposes, layout \in Layouts, window \in {0, 3}}

\* One call of either device of a group of two.
OfGroup(scope, skip) ==
  {WithPages(shape, 2) @@ [scope |-> scope, skip_kv_update |-> skip, layout |-> layout]
     @@ [window |-> 0, cp_group_size |-> 2, cp_rank |-> rank] :
     shape \in Shapes, layout \in Layouts, rank \in {0, 1}}

MCCalls ==
  OneDevice \cup OfGroup("CACHE_ONLY", FALSE) \cup OfGroup("CACHE_ONLY", TRUE)
    \cup OfGroup("NEW_TOKENS_ONLY", FALSE)

\* A group whose layers share a cache: the new tokens are in it already.
GroupShared == OfGroup("NEW_TOKENS_ONLY", TRUE)

\* Query blocks no longer than a column, as in the op's default Config, and
\* key blocks of more than two columns: five new tokens after a first one.
ShortQueries ==
  [page |-> 2, decode_query_size |-> 1,
   decode |-> [bkv |-> 8, bq |-> 1, batch |-> 1], prefill |-> [bkv |-> 8, bq |-> 2, batch |-> 1],
   cu_q_lens |-> (0 :> 0 @@ 1 :> 1 @@ 2 :> 6),
   kv_lens |-> (0 :> 5 @@ 1 :> 5),
   distribution |-> <<1, 1, 2>>]

ShortCalls ==
  {WithPages(ShortQueries, 1) @@ [scope |-> "FULL", skip_kv_update |-> FALSE, window |-> 0]
     @@ [layout |-> "SEQ_ALONG_LANE", cp_group_size |-> 0, cp_rank |-> 0]}
=============================================================================

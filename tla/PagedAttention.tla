--------------------------- MODULE PagedAttention ---------------------------
(***************************************************************************)
(* A call of batched ragged paged attention on one core                     *)
(* (tokamax/_src/ops/batched_rpa/kernel/): three launches in a row, for the *)
(* decoding, the prefilling and the mixed sequences.  A launch computes its *)
(* schedule in SMEM, MaxSteps steps at a time, flushes it to HBM, and then  *)
(* runs the schedule chunk by chunk through a pipeline of asynchronous      *)
(* copies.  The outputs take the place of the queries, and the new tokens   *)
(* are written back to the pages of the cache.                              *)
(*                                                                          *)
(* A copy reads its source and writes its target when it lands: any time    *)
(* after its start, in any order.  The copies of one lane of a step into    *)
(* the same buffer are one copy here.  A step waits for an amount that the  *)
(* schedule computed, on a semaphore of the slot.  When a slot is free for  *)
(* the next step is JAX's business (emit_pipeline): a copy in starts when   *)
(* the step that used the slot has retired.                                 *)
(*                                                                          *)
(* A token is <<sequence, position>>.  A row of qo is a query, known by its *)
(* row number, or an output: the pairs of query row and key that made it.   *)
(***************************************************************************)
EXTENDS PagedStitch

CONSTANTS
  Calls,     \* the calls to choose from
  MaxSteps,  \* max_steps_ub: the steps SMEM has room for
  NBuffer    \* the slots for steps in the pipeline

Positive == Nat \ {0}
BlockSizes == [bkv : Positive, bq : Positive, batch : Positive]

\* What a launch reads of the arguments and of the shapes of the arrays; the
\* ranges of the modes lie within the sequences.
IsCall(args) ==
  /\ {"page", "decode_query_size", "window", "cp_group_size", "cp_rank", "decode", "prefill",
      "kv_lens", "cu_q_lens", "distribution", "layout", "scope", "skip_kv_update",
      "page_indices"} \subseteq DOMAIN args
  /\ args.page \in Positive /\ args.decode_query_size \in Positive
  /\ args.window \in Nat /\ args.cp_group_size \in Nat /\ args.cp_rank \in Nat
  /\ args.decode \in BlockSizes /\ args.prefill \in BlockSizes
  /\ NumSeqs(args) \in Nat
  /\ args.kv_lens \in [0..NumSeqs(args) - 1 -> Nat]
  /\ args.cu_q_lens \in [0..NumSeqs(args) -> Nat]
  /\ args.distribution \in [1..3 -> 0..NumSeqs(args)]

\* What is known of the pages of a call.  validate_inputs refuses all keys at
\* once on a group, and along lanes pages not of whole columns and key blocks
\* not of whole pages.  The caller gives each sequence pages of its own for
\* all of its keys.
FitsPages(args) ==
  /\ {"num_pages", "scope", "layout", "skip_kv_update"} \subseteq DOMAIN args
  /\ args.num_pages \in Nat /\ args.skip_kv_update \in BOOLEAN
  /\ args.scope \in {"FULL", "CACHE_ONLY", "NEW_TOKENS_ONLY"}
  /\ PagesPerSeq(args) \in Nat
  /\ Cardinality(DOMAIN args.page_indices) = NumSeqs(args) * PagesPerSeq(args)
  /\ \A s \in 0..NumSeqs(args) - 1 :
       /\ QLen(args, s) \in 0..args.kv_lens[s]
       /\ args.kv_lens[s] =< PagesPerSeq(args) * NumRanks(args) * args.page
       /\ \A y \in 0..args.kv_lens[s] - 1 :
            Holds(args, y) => PageOf(args, s, y) \in 0..args.num_pages - 1
  /\ \A s, t \in 0..NumSeqs(args) - 1 :
       \A y \in 0..args.kv_lens[s] - 1, z \in 0..args.kv_lens[t] - 1 :
         Holds(args, y) /\ Holds(args, z) /\ PageOf(args, s, y) = PageOf(args, t, z)
           => s = t /\ y \div args.page = z \div args.page
  /\ Sharded(args) => args.scope # "FULL"
  /\ SeqAlongLane(args) =>
       /\ args.page % NumLanes = 0
       /\ args.decode.bkv % args.page = 0 /\ args.prefill.bkv % args.page = 0

ASSUME BufferAssumption == MaxSteps \in Positive /\ NBuffer \in Positive
ASSUME CallsAssumption == \A args \in Calls : IsCall(args)
ASSUME PagesAssumption == \A args \in Calls : FitsPages(args)

VARIABLES
  c,        \* the call, with the configuration of the launch
  launch, pc,
  work,     \* the blocks still to schedule
  count,    \* the entries in smem
  offset,   \* the steps flushed to hbm
  smem,     \* the schedule: its entries and what its steps wait for
  hbm,      \* the flushed chunks of the schedule
  steps,    \* actual_steps
  chunk,    \* the chunk that runs
  cur, issued, retired,  \* in it: steps computed, asked for, and written out
  flying, sem,
  qbuf, kvbuf, obuf,     \* the buffers, by slot and lane
  carry,    \* what each query row has seen so far (m, l and acc)
  pages, qo

schedule == <<work, count, offset, smem, hbm, steps>>
pipeline == <<cur, issued, retired, flying, sem, qbuf, kvbuf, obuf, carry>>
vars == <<c, launch, pc, schedule, chunk, pipeline, pages, qo>>

Modes == <<"DECODE", "PREFILL", "MIXED">>
In == {"q", "kv"}
Out == {"o", "kv out"}

\* run_rpa_kernel: the configuration of a launch.
Config(args, l) ==
  LET sizes == IF l = 1 THEN args.decode ELSE args.prefill IN
  [field \in {"mode"} \cup DOMAIN sizes \cup DOMAIN args |->
     IF field = "mode" THEN Modes[l]
     ELSE IF field \in DOMAIN sizes THEN sizes[field] ELSE args[field]]

Lanes == 0..c.batch - 1
Capacity == MaxSteps * c.batch

-----------------------------------------------------------------------------
\* rpa_metadata_schedule_kernel

LanesOf(sm, step) == [b \in Lanes |-> sm.entries[step * c.batch + b]]

\* flush_to_hbm: n entries are in sm; the last step is filled up, and all of
\* SMEM is written.
Flush(sm, n) ==
  LET last == CeilDiv(n, c.batch)
      masked == [sm EXCEPT !.entries =
        [i \in DOMAIN @ |-> IF i \in n..(last * c.batch - 1) THEN MaskedEntry(c) ELSE @[i]]] IN
  [masked EXCEPT !.waits =
     [j \in DOMAIN @ |-> IF j < last THEN Waits(LanesOf(masked, j)) ELSE @[j]]]

\* k_loop for the next block, and advance_carry.
ScheduleBlock(block) ==
  LET filled == [smem EXCEPT !.entries[count] = Entry(c, block[1], block[2], block[3])]
      full == count + 1 = Capacity IN
  /\ work' = work \ {block}
  /\ smem' = IF full THEN Flush(filled, Capacity) ELSE filled
  /\ hbm' = IF full THEN Append(hbm, smem') ELSE hbm
  /\ count' = IF full THEN 0 ELSE count + 1
  /\ offset' = IF full THEN offset + MaxSteps ELSE offset
  /\ UNCHANGED <<c, launch, pc, steps, chunk, pipeline, pages, qo>>

Schedule ==
  /\ pc = "schedule"
  /\ \E block \in work :
       /\ \A other \in work \ {block} : Before(block, other)
       /\ ScheduleBlock(block)

FinishSchedule ==
  /\ pc = "schedule" /\ work = {}
  /\ steps' = CeilDiv(count, c.batch) + offset
  /\ smem' = Flush(smem, count)
  /\ hbm' = Append(hbm, smem')
  /\ pc' = "load"
  /\ UNCHANGED <<c, launch, work, count, offset, chunk, pipeline, pages, qo>>

-----------------------------------------------------------------------------
\* rpa_kernel: loop_body and the pipeline of execute_schedule_chunk.

NumChunks == CeilDiv(steps, MaxSteps)
ChunkSteps ==
  IF chunk < NumChunks - 1 \/ steps % MaxSteps = 0 THEN MaxSteps ELSE steps % MaxSteps

LoadChunk ==
  /\ pc = "load" /\ chunk < NumChunks
  /\ smem' = hbm[chunk + 1]
  /\ cur' = 0 /\ issued' = 0 /\ retired' = 0
  /\ pc' = "run"
  /\ UNCHANGED <<c, launch, work, count, offset, hbm, steps, chunk,
                 flying, sem, qbuf, kvbuf, obuf, carry, pages, qo>>

EntryOf(copy) == smem.entries[copy.step * c.batch + copy.lane]

\* In the order of copy_in and copy_out, what a copy adds to its semaphore.
Amount(kind, e) ==
  IF kind = "q" THEN e.q_sz
  ELSE IF kind = "kv" THEN Sizes(e.cache) + Sizes(e.new)
  ELSE IF kind = "o" THEN (IF e.last THEN e.q_sz ELSE 0)
  ELSE IF e.wb THEN SumOf([i \in DOMAIN e.new |-> e.new[i].m], DOMAIN e.new) ELSE 0

\* The copies of a step that move anything.
Copies(kinds, step) ==
  {copy \in [kind : kinds, step : {step}, lane : Lanes] :
     Amount(copy.kind, EntryOf(copy)) > 0}

Slot(kind, step) == IF kind = "o" THEN step % 2 ELSE step % NBuffer

\* copy_in, ahead of the step.
Issue ==
  /\ pc = "run" /\ issued < ChunkSteps /\ issued - NBuffer < retired
  /\ flying' = flying \cup Copies(In, issued)
  /\ issued' = issued + 1
  /\ UNCHANGED <<c, launch, pc, schedule, chunk, cur, retired, sem, qbuf, kvbuf, obuf,
                 carry, pages, qo>>

\* new_kv, padded to whole pages with the tokens along lanes (prepare_inputs).
\* A layer that shares the cache of another has no new tokens of its own: what
\* it passes may be anything.
NewKv(t) ==
  LET owners == {s \in 0..NumSeqs(c) - 1 : t \in c.cu_q_lens[s]..(c.cu_q_lens[s + 1] - 1)} IN
  IF owners = {} THEN Zero
  ELSE IF c.skip_kv_update THEN Unwritten
  ELSE LET s == Max(owners) IN <<s, GlobalCacheLen(c, s) + t - c.cu_q_lens[s]>>

\* The pieces of e, a function of records, that reach position x.
Covering(pieces, x) == {i \in DOMAIN pieces : x \in pieces[i].at..(pieces[i].at + pieces[i].n - 1)}

\* copy_in: the pages of the cache, and the new tokens behind them; these are
\* in one piece unless they lie along lanes.
NewPieces(e) ==
  IF SeqAlongLane(c) THEN e.new ELSE [i \in {0} |-> [e.new[0] EXCEPT !.n = Sizes(e.new)]]

Fetched(e, v) ==
  [x \in DOMAIN v |->
     IF Covering(NewPieces(e), x) # {}
     THEN LET new == NewPieces(e)[Max(Covering(NewPieces(e), x))] IN NewKv(new.src + x - new.at)
     ELSE IF Covering(e.cache, x) # {}
     THEN LET page == e.cache[Max(Covering(e.cache, x))] IN
          pages[c.page_indices[page.page]][x - page.at]
     ELSE v[x]]

\* copy_out: slot i's tokens go to its page.
WrittenBack(e, v) ==
  [p \in DOMAIN pages |-> [y \in DOMAIN pages[p] |->
     LET into == {i \in DOMAIN e.new :
                    /\ c.page_indices[e.new[i].page] = p
                    /\ y \in e.new[i].offset..(e.new[i].offset + e.new[i].m - 1)} IN
     IF into = {} THEN pages[p][y]
     ELSE v[e.new[Max(into)].from + y - e.new[Max(into)].offset]]]

Land(copy) ==
  LET e == EntryOf(copy)
      slot == Slot(copy.kind, copy.step)
      b == copy.lane IN
  /\ flying' = flying \ {copy}
  /\ sem' = [sem EXCEPT ![copy.kind][slot] = @ + Amount(copy.kind, e)]
  /\ qbuf' = IF copy.kind # "q" THEN qbuf
       ELSE [qbuf EXCEPT ![slot][b] =
               [r \in DOMAIN @ |-> IF r < e.q_sz THEN qo[e.q_src + r] ELSE @[r]]]
  /\ kvbuf' = IF copy.kind # "kv" THEN kvbuf
       ELSE [kvbuf EXCEPT ![slot][b] = Fetched(e, @)]
  /\ qo' = IF copy.kind # "o" THEN qo
       ELSE [t \in DOMAIN qo |->
               IF t \in e.q_src..(e.q_src + e.q_sz - 1) THEN obuf[slot][b][t - e.q_src] ELSE qo[t]]
  /\ pages' = IF copy.kind # "kv out" THEN pages ELSE WrittenBack(e, kvbuf[slot][b])
  /\ UNCHANGED <<c, launch, pc, schedule, chunk, cur, issued, retired, obuf, carry>>

\* What a step waits for, as the schedule has it.
Need(kind, waits) ==
  IF kind = "q" THEN waits.q_in ELSE IF kind = "kv" THEN waits.kv_in
  ELSE IF kind = "o" THEN waits.o_out ELSE waits.kv_out

Wait(kinds, step) ==
  /\ \A kind \in kinds : sem[kind][Slot(kind, step)] >= Need(kind, smem.waits[step])
  /\ sem' = [kind \in DOMAIN sem |->
       IF kind \in kinds
       THEN [sem[kind] EXCEPT ![Slot(kind, step)] = @ - Need(kind, smem.waits[step])]
       ELSE sem[kind]]

-----------------------------------------------------------------------------
Query(t) == [row |-> t, seen |-> <<>>]
NoQuery == Query(-1)
Output(seen) == [row |-> -1, seen |-> seen]

\* The keys row r computes with.  One that is not a number spoils every row,
\* masked or not.
Keys(m, v, r) ==
  SelectSeq([i \in 1..c.bkv |-> i - 1],
            LAMBDA x : Visible(c, m, r, x) \/ v[x] = Unwritten)

\* flash_attention_qk_softmax, flash_attention_pv: each row adds the keys it
\* sees to those it has seen.
Attend(m, q, v, seen) ==
  [r \in DOMAIN q |->
     seen[r] \o [i \in 1..Len(Keys(m, v, r)) |-> <<q[r].row, v[Keys(m, v, r)[i]]>>]]

Fresh == [r \in 0..c.bq - 1 |-> <<>>]

\* What the rows have seen after the lanes up to b: the lanes of a step go on
\* where the one before left off, and start afresh after a last key block.
After(q, v, b) ==
  LET seen[a \in -1..b] ==
        IF a = -1 THEN carry
        ELSE Attend(StepMeta(c, LanesOf(smem, cur)[a]), q[a], v[a],
                    IF a > 0 /\ LanesOf(smem, cur)[a - 1].last THEN Fresh ELSE seen[a - 1])
  IN seen[b]

\* rpa_body, between the waits for its inputs and the start of its outputs.
Compute ==
  LET lanes == LanesOf(smem, cur)
      slot == cur % NBuffer
      v == [b \in Lanes |-> Stitch(c, kvbuf[slot][b], StepMeta(c, lanes[b]))] IN
  /\ pc = "run" /\ cur < issued /\ retired >= cur - 1
  /\ Wait(In, cur)
  /\ kvbuf' = [kvbuf EXCEPT ![slot] = v]
  /\ obuf' = [obuf EXCEPT ![cur % 2] = [b \in Lanes |->
       IF lanes[b].last THEN [r \in 0..c.bq - 1 |-> Output(After(qbuf[slot], v, b)[r])]
       ELSE @[b]]]
  /\ carry' = IF lanes[c.batch - 1].last THEN Fresh ELSE After(qbuf[slot], v, c.batch - 1)
  /\ flying' = flying \cup Copies(Out, cur)
  /\ cur' = cur + 1
  /\ UNCHANGED <<c, launch, pc, schedule, chunk, issued, retired, qbuf, pages, qo>>

\* wait_out
Retire ==
  /\ pc = "run" /\ retired < cur
  /\ Wait(Out, retired)
  /\ retired' = retired + 1
  /\ UNCHANGED <<c, launch, pc, schedule, chunk, cur, issued, flying, qbuf, kvbuf, obuf,
                 carry, pages, qo>>

EndChunk ==
  /\ pc = "run" /\ retired = ChunkSteps
  /\ chunk' = chunk + 1
  /\ pc' = "load"
  /\ UNCHANGED <<c, launch, schedule, pipeline, pages, qo>>

-----------------------------------------------------------------------------
\* The state in which a launch starts; l and acc are cleared, m is -inf.
Starts(k) ==
  [work |-> Work(k),
   smem |-> [entries |-> [i \in 0..MaxSteps * k.batch - 1 |-> <<>>],
             waits |-> [j \in 0..MaxSteps - 1 |-> <<>>]],
   sem |-> [kind \in In \cup Out |-> [slot \in 0..(IF kind = "o" THEN 1 ELSE NBuffer - 1) |-> 0]],
   kvbuf |-> [slot \in 0..NBuffer - 1 |-> [b \in 0..k.batch - 1 |->
                [x \in 0..BufferLen(k) - 1 |-> Zero]]],
   qbuf |-> [slot \in 0..NBuffer - 1 |-> [b \in 0..k.batch - 1 |-> [r \in 0..k.bq - 1 |-> NoQuery]]],
   obuf |-> [slot \in 0..1 |-> [b \in 0..k.batch - 1 |-> [r \in 0..k.bq - 1 |-> NoQuery]]],
   carry |-> [r \in 0..k.bq - 1 |-> <<>>]]

NextLaunch ==
  LET start == Starts(c') IN
  /\ pc = "load" /\ chunk = NumChunks /\ launch < 3
  /\ launch' = launch + 1 /\ c' = Config(c, launch + 1)
  /\ work' = start.work /\ smem' = start.smem /\ sem' = start.sem
  /\ kvbuf' = start.kvbuf /\ qbuf' = start.qbuf /\ obuf' = start.obuf /\ carry' = start.carry
  /\ count' = 0 /\ offset' = 0 /\ hbm' = <<>> /\ steps' = 0
  /\ chunk' = 0 /\ cur' = 0 /\ issued' = 0 /\ retired' = 0
  /\ pc' = "schedule"
  /\ UNCHANGED <<flying, pages, qo>>

Finish ==
  /\ pc = "load" /\ chunk = NumChunks /\ launch = 3
  /\ pc' = "done"
  /\ UNCHANGED <<c, launch, schedule, chunk, pipeline, pages, qo>>

Done == pc = "done" /\ UNCHANGED vars

NumTokens == c.cu_q_lens[NumSeqs(c)]

\* What the cache holds before the call: the tokens cached, and the new ones
\* too if the call is not to update it.
CachedAtFirst(s) ==
  {y \in 0..(GlobalCacheLen(c, s) - 1 + (IF c.skip_kv_update THEN QLen(c, s) ELSE 0)) : Holds(c, y)}

Init ==
  /\ c \in {Config(args, 1) : args \in Calls}
  /\ launch = 1 /\ pc = "schedule"
  /\ LET start == Starts(c) IN
       /\ work = start.work /\ smem = start.smem /\ sem = start.sem
       /\ kvbuf = start.kvbuf /\ qbuf = start.qbuf /\ obuf = start.obuf /\ carry = start.carry
  /\ count = 0 /\ offset = 0 /\ hbm = <<>> /\ steps = 0
  /\ chunk = 0 /\ cur = 0 /\ issued = 0 /\ retired = 0 /\ flying = {}
  /\ qo = [t \in 0..NumTokens - 1 |-> Query(t)]
  /\ pages = [p \in 0..c.num_pages - 1 |-> [y \in 0..c.page - 1 |->
       LET longest == PagesPerSeq(c) * NumRanks(c) * c.page
           here == {token \in (0..NumSeqs(c) - 1) \X (0..longest - 1) :
                      /\ token[2] \in CachedAtFirst(token[1])
                      /\ PageOf(c, token[1], token[2]) = p /\ SlotOf(c, token[2]) = y} IN
       IF here = {} THEN Unwritten ELSE CHOOSE token \in here : TRUE]]

Next ==
  \/ Schedule \/ FinishSchedule
  \/ LoadChunk \/ Issue \/ Compute \/ Retire \/ EndChunk
  \/ NextLaunch \/ Finish \/ Done
  \/ \E copy \in flying : Land(copy)

\* A copy that has started lands, and the core runs on when it need not wait.
Spec == Init /\ [][Next]_vars /\ WF_vars(Next)

-----------------------------------------------------------------------------
\* The position of query row t, and the keys it is to attend to.
OwnerOf(t) == CHOOSE s \in 0..NumSeqs(c) - 1 : t \in c.cu_q_lens[s]..(c.cu_q_lens[s + 1] - 1)
Position(t) == GlobalCacheLen(c, OwnerOf(t)) + t - c.cu_q_lens[OwnerOf(t)]
KeysOf(t) ==
  SelectSeq([i \in 1..(Position(t) + 1) |-> <<OwnerOf(t), i - 1>>],
    LAMBDA key :
      /\ c.window # 0 => key[2] > Position(t) - c.window
      /\ c.scope = "CACHE_ONLY" => key[2] < GlobalCacheLen(c, OwnerOf(t)) /\ Holds(c, key[2])
      /\ c.scope = "NEW_TOKENS_ONLY" => key[2] >= GlobalCacheLen(c, OwnerOf(t)))

\* When the call is done every token with a key to attend to has the output
\* of its own query over exactly its keys, in order: not a key of another
\* sequence, a stale one or one twice, whichever way the blocks fall on
\* steps, lanes and chunks (schedule.py:556-791, kernel.py:223-331).
Attends ==
  pc = "done" => \A t \in 0..NumTokens - 1 :
    KeysOf(t) # <<>> =>
      qo[t] = Output([i \in 1..Len(KeysOf(t)) |-> <<t, KeysOf(t)[i]>>])

\* When the call is done every new token it attends to is in its place: one
\* rotation of the fetched pages moves all of them there
\* (stitch_utils.py:36-39, schedule.py:628-654).
NewTokensStored ==
  pc = "done" /\ c.scope # "CACHE_ONLY" =>
    \A s \in 0..NumSeqs(c) - 1 : \A y \in GlobalCacheLen(c, s)..(c.kv_lens[s] - 1) :
      Holds(c, y) => pages[PageOf(c, s, y)][SlotOf(c, y)] = <<s, y>>

\* What a call leaves behind: the outputs of its queries, and in the pages
\* the tokens that the next call will find cached (wrapper.py:815-829).
CallServed == Attends /\ NewTokensStored

\* The tokens cached before the call never leave their places, not even
\* while a page is written back, nor does a page change that is not of the
\* sequences' own (bref_override.py:118-144,
\* speculative_decode_test.py:57-66).
CacheKept ==
  /\ \A s \in 0..NumSeqs(c) - 1 : \A y \in CachedAtFirst(s) :
       pages[PageOf(c, s, y)][SlotOf(c, y)] = <<s, y>>
  /\ \A p \in DOMAIN pages :
       (\A s \in 0..NumSeqs(c) - 1 : \A y \in 0..c.kv_lens[s] - 1 :
            Holds(c, y) => PageOf(c, s, y) # p)
         => \A y \in DOMAIN pages[p] : pages[p][y] = Unwritten

\* What a step waits for is what it copies: nothing of a step is in flight
\* when it has waited for it, and between the chunks no semaphore has
\* anything left (schedule.py:386-480, bref_override.py:146-185).
WaitsMatch ==
  /\ \A copy \in flying : copy.step >= (IF copy.kind \in In THEN cur ELSE retired)
  /\ pc # "run" => \A kind \in DOMAIN sem : \A slot \in DOMAIN sem[kind] : sem[kind][slot] = 0

\* The core is never left waiting for more than it has asked for.
Terminates == <>(pc = "done")
=============================================================================

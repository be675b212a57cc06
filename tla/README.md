# Tokamax in TLA+

Tokamax is a library of accelerator kernels for JAX: ops (attention, ragged
matrix products, mixture-of-experts layers, ...), each with several
implementations and a *config* (block sizes, pipeline depth) that is looked up
in an autotuning cache, tuned, or computed by a heuristic when the op is called.
This directory models the parts of it whose correctness depends on the order in
which things happen, checks them with TLC and proves some of the results with
TLAPS. Paths below are relative to `src/tokamax/_src/`.

## Inventory

| Part | State | Operations | What is hard | What makes it correct |
|---|---|---|---|---|
| Op call and config resolution (`ops/op.py`) | `_AUTOTUNING_CACHE`, overlay stack, JAX context | `__call__`, `default_config`, `get_config`, `autotune` | a jitted call resolves once and bakes the config in; two stores (overlays, cache) and two ways to look up a device | a call uses the config its scope says |
| `AutotuningResult` (`autotuning/api.py`) | `_token`, `_context` on the object | `__enter__`, `__exit__`, `__or__`, `dump`, `load` | two places to change, one per context, one per thread; `id()` as key; re-entry | what a with-block adds is seen inside it and gone after it |
| `Autotuner` (`autotuning/autotuner.py`) | pool, futures, results | `autotune` | pool threads, deadline, late results, partial failure | a justified verdict for every config, undisturbed benchmarks |
| Cache files (`autotuning/cache.py`) | dict loaded on demand | `__missing__`, `_load_cache` | two threads loading at once | a stored entry is not lost |
| Options (`config.py`) | flags and user contexts | `value`, `__call__` | not part of a jit key when set as a flag | - |
| SM90 attention (`ops/attention/pallas_mosaic_gpu_kernel_sm90.py`, `mosaic_gpu.py`) | shared-memory ring, mbarriers, named barriers | one body per warpgroup and warp | four actors and the TMA engine, one-bit parities, thread-counting barriers, aliased memory, state carried over tiles | no read of a buffer that is being written, progress |
| SM80/SM100 attention, ragged dot on GPU | as above | | as above, with tensor memory on SM100 | as above |
| Fused MoE (`ops/experimental/fused_moe`) | routing tables, slabs, arrival buffers, weight and window slots, DMA semaphores, the barrier semaphore of the collective id | routing plan, token gather, all-to-all kernel, combine kernel | shards a call apart writing into each other; padded and true lengths; rotating buffers; copies landing in any order | every selection gets back the row its expert computed for it in this call, and every wait is for exactly what is sent |
| Batched paged attention (`ops/batched_rpa`) | schedule in SMEM and HBM, page table, key, query and output buffers, DMA semaphores | schedule kernel, attention pipeline, stitching of new tokens, write-back | blocks over pages, lanes and chunks; lengths derived twice; new tokens that start within a page | every query attends to exactly its keys, and the cache ends up with the new tokens behind the old |
| MoE reduce-scatter and decode variants, MLA (`ops/experimental/fused_moe_rs`, `mla*`) | as the two above | | as above | as above |
| Splash and ring attention, other TPU kernels | local buffers | | mostly arithmetic | numerical |
| HLO tools, serialization, shapes, precision, batching, benchmarking, PyTorch wrappers | none shared | pure functions | - | - |

How they interact: `Op.__call__` asks `BoundArguments.default_config`, which
reads the overlay stack that `AutotuningResult` pushes on, then the cache, and
may run the `Autotuner`; under `jax.jit` all of this happens at trace time only,
and the key of a trace holds the ids that `AutotuningResult` puts in a JAX user
context. The chosen config sizes the rings and barriers of the kernel, whose
warps then share nothing but them.

The fused MoE layer is a chain: the host code plans the routing (`MoeRouting`),
the kernel computes the experts tile by tile (`MoePipeline`) and pushes the rows
to their owners (`MoeExchange`), and the combine kernel reduces what came back
(`MoeCombine`). `MoeCall` is the whole chain for one call with the shards in lock
step. Batched paged attention computes a schedule (`PagedSchedule`), which the
pipeline of `PagedAttention` executes; the pipeline stitches with `PagedStitch`.

`PROJECT.json` lists every component with its status and every hazard at its
line.

## Modules

### ConfigResolution - how a call finds its config

Operators over what the lookup reads: `CachedData` (overlays from the innermost
out, then the cache), `Resolve` (`get_config` under the two options),
`Stored` (`autotune` writes under the *default* device kind, the lookup reads
the inferred one). Autotuning data is abstracted to what the lookup can tell
apart: absent, empty, all failed, or its fastest config.

### AutotuningContext - the context manager, the lookup and the jit cache

| Variable | Code |
|---|---|
| `stack[t]` | `AUTOTUNING_CACHE_OVERLAY_STACK` in the context of task `t` |
| `jaxCtx[h]` | `AUTOTUNING_CACHE_OVERLAY_JAX_CONFIG` on thread `h` |
| `token[r]`, `context[r]` | the attributes `_token`, `_context` of result `r` |
| `frames[t]`, `step[t]` | the with-blocks task `t` is in, and where it is inside `__enter__` or `__exit__` |
| `addr`, `alive` | `id()` of the results, and which are not freed |
| `cache`, `history` | `_AUTOTUNING_CACHE`, and every entry it has held (auxiliary) |
| `traces` | the jit cache: config by call, options and ids |

`__enter__` is `EnterStack` then `EnterJax`, `__exit__` is `ExitJax` then
`ExitStack`; another thread may run in between, another task of the same thread
may not (asyncio switches at an await). The constants `Shared`, `Recycle` and
`ThreadOf` say how the program uses results: may one be entered twice at a time,
may ids be reused, which tasks share a thread. The runs let results be used one
at a time and give every task its thread; with a result entered again while it is
open, or with two asyncio tasks on one thread, whose overlay stacks differ while
they share one JAX context, `CallsFollowScope` does not hold.

### OverlayScope - what is promised

Without tokens, ids and traces: a task has a scope, the results of its open
with-blocks; a call is answered by the innermost that knows it, otherwise by
the cache, a jitted one perhaps by an earlier state of the cache.
`AutotuningContext` implements it with `scope <- frames`.

### Autotuner - one autotuning

`Submit`, then `StartWaiting` (the clock of `as_completed` starts), `Block` and
`PickUp` (its wait), one `Yield...` per future, `GiveUp` or `AllYielded`,
`JoinPool` (the exit of the `with`), `Measure` per config, `Return`. The pool
is `TakeUp` and `FinishCompile`. `as_completed` looks at the clock only between
batches, so a batch that was picked up late is still processed; the model keeps
that. A compilation ends well or badly and the initialisation of the arguments
may fail, each as a choice.

Without a compile pool (`compilePool` is chosen at the start) the same pool is one
of processes that compile and benchmark: `YieldMeasured` records the verdict of a
future, `LogSlow` only logs what is pending at the deadline, `BreakPool` is the
death of a process, which fails all that is unfinished, and `SubmitRefused` is
`submit` on a broken pool, which makes `autotune` raise. It raises as well when
there is no result at all (`Outcome`): if nothing was done at the deadline,
`fastest_config` has no data and its `ValueError` is not caught. A synchronous executor
without a compile pool behaves like a pool that is done before the waiting starts.

### FlashAttentionSm90 - one CTA of the SM90 kernel

Four actors: the compute warpgroups `wg0` and `wg1`, the warp `kv` that loads
K, bias, mask and V blocks, the warp `q` that loads the next Q of a persistent
kernel; and TMA, which lands a copy at any later time.

| Variable | Code |
|---|---|
| `launch` | persistent or not, causality, bias, mask, number of tiles; `under[w]`, what of Q and K the output and residuals of a warpgroup cover (`RefUnion`) |
| `range[n]` | `get_kv_ranges` and `q_base // block_kv` of the tiles the CTA runs |
| `pc`, `tile`, `ki`, `prev` | where each actor is; `prev` is the carry `prev_iters` |
| `arrivals[b][a]` | `bar.arrive` and `bar.sync` of each actor at each named barrier; `Completed` counts threads as the hardware does |
| `landed`, `waits` | arrivals at each mbarrier, and the waits of each warpgroup on it; `Ready` compares parities only |
| `smem`, `copying` | the block each buffer holds, and the copies under way |
| `overlaid` | what of Q and K outputs and residuals have been written over |

A read of shared memory lasts from one action to the next (a wgmma is issued,
later waited for), so an overwrite in between is seen: of a slot by a copy
(`StableReads`), of Q or K by an output (`OutputAlone`). A warpgroup reads its own
rows of Q (`Rows`), and an output may cover those of the other.

`FlashAttentionSm90Proofs` and `FiniteSums` hold its proofs.

### MoeRouting - the routing plan

Pure operators over a routing, the expert of every selection: run lengths and
their padded starts, slab rows, visit order, arrival rows and the sublanes of the
scales, the counts the kernel waits for, and the sizes of the buffers. Both
builders of the plan are there, the one over all pairs and the windowed one for
the shard's own pairs. Tables that the code keeps in blocks are kept in rows.

### MoeCall - one call of the layer

All shards in lock step: plan, compute, move, combine. A row is
`<<expert, token>>`, so a row in a wrong place is seen. `ShippedRows` is the
transport straight from the tile (`ship_tile`), `PushedRows` the one by runs
(`push_expert`); both produce copies with a destination and a row.

### AllToAll and MoeExchange - the exchange between shards

`AllToAll` is what an exchange promises: a member gives its round, and takes it
only when all have given.

`MoeExchange` runs the shards at their own pace over several calls: all-gather,
two-phase barrier, visits, drain, barrier, combine.

| Variable | Code |
|---|---|
| `calls` | the kernel's operands in every round: tables, visit lists, counts |
| `pc`, `round`, `visit` | where each shard is |
| `signalled` | signals of `_all_pairs_barrier` that are on their way |
| `sem` | the barrier semaphores and the six of the transport, in rows |
| `contrib`, `recv` | the round that the rows in a slab or an arrival buffer are from |
| `queued`, `sent` | copies whose source is not yet read, and copies yet to land |

A copy is two steps, since its source is read before its target is written and
each counts on a semaphore of its own; a copy within a shard is one. It
implements `AllToAll` under the mapping `Given`, `Taken`: a shard has given its
round when it has drained, and taken it when it leaves.

### MoePipeline - one core of the MoE kernel

The visit list as a sequence of actions from one wait to the next: weights
`distance` visits ahead or streamed by slabs, windows of token numbers in two
alternating slots, rows, products, staging, commit and push, or shipping. A copy
takes what its source holds when it lands, at any time and in any order, so a
buffer refilled too early shows as a wrong tile (`RightTiles`) and a refill that
races as a clash (`NoClash`).

| Variable | Code |
|---|---|
| `schedule` | the build (prefetch distance, streaming, shipping) and the tiles of each visit |
| `visit`, `t`, `count`, `wslot` | the loop counters, and the carried number of tiles and window slot |
| `owed` | rows that each staging parity still has to give |
| `act`, `mem` | the gate product, and what every buffer holds |
| `flying`, `sem` | copies under way, and what has landed |

### MoeCombine - the combine kernel

Steps rotate over `Parities` buffers; rows are asked for `Lead` steps ahead, the
last requests repeat the final step and are drained. `row_buf`, `out_buf` and
`written` hold the step whose data a buffer or HBM has.

### PagedSchedule, PagedStitch, PagedAttention - batched paged attention

`PagedSchedule` is the schedule as functions of a launch's configuration: query
and key blocks, sliding window, pages to fetch, slots of new tokens in both
layouts, write-back, and what a step waits for. The loops over sequences, query
blocks and key blocks visit a set of blocks in the order `Before`. `PagedStitch` is what happens to
a key buffer in a lane: the metadata derived again from the entry, the rotation
of the new tokens along lanes (prefill and decode path), and the mask. A device
of a context-parallel group (`cp_group_size`, `cp_rank`) runs the same schedule
over the pages it owns (`Owned`): the cached tokens of its own table, or all new
tokens, of which it writes its own pages back.
`PagedAttention` runs a call: three launches, each writing its schedule in SMEM,
flushing it to HBM when full, and executing it chunk by chunk.

| Variable | Code |
|---|---|
| `c`, `launch` | the call's arguments with the configuration of the current launch |
| `work`, `count`, `offset`, `smem`, `hbm`, `steps` | the schedule kernel: blocks to come, entries in SMEM, steps flushed, `actual_steps` |
| `chunk`, `cur`, `issued`, `retired` | the chunk, and the steps computed, asked for and written out in it |
| `flying`, `sem` | copies under way, and semaphores by slot |
| `qbuf`, `kvbuf`, `obuf`, `carry` | the pipeline's buffers, and m, l and acc as the keys seen so far |
| `pages`, `qo` | the KV cache, and the queries that outputs replace |

A key is `<<sequence, position>>`, and an output is the sequence of query and key
pairs that made it, so the attention is checked for exactly which keys it used
and in which order.

## Runs

| Run | Module, cfg | Question and result |
|---|---|---|
| `overlays` | `MCAutotuningContext` | With one task per thread, results used one at a time and fresh ids: does every call answer as its scope says? Yes: `Coherent`, `ExitNeverRaises`, `TracesFaithful`, `CallsFollowScope`, and the refinement `ImplementsScope`. |
| `recycled_id` | `MCRecycled.cfg` | The same with ids reused after a result is freed: `CallsFollowScope` is violated. |
| `autotuner` | `Autotuner`, `MCAutotuner.cfg` | Verdicts, shared arguments, quiet benchmarks, an end unless a compilation never ends: all hold. |
| `timeout_per_config` | `MCAutotunerTimeout.cfg` | Is the timeout a limit per config, as the docstring says? `TimeoutPerConfig` is violated. |
| `sm90` | `MCFlashAttentionSm90`, `MCSm90.cfg` | Three tiles through one ring, and one tile with causality, bias and either kind of mask: stable reads, complete barrier phases, no missed parity, alternation, outputs written over nothing that a copy fills or a product reads, termination: all hold. |
| `sm90_left_padded` | `MCSm90LeftPadded.cfg` | Does the CTA end for a causal mask with `k_start`, which the tests list as supported? `Terminates` is violated. |
| `moe_call` | `MCMoeCall` | Do the two plans agree, do slabs and arrivals stay apart and in bounds, do both transports deliver the same rows, are the counts exact, does every selection get its row? Yes. |
| `moe_exchange` | `MCMoeExchange` | Shards a call apart, copies and signals at any time: do rows only travel to a shard that is in their call, past the first phase of the barrier at its entry and not drained, is the barrier free at the end, is it an all-to-all, does it end? Yes. |
| `moe_pipeline` | `MCMoePipeline` | Does each product have its tile's rows and weights, and is no buffer refilled while in use, under every weight schedule? Yes, and the core never waits in vain. |
| `moe_combine` | `MoeCombine`, `MCMoeCombine.cfg` | Does each step reduce its own rows and store its own sums, and is everything drained? Yes. |
| `paged` | `MCPagedAttention`, `MCPaged.cfg` | Does every query attend to exactly its keys and are the new tokens in their places at the end (`CallServed`), does the cache keep the old tokens at every step, does each wait match its copies, does the call end? Yes. |
| `paged_short_queries` | `MCPagedAttention`, `MCPagedShort.cfg` | Along lanes, with query blocks no longer than a column of lanes and longer key blocks, as in the heuristic config: `NewTokensStored` is violated. |

The findings in `PROJECT.json` quote the lines that disagree. `CHECK_DEADLOCK
FALSE` appears in `MCSm90LeftPadded.cfg` only, where the system does stop: the
run reports that stop as a violation of the liveness property.

### Two instances beside the runs

Two properties of the passing runs fail for launches or calls that nothing in the
code refuses. They have configurations of their own, to be run with TLC by hand,
and the theorems name them as exceptions:

- `MCPagedGroupShared.cfg` (`MCPagedAttention`): a device of a context-parallel
  group attends to the new tokens of a layer that shares the cache of another
  (`skip_kv_update`). `kernel.py:268-271` says that its branch for such layers must
  mirror the one in the schedule (`schedule.py:589-592`), but the schedule of a group
  (`schedule_cp.py:131`) has none: what was passed as new is fetched and
  written back over tokens of the cache, in either layout. `CacheKept` is violated.
  No test makes such a call. Attending to the cache does no harm, and `paged` has it.
- `MCSm90Residuals.cfg` (`MCFlashAttentionSm90`): a kernel that is not persistent
  returns residuals, and they lie in the first slot of K - as with a head dimension
  of 128 in bfloat16 and `block_q` 64, where the output alone fills the memory of Q.
  The comment in the kernel (l. 104) says that only V may still be in use when `wg0`
  writes them. But no barrier makes `wg0` wait for the end of the last product of
  `wg1` with K (l. 502-511), and `OutputAlone` is violated. The data is safe as long
  as the tensor cores finish the products of the two warpgroups in the order they
  were issued, which the model does not presume.

### Bounds, and why they are enough

- `overlays`: two tasks, two results (one with a config, one whose entry is
  empty and shadows), two configs, nesting and jit cache of at most two
  (`MaxDepth`, `MaxTraces`). Two of each give interleaved enters and exits,
  shadowing both ways, and a trace made in one scope and looked up in another.
  Options: autotune on a miss, and heuristics with the cache ignored. Ids, and
  tasks with their threads, are interchangeable (symmetry); no liveness is
  checked under symmetry.
- `autotuner`: three configs on two workers, so that one is queued while two
  compile; a timeout of one tick in a clock of at most `MaxTime` = 3, so that the
  deadline passes before, within and after the compilations. The clock need not
  advance, so runs without a timeout are among the behaviours. With and without
  a compile pool.
- `sm90`: two ring slots (`Stages`). A persistent launch of three tiles of 2, 1 or
  0 blocks in any order: the ring wraps, parities alternate, and tiles without
  blocks (an inverted range among them) lie first, between and last. A launch of
  one tile of up to four blocks, twice round the ring, whose outputs cover the rows
  of Q of their own warpgroup, or both those of `wg0`, as the block sizes have it.
- `moe_call`: two shards of two experts and six tokens with two selections each,
  runs padded to 2 rows and tiles of 8, so that an expert has no, one or several
  tiles, runs straddle tiles, and padding is or is not needed. Routing blocks of
  4 pairs with windows of 2, so that both plan builders carry over blocks. The
  routings are the mixes of six expert pairs, one-sided ones included; all
  routings (4^24) are out of reach.
- `moe_exchange`: three shards of one expert, since with two a shard ahead has
  nobody else to overtake; two calls (`Rounds`), since a shard can be one call
  ahead at most - which `MoeExchangeProofs` shows for any number. Three lists of
  routings: all to one, in a ring, at home, mixed lengths.
- `moe_pipeline`: every combination of prefetch distance 0 to 2, streaming and
  shipping, with lists of up to distance + 2 experts, so that a weight slot is
  used twice, of one to three tiles, so that both parities and both windows
  wrap within an expert and across experts.
- `moe_combine`: the code's own numbers, four buffers and a lead of two, over
  eight steps, twice round the rotation. The proof covers all others.
- `paged`: two lanes to a column (`NumLanes`), SMEM room for three steps
  (`MaxSteps`), so that launches are cut into chunks, two pipeline slots
  (`NBuffer`). Eighty-four calls: three sets of sequences (decoding with prefill,
  speculative, query blocks longer than key blocks with pages of two columns) in
  both layouts, with and without a window of three, attending to everything, to
  the cache only, to the new tokens only, or to everything without updating the
  cache; and, without a window, to the cache only or the new tokens only on
  either device of a context-parallel group of two, to the cache also without an
  update (`skip_kv_update`). What is passed as new is then
  `Unwritten`, anything. Lengths make cached tokens end within and at the end of pages, blocks
  and columns.

### Fairness

- `Autotuner`: weak fairness of taking up a task and of the calling thread. That a
  compilation (or the benchmark of a process) ends is not assumed: leaving the
  pool's with-block joins its workers whatever the timeout, so `Terminates` says
  that the autotuning ends or some config is running for ever. The clock is not
  fair.
- `FlashAttentionSm90`: weak fairness of every warp(group) and of TMA. Warps of
  a resident CTA are scheduled independently, and an issued copy completes.
- `MoeExchange`, `MoePipeline`, `MoeCombine`, `PagedAttention`: weak fairness of
  the whole next-state relation. It says that something happens as long as
  something can: cores do not stop while they need not wait, and a started copy
  or signal arrives. No step can be repeated for ever, so nothing stronger is
  needed; one that is never scheduled would stop everything else in the end.
- `AutotuningContext` and `MoeCall` have no liveness property and no fairness.

## Proofs

`AutotuningContextProofs` proves, for any set of tasks, threads, results, ids,
calls and options, and any depth, under `Disciplined` (a thread runs one task, no
result is entered twice at a time, no id is used twice; the run `recycled_id`
shows the last to be necessary):

- `Invariance`: `Spec => []IInv`;
- `Coherence`: `Spec => []Coherent` - the overlay stack and the JAX context of
  a task at rest are exactly those of its with-blocks;
- `ExitsNeverRaise`: `Spec => []ExitNeverRaises`;
- `TypeCorrect`: `Spec => []TypeOK`.

`Coherent` is not inductive: it says nothing of what an exit will restore.
`IInv` adds what each open frame has saved. `FrameTokens` and `FrameContexts`
say that the attributes of the result of frame *i* restore the first *i* - 1
frames, `MidEnter` and `MidExit` say the same in the middle of an enter or exit,
`Exclusive` says that no two frames share a result, so that entering one leaves
the attributes of the others alone, and `IdsUnique` that ids tell results apart.
The proof has one lemma per action. Without `Exclusive`, a result entered a
second time would overwrite the attributes that its first exit needs.

On top of it, under the same `Disciplined`, the second half of the module proves
what calls answer:

- `CallInvariance`: `Spec => []CallInv`, where `CallInv` is `IInv`, the cache
  holding one of the entries it has held (`CacheKnown`), and the next two;
- `TracesStayFaithful`: `Spec => []TracesFaithful`;
- `CallsAlwaysFollowScope`: `Spec => []CallsFollowScope`;
- `Implementation`: `Spec => ImplementsScope`, the refinement.

The argument: a call runs only where `IInv` makes the stack and the ids those of
its with-blocks (`ReadyAtRest`). A call that looks its config up is allowed by
the cache as it is. One that hits a trace finds it under its own ids;
`TracesFaithful` gives a scope with those ids that allows the config, and
`IdsUnique` makes that scope the caller's (`ScopeOfIds`, `HitAllowed`) - the step
that fails with recycled ids. Creating results and storing entries keeps what
was allowed (`ScopeKept`), because ids once given stay and `history` only grows.
For the refinement, the scope changes in the second half of an enter and in the
second half of an exit; their first halves leave it alone.

`AutotunerProofs` proves all safety properties of `Autotuner` for any configs,
number of workers, timeout and course of the clock, with and without a compile
pool, and with no further assumption:
`TypeCorrect`, `BenchmarksAreQuiet`, `ArgumentsAreShared`, `ConfigsAreAccounted`,
`VerdictsAreJustified`, and `GivingUpIsFinal` (`Spec => GivenUpForGood`). The
inductive invariant adds three facts to them. `Compiling`: a config that is
queued or running has no outcome yet, what is kept for benchmarking compiled, and
a broken pool is idle - without it a late compilation could contradict a verdict.
`Accounted`: until the caller stops waiting, each config is pending, kept or
judged; afterwards kept, judged, or (without a compile pool) missed at the
deadline; while the pool is filled, and when `autotune` raises, nothing is judged,
and it raises because the pool broke or all was missed. `GivenUp`:
timeouts are only recorded when the waiting is over, of configs that are not
kept, which is why a late compilation cannot revive one. What `Record` leaves
behind is stated once (`RecordResult`, `RecordOne`) for the five actions that use
it.

`MoeExchangeProofs` proves for any number of shards, experts and rounds and any
routings:

- `CollectiveFree`: `Spec => []BarrierFree` - once a shard is out, nobody uses
  the barrier semaphore, which other collectives share, any more;
- `IsAllToAll`: the safety part of the refinement, `Abstract!Init` and
  `[][Abstract!Next]`: every step is a Give, a Take or a stutter;
- `LandsInTime` (`LandsInside`): a copy is only under way while its receiver is in
  the copy's own call, past the first phase of the barrier at the entry and not
  drained. The receiver may still wait in the second phase: a sender that has
  passed both pushes at once. What keeps it from arriving earlier is that nobody
  passes the second phase before all have met the first (`Order`);
- `CombinesThisRound` (`RowsThisRound`): what a shard combines has all arrived,
  with its scales, and was computed in this call;
- `LeavesNothing` (`NothingLeft`): a shard that is out has spent its semaphores,
  and no copy from or to it is under way.

`BarrierFree` is not inductive. The invariant `IInv` counts for each shard the
barrier phases it has signalled, met and left over all rounds. `Order` says that
nobody meets a phase before all have signalled it, nor leaves before all have met
it; `CountInv` that what a semaphore holds, with the signals on their way to it,
is the number of shards that are ahead - so a shard that finds `EP` signals knows
that all are; `GatherInv` is what the all-gather before the kernel adds, and is
what keeps a fast shard's next call from signalling into this one.

The other three need `CopiesInv` beside it, in which the barrier keeps the counts
meaningful and the counts keep the copies inside the barrier:

| Part | What it says | Why it is needed |
|---|---|---|
| `DataTypes` | every call's operands satisfy `Plan`: runs without rows have no padding and no scales, a shard visits its experts at most once each, and it is owed on each counter the sum over a set of runs | otherwise a visit could push into a shard that has drained, or a wait end with a run missing |
| `VisitInv`, `ContribInv` | visits count within a call, and the contributions of an expert that was visited are of this round | a copy is read later than it was pushed |
| `CopyInv`, `Apart` | a copy is one of the round of both its ends; its receiver has not drained, nor its sender while the source is unread | `LandsInside`, and that run and kind determine a copy |
| `SemInv` | a counter of the transport holds the sum over the runs whose copy was pushed and got through (`Counted`), and nothing outside the kernel | a count says nothing by itself: only with this does a wait that ends mean that nothing is missing |
| `DrainInv` | a shard that has drained was sent all its runs | nobody pushes to it any more |
| `RecvInv` | a run whose copy got through is there, of this round | `RowsThisRound` |

Both sides compute what they are owed by different sums - the receiver subtracts
its own experts' rows from the sum over all experts - and `OwedIs` proves from
the tables of `MoeRouting` that for every routing each is the sum of the copies'
amounts over the same runs (`SumPairs`, `OtherRuns`). `VisitsOnce` proves that
`expert_visit_list`, which ranks experts by rows and number, is a permutation
(`KeysDiffer`, `Ranks`). In `AllCounted` a wait that ends leaves a sum of positive
amounts equal to zero, so no run is missing. The lemmas `InsideMeets`,
`AwaitingMeets`, `EnterMeets` and `OutMeets` are what `IInv` says of two shards.

`MoeCallProofs` proves all properties of `MoeCall` for every routing, every size of
the layer that `_refuse_bad_plan_args` lets through, either plan builder and either
transport:

- `BuildersAgree`: `CallSpec => []PlansAgree`;
- `SlabsHold` (`SlabsInBounds`), `ArrivalsLandApart` (`LandApart`): every row, tile
  and mirror sublane is in its buffer, and no two copies meet;
- `TransportsAgreeAlways` (`TransportsAgree`): shipping tiles and pushing runs copy
  the same things to the same places;
- `CountsBalanced` (`CountsBalance`): the kernel's waits are exact;
- `PairsReturned` (`PairsReturn`): each selection gets back the row and the scale of
  its expert and its token.

The invariant, `CallInv`, says that every variable is what the calls made so far
compute from the routing: the plan of a shard is the one of `PlanFor`, the tiles are
those that `TileRows` gathers, what has arrived is what a transport copies, and the
output what the combine fetches from there. `PlanFor` gives no table, but closed
forms: a pair lies `Rank` rows into its run, in the slab, the arrival buffer and the
mirror, where `Rank` counts the earlier pairs of the same owner and expert. Both
builders reach that number by different sums - of window and block histograms, or of
the word that packs two shifts - and the proof shows them equal, which is where the
bounds of `_refuse_bad_plan_args` on the slot field and the alignments of the blocks
enter. The properties follow from what `CallInv` leaves of the tables:

| Part | What it says | What rests on it |
|---|---|---|
| `RunsPadded`, `RunsLaid` | a run holds its pairs and less than a block of padding; runs of an expert follow one another in its part of the slab | `SlabsLaid`: the runs of a shard fill less than `Stride` rows with a tile to spare |
| `ArrivalsLaid` | the runs that arrive at a shard follow one another, within `RecvRows` | rows land apart (`RowsApart`) |
| `ContribsLaid`, `MirrorsApart` | a run takes at most two sublanes more than its rows fill (`QuotientsAdd`), so that two of slack keep the mirrors apart and in bounds | `SublanesApart`; one would not do, as the mutant of `LandApart` shows |
| `ShippedAre`, `PushedAre`, `ShippedSublanesAre`, `PushedSublanesAre` | either transport copies row *x* of every run, for each *x*, and its sublane *j*, for each tile that it touches | `TransportsAgree`; every row of a run is in exactly one tile that overlaps it (`RowsShared`, `TilesShared`) |
| `RowsLand`, `SublanesLand` | and each lands where the plan of its owner looks for it | `PairsReturn` (`RowReturns`, `ScaleReturns`) |
| `RowsCounted`, `SublanesCounted` | the copies of each run, which are different for different runs, number what the tables say | `CountsBalance`: `PartsCounted` adds them up by destination, `Counts` by expert |

`MoePipelineProofs` proves the safety properties of `MoePipeline` for every
prefetch distance, streamed weights or not, tiles that ship themselves or are
pushed, and visit lists of any length with any number of tiles per visit:

- `ProductsRight`: `Spec => []RightTiles`;
- `CopiesApart`: `Spec => []NoClash`;
- `RunLeavesNothing`: `Spec => []NothingLeft`.

The argument is that the copies that were started and not yet waited for (`Due`)
can be read off the place of the core: `WeightsDue`, `WindowsDue`, `RowsDue`,
`OutsDue` and `PushesDue`, defined from `pc`, `visit`, `t`, `count` and what the
result buffers still owe. Nothing else remembers what has been started, and the
code waits on a semaphore by the number of blocks alone. The invariant `IInv`
says:

| Part | What it says | Why it is needed |
|---|---|---|
| `PlaceInv` | types, and where the core can be | the next tile and the next visit exist when they are fetched |
| `FlyingDue` | what is in flight is due | a buffer that is in use is not written: `NoClash` |
| `SemDue` | a semaphore holds the amount of the due copy on it if that has landed, and is zero without one | a wait ends only with its own copy, and leaves zero |
| `PushInv` | the two semaphores that all pushes share hold the sums over the tiles that have landed | the drain at the end waits for all of them |
| `Given` | a copy that has landed and is due has given its target what it should | what was waited for is there |
| `WeightsHeld`, `RowsHeld` | the weights and rows in use are those of the tile | `RightTiles` |
| `OutInv` | the tiles staged in the result buffers are computed, distinct, and of this visit unless they ship | two results never leave to one place, and a push finds its expert complete |
| `Delivered`, `PushDelivered` | computed tiles that no buffer owes are where they belong | `NothingLeft` |

`ApartHolds` derives that no two copies that are due meet in a buffer or on a
semaphore, and `GivesHolds` that each is about to give the right data; slots of
weights, windows and rows are separated by the arithmetic of their rotations
(`SlotsDiffer`, `WindowAlone`, `RowsAlone`). `CoreKeeps` then treats all steps of
the core at once: one that waits for copies *W* that have landed and starts *S*
that meet nothing keeps `FlyingDue`, `SemDue` and `Given`. What remains for each
action is which copies it waits for and starts, one lemma per family
(`WeightsStep`, `WindowsStep`, `RowsStep`, `OutsStep`), and what it computes, in
its own *Step* lemma; `LandStep` is the landing of a copy, at any time.

The end of the module is about `MoeCombine`. It proves for any number of buffers,
any lead below it and any number of steps that `combine_step_tokens` admits: `TypeCorrect`,
`StepsOwnBuffers` (`OwnSteps`) and `CombineComplete` (`Complete`). The invariant
says where the core is (`CombinePlaces`), and that the requests neither landed nor
waited for, and likewise the stores, are runs of consecutive numbers no longer
than the rotation (`RowInv`, `StoreInv`). Numbers less than `Parities` apart have
different buffers (`ParitiesApart`), so every semaphore counts one copy at most,
and it is the one the core waits for. The restarted requests after the last step
are why a row buffer may hold the final step's rows twice.

`PagedAttentionProofs` proves `WaitsMatchCopies`, `Spec => []WaitsMatch`: in every
call of batched paged attention - any sequences and pages, either layout, any
window and scope, on a device of its own or of a group, with any block sizes -
a step that has waited has nothing of what it waited for in flight, and no
semaphore keeps a count from one chunk to the next. The schedule kernel computes what a
step waits for, before the launch and in SMEM that is filled and flushed again
and again; the pipeline computes what it copies from the entries it reads back,
in a slot that another step used before. `WaitInv` follows the one to the other:

| Part | What it says | Why it is needed |
|---|---|---|
| `Scheduling` | the entries in SMEM move what can be counted (`Sized`), and each full chunk in HBM has steps that wait for the sum over their lanes (`StepOK`) | the flush that makes it so overwrites nothing that a later one needs |
| `Scheduled` | each chunk the kernel will load, cut to the steps it runs, has such steps | the last chunk is shorter, or absent (`ChunksOf`) |
| `Running` | the steps in the pipeline are in order and no more than there are slots | a slot, and so a semaphore, has one outstanding step at a time |
| `KindInv` | for each kind of copy: a slot's semaphore holds the sum over the lanes whose copy has landed for the one outstanding step that uses it, and zero without one | a wait compares numbers only |
| `Quiet` | outside the pipeline nothing is in flight and all semaphores are zero | between chunks and launches |

The steps are that a flush leaves every step waiting for what its lanes move, the
masked lanes of a last step among them (`FlushIs`, over `NeedIs`, `EntrySized` and
`MaskedSized`); that steps outstanding together use different slots (`Apart`,
since outputs have two slots and the others `NBuffer`); and that starting, landing
and waiting keep `KindInv` (`Started`, `Landing`, `Waited`). A wait ends when part
of a sum of natural numbers has reached the whole of it, so what is missing moves
nothing (`WholeSum`), and copies that move nothing are never started. Only the
amounts matter for this, not the data: the theorem needs no more of a call than
the types of its arguments (`IsCall`).

`CacheStaysKept`, `Spec => []CacheKept`, is about the data: no step takes a token
cached before the call from its place, nor changes a page that is no sequence's
own. The hazard is that whole pages are written back, not tokens: where new tokens
begin within a page, the buffer must hold what the page had before them. `CacheInv`
is `WaitInv` with

| Part | What it says | Why it is needed |
|---|---|---|
| `Fits`, `Stored` | the lengths fit the pages; each slot of a page has a token or is unwritten | a fetch can be followed from page to buffer |
| `Kept` | `CacheKept` | what is written back comes from it |
| `Buffered` | every slot of a buffer has room for the lanes of a launch | the places that copies land in exist |
| `Held` | from when a step has no fetch in flight until it has retired, the buffer of its slot has the cached tokens at the places of the pages that it will write back (`Merges`) | the write-back of a page reads them there |

A fetch brings these tokens, since a step that writes a page back also fetches it,
or what is new starts at the page (`FetchMerges`); the stitch leaves
them where they are, in either layout (`DecodeKeeps`, `StitchKeeps`); the write-back
of such a buffer changes no cached token (`BackKeeps`); and no other step uses the
slot meanwhile (`HeldApart`). It is `WaitInv` that makes "has waited" mean "has
landed". That each page of the tables is a sequence's own keeps the steps of other
sequences away (`PlacesApart`).

This needs more of a call. `FitsPages` (`PagesAssumption`) is what the model takes
for granted: no `FULL` scope on a group, and along lanes pages of whole columns and
key blocks of whole pages, of which `validate_inputs` makes sure; that the lengths
fit the pages and that no page is given out twice, which is up to the caller, for
whom the kernel has no check. Two more are hypotheses of the theorem, since the code
refuses neither:

- `WholeKeyBlocks`: key blocks are whole pages in the other layout too. The schedule
  presupposes it when it counts blocks in pages (`kv_p_start`);
- `GroupsUpdate`: a rank of a group that attends to the new tokens updates the
  cache. Without an update `CacheKept` is false, as the instance `GroupShared` shows:
  the schedule of a group lacks the branch of `schedule.py:589-592`. The theorem does
  cover a rank that attends to the cache without an update.

`FlashAttentionSm90Proofs` proves all safety properties of the SM90 kernel for
any number of ring slots, tiles and blocks, any ranges, with or without
causality and bias, with each mask, persistent or not, under one hypothesis, and
`OutputIsAlone` under a second:

- `SplitInRange`: with causality, the diagonal block of a warpgroup is not
  before the first block its tile loads, unless the tile is so far left that the
  range is over before it. It fails for the launches of `sm90_left_padded`,
  where the kernel hangs (a finding), and holds of those of `sm90`. `get_kv_ranges`
  itself gives nothing stronger;
- `OverlayOwn`, of `OutputIsAlone` only: what `wg0` writes covers its own rows of Q
  at most. It holds without residuals, and fails for the
  instance `Residuals`, where the property does;
- `Invariance`: `Spec => []IInv`;
- `ReadsAreStable` (`StableReads`), `PhasesAreFull` (`FullPhases`),
  `NoPhaseIsMissed` (`NoPhaseMissed`), `TurnsAlternate` (`TakeTurns`) and
  `OutputIsAlone` (`OutputAlone`).

None of the five is inductive: they relate what the four actors see, and no
barrier says which block an arrival was for. The proof numbers the blocks of all
tiles (`Prior` is their prefix sum, `Number` the number of one) and reads off the
place of each actor how many blocks it has asked for, loaded, waited for and
freed (`Synced`, `Loaded`, `Got`, `Freed`). Block *n* uses slot *n* mod `Stages`,
and `Uses(n, s)` is how many of the first *n* blocks use slot *s*. In these
counts the invariant says:

| Part | What it says | Why it is needed |
|---|---|---|
| `Types`, `Places` | the block an actor is at lies in its tile; `prev_iters` is `Prior` | a skipped or inverted range must count as no block for all four actors |
| `Turns` | who may be how far ahead by the turn barriers | `TakeTurns`, and that `wg1` cannot free Q early |
| `QSlot` | Q is loaded, waited for, freed and asked for in that order | the slot of Q and its barriers |
| `Window` | freed =< waited for =< loaded =< freed + `Stages` | the heart: no slot is refilled early or read early |
| `Consumed`, `Produced` | the arrivals at each barrier are `Uses` of those counts | they turn an `mbarrier` parity and a thread count back into block numbers |
| `InFlight`, `Contents` | a copy under way, or else its slot, holds the block with that number, and no warpgroup has waited for a block in flight | `StableReads` |

`Window` gives the rest its meaning: counts less than two phases apart have
different parities (`AllArrived` adds the arrivals of K, bias and row mask that
share an mbarrier), and blocks less than `Stages` apart have different slots. For
`OutputIsAlone` adds `Overlaid`: what has been written over belongs to a warpgroup
that is done. When one is, all copies of the only tile have landed (`LastCopies`);
when it is `wg1`, `wg0` has ended its products too (`LastProduct`); and when it is
`wg0`, `wg1` may still be in its last product, but with its own rows of Q. For
each action a lemma *Moves* says which counts it advances, *Rings* that it keeps
the ring invariants, and *Keeps* the others; `NextKeeps` puts them together.

`FiniteSums` has what several proofs need of sums. For `Prior` it has the sums
over the prefixes of a sequence (`PrefixSums`), by the least number at which they
would fail (`Least`). For the proofs of the MoE layer and of paged attention it
has the sums over finite sets (`SumOf`, which `SetSums` takes from the community
modules, where a recursion through `CHOOSE` computes it; `SumOfIs` leaves that
behind): such a sum exists (`SumExists`), depends only on the values in the set (`SumUnique`), and is
taken apart at any element (`SumStep`) and at any part (`SumSplit`), each by a
set that is minimal under inclusion among those where it would fail (`Smallest`).
That is as much induction over data as can be had without the library's induction
theorems.

While proving `FlashAttentionSm90`, its `Before` - which `TakeTurns` counts
issued products with - turned out wrong for a causal warpgroup of a
persistent launch on a tile with an inverted range, an instance `sm90` does
not have: it counted blocks the tile lacks. It now counts none.

Only model-checked: `CallServed` of `PagedAttention`, which is `Attends` and
`NewTokensStored`; and all liveness, which is out of the prover's reach, as is that
of the refinement of `AllToAll`. What a query has attended to (`Attends`) is a
sequence that recursion over lanes, steps and key blocks builds up, and so needs
induction over data. `NewTokensStored` is no theorem of every call: one with short
query blocks violates it (`paged_short_queries`). The safety and action properties of
the other theorems are also checked by a run on a small instance; the type
invariants of `AutotuningContext`, `Autotuner` and `MoeCombine` are only proved.

The assumptions on constants are `ConstantsAssumption`, `ContextAssumption`,
`AutotunerAssumption`, `PlanArguments` (what `_refuse_bad_plan_args` lets
through), `RoutingsAssumption`, `RoundsAssumption`, `ScheduleTypes` (0 to 2 experts ahead, at least one
tile per visited expert), `CombineSteps`, `KernelAssumption`, `BufferAssumption`
(room for a step, in SMEM and in the pipeline), `LanesAssumption` (a column has
a lane), `CallsAssumption` (the types of the arguments of a call) and
`PagesAssumption` (its pages, see above); each is evaluated by
the runs. `Disciplined`, `SplitInRange`, `OverlayOwn`, `GroupsUpdate` and
`WholeKeyBlocks` are not among them: they are hypotheses that the theorems name.

## Not modelled

- Autotuner: a compile pool together with an executor of benchmarks that has
  threads of its own (the code refuses one of processes); the order in which a
  broken pool fails its futures; what a compilation computes.
- Op call: explicit configs, `NullConfig` ops, vjp, batching.
- SM90: arithmetic and masks as values; the output slots within an epilogue,
  which belong to one warpgroup; which bytes of Q and K an output covers, given
  block by block as the constant `under`; proxy fences; the split into 128 threads of a
  warpgroup; the grid. The memory warps of two tiles are not joined, which only
  allows more. The instance `LeftPadded` has slots below zero (`lax.rem` takes
  the sign of the dividend); the property checked there does not depend on what
  is read through them.
- Fused MoE: routing scores, quantisation and the products as numbers;
  `TokenReplicaLayout`; whether the buffers fit in VMEM; the block-wise slab loops
  within a product. `MoeExchange` has the transport by runs only; the shipped one
  is in `MoeCall` and `MoePipeline`.
- Paged attention: the LSE outputs and what merges the partial results of a
  context-parallel group (each of its devices is modelled, one at a time); scales
  and quantisation, the search for block sizes, and the capacity of the HBM
  schedule (`max_schedule_size_multiplier`), which a flush does not check.
  In the code a chunk is a multiple of 128 steps, for which the padding at the
  start of a chunk is empty. Two choices of config that nothing refuses are
  outside the instances: along lanes, decoding several queries with a key block
  of one page has one slot for tokens that may lie in two pages; with heads along
  sublanes a key block need not be whole pages (`FitsPages` admits it, no run has it,
  and `CacheStaysKept` excludes it with `WholeKeyBlocks`).
- The components marked `not_modelled` in `PROJECT.json`. The MoE variants and
  the MLA kernels repeat protocols modelled here with other buffers; the
  recurrent, splash and elementwise kernels are mostly arithmetic.

## Plan

1. *Done:* `ConfigResolution`, `OverlayScope`, `AutotuningContext` with its
   proofs, `Autotuner` with its proofs, `FlashAttentionSm90` with its proofs.
2. *Done:* the fused MoE layer (`MoeRouting`, `AllToAll`, and `MoeCall`,
   `MoeExchange`, `MoePipeline` and `MoeCombine` with their proofs), and batched
   paged attention (`PagedSchedule`, `PagedStitch`, `PagedAttention`), with the
   proofs that its waits match and that it keeps the cached tokens.
3. Proofs left: `Attends` of paged attention, for which the sequence of keys would
   have to be defined without recursion over lanes, steps and blocks; and
   `NewTokensStored` under a bound on the query blocks.
4. `AutotuningCache`: lazy load of the cache files by several threads, with two
   device kinds and with the cache ignored.
5. `MmaPipeline`: the rings of the SM100 and ragged dot kernels.

------------------------------ MODULE Autotuner ------------------------------
(***************************************************************************)
(* Autotuner.autotune (tokamax/_src/autotuning/autotuner.py:126-218): one   *)
(* autotuning of one op call.  A pool of worker threads compiles the        *)
(* configs; the calling thread takes the compiled configs as they complete, *)
(* initialises the shared arguments once, gives up on what is not compiled  *)
(* at the deadline, waits for the pool to end, and benchmarks what it has   *)
(* one config after the other on its own thread (_SyncExecutor).            *)
(*                                                                          *)
(* Without a compile pool (compile_executor_fn is None) the configs go to a *)
(* pool of processes that compile and benchmark them, and the caller only   *)
(* collects their verdicts.  Such a pool is broken when a process dies:     *)
(* what it has not finished fails, and it refuses further work.             *)
(***************************************************************************)
EXTENDS Naturals, FiniteSets

CONSTANTS
  Configs,     \* the configs to autotune
  Workers,     \* the workers of the pool
  Timeout,     \* the timeout argument, or NoTimeout
  NoTimeout,
  Times,       \* median evaluation times a benchmark may measure
  MaxTime      \* bound: the clock

ASSUME AutotunerAssumption ==
  /\ Configs # {}
  /\ Workers \in Nat \ {0}
  /\ NoTimeout \notin Nat
  /\ Timeout \in Nat \cup {NoTimeout}
  /\ MaxTime \in Nat

VARIABLES
  compilePool, \* whether there is a compile_executor_fn
  pc,        \* what the calling thread does
  queue,     \* submitted configs no worker has taken
  running,   \* configs being compiled, or benchmarked by a process
  compiled,  \* compiled[c]: how that ended
  finished,  \* completed futures that as_completed has not picked up
  batch,     \* completed futures as_completed is yielding
  pending,   \* futures as_completed has not yielded
  inits,     \* successful random_initialize calls
  executorArgs, \* executor_args: the configs to benchmark
  results,   \* results: a verdict for each config that has one
  now,       \* seconds
  start,     \* when as_completed was entered
  age        \* age[c]: auxiliary, seconds a worker has spent compiling c

pool == <<queue, running, compiled>>
caller == <<batch, pending, inits, executorArgs, results, start>>
clock == <<now, age>>
vars == <<compilePool, pc, finished, pool, caller, clock>>

Error(kind) == [kind |-> kind]
Data(ms) == [kind |-> "data", ms |-> ms]
Errors == {Error("compile"), Error("init"), Error("timeout"), Error("run"),
           Error("broken")}
Verdicts == Errors \cup {Data(ms) : ms \in Times}

Record(C, verdict) ==
  results' = [c \in DOMAIN results \cup C |->
                IF c \in C THEN verdict ELSE results[c]]

Init ==
  /\ compilePool \in BOOLEAN
  /\ pc = "submit"
  /\ queue = {} /\ running = {} /\ finished = {} /\ batch = {}
  /\ compiled = [c \in Configs |-> "no"]
  /\ pending = Configs
  /\ inits = 0
  /\ executorArgs = IF compilePool THEN {} ELSE Configs
  /\ results = [c \in {} |-> Error("compile")]
  /\ now = 0 /\ start = 0
  /\ age = [c \in Configs |-> 0]

-----------------------------------------------------------------------------
\* The pool.  A queued config is compiled even when the caller has given it up.

TakeUp(c) ==
  /\ c \in queue
  /\ Cardinality(running) < Workers
  /\ queue' = queue \ {c}
  /\ running' = running \cup {c}
  /\ UNCHANGED <<pc, compiled, finished, caller, clock, compilePool>>

FinishCompile(c, how) ==
  /\ c \in running
  /\ running' = running \ {c}
  /\ compiled' = [compiled EXCEPT ![c] = how]
  /\ finished' = finished \cup {c}
  /\ UNCHANGED <<pc, queue, caller, clock, compilePool>>

\* A process dies at its work: every future that is not done fails.
BreakPool ==
  /\ ~compilePool /\ running # {}
  /\ compiled' = [c \in Configs |->
                    IF c \in queue \cup running THEN "broken" ELSE compiled[c]]
  /\ finished' = finished \cup queue \cup running
  /\ queue' = {} /\ running' = {}
  /\ UNCHANGED <<pc, caller, clock, compilePool>>

Broken == \E c \in Configs : compiled[c] = "broken"

\* Time passes; a worker that is free takes up a queued config at once.
Tick ==
  /\ now < MaxTime
  /\ queue = {} \/ Cardinality(running) = Workers
  /\ now' = now + 1
  /\ age' = [c \in Configs |-> IF c \in running THEN age[c] + 1 ELSE age[c]]
  /\ UNCHANGED <<pc, finished, pool, caller, compilePool>>

-----------------------------------------------------------------------------
\* The calling thread.

Submit(c) ==
  /\ pc = "submit"
  /\ c \notin queue \cup running /\ compiled[c] = "no"
  /\ ~Broken
  /\ queue' = queue \cup {c}
  /\ UNCHANGED <<pc, running, compiled, finished, caller, clock, compilePool>>

\* A broken pool refuses a config, and autotune raises, out of the with-block.
SubmitRefused(c) ==
  /\ pc = "submit"
  /\ c \notin queue \cup running /\ compiled[c] = "no"
  /\ Broken
  /\ pc' = "raised"
  /\ UNCHANGED <<finished, pool, caller, clock, compilePool>>

\* Mutant: what is complete already is not yielded.
StartWaiting_DropsDone ==
  /\ pc = "submit"
  /\ \A c \in Configs : c \in queue \cup running \/ compiled[c] # "no"
  /\ pc' = "yield"
  /\ start' = now
  /\ batch' = {} /\ finished' = {}
  /\ UNCHANGED <<pool, pending, inits, executorArgs, results, clock, compilePool>>

\* as_completed starts its clock, and takes what is complete already.
StartWaiting ==
  /\ pc = "submit"
  /\ \A c \in Configs : c \in queue \cup running \/ compiled[c] # "no"
  /\ pc' = "yield"
  /\ start' = now
  /\ batch' = finished /\ finished' = {}
  /\ UNCHANGED <<pool, pending, inits, executorArgs, results, clock, compilePool>>

TimeUp == Timeout # NoTimeout /\ now >= start + Timeout
Expired == TimeUp /\ now > start + Timeout

\* Between batches as_completed looks at the clock, and blocks until a future
\* completes or the time is up; it then takes whatever has completed, without
\* another look at the clock.
Block ==
  /\ pc = "yield" /\ batch = {} /\ pending # {} /\ ~Expired
  /\ pc' = "blocked"
  /\ UNCHANGED <<finished, pool, caller, clock, compilePool>>

PickUp ==
  /\ pc = "blocked"
  /\ finished # {} \/ TimeUp
  /\ pc' = "yield"
  /\ batch' = finished /\ finished' = {}
  /\ UNCHANGED <<pool, pending, inits, executorArgs, results, start, clock, compilePool>>

\* Mutant: a config that failed to compile is benchmarked all the same.
YieldFailed_Benchmarked(c) ==
  /\ pc = "yield" /\ compilePool /\ c \in batch /\ compiled[c] = "error"
  /\ batch' = batch \ {c} /\ pending' = pending \ {c}
  /\ executorArgs' = executorArgs \cup {c}
  /\ UNCHANGED <<pc, finished, pool, inits, results, start, clock, compilePool>>

\* One future is yielded: its config gets a verdict or is to be benchmarked.
\* The first config to compile initialises the arguments all configs share.
YieldFailed(c) ==
  /\ pc = "yield" /\ compilePool /\ c \in batch /\ compiled[c] = "error"
  /\ batch' = batch \ {c} /\ pending' = pending \ {c}
  /\ Record({c}, Error("compile"))
  /\ UNCHANGED <<pc, finished, pool, inits, executorArgs, start, clock, compilePool>>

\* Mutant: the arguments are initialised again for every config.
YieldCompiled_InitEach(c) ==
  /\ pc = "yield" /\ compilePool /\ c \in batch /\ compiled[c] = "ok"
  /\ batch' = batch \ {c} /\ pending' = pending \ {c}
  /\ inits' = inits + 1
  /\ executorArgs' = executorArgs \cup {c}
  /\ UNCHANGED <<pc, finished, pool, results, start, clock, compilePool>>

YieldCompiled(c) ==
  /\ pc = "yield" /\ compilePool /\ c \in batch /\ compiled[c] = "ok"
  /\ batch' = batch \ {c} /\ pending' = pending \ {c}
  /\ inits' = IF inits = 0 THEN 1 ELSE inits
  /\ executorArgs' = executorArgs \cup {c}
  /\ UNCHANGED <<pc, finished, pool, results, start, clock, compilePool>>

YieldUninitialized(c) ==
  /\ pc = "yield" /\ compilePool /\ c \in batch /\ compiled[c] = "ok"
  /\ inits = 0
  /\ batch' = batch \ {c} /\ pending' = pending \ {c}
  /\ Record({c}, Error("init"))
  /\ UNCHANGED <<pc, finished, pool, inits, executorArgs, start, clock, compilePool>>

\* Without a compile pool the future has the verdict.
YieldMeasured(c, verdict) ==
  /\ pc = "yield" /\ ~compilePool /\ c \in batch
  /\ CASE compiled[c] = "ok" -> verdict.kind = "data"
       [] compiled[c] = "error" -> verdict = Error("run")
       [] compiled[c] = "broken" -> verdict = Error("broken")
       [] OTHER -> FALSE
  /\ batch' = batch \ {c} /\ pending' = pending \ {c}
  /\ Record({c}, verdict)
  /\ UNCHANGED <<pc, finished, pool, inits, executorArgs, start, clock, compilePool>>

\* Mutant: only futures that are not done count as slow.
GiveUp_PendingOnly ==
  /\ pc = "yield" /\ compilePool /\ batch = {} /\ pending # {} /\ Expired
  /\ Record(pending \ finished, Error("timeout"))
  /\ pc' = "shutdown"
  /\ UNCHANGED <<finished, pool, batch, pending, inits, executorArgs, start,
                 clock, compilePool>>

\* The deadline has passed: whatever is not to be benchmarked counts as slow.
GiveUp ==
  /\ pc = "yield" /\ compilePool /\ batch = {} /\ pending # {} /\ Expired
  /\ Record(Configs \ executorArgs, Error("timeout"))
  /\ pc' = "shutdown"
  /\ UNCHANGED <<finished, pool, batch, pending, inits, executorArgs, start,
                 clock, compilePool>>

\* Without a compile pool the slow configs are only logged.
LogSlow ==
  /\ pc = "yield" /\ ~compilePool /\ batch = {} /\ pending # {} /\ Expired
  /\ pc' = "shutdown"
  /\ UNCHANGED <<finished, pool, caller, clock, compilePool>>

AllYielded ==
  /\ pc = "yield" /\ batch = {} /\ pending = {}
  /\ pc' = "shutdown"
  /\ UNCHANGED <<finished, pool, caller, clock, compilePool>>

\* fastest_config raises a ValueError if there is no verdict at all.
Outcome == IF DOMAIN results = {} THEN "raised" ELSE "done"

\* Mutant: the pool is left without waiting for it.
JoinPool_NoWait ==
  /\ pc = "shutdown"
  /\ pc' = IF compilePool THEN "bench" ELSE Outcome
  /\ UNCHANGED <<finished, pool, caller, clock, compilePool>>

\* Leaving the with-block of the pool waits for its workers.
JoinPool ==
  /\ pc = "shutdown"
  /\ queue = {} /\ running = {}
  /\ pc' = IF compilePool THEN "bench" ELSE Outcome
  /\ UNCHANGED <<finished, pool, caller, clock, compilePool>>

\* Mutant: what has compiled by now is benchmarked, given up or not.
Unmeasured_AllCompiled ==
  {c \in Configs : compiled[c] = "ok" /\
     (c \in DOMAIN results => results[c] = Error("timeout"))}

Unmeasured == executorArgs \ DOMAIN results

\* _SyncExecutor runs a benchmark when it is submitted.
Measure(c, verdict) ==
  /\ pc = "bench" /\ c \in Unmeasured
  /\ Record({c}, verdict)
  /\ UNCHANGED <<pc, finished, pool, batch, pending, inits, executorArgs, start,
                 clock, compilePool>>

Return ==
  /\ pc = "bench" /\ Unmeasured = {}
  /\ pc' = Outcome
  /\ UNCHANGED <<finished, pool, caller, clock, compilePool>>

-----------------------------------------------------------------------------
Compile(c) == \E how \in {"ok", "error"} : FinishCompile(c, how)

Yield(c) ==
  \/ YieldFailed(c) \/ YieldCompiled(c) \/ YieldUninitialized(c)
  \/ \E verdict \in Verdicts : YieldMeasured(c, verdict)

Benchmark(c) ==
  \E verdict \in {Error("run")} \cup {Data(ms) : ms \in Times} :
    Measure(c, verdict)

Call ==
  \/ \E c \in Configs : Submit(c) \/ SubmitRefused(c) \/ Yield(c) \/ Benchmark(c)
  \/ StartWaiting \/ Block \/ PickUp \/ GiveUp \/ LogSlow \/ AllYielded
  \/ JoinPool \/ Return

Done == pc \in {"done", "raised"} /\ UNCHANGED vars

Next ==
  (\E c \in Configs : TakeUp(c) \/ Compile(c)) \/ BreakPool \/ Call \/ Tick \/ Done

\* A worker that is free takes up work and the caller goes on.  Nothing says
\* that a compilation ends, and the clock may stop.
Fairness ==
  /\ \A c \in Configs : WF_vars(TakeUp(c))
  /\ WF_vars(Call)

Spec == Init /\ [][Next]_vars /\ Fairness

-----------------------------------------------------------------------------
\* Properties.

TypeOK ==
  /\ compilePool \in BOOLEAN
  /\ pc \in {"submit", "yield", "blocked", "shutdown", "bench", "done", "raised"}
  /\ queue \subseteq Configs /\ running \subseteq Configs
  /\ compiled \in [Configs -> {"no", "ok", "error", "broken"}]
  /\ finished \subseteq Configs /\ batch \subseteq Configs
  /\ pending \subseteq Configs /\ executorArgs \subseteq Configs
  /\ inits \in Nat
  /\ DOMAIN results \subseteq Configs
  /\ \A c \in DOMAIN results : results[c] \in Verdicts
  /\ now \in Nat /\ start \in Nat
  /\ age \in [Configs -> Nat]

\* No worker compiles while the caller benchmarks, so that no measurement is
\* disturbed by the pool, even after a timeout, and none is left behind by an
\* autotuning that has ended (autotuner.py:146, 174).
QuietBenchmarks ==
  pc \in {"bench", "done", "raised"} => queue = {} /\ running = {}

PastDeadline == Timeout # NoTimeout /\ now > start + Timeout

\* The future of c was not done at the deadline of a pool without compilers.
Missed(c) == ~compilePool /\ c \in pending /\ PastDeadline

\* Every config that was tried has a verdict in the returned data; without a
\* compile pool it may lack one if its future was not done at the deadline
\* (autotuner.py:139-206; api_test.py:272-283).  Autotune raises instead only
\* when the pool broke while it was filled, or when no config at all was done
\* at the deadline of such a pool, where it lets fastest_config raise
\* (autotuner.py:207-216).
EveryConfigAccounted ==
  /\ pc = "done" => \A c \in Configs \ DOMAIN results : Missed(c)
  /\ pc = "raised" =>
       DOMAIN results = {} /\ (Broken \/ \A c \in Configs : Missed(c))

\* All benchmarks of the caller run on the same initialised arguments
\* (autotuner.py:151).
SharedArguments ==
  /\ inits =< 1
  /\ compilePool /\ executorArgs # {} => inits = 1

IsTimeout(c) == c \in DOMAIN results /\ results[c] = Error("timeout")

\* A config that was given up stays given up: it is never benchmarked, though
\* its compilation may complete later (autotuner.py:163-169).
GivenUpForGood ==
  [][\A c \in Configs : IsTimeout(c) =>
       IsTimeout(c)' /\ c \notin executorArgs']_vars

\* Only what compiled is benchmarked, and a failure to compile is the verdict
\* unless the deadline passed; a process that dies spoils no verdict of a
\* config that was done (autotuner.py:155-194).
VerdictsJustified ==
  \A c \in DOMAIN results :
    /\ results[c].kind \in {"run", "data"} => c \in executorArgs
    /\ results[c].kind = "data" => compiled[c] = "ok"
    /\ results[c] = Error("run") => compiled[c] = IF compilePool THEN "ok" ELSE "error"
    /\ results[c] = Error("broken") => compiled[c] = "broken"
    /\ results[c] = Error("compile") => compiled[c] = "error"
    /\ results[c] = Error("timeout") => PastDeadline

\* The autotuning ends, unless a worker never finishes what it has taken up:
\* the timeout is no help against that, as leaving the pool waits for its
\* workers (autotuner.py:146, 174).
Terminates ==
  <>(pc \in {"done", "raised"}) \/ \E c \in Configs : <>[](c \in running)

\* The timeout is the time limit for compiling a config (api.py:358-361): a
\* config that is reported as timed out has used it up.
TimeoutPerConfig ==
  \A c \in Configs : IsTimeout(c) => age[c] >= Timeout
=============================================================================

--------------------------- MODULE AutotunerProofs ---------------------------
(***************************************************************************)
(* The safety properties of Autotuner, for every set of configs, number of  *)
(* workers, timeout and course of the clock, with and without a compile     *)
(* pool.                                                                    *)
(***************************************************************************)
EXTENDS Autotuner, TLAPS

\* A config is compiled once, what the caller has of it is what the pool made
\* of it, and a broken pool is idle.
Compiling ==
  /\ queue \cap running = {}
  /\ \A c \in Configs :
       /\ c \in queue \cup running => compiled[c] = "no"
       /\ compilePool /\ c \in executorArgs => compiled[c] = "ok"
       /\ compiled[c] = "broken" => queue = {} /\ running = {}
  /\ ~compilePool => executorArgs = Configs /\ pc # "bench"

\* No config is forgotten: until the caller stops waiting it is pending, to be
\* benchmarked, or has a verdict; a pending one is judged, or left without a
\* verdict after the deadline.  Nothing has a verdict when autotune raises.
Kept(c) == compilePool /\ c \in executorArgs

Accounted ==
  /\ pc \in {"submit", "yield", "blocked"} =>
       \A c \in Configs \ DOMAIN results : c \in pending \/ Kept(c)
  /\ pc \in {"shutdown", "bench", "done"} =>
       \A c \in Configs \ DOMAIN results : Kept(c) \/ Missed(c)
  /\ pc = "done" /\ compilePool => executorArgs \subseteq DOMAIN results
  /\ pc \in {"submit", "raised"} => DOMAIN results = {}
  /\ pc = "raised" => Broken \/ \A c \in Configs : Missed(c)

\* Giving up ends the waiting, and what was given up is not benchmarked.
GivenUp ==
  \A c \in Configs : IsTimeout(c) =>
    pc \in {"shutdown", "bench", "done"} /\ c \notin executorArgs

IInv ==
  /\ TypeOK
  /\ Compiling
  /\ Accounted
  /\ GivenUp
  /\ QuietBenchmarks
  /\ SharedArguments
  /\ VerdictsJustified

-----------------------------------------------------------------------------
\* What Record leaves behind.
LEMMA RecordResult ==
  ASSUME TypeOK, NEW C \in SUBSET Configs, NEW v \in Verdicts, Record(C, v)
  PROVE  /\ DOMAIN results' = DOMAIN results \cup C
         /\ DOMAIN results' \subseteq Configs
         /\ \A c \in DOMAIN results' :
              /\ results'[c] \in Verdicts
              /\ c \in C => results'[c] = v
              /\ c \notin C => c \in DOMAIN results /\ results'[c] = results[c]
  BY DEF TypeOK, Record

\* The same for the verdict of a single config.
LEMMA RecordOne ==
  ASSUME TypeOK, NEW c \in Configs, NEW v \in Verdicts, Record({c}, v)
  PROVE  /\ DOMAIN results' = DOMAIN results \cup {c}
         /\ DOMAIN results' \subseteq Configs
         /\ \A d \in DOMAIN results' :
              /\ results'[d] \in Verdicts
              /\ d = c => results'[d] = v
              /\ d # c => d \in DOMAIN results /\ results'[d] = results[d]
  BY DEF TypeOK, Record

\* Nothing is compiled, kept or judged when autotune starts.
LEMMA InitIInv == ASSUME Init PROVE IInv
  BY DEF Init, IInv, TypeOK, Compiling, Accounted, Kept, Missed, PastDeadline, Broken, GivenUp, IsTimeout,
     QuietBenchmarks, SharedArguments, VerdictsJustified

-----------------------------------------------------------------------------
\* The pool and the clock.

\* A worker takes up a queued config, which no other worker has.
LEMMA TakeUpIInv ==
  ASSUME IInv, NEW c \in Configs, TakeUp(c)
  PROVE  IInv'
  BY DEF TakeUp, caller, clock, IInv, TypeOK, Compiling, Accounted, Kept, Missed, PastDeadline, Broken, GivenUp,
     IsTimeout, QuietBenchmarks, SharedArguments, VerdictsJustified, PastDeadline

\* A compilation ends, of a config the caller has not kept.
LEMMA FinishCompileIInv ==
  ASSUME IInv, NEW c \in Configs, NEW how \in {"ok", "error"},
         FinishCompile(c, how)
  PROVE  IInv'
<1>1. /\ compiled[c] = "no" /\ (compilePool => c \notin executorArgs)
      /\ compiled' = [compiled EXCEPT ![c] = how]
      /\ \A d \in Configs \ {c} : compiled'[d] = compiled[d]
  BY DEF IInv, TypeOK, Compiling, FinishCompile
<1> USE DEF FinishCompile, caller, clock
<1>2. TypeOK'
  BY DEF IInv, TypeOK
<1>3. Compiling'
  <2>1. /\ queue' = queue /\ running' = running \ {c} /\ executorArgs' = executorArgs
        /\ pc' = pc /\ compilePool' = compilePool
    OBVIOUS
  <2>2. c \notin queue
    BY DEF IInv, Compiling
  <2> QED
    BY <1>1, <2>1, <2>2 DEF IInv, Compiling
<1>4. VerdictsJustified'
  <2> SUFFICES ASSUME NEW d \in DOMAIN results
               PROVE  /\ results[d].kind \in {"run", "data"} => d \in executorArgs
                      /\ results[d].kind = "data" => compiled'[d] = "ok"
                      /\ results[d] = Error("run") =>
                           compiled'[d] = IF compilePool THEN "ok" ELSE "error"
                      /\ results[d] = Error("broken") => compiled'[d] = "broken"
                      /\ results[d] = Error("compile") => compiled'[d] = "error"
                      /\ results[d] = Error("timeout") => PastDeadline
    BY DEF VerdictsJustified, PastDeadline
  <2>1. CASE d = c
    BY <1>1, <2>1 DEF IInv, VerdictsJustified
  <2>2. CASE d # c
    BY <1>1, <2>2 DEF IInv, VerdictsJustified, TypeOK
  <2> QED
    BY <2>1, <2>2
<1>5. Accounted' /\ GivenUp' /\ QuietBenchmarks' /\ SharedArguments'
  BY DEF IInv, Accounted, Kept, Missed, PastDeadline, Broken, GivenUp, IsTimeout, QuietBenchmarks, SharedArguments
<1> QED
  BY <1>2, <1>3, <1>4, <1>5 DEF IInv

\* The pool breaks under configs that have no verdict of their own yet.
LEMMA BreakPoolIInv ==
  ASSUME IInv, BreakPool
  PROVE  IInv'
<1> DEFINE C == queue \cup running
<1>1. /\ ~compilePool /\ queue' = {} /\ running' = {}
      /\ compiled' \in [Configs -> {"no", "ok", "error", "broken"}]
      /\ \A d \in Configs : compiled'[d] = IF d \in C THEN "broken" ELSE compiled[d]
      /\ finished' \subseteq Configs
      /\ UNCHANGED <<pc, caller, clock, compilePool>>
  BY DEF BreakPool, IInv, TypeOK
<1>2. \A d \in C : compiled[d] = "no"
  BY DEF IInv, TypeOK, Compiling
<1> HIDE DEF C
<1>3. TypeOK'
  BY <1>1 DEF IInv, TypeOK, caller, clock
<1>4. Compiling' /\ Accounted' /\ GivenUp'
  BY <1>1 DEF IInv, Compiling, Accounted, Kept, Missed, PastDeadline, Broken, GivenUp, IsTimeout, caller, clock
<1>5. QuietBenchmarks' /\ SharedArguments'
  BY <1>1 DEF IInv, QuietBenchmarks, SharedArguments, caller
<1>6. VerdictsJustified'
  <2>1. DOMAIN results \subseteq Configs /\ results' = results
    BY <1>1 DEF IInv, TypeOK, caller
  <2> SUFFICES ASSUME NEW d \in DOMAIN results
               PROVE  /\ results[d].kind \in {"run", "data"} => d \in executorArgs
                      /\ results[d].kind = "data" => compiled'[d] = "ok"
                      /\ results[d] = Error("run") => compiled'[d] = "error"
                      /\ results[d] = Error("broken") => compiled'[d] = "broken"
                      /\ results[d] = Error("compile") => compiled'[d] = "error"
                      /\ results[d] = Error("timeout") => PastDeadline
    BY <1>1, <2>1 DEF VerdictsJustified, PastDeadline, caller, clock
  <2>2. CASE d \in C
    BY <1>1, <1>2, <2>1, <2>2 DEF IInv, VerdictsJustified
  <2>3. CASE d \notin C
    BY <1>1, <2>1, <2>3 DEF IInv, VerdictsJustified
  <2> QED
    BY <2>2, <2>3
<1> QED
  BY <1>3, <1>4, <1>5, <1>6 DEF IInv

\* Time passes, so a deadline that has passed stays in the past.
LEMMA TickIInv ==
  ASSUME IInv, Tick
  PROVE  IInv'
<1>1. TypeOK' /\ now' > now
  BY DEF Tick, pool, caller, IInv, TypeOK
<1>2. Compiling' /\ GivenUp' /\ QuietBenchmarks' /\ SharedArguments'
  BY DEF Tick, pool, caller, IInv, Compiling, GivenUp, IsTimeout, QuietBenchmarks,
     SharedArguments
<1>3. VerdictsJustified'
  BY <1>1, AutotunerAssumption
  DEF Tick, pool, caller, IInv, VerdictsJustified, PastDeadline, TypeOK
<1>4. Accounted'
  BY <1>1, AutotunerAssumption
  DEF Tick, pool, caller, IInv, Accounted, Kept, Missed, PastDeadline, Broken, TypeOK
<1> QED
  BY <1>1, <1>2, <1>3, <1>4 DEF IInv

-----------------------------------------------------------------------------
\* The caller.

\* A config is submitted once.
LEMMA SubmitIInv ==
  ASSUME IInv, NEW c \in Configs, Submit(c)
  PROVE  IInv'
  BY DEF Submit, Broken, caller, clock, IInv, TypeOK, Compiling, Accounted, Kept, Missed, PastDeadline, Broken, GivenUp,
     IsTimeout, QuietBenchmarks, SharedArguments, VerdictsJustified, PastDeadline

\* Steps that only move the caller on.
LEMMA WaitIInv ==
  ASSUME IInv, StartWaiting \/ Block \/ PickUp
  PROVE  IInv'
<1>1. TypeOK'
  BY DEF StartWaiting, Block, PickUp, pool, caller, clock, IInv, TypeOK
<1>2. Compiling' /\ Accounted' /\ GivenUp'
  BY DEF StartWaiting, Block, PickUp, pool, caller, clock, IInv, Compiling,
     Accounted, Kept, Missed, PastDeadline, Broken, GivenUp, IsTimeout
<1>3. QuietBenchmarks' /\ SharedArguments' /\ VerdictsJustified'
  BY DEF StartWaiting, Block, PickUp, pool, caller, clock, IInv,
     QuietBenchmarks, SharedArguments, VerdictsJustified, PastDeadline, Accounted
<1> QED
  BY <1>1, <1>2, <1>3 DEF IInv

\* A config gets its verdict while the caller waits; it is none of giving up.
LEMMA YieldErrorIInv ==
  ASSUME IInv, NEW c \in Configs, YieldFailed(c) \/ YieldUninitialized(c)
  PROVE  IInv'
<1> DEFINE v == IF compiled[c] = "error" THEN Error("compile") ELSE Error("init")
<1>1. /\ Record({c}, v)
      /\ pc = "yield" /\ pending' = pending \ {c} /\ batch' = batch \ {c}
      /\ compiled[c] = "error" \/ v = Error("init")
      /\ UNCHANGED <<pc, finished, pool, inits, executorArgs, start, clock, compilePool>>
  BY DEF YieldFailed, YieldUninitialized
<1>2. /\ v \in Verdicts
      /\ v \notin {Error("timeout"), Error("run"), Error("broken")}
      /\ v.kind \notin {"run", "data"}
      /\ v = Error("compile") => compiled[c] = "error"
  BY DEF Verdicts, Errors, Error
<1> HIDE DEF v
<1>3. /\ DOMAIN results' = DOMAIN results \cup {c}
      /\ DOMAIN results' \subseteq Configs
      /\ \A d \in DOMAIN results' :
           /\ results'[d] \in Verdicts
           /\ d = c => results'[d] = v
           /\ d # c => d \in DOMAIN results /\ results'[d] = results[d]
  <2>1. TypeOK
    BY DEF IInv
  <2> QED
    BY <1>1, <1>2, <2>1, RecordOne
<1>4. TypeOK'
  BY <1>1, <1>3 DEF IInv, TypeOK, pool, clock
<1>5. Compiling' /\ QuietBenchmarks' /\ SharedArguments'
  BY <1>1 DEF IInv, Compiling, QuietBenchmarks, SharedArguments, pool
<1>6. Accounted'
  BY <1>1, <1>3 DEF IInv, Accounted, Kept, Missed, PastDeadline, Broken
<1>7. GivenUp'
  BY <1>1, <1>2, <1>3 DEF IInv, GivenUp, IsTimeout
<1>8. VerdictsJustified'
  BY <1>1, <1>2, <1>3 DEF IInv, VerdictsJustified, PastDeadline, pool, clock
<1> QED
  BY <1>4, <1>5, <1>6, <1>7, <1>8 DEF IInv

\* Without a compile pool a config gets the verdict of its future.
LEMMA YieldMeasuredIInv ==
  ASSUME IInv, NEW c \in Configs, NEW v \in Verdicts, YieldMeasured(c, v)
  PROVE  IInv'
<1>1. /\ Record({c}, v)
      /\ pc = "yield" /\ pending' = pending \ {c} /\ batch' = batch \ {c} /\ ~compilePool
      /\ \/ compiled[c] = "ok" /\ v.kind = "data"
         \/ compiled[c] = "error" /\ v = Error("run")
         \/ compiled[c] = "broken" /\ v = Error("broken")
      /\ UNCHANGED <<pc, finished, pool, inits, executorArgs, start, clock, compilePool>>
  BY DEF YieldMeasured
<1>2. /\ v \notin {Error("timeout"), Error("compile")}
      /\ v.kind = "data" => compiled[c] = "ok"
      /\ v = Error("run") => compiled[c] = "error"
      /\ v = Error("broken") => compiled[c] = "broken"
  BY <1>1 DEF Error
<1>3. /\ DOMAIN results' = DOMAIN results \cup {c}
      /\ DOMAIN results' \subseteq Configs
      /\ \A d \in DOMAIN results' :
           /\ results'[d] \in Verdicts
           /\ d = c => results'[d] = v
           /\ d # c => d \in DOMAIN results /\ results'[d] = results[d]
  <2>1. TypeOK
    BY DEF IInv
  <2> QED
    BY <1>1, <2>1, RecordOne
<1>4. TypeOK'
  BY <1>1, <1>3 DEF IInv, TypeOK, pool, clock
<1>5. Compiling' /\ QuietBenchmarks' /\ SharedArguments'
  BY <1>1 DEF IInv, Compiling, QuietBenchmarks, SharedArguments, pool
<1>6. Accounted'
  BY <1>1, <1>3 DEF IInv, Accounted, Kept, Missed, PastDeadline, Broken
<1>7. GivenUp'
  BY <1>1, <1>2, <1>3 DEF IInv, GivenUp, IsTimeout
<1>8. VerdictsJustified'
  <2>1. c \in executorArgs
    BY <1>1 DEF IInv, Compiling
  <2>2. UNCHANGED <<compiled, executorArgs, now, start, compilePool>>
    BY <1>1 DEF pool, clock
  <2> QED
    BY <1>1, <1>2, <1>3, <2>1, <2>2 DEF IInv, VerdictsJustified, PastDeadline
<1> QED
  BY <1>4, <1>5, <1>6, <1>7, <1>8 DEF IInv

\* A compiled config is kept for its benchmark.
LEMMA YieldCompiledIInv ==
  ASSUME IInv, NEW c \in Configs, YieldCompiled(c)
  PROVE  IInv'
<1> USE DEF YieldCompiled, pool, clock
<1>1. TypeOK' /\ SharedArguments'
  BY DEF IInv, TypeOK, SharedArguments
<1>2. Compiling' /\ QuietBenchmarks' /\ VerdictsJustified'
  BY DEF IInv, Compiling, QuietBenchmarks, VerdictsJustified, PastDeadline
<1>3. Accounted' /\ GivenUp'
  BY DEF IInv, Accounted, Kept, Missed, PastDeadline, Broken, GivenUp, IsTimeout
<1> QED
  BY <1>1, <1>2, <1>3 DEF IInv

\* Giving up judges exactly what is not kept, after the deadline.
LEMMA GiveUpIInv ==
  ASSUME IInv, GiveUp
  PROVE  IInv'
<1> DEFINE C == Configs \ executorArgs
           v == Error("timeout")
<1>1. /\ Record(C, v) /\ pc = "yield" /\ pc' = "shutdown" /\ compilePool
      /\ UNCHANGED <<finished, pool, batch, pending, inits, executorArgs, start,
                     clock, compilePool>>
      /\ Timeout # NoTimeout /\ now > start + Timeout
  BY DEF GiveUp, Expired, TimeUp
<1>2. /\ v \in Verdicts /\ v.kind \notin {"run", "data"}
      /\ v \notin {Error("compile"), Error("run"), Error("broken")}
  BY DEF Verdicts, Errors, Error
<1>3. PastDeadline
  BY <1>1 DEF PastDeadline
<1> HIDE DEF v, C
<1>4. /\ DOMAIN results' = DOMAIN results \cup C
      /\ DOMAIN results' \subseteq Configs
      /\ \A d \in DOMAIN results' :
           /\ results'[d] \in Verdicts
           /\ d \in C => results'[d] = v
           /\ d \notin C => d \in DOMAIN results /\ results'[d] = results[d]
  BY <1>1, <1>2, RecordResult DEF IInv, C
<1>5. TypeOK'
  BY <1>1, <1>4 DEF IInv, TypeOK, pool, clock
<1>6. Compiling' /\ QuietBenchmarks' /\ SharedArguments'
  BY <1>1 DEF IInv, Compiling, QuietBenchmarks, SharedArguments, pool
<1>7. Accounted'
  BY <1>1, <1>4 DEF IInv, Accounted, Kept, Missed, PastDeadline, Broken, C
<1>8. GivenUp'
  BY <1>1, <1>4 DEF IInv, GivenUp, IsTimeout, C
<1>9. VerdictsJustified'
  BY <1>1, <1>2, <1>3, <1>4 DEF IInv, VerdictsJustified, PastDeadline, pool, clock
<1> QED
  BY <1>5, <1>6, <1>7, <1>8, <1>9 DEF IInv

\* The caller leaves the loop, the pool and the benchmarks.
LEMMA MoveOnIInv ==
  ASSUME IInv, AllYielded \/ LogSlow \/ JoinPool \/ Return
  PROVE  IInv'
<1> USE DEF AllYielded, LogSlow, JoinPool, Return, Outcome, pool, caller, clock
<1>1. TypeOK' /\ SharedArguments' /\ VerdictsJustified'
  BY DEF IInv, TypeOK, SharedArguments, VerdictsJustified, PastDeadline
<1>2. Compiling' /\ QuietBenchmarks' /\ GivenUp'
  BY DEF IInv, Compiling, QuietBenchmarks, GivenUp, IsTimeout
<1>3. LogSlow => PastDeadline
  BY DEF Expired, TimeUp, PastDeadline
<1>4. Accounted'
  BY <1>3, AutotunerAssumption
  DEF IInv, Compiling, Accounted, Kept, Missed, PastDeadline, Broken, Unmeasured
<1> QED
  BY <1>1, <1>2, <1>4 DEF IInv

\* A broken pool, which is idle, refuses a config.
LEMMA SubmitRefusedIInv ==
  ASSUME IInv, NEW c \in Configs, SubmitRefused(c)
  PROVE  IInv'
  BY DEF SubmitRefused, Broken, pool, caller, clock, IInv, TypeOK, Compiling, Accounted,
     GivenUp, IsTimeout, QuietBenchmarks, SharedArguments, VerdictsJustified, PastDeadline

\* A benchmark judges a config that was kept and has no verdict.
LEMMA MeasureIInv ==
  ASSUME IInv, NEW c \in Configs,
         NEW v \in {Error("run")} \cup {Data(ms) : ms \in Times}, Measure(c, v)
  PROVE  IInv'
<1>1. /\ Record({c}, v) /\ pc = "bench" /\ compilePool
      /\ c \in executorArgs /\ c \notin DOMAIN results
      /\ UNCHANGED <<pc, finished, pool, batch, pending, inits, executorArgs,
                     start, clock, compilePool>>
  BY DEF Measure, Unmeasured, IInv, Compiling
<1>2. /\ v \in Verdicts
      /\ v \notin {Error("timeout"), Error("compile"), Error("broken")}
  BY DEF Verdicts, Errors, Error, Data
<1>3. /\ DOMAIN results' = DOMAIN results \cup {c}
      /\ DOMAIN results' \subseteq Configs
      /\ \A d \in DOMAIN results' :
           /\ results'[d] \in Verdicts
           /\ d = c => results'[d] = v
           /\ d # c => d \in DOMAIN results /\ results'[d] = results[d]
  <2>1. TypeOK
    BY DEF IInv
  <2> QED
    BY <1>1, <1>2, <2>1, RecordOne
<1>4. TypeOK'
  BY <1>1, <1>3 DEF IInv, TypeOK, pool, clock
<1>5. Compiling' /\ QuietBenchmarks' /\ SharedArguments'
  BY <1>1 DEF IInv, Compiling, QuietBenchmarks, SharedArguments, pool
<1>6. Accounted' /\ GivenUp'
  BY <1>1, <1>2, <1>3 DEF IInv, Accounted, Kept, Missed, PastDeadline, Broken, GivenUp, IsTimeout
<1>7. VerdictsJustified'
  BY <1>1, <1>2, <1>3 DEF IInv, VerdictsJustified, PastDeadline, Compiling, pool, clock
<1> QED
  BY <1>4, <1>5, <1>6, <1>7 DEF IInv

\* Every step keeps the invariant.
LEMMA NextIInv ==
  ASSUME IInv, [Next]_vars
  PROVE  IInv'
<1>1. ASSUME NEW c \in Configs, TakeUp(c) \/ Compile(c)
      PROVE  IInv'
  BY <1>1, TakeUpIInv, FinishCompileIInv DEF Compile
<1>2. ASSUME NEW c \in Configs, Submit(c) \/ SubmitRefused(c) \/ Yield(c) \/ Benchmark(c)
      PROVE  IInv'
  BY <1>2, SubmitIInv, SubmitRefusedIInv, YieldErrorIInv, YieldCompiledIInv,
     YieldMeasuredIInv, MeasureIInv
  DEF Yield, Benchmark
<1>3. CASE Call
  BY <1>2, <1>3, WaitIInv, GiveUpIInv, MoveOnIInv DEF Call
<1>4. CASE Tick \/ BreakPool
  BY <1>4, TickIInv, BreakPoolIInv
<1>5. CASE UNCHANGED vars
  BY <1>5 DEF vars, pool, caller, clock, IInv, TypeOK, Compiling, Accounted, Kept, Missed, PastDeadline, Broken,
     GivenUp, IsTimeout, QuietBenchmarks, SharedArguments, VerdictsJustified, PastDeadline
<1> QED
  BY <1>1, <1>3, <1>4, <1>5 DEF Next, Done

\* The inductive invariant of an autotuning (autotuner.py:126-218).
THEOREM Invariance == Spec => []IInv
<1>1. Init => IInv
  BY InitIInv
<1>2. IInv /\ [Next]_vars => IInv'
  BY NextIInv
<1> QED
  BY <1>1, <1>2, PTL DEF Spec

\* Every variable keeps its type.
THEOREM TypeCorrect == Spec => []TypeOK
<1>1. IInv => TypeOK
  BY DEF IInv
<1> QED
  BY <1>1, Invariance, PTL

\* No worker compiles while a benchmark runs (autotuner.py:146, 174).
THEOREM BenchmarksAreQuiet == Spec => []QuietBenchmarks
<1>1. IInv => QuietBenchmarks
  BY DEF IInv
<1> QED
  BY <1>1, Invariance, PTL

\* The arguments are initialised at most once, before the first config is kept
\* for its benchmark (autotuner.py:151-159).
THEOREM ArgumentsAreShared == Spec => []SharedArguments
<1>1. IInv => SharedArguments
  BY DEF IInv
<1> QED
  BY <1>1, Invariance, PTL

\* An autotuning that has returned has a verdict for every config but those
\* that a call without a compile pool missed at the deadline, and one that has
\* raised has none: its pool broke, or it missed them all
\* (autotuner.py:139-216).
THEOREM ConfigsAreAccounted == Spec => []EveryConfigAccounted
<1>1. IInv => EveryConfigAccounted
  BY DEF IInv, TypeOK, Accounted, Kept, Missed, EveryConfigAccounted
<1> QED
  BY <1>1, Invariance, PTL

\* Every verdict has its reason (autotuner.py:155-169).
THEOREM VerdictsAreJustified == Spec => []VerdictsJustified
<1>1. IInv => VerdictsJustified
  BY DEF IInv
<1> QED
  BY <1>1, Invariance, PTL

\* What was given up at the deadline is never benchmarked, however late its
\* compilation ends (autotuner.py:163-169).
THEOREM GivingUpIsFinal == Spec => GivenUpForGood
<1> DEFINE A == \A c \in Configs : IsTimeout(c) =>
                  IsTimeout(c)' /\ c \notin executorArgs'
<1>1. ASSUME IInv, [Next]_vars
      PROVE  [A]_vars
  <2> SUFFICES ASSUME NEW c \in Configs, IsTimeout(c), Next
               PROVE  IsTimeout(c)' /\ c \notin executorArgs'
    BY <1>1
  <2>1. pc \in {"shutdown", "bench", "done"} /\ c \notin executorArgs
    BY <1>1 DEF IInv, GivenUp
  <2>2. ASSUME NEW d \in Configs, Benchmark(d)
        PROVE  IsTimeout(c)' /\ c \notin executorArgs'
    <3>1. PICK v : Record({d}, v) /\ d \in executorArgs /\ executorArgs' = executorArgs
      BY <2>2 DEF Benchmark, Measure, Unmeasured
    <3>2. c # d
      BY <2>1, <3>1
    <3> QED
      BY <2>1, <3>1, <3>2 DEF Record, IsTimeout
  <2>3. CASE UNCHANGED <<results, executorArgs>>
    BY <2>1, <2>3 DEF IsTimeout
  <2>4. (\E d \in Configs : Benchmark(d)) \/ UNCHANGED <<results, executorArgs>>
    BY <2>1 DEF Next, Compile, TakeUp, FinishCompile, Call, Submit, Yield,
       YieldFailed, YieldCompiled, YieldUninitialized, YieldMeasured, SubmitRefused,
       StartWaiting, Block, PickUp, GiveUp, LogSlow, AllYielded, JoinPool, Return,
       BreakPool, Tick, Done, vars, pool, caller, clock
  <2> QED
    BY <2>2, <2>3, <2>4
<1> QED
  BY <1>1, Invariance, PTL DEF Spec, GivenUpForGood
=============================================================================

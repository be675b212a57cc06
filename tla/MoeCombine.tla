----------------------------- MODULE MoeCombine -----------------------------
(***************************************************************************)
(* The combine kernel of the fused MoE layer: a shard fetches the rows that *)
(* came back for its tokens and writes their weighted sums, a step of       *)
(* tokens at a time (tokamax/_src/ops/experimental/fused_moe/kernel.py:     *)
(* 2140-2331).  Step s works in the buffers of parity s % Parities; its     *)
(* rows are asked for Lead steps ahead, and the last steps ask for the      *)
(* final step's rows again rather than branch.                              *)
(*                                                                          *)
(* The rows of a step are one copy, and so is what it stores.  Copies land  *)
(* at any time after their start and in any order.  The k-th request is the *)
(* number k, the store of step s the number s.                              *)
(***************************************************************************)
EXTENDS Integers

CONSTANTS Parities, Lead, Steps

\* combine_step_tokens admits no other number of steps.
ASSUME CombineSteps ==
  /\ Parities \in Nat /\ Lead \in Nat /\ Steps \in Nat
  /\ 0 < Lead /\ Lead < Parities
  /\ Steps > Lead /\ Steps >= Parities /\ Steps % Parities = 0

VARIABLES
  stage, step,
  row_buf,   \* row_buf[p]: the step whose rows the buffer holds
  out_buf,   \* out_buf[p]: the step whose sums the buffer holds
  written,   \* the steps whose sums are in HBM, by step
  coming,    \* requests that have not landed
  leaving,   \* stores that have not landed
  row_sem, out_sem

combineVars == <<stage, step, row_buf, out_buf, written, coming, leaving, row_sem, out_sem>>

None == -1
ParitySet == 0..Parities - 1
StepSet == 0..Steps - 1
BufferOf(k) == k % Parities

\* The rows that the k-th request is for.
StepOf(k) == IF k < Steps THEN k ELSE Steps - 1

-----------------------------------------------------------------------------
RowsLand(k) ==
  /\ k \in coming
  /\ coming' = coming \ {k}
  /\ row_buf' = [row_buf EXCEPT ![BufferOf(k)] = StepOf(k)]
  /\ row_sem' = [row_sem EXCEPT ![BufferOf(k)] = @ + 1]
  /\ UNCHANGED <<stage, step, out_buf, written, leaving, out_sem>>

StoreLands(s) ==
  /\ s \in leaving
  /\ leaving' = leaving \ {s}
  /\ written' = [written EXCEPT ![s] = out_buf[BufferOf(s)]]
  /\ out_sem' = [out_sem EXCEPT ![BufferOf(s)] = @ + 1]
  /\ UNCHANGED <<stage, step, row_buf, out_buf, coming, row_sem>>

\* The requests before the loop.
FirstRows ==
  /\ stage = "begin"
  /\ coming' = 0..Lead - 1
  /\ stage' = "rows"
  /\ UNCHANGED <<step, row_buf, out_buf, written, leaving, row_sem, out_sem>>

\* one_step: the wait for its rows ...
AwaitRows ==
  /\ stage = "rows"
  /\ row_sem[BufferOf(step)] >= 1
  /\ row_sem' = [row_sem EXCEPT ![BufferOf(step)] = @ - 1]
  /\ stage' = "store"
  /\ UNCHANGED <<step, row_buf, out_buf, written, coming, leaving, out_sem>>

\* Mutant: the store of the round before is not waited for.
AwaitStore_Skipped ==
  /\ stage = "store"
  /\ UNCHANGED out_sem
  /\ stage' = "request"
  /\ UNCHANGED <<step, row_buf, out_buf, written, coming, leaving, row_sem>>

\* ... the wait for the store that last left from its buffer ...
AwaitStore ==
  /\ stage = "store"
  /\ \/ step < Parities /\ UNCHANGED out_sem
     \/ /\ step >= Parities /\ out_sem[BufferOf(step)] >= 1
        /\ out_sem' = [out_sem EXCEPT ![BufferOf(step)] = @ - 1]
  /\ stage' = "request"
  /\ UNCHANGED <<step, row_buf, out_buf, written, coming, leaving, row_sem>>

\* Mutant: the last steps ask for nothing.
Request_NoRestart ==
  /\ stage = "request"
  /\ coming' = coming \cup ({step + Lead} \cap StepSet)
  /\ stage' = "reduce"
  /\ UNCHANGED <<step, row_buf, out_buf, written, leaving, row_sem, out_sem>>

\* ... the rows of the step Lead ahead, asked for beside the reduction ...
Request ==
  /\ stage = "request"
  /\ coming' = coming \cup {step + Lead}
  /\ stage' = "reduce"
  /\ UNCHANGED <<step, row_buf, out_buf, written, leaving, row_sem, out_sem>>

\* ... and the sums, on their way to HBM.
Reduce ==
  /\ stage = "reduce"
  /\ out_buf' = [out_buf EXCEPT ![BufferOf(step)] = row_buf[BufferOf(step)]]
  /\ leaving' = leaving \cup {step}
  /\ step' = step + 1
  /\ stage' = IF step + 1 < Steps THEN "rows" ELSE "drain"
  /\ UNCHANGED <<row_buf, written, coming, row_sem, out_sem>>

\* Mutant: only the rows asked for again are drained.
Drain_RowsOnly ==
  /\ stage = "drain"
  /\ \A p \in 0..Lead - 1 : row_sem[p] >= 1
  /\ row_sem' = [p \in ParitySet |-> IF p < Lead THEN row_sem[p] - 1 ELSE row_sem[p]]
  /\ stage' = "done"
  /\ UNCHANGED <<step, row_buf, out_buf, written, coming, leaving, out_sem>>

\* The last requests are drained, and one store of every parity.
Drain ==
  /\ stage = "drain"
  /\ \A p \in 0..Lead - 1 : row_sem[p] >= 1
  /\ \A p \in ParitySet : out_sem[p] >= 1
  /\ row_sem' = [p \in ParitySet |-> IF p < Lead THEN row_sem[p] - 1 ELSE row_sem[p]]
  /\ out_sem' = [p \in ParitySet |-> out_sem[p] - 1]
  /\ stage' = "done"
  /\ UNCHANGED <<step, row_buf, out_buf, written, coming, leaving>>

CombineDone == stage = "done" /\ UNCHANGED combineVars

CombineInit ==
  /\ stage = "begin" /\ step = 0
  /\ row_buf = [p \in ParitySet |-> None] /\ out_buf = [p \in ParitySet |-> None]
  /\ written = [s \in StepSet |-> None]
  /\ coming = {} /\ leaving = {}
  /\ row_sem = [p \in ParitySet |-> 0] /\ out_sem = [p \in ParitySet |-> 0]

CombineNext ==
  \/ FirstRows \/ AwaitRows \/ AwaitStore \/ Request \/ Reduce \/ Drain \/ CombineDone
  \/ \E k \in coming : RowsLand(k)
  \/ \E s \in leaving : StoreLands(s)

\* Copies land, and the core runs on when it need not wait.
CombineSpec == CombineInit /\ [][CombineNext]_combineVars /\ WF_combineVars(CombineNext)

-----------------------------------------------------------------------------
TypeOK ==
  /\ stage \in {"begin", "rows", "store", "request", "reduce", "drain", "done"}
  /\ step \in 0..Steps
  /\ row_buf \in [ParitySet -> StepSet \cup {None}]
  /\ out_buf \in [ParitySet -> StepSet \cup {None}]
  /\ written \in [StepSet -> StepSet \cup {None}]
  /\ coming \subseteq 0..Steps + Lead - 1 /\ leaving \subseteq StepSet
  /\ row_sem \in [ParitySet -> Nat] /\ out_sem \in [ParitySet -> Nat]

\* A step reduces its own rows, no copy is on its way into the buffer it
\* reads, and a store leaves with the sums it was started for.
OwnSteps ==
  /\ stage = "reduce" =>
       /\ row_buf[BufferOf(step)] = step
       /\ \A k \in coming : BufferOf(k) # BufferOf(step)
       /\ \A s \in leaving : BufferOf(s) # BufferOf(step)
  /\ \A s \in leaving : out_buf[BufferOf(s)] = s

\* When the kernel is done the sums of all steps are in HBM, nothing is in
\* flight and no semaphore is left with a count for the next call.
Complete ==
  stage = "done" =>
    /\ \A s \in StepSet : written[s] = s
    /\ coming = {} /\ leaving = {}
    /\ \A p \in ParitySet : row_sem[p] = 0 /\ out_sem[p] = 0

\* The kernel never waits for a copy it has not started.
CombineTerminates == <>(stage = "done")
=============================================================================

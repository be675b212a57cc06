------------------------ MODULE MCAutotuningContext ------------------------
(* Small instances of AutotuningContext: one op call on one device kind, or *)
(* on two; three results, of which one holds no usable data.                *)
EXTENDS AutotuningContext, TLC

CONSTANTS r1, r2, r3, c1, c2, t1, t2, h1, h2, k1, gpu, cpu, a1, a2

\* r1 and r2 know the call on gpu, r2 with another config; r3 was loaded from
\* a file whose errors had been pruned and shadows with empty data.
MCData == [r \in Results |-> [c \in Calls |->
  CASE c.device # gpu -> NoData
    [] r = r1 -> c1
    [] r = r2 -> c2
    [] r = r3 -> Empty]]

MCDisk == [c \in Calls |-> NoData]

OneThreadPerTask == [t \in Tasks |-> IF t = t1 THEN h1 ELSE h2]

AutotuneOnMiss == [fallback |-> "autotune", ignore |-> FALSE]
IgnoreCache == [fallback |-> "heuristics", ignore |-> TRUE]

SomeOptions == {AutotuneOnMiss, IgnoreCache}

\* Ids are interchangeable, and so are the tasks together with their threads.
Swap == (t1 :> t2) @@ (t2 :> t1) @@ (h1 :> h2) @@ (h2 :> h1)
IdSymmetry == Permutations(Addrs)
Symmetry == IdSymmetry \cup {p @@ Swap : p \in IdSymmetry}
=============================================================================

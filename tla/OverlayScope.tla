---------------------------- MODULE OverlayScope ----------------------------
(***************************************************************************)
(* What AutotuningResult and default_config promise to a program, without   *)
(* context variables, tokens, ids or trace caches: a task has a scope, the  *)
(* results of its open with-blocks; a call uses the innermost result of the *)
(* scope that knows it, and otherwise the library-wide cache.  A jitted     *)
(* call may answer from an earlier state of that cache, never from another  *)
(* scope (AutotuningResult's docstring, tokamax/_src/autotuning/api.py).    *)
(***************************************************************************)
EXTENDS ConfigResolution

CONSTANTS Tasks, OptionsUsed, Disk, NoReply

VARIABLES
  scope,    \* scope[t]: the results whose with-block t is in, outermost first
  cache,    \* the library-wide cache: an entry for each call
  history,  \* history[c]: every entry the cache has held for c
  reply     \* the last call and its outcome, NoReply after another step

vars == <<scope, cache, history, reply>>

Init ==
  /\ scope = [t \in Tasks |-> <<>>]
  /\ cache = Disk
  /\ history = [c \in Calls |-> {Disk[c]}]
  /\ reply = NoReply

Store(c, tuned) ==
  /\ cache' = Stored(cache, c, tuned)
  /\ history' = [history EXCEPT ![StoredAt(c)] = @ \cup {tuned}]

Open(t, r) ==
  /\ scope' = [scope EXCEPT ![t] = Append(@, r)]
  /\ reply' = NoReply
  /\ UNCHANGED <<cache, history>>

Close(t) ==
  /\ scope[t] # <<>>
  /\ scope' = [scope EXCEPT ![t] = SubSeq(@, 1, Len(@) - 1)]
  /\ reply' = NoReply
  /\ UNCHANGED <<cache, history>>

Answer(t, c, opt, jit, data, tuned) ==
  reply' = [task |-> t, call |-> c, opt |-> opt, jit |-> jit,
            out |-> Resolve(data, opt, tuned)]

MayStore(c, opt, data, tuned) ==
  Autotunes(data, opt) /\ ~opt.ignore /\ Store(c, tuned)

\* A call that is not jitted resolves its config now, and stores what it
\* autotunes.
EagerCall(t, c, opt) ==
  LET data == CachedData(scope[t], cache[c], c, opt) IN
  /\ \E tuned \in TuningResults :
       /\ Answer(t, c, opt, FALSE, data, tuned)
       /\ IF Autotunes(data, opt) /\ ~opt.ignore
            THEN Store(c, tuned)
            ELSE UNCHANGED <<cache, history>>
  /\ UNCHANGED scope

JitCall(t, c, opt) ==
  /\ \E stored \in history[c], tuned \in TuningResults :
       LET data == CachedData(scope[t], stored, c, opt) IN
       /\ Answer(t, c, opt, TRUE, data, tuned)
       /\ \/ UNCHANGED <<cache, history>>
          \/ MayStore(c, opt, data, tuned)
  /\ UNCHANGED scope

Autotune(c) ==
  /\ \E tuned \in TuningResults : Store(c, tuned)
  /\ reply' = NoReply
  /\ UNCHANGED scope

Forget == reply' = NoReply /\ UNCHANGED <<scope, cache, history>>

Next ==
  \/ \E t \in Tasks, r \in Results : Open(t, r)
  \/ \E t \in Tasks : Close(t)
  \/ \E t \in Tasks, c \in Calls, opt \in OptionsUsed :
       EagerCall(t, c, opt) \/ JitCall(t, c, opt)
  \/ \E c \in Calls : Autotune(c)
  \/ Forget

Spec == Init /\ [][Next]_vars
=============================================================================

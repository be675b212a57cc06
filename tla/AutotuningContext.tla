------------------------- MODULE AutotuningContext -------------------------
(***************************************************************************)
(* AutotuningResult as a context manager (autotuning/api.py:173-189), the   *)
(* overlay stack it pushes on, and the config lookup of eager and jitted    *)
(* calls (ops/op.py:334-353, 468-570, 593-617).                             *)
(*                                                                          *)
(* An __enter__ changes two things kept in different places: the overlay    *)
(* stack, a contextvars.ContextVar, so one value per task (a thread or an   *)
(* asyncio task), and a JAX user context holding id()s, one value per       *)
(* thread and part of every jit cache key.  Only the stack is read by the   *)
(* lookup; only the ids decide whether a jitted call looks anything up.     *)
(***************************************************************************)
EXTENDS ConfigResolution, FiniteSets

CONSTANTS
  Tasks, Threads, ThreadOf,  \* ThreadOf[t]: the thread the task t runs on
  Addrs,        \* values of id()
  NoAddr, NoToken, NoContext, NoReply,
  OptionsUsed,  \* the option values the program calls ops under
  Disk,         \* the entries of the cache files
  Shared,       \* may a result be entered while a with-block of it is open?
  Recycle,      \* may a new object get the id of a freed one?
  MaxDepth,     \* bound: nesting of with-blocks
  MaxTraces     \* bound: entries of the jit cache

ASSUME ContextAssumption ==
  /\ ThreadOf \in [Tasks -> Threads]
  /\ NoAddr \notin Addrs
  /\ OptionsUsed \subseteq OptionValues
  /\ Disk \in [Calls -> Entries]
  /\ {Shared, Recycle} \subseteq BOOLEAN
  /\ MaxDepth \in Nat /\ MaxTraces \in Nat
  /\ NoToken \notin [task : Tasks, prev : Seq(Results)]
  /\ NoContext \notin [prev : Seq(Addrs)]
  /\ NoReply \notin [task : Tasks, call : Calls, opt : OptionsUsed,
                     jit : BOOLEAN, out : Outcomes]

VARIABLES
  stack,    \* stack[t]: AUTOTUNING_CACHE_OVERLAY_STACK in the context of t;
            \* an overlay is named by the result it was built from
  jaxCtx,   \* jaxCtx[h]: AUTOTUNING_CACHE_OVERLAY_JAX_CONFIG on thread h
  frames,   \* frames[t]: the with-blocks t is in, outermost first
  step,     \* step[t]: where t is inside an __enter__ or __exit__
  addr,     \* addr[r]: id(r), NoAddr before r is created
  alive,    \* the results not freed yet
  token,    \* token[r]: the attribute r._token
  context,  \* context[r]: the attribute r._context
  cache,    \* _AUTOTUNING_CACHE
  history,  \* history[c]: auxiliary, the entries the cache has held for c
  traces,   \* the jit cache: configs by call, options and ids
  error,    \* the exceptions __exit__ has raised
  reply     \* the last call and its outcome

managers == <<stack, jaxCtx, frames, step, addr, alive, token, context>>
lookups == <<cache, history, traces>>
vars == <<managers, lookups, error, reply>>

Idle == [at |-> "idle"]
At(where, r) == [at |-> where, obj |-> r]

Init ==
  /\ stack = [t \in Tasks |-> <<>>]
  /\ jaxCtx = [h \in Threads |-> <<>>]
  /\ frames = [t \in Tasks |-> <<>>]
  /\ step = [t \in Tasks |-> Idle]
  /\ addr = [r \in Results |-> NoAddr]
  /\ alive = {}
  /\ token = [r \in Results |-> NoToken]
  /\ context = [r \in Results |-> NoContext]
  /\ cache = Disk
  /\ history = [c \in Calls |-> {Disk[c]}]
  /\ traces = <<>>
  /\ error = {}
  /\ reply = NoReply

Entered(t) == {frames[t][i] : i \in 1..Len(frames[t])}
Using(t) == Entered(t) \cup
            {r \in Results : step[t] # Idle /\ step[t].obj = r}
InUse(r) == \E t \in Tasks : r \in Using(t)

\* The task t runs: no other task of its thread is inside a handler, because
\* tasks of one thread switch only at an await.
Runs(t) == \A u \in Tasks \ {t} : ThreadOf[u] = ThreadOf[t] => step[u] = Idle
Ready(t) == step[t] = Idle /\ Runs(t)

-----------------------------------------------------------------------------
\* Python creates and frees objects.

Create(r, a) ==
  /\ addr[r] = NoAddr
  /\ \A q \in IF Recycle THEN alive ELSE Results : addr[q] # a
  /\ addr' = [addr EXCEPT ![r] = a]
  /\ alive' = alive \cup {r}
  /\ reply' = NoReply
  /\ UNCHANGED <<stack, jaxCtx, frames, step, token, context, lookups, error>>

\* The last reference goes away; the with-statement of a frame holds one, the
\* stack (overlays), the ids and the jit cache hold none.
Free(r) ==
  /\ r \in alive /\ ~InUse(r)
  /\ alive' = alive \ {r}
  /\ reply' = NoReply
  /\ UNCHANGED <<stack, jaxCtx, frames, step, addr, token, context, lookups,
                 error>>

-----------------------------------------------------------------------------
\* AutotuningResult.__enter__: push the overlay and keep the token, ...

EnterStack(t, r) ==
  /\ Ready(t) /\ r \in alive
  /\ Shared \/ ~InUse(r)
  /\ Len(frames[t]) < MaxDepth
  /\ token' = [token EXCEPT ![r] = [task |-> t, prev |-> stack[t]]]
  /\ stack' = [stack EXCEPT ![t] = Append(@, r)]
  /\ step' = [step EXCEPT ![t] = At("enter", r)]
  /\ reply' = NoReply
  /\ UNCHANGED <<jaxCtx, frames, addr, alive, context, lookups, error>>

\* Mutant: the JAX context is not kept in the object.
EnterJax_NotKept(t) ==
  LET h == ThreadOf[t]
      r == step[t].obj IN
  /\ step[t].at = "enter" /\ Runs(t)
  /\ jaxCtx' = [jaxCtx EXCEPT ![h] = Append(@, addr[r])]
  /\ frames' = [frames EXCEPT ![t] = Append(@, r)]
  /\ step' = [step EXCEPT ![t] = Idle]
  /\ reply' = NoReply
  /\ UNCHANGED <<stack, addr, alive, token, context, lookups, error>>

\* ... then build the JAX context with the id added, keep it and enter it.
EnterJax(t) ==
  LET h == ThreadOf[t]
      r == step[t].obj IN
  /\ step[t].at = "enter" /\ Runs(t)
  /\ context' = [context EXCEPT ![r] = [prev |-> jaxCtx[h]]]
  /\ jaxCtx' = [jaxCtx EXCEPT ![h] = Append(@, addr[r])]
  /\ frames' = [frames EXCEPT ![t] = Append(@, r)]
  /\ step' = [step EXCEPT ![t] = Idle]
  /\ reply' = NoReply
  /\ UNCHANGED <<stack, addr, alive, token, lookups, error>>

Pop(s) == SubSeq(s, 1, Len(s) - 1)

\* The with-block ends, with the exception e if __exit__ raised one.
Leave(t, e) ==
  /\ frames' = [frames EXCEPT ![t] = Pop(@)]
  /\ step' = [step EXCEPT ![t] = Idle]
  /\ error' = error \cup e

\* Mutant: the JAX context is forgotten but not left.
ExitJax_KeepsIds(t) ==
  LET r == frames[t][Len(frames[t])] IN
  /\ Ready(t) /\ frames[t] # <<>>
  /\ context' = [context EXCEPT ![r] = NoContext]
  /\ step' = [step EXCEPT ![t] = At("exit", r)]
  /\ reply' = NoReply
  /\ UNCHANGED <<stack, jaxCtx, frames, addr, alive, token, lookups, error>>

\* AutotuningResult.__exit__: leave the JAX context and forget it, ...
ExitJax(t) ==
  LET h == ThreadOf[t]
      r == frames[t][Len(frames[t])] IN
  /\ Ready(t) /\ frames[t] # <<>>
  /\ IF context[r] = NoContext
       THEN /\ Leave(t, {"AttributeError"})
            /\ UNCHANGED <<jaxCtx, context>>
       ELSE /\ jaxCtx' = [jaxCtx EXCEPT ![h] = context[r].prev]
            /\ context' = [context EXCEPT ![r] = NoContext]
            /\ step' = [step EXCEPT ![t] = At("exit", r)]
            /\ UNCHANGED <<frames, error>>
  /\ reply' = NoReply
  /\ UNCHANGED <<stack, addr, alive, token, lookups>>

\* Mutant: the token is forgotten but the stack is not reset.
ExitStack_NoReset(t) ==
  LET r == step[t].obj IN
  /\ step[t].at = "exit" /\ Runs(t)
  /\ token' = [token EXCEPT ![r] = NoToken]
  /\ Leave(t, {})
  /\ reply' = NoReply
  /\ UNCHANGED <<stack, jaxCtx, addr, alive, context, lookups>>

\* ... then reset the stack with the token, which only the task that made it
\* may do, and forget it.
ExitStack(t) ==
  LET r == step[t].obj IN
  /\ step[t].at = "exit" /\ Runs(t)
  /\ IF token[r] = NoToken
       THEN Leave(t, {"AttributeError"}) /\ UNCHANGED <<stack, token>>
       ELSE IF token[r].task # t
         THEN Leave(t, {"ValueError"}) /\ UNCHANGED <<stack, token>>
         ELSE /\ stack' = [stack EXCEPT ![t] = token[r].prev]
              /\ token' = [token EXCEPT ![r] = NoToken]
              /\ Leave(t, {})
  /\ reply' = NoReply
  /\ UNCHANGED <<jaxCtx, addr, alive, context, lookups>>

-----------------------------------------------------------------------------
Store(c, tuned) ==
  /\ cache' = Stored(cache, c, tuned)
  /\ history' = [history EXCEPT ![StoredAt(c)] = @ \cup {tuned}]

Answer(t, c, opt, jit, out) ==
  reply' = [task |-> t, call |-> c, opt |-> opt, jit |-> jit, out |-> out]

\* Mutant: what the lookup autotuned is not stored.
Lookup_NotStored(t, c, opt, jit, data, tuned) ==
  /\ Answer(t, c, opt, jit, Resolve(data, opt, tuned))
  /\ UNCHANGED <<cache, history>>

\* default_config, run by the task t for the call c: the outcome, and the
\* store of what it autotuned.  With the cache ignored get_autotuning_cache
\* returns a fresh dict and the store is lost.
Lookup(t, c, opt, jit, data, tuned) ==
  /\ Answer(t, c, opt, jit, Resolve(data, opt, tuned))
  /\ IF Autotunes(data, opt) /\ ~opt.ignore
       THEN Store(c, tuned)
       ELSE UNCHANGED <<cache, history>>

EagerCall(t, c, opt) ==
  /\ Ready(t)
  /\ \E tuned \in TuningResults :
       Lookup(t, c, opt, FALSE, CachedData(stack[t], cache[c], c, opt), tuned)
  /\ UNCHANGED <<managers, traces, error>>

\* Mutant: the overlays are not part of the key of a trace.
TraceKey_NoIds(t, c, opt) == [call |-> c, opt |-> opt, ids |-> <<>>]

TraceKey(t, c, opt) == [call |-> c, opt |-> opt, ids |-> jaxCtx[ThreadOf[t]]]

\* A jitted call that finds its trace runs the config baked into it, ...
JitHit(t, c, opt) ==
  /\ Ready(t)
  /\ TraceKey(t, c, opt) \in DOMAIN traces
  /\ Answer(t, c, opt, TRUE, traces[TraceKey(t, c, opt)])
  /\ UNCHANGED <<managers, lookups, error>>

\* ... and one that does not is traced; a resolution that raises leaves no
\* trace behind.
JitTrace(t, c, opt) ==
  LET k == TraceKey(t, c, opt)
      data == CachedData(stack[t], cache[c], c, opt) IN
  /\ Ready(t)
  /\ k \notin DOMAIN traces
  /\ Cardinality(DOMAIN traces) < MaxTraces
  /\ \E tuned \in TuningResults :
       LET out == Resolve(data, opt, tuned) IN
       /\ Lookup(t, c, opt, TRUE, data, tuned)
       /\ traces' = IF out = Raised THEN traces
                    ELSE [x \in DOMAIN traces \cup {k} |->
                            IF x = k THEN out ELSE traces[x]]
  /\ UNCHANGED <<managers, error>>

\* ba.autotune() of any task.
Autotune(c) ==
  /\ \E tuned \in TuningResults : Store(c, tuned)
  /\ reply' = NoReply
  /\ UNCHANGED <<managers, traces, error>>

-----------------------------------------------------------------------------
Manage(t) ==
  \/ \E r \in Results : EnterStack(t, r)
  \/ EnterJax(t)
  \/ ExitJax(t)
  \/ ExitStack(t)

Call(t, c, opt) ==
  EagerCall(t, c, opt) \/ JitHit(t, c, opt) \/ JitTrace(t, c, opt)

Next ==
  \/ \E r \in Results : Free(r) \/ \E a \in Addrs : Create(r, a)
  \/ \E t \in Tasks : Manage(t)
  \/ \E t \in Tasks, c \in Calls, opt \in OptionsUsed : Call(t, c, opt)
  \/ \E c \in Calls : Autotune(c)

Spec == Init /\ [][Next]_vars
-----------------------------------------------------------------------------
\* Properties.

Tokens == [task : Tasks, prev : Seq(Results)] \cup {NoToken}
Contexts == [prev : Seq(Addrs)] \cup {NoContext}
Steps == {Idle} \cup [at : {"enter", "exit"}, obj : Results]
TraceKeys == [call : Calls, opt : OptionsUsed, ids : Seq(Addrs)]
Replies == [task : Tasks, call : Calls, opt : OptionsUsed, jit : BOOLEAN,
            out : Outcomes]

\* The type of every variable.
TypeOK ==
  /\ stack \in [Tasks -> Seq(Results)]
  /\ jaxCtx \in [Threads -> Seq(Addrs)]
  /\ frames \in [Tasks -> Seq(Results)]
  /\ step \in [Tasks -> Steps]
  /\ addr \in [Results -> Addrs \cup {NoAddr}]
  /\ alive \subseteq Results
  /\ token \in [Results -> Tokens]
  /\ context \in [Results -> Contexts]
  /\ cache \in [Calls -> Entries]
  /\ history \in [Calls -> SUBSET Entries]
  /\ DOMAIN traces \subseteq TraceKeys
  /\ \A k \in DOMAIN traces : traces[k] \in Configs
  /\ error \subseteq {"AttributeError", "ValueError"}
  /\ reply \in Replies \cup {NoReply}

Ids(s) == [i \in 1..Len(s) |-> addr[s[i]]]

\* What the task t sees and traces under is what its with-blocks say.
AtRest(t) ==
  /\ stack[t] = frames[t]
  /\ jaxCtx[ThreadOf[t]] = Ids(frames[t])

\* A task outside __enter__ and __exit__ sees exactly the overlays of the
\* with-blocks it is in, in their order, and its thread traces under exactly
\* their ids: the two places the context manager keeps the scope in agree
\* (api.py:173-189), and nothing outlives its with-block.
Coherent == \A t \in Tasks : step[t] = Idle => AtRest(t)

\* No __exit__ raises: its _context and _token are those its own __enter__
\* set, and the token belongs to the task that resets it (api.py:185-189).
ExitNeverRaises == error = {}

\* What a call may answer in a scope: as the innermost result that knows it
\* says, and otherwise as some state of the library-wide cache says.
Allowed(s, c, opt) ==
  {Resolve(CachedData(s, stored, c, opt), opt, tuned) :
     stored \in history[c], tuned \in TuningResults}

\* Every trace is filed under the ids of a scope that allows the config baked
\* into it, so that a later hit gets a config of its own scope.
TracesFaithful ==
  \A k \in DOMAIN traces : \E s \in [1..Len(k.ids) -> Results] :
    k.ids = Ids(s) /\ traces[k] \in Allowed(s, k.call, k.opt)

\* A call answers as its own scope says, whatever was traced before and by
\* whom: the innermost open result that has data for the call decides, and
\* only when none has does the library-wide cache (api.py:111-116;
\* api_test.py:400-411).
CallsFollowScope ==
  reply # NoReply =>
    LET s == frames[reply.task]
        known == {i \in 1..Len(s) : Data[s[i]][reply.call] # NoData} IN
    /\ reply.out \in Allowed(s, reply.call, reply.opt)
    /\ \A i \in known :
         ~reply.opt.ignore /\ (\A j \in known : j =< i) =>
           LET entry == Data[s[i]][reply.call] IN
           /\ entry \in Configs => reply.out = entry
           /\ entry = AllFailed => reply.out = Raised

-----------------------------------------------------------------------------
\* How a disciplined program uses results: a thread runs one task, no result
\* is entered while a with-block of it is open, and no id is used twice.
Disciplined ==
  /\ Shared = FALSE
  /\ Recycle = FALSE
  /\ \A t, u \in Tasks : ThreadOf[t] = ThreadOf[u] => t = u

\* The inductive invariant behind Coherent and ExitNeverRaises.

\* No result is used twice: by two tasks, or in two frames of one.
Exclusive ==
  /\ \A t, u \in Tasks : \A r \in Using(t) \cap Using(u) : t = u
  /\ \A t \in Tasks : \A i, j \in 1..Len(frames[t]) :
       frames[t][i] = frames[t][j] => i = j

\* Ids tell the results that were created apart, and those in use are alive.
IdsUnique ==
  /\ \A r, q \in Results : addr[r] # NoAddr /\ addr[r] = addr[q] => r = q
  /\ \A r \in alive : addr[r] # NoAddr
  /\ \A t \in Tasks : Using(t) \subseteq alive

\* The attributes of a result that is entered restore what was there before
\* its frame.
Below(s, i) == SubSeq(s, 1, i - 1)

FrameTokens(t) ==
  \A i \in 1..Len(frames[t]) :
    token[frames[t][i]] = [task |-> t, prev |-> Below(frames[t], i)]

FrameContexts(t) ==
  \A i \in 1..Len(frames[t]) :
    \/ context[frames[t][i]] = [prev |-> Below(Ids(frames[t]), i)]
    \/ step[t].at = "exit" /\ i = Len(frames[t])

MidEnter(t) ==
  LET r == step[t].obj IN
  /\ r \notin Entered(t)
  /\ token[r] = [task |-> t, prev |-> frames[t]]
  /\ stack[t] = Append(frames[t], r)
  /\ jaxCtx[ThreadOf[t]] = Ids(frames[t])

MidExit(t) ==
  /\ frames[t] # <<>>
  /\ step[t].obj = frames[t][Len(frames[t])]
  /\ stack[t] = frames[t]
  /\ jaxCtx[ThreadOf[t]] = Ids(Pop(frames[t]))

TaskInv(t) ==
  /\ FrameTokens(t)
  /\ FrameContexts(t)
  /\ step[t] = Idle => AtRest(t)
  /\ step[t].at = "enter" => MidEnter(t)
  /\ step[t].at = "exit" => MidExit(t)

IInv ==
  /\ TypeOK
  /\ Exclusive
  /\ IdsUnique
  /\ \A t \in Tasks : TaskInv(t)
  /\ ExitNeverRaises

Scope == INSTANCE OverlayScope WITH scope <- frames

\* The context manager, the lookup and the jit cache together implement the
\* scoped overlays of OverlayScope.
ImplementsScope == Scope!Spec
=============================================================================

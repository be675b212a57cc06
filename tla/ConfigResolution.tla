-------------------------- MODULE ConfigResolution --------------------------
(***************************************************************************)
(* How a call of a Tokamax op finds its config, as pure operators over      *)
(* what the lookup reads (tokamax/_src/ops/op.py,                           *)
(* tokamax/_src/autotuning/autotuner.py).                                   *)
(*                                                                          *)
(* AutotuningData is abstracted to what the lookup can tell apart: it is    *)
(* absent (NoData), has no item (Empty), has items that are all exceptions  *)
(* (AllFailed), or has a valid benchmark, and then it is represented by its *)
(* fastest config.                                                          *)
(***************************************************************************)
EXTENDS Naturals, Sequences

CONSTANTS
  Keys,           \* autotuning cache keys: the op and its abstract arguments
  Devices,        \* device kinds
  DefaultDevice,  \* the kind of backend.get_default_device()
  Configs,        \* configs of the op
  Heuristic,      \* op._get_heuristics_config(ba)
  NoData, Empty, AllFailed,   \* entries that hold no usable config
  Raised,         \* outcome of a call whose resolution raised
  Results,        \* AutotuningResult objects
  Data            \* Data[r][c]: what the overlay of r holds for the call c

\* The arguments of a call that the lookup uses: the key and the device kind
\* that infer_device_kind finds (the default one for tracers).
Calls == [key : Keys, device : Devices]

Entries == Configs \cup {NoData, Empty, AllFailed}

\* What Autotuner.autotune returns for a non-empty set of configs.
TuningResults == Configs \cup {AllFailed}

\* The values of the two config options default_config depends on.
Fallbacks == {"heuristics", "autotune", "error"}
OptionValues == [fallback : Fallbacks, ignore : BOOLEAN]

ASSUME ConstantsAssumption ==
  /\ DefaultDevice \in Devices
  /\ Heuristic \in Configs
  /\ {NoData, Empty, AllFailed, Raised} \cap Configs = {}
  /\ NoData # Empty /\ NoData # AllFailed /\ Empty # AllFailed
  /\ Data \in [Results -> [Calls -> Entries]]

Outcomes == Configs \cup {Raised}

FastestConfig(entry) == IF entry \in Configs THEN entry ELSE Raised

\* The innermost overlay of the scope, a sequence of results with the
\* outermost first, that holds data for c wins, even when that data is Empty.
Holders(scope, c) == {i \in 1..Len(scope) : Data[scope[i]][c] # NoData}
Innermost(I) == CHOOSE i \in I : \A j \in I : j =< i

CachedData(scope, stored, c, opt) ==
  IF opt.ignore THEN NoData
  ELSE IF Holders(scope, c) = {} THEN stored
  ELSE Data[scope[Innermost(Holders(scope, c))]][c]

Missing(data) == data \in {NoData, Empty}

Autotunes(data, opt) == Missing(data) /\ opt.fallback = "autotune"

\* get_config: tuned is the result of the autotuning it may run.
Resolve(data, opt, tuned) ==
  IF ~Missing(data) THEN FastestConfig(data)
  ELSE CASE opt.fallback = "autotune"   -> FastestConfig(tuned)
         [] opt.fallback = "heuristics" -> Heuristic
         [] OTHER                       -> Raised

\* BoundArguments.autotune stores its data under the default device kind.
StoredAt(c) == [key |-> c.key, device |-> DefaultDevice]

Stored(cache, c, tuned) == [cache EXCEPT ![StoredAt(c)] = tuned]
=============================================================================

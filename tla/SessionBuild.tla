----------------------------- MODULE SessionBuild -----------------------------
(***************************************************************************)
(* From the options of a model to a session: an item of --prepare-model    *)
(* (src/onnx/session_key_with_option.cpp) or the option object of a        *)
(* request, and the construction of the session with it                    *)
(* (src/onnx/session.cpp, src/onnx/cuda/session_options.cpp), which can    *)
(* throw at every step.                                                    *)
(*                                                                         *)
(* JSON values are scalars, objects and arrays.  A scalar keeps its kind   *)
(* and its text.  ONNX Runtime is external: each of its calls succeeds or  *)
(* fails.                                                                  *)
(***************************************************************************)
EXTENDS Integers, Sequences, SequencesExt, FiniteSetsExt

CONSTANTS Entries,      \* bound: the key=value entries of an item
          MaxEntries,   \* bound: how many an item has
          JsonOptions,  \* bound: the option objects of requests
          ModelValues,  \* the model's inputs and outputs, in order
          CudaRuntime,  \* ONNX Runtime has the CUDA provider
          CudaBuild     \* the build defines HAS_CUDA

Scalar(kind, text) == [kind |-> kind, value |-> text]
Object(f) == [kind |-> "object", fields |-> f]
Array(s) == [kind |-> "array", items |-> s]
EmptyObject == Object(<<>>)
IsObject(json) == json.kind = "object"
IsArray(json) == json.kind = "array"
IsScalar(json) == json.kind \in {"boolean", "integer", "string"}
Has(json, key) == IsObject(json) /\ key \in DOMAIN json.fields
Get(json, key) == json.fields[key]
Put(json, key, v) ==
  Object([k \in DOMAIN json.fields \cup {key} |-> IF k = key THEN v ELSE json.fields[k]])

Sides == {"input_shape", "output_shape"}
Sequence(s) == s \in Seq(Range(s))

\* Where the code looks for an array, the items of one are a sequence.
ArraysAreSequences(json) ==
  /\ Has(json, "extensions") /\ IsArray(Get(json, "extensions")) => Sequence(Get(json, "extensions").items)
  /\ \A side \in Sides : Has(json, side) /\ IsObject(Get(json, side)) =>
       \A name \in DOMAIN Get(json, side).fields :
         IsArray(Get(Get(json, side), name)) => Sequence(Get(Get(json, side), name).items)

ASSUME EntriesAssumption ==
  \A e \in Entries : e.path \in Seq(STRING) \ {<<>>} /\ IsScalar(e.value)
ASSUME OptionsAssumption == \A o \in JsonOptions : IsObject(o) /\ ArraysAreSequences(o)
ASSUME ModelAssumption ==
  /\ ModelValues \in Seq([side : Sides, name : STRING, shape : Seq(STRING)])
  /\ \A j, k \in DOMAIN ModelValues :
       j < k /\ ModelValues[j].side = "output_shape" => ModelValues[k].side = "output_shape"
ASSUME BuildAssumption == MaxEntries \in Nat /\ {CudaRuntime, CudaBuild} \subseteq BOOLEAN

VARIABLES
  list,        \* the entries read so far; empty for the option of a request
  option,      \* the option object
  pc,          \* where the construction is
  ort,         \* the settings Ort::SessionOptions holds
  registered,  \* the custom-op libraries registered
  handle,      \* OrtCUDAProviderOptionsV2: is it allocated, and what it says
  ep,          \* the CUDA provider appended to the session's options
  ort_session, \* the Ort::Session exists
  shapes,      \* the shapes of the inputs and outputs read so far
  echo         \* session::_option

vars == <<list, option, pc, ort, registered, handle, ep, ort_session, shapes, echo>>
sourceVars == <<list, option>>
cudaVars == <<handle, ep>>

NoCuda == [on |-> FALSE, opts |-> <<>>]

Init ==
  /\ list = <<>>
  /\ \/ option = EmptyObject /\ pc = "list"
     \/ option \in JsonOptions /\ pc = "settings"
  /\ ort = {} /\ registered = <<>> /\ handle = NoCuda /\ ep = NoCuda
  /\ ort_session = FALSE /\ shapes = <<>>
  /\ echo = [cuda |-> NoCuda, settings |-> {}, extensions |-> <<>>, overrides |-> {}]

-----------------------------------------------------------------------------
(* session_key_with_option::parse, one item *)

\* The object a key of a dotted key is set in.  Whatever is in the way and not an
\* object is replaced by one.
Group(json, key) ==
  IF Has(json, key) /\ IsObject(Get(json, key)) THEN Get(json, key) ELSE EmptyObject

\* The object that holds the k-th key of a path, from the outside in.
Groups(json, path) ==
  LET at[k \in 1..Len(path)] == IF k = 1 THEN json ELSE Group(at[k - 1], path[k - 1])
  IN  at

\* A value put under a path into the objects that hold its keys, from the inside out.
PutAlong(at, path, v) ==
  LET n == Len(path)
      set[k \in 0..n] == IF k = 0 THEN v ELSE Put(at[n + 1 - k], path[n + 1 - k], set[k - 1])
  IN  set[n]

\* Mutation: a group is started anew for every dotted key.
SetNestedAnew(json, path, v) ==
  PutAlong([k \in 1..Len(path) |-> IF k = 1 THEN json ELSE EmptyObject], path, v)

set_nested(json, path, v) == PutAlong(Groups(json, path), path, v)

\* The items of the extensions array, if there is one.
ExtensionItems(json) ==
  IF Has(json, "extensions") /\ IsArray(Get(json, "extensions"))
  THEN Get(json, "extensions").items ELSE <<>>

append_extension(json, v) ==
  LET items == ExtensionItems(json)
  IN  Put(json, "extensions", Array(IF Contains(items, v) THEN items ELSE Append(items, v)))

IsExtension(e) == e.path \in {<<"extensions">>, <<"ortextensions_path">>} /\ e.value.kind = "string"

ReadEntry(e) ==
  /\ pc = "list" /\ Len(list) < MaxEntries
  /\ list' = Append(list, e)
  /\ option' = IF IsExtension(e) THEN append_extension(option, e.value)
               ELSE set_nested(option, e.path, e.value)
  /\ UNCHANGED <<pc, ort, registered, cudaVars, ort_session, shapes, echo>>

CreateFromList ==
  /\ pc = "list" /\ list # <<>>
  /\ pc' = "settings"
  /\ UNCHANGED <<sourceVars, ort, registered, cudaVars, ort_session, shapes, echo>>

-----------------------------------------------------------------------------
(* session::session *)

\* The settings and the kind of JSON each wants.  (profile_file_prefix goes
\* with enable_profiling.)
SettingKinds ==
  [intra_op_num_threads |-> {"integer"}, inter_op_num_threads |-> {"integer"},
   log_severity_level |-> {"integer"}, logid |-> {"string"}, optimized_model_filepath |-> {"string"},
   execution_mode |-> {"string"}, graph_optimization_level |-> {"string"},
   enable_cpu_mem_arena |-> {"boolean"}, enable_mem_pattern |-> {"boolean"},
   enable_profiling |-> {"boolean"}]
Settings == DOMAIN SettingKinds
EntryKinds == [free_dimension_overrides |-> {"integer"},
               config_entries |-> {"integer", "boolean", "string"}]

\* parse_execution_mode, parse_graph_opt_level; profiling can only be turned on.
Meaningful(name, text) ==
  CASE name = "execution_mode" -> text \in {"parallel", "sequential"}
    [] name = "graph_optimization_level" ->
         text \in {"disable", "disabled", "off", "basic", "extended", "layout", "all"}
    [] name = "enable_profiling" -> text = "true"
    [] OTHER -> TRUE

AsConfigText(json) ==
  Scalar("string", IF json.kind # "boolean" THEN json.value ELSE IF json.value = "true" THEN "1" ELSE "0")

\* The settings forwarded to ONNX Runtime: those whose JSON has the right shape.
Forwarded(so) ==
  {[path |-> <<n>>, value |-> Get(so, n)] :
     n \in {n \in Settings : Has(so, n) /\ Get(so, n).kind \in SettingKinds[n]
                             /\ Meaningful(n, Get(so, n).value)}} \cup
  UNION {{[path |-> <<n, k>>, value |-> IF n = "config_entries" THEN AsConfigText(Get(Get(so, n), k))
                                        ELSE Get(Get(so, n), k)] :
            k \in {k \in DOMAIN Get(so, n).fields : Get(Get(so, n), k).kind \in EntryKinds[n]}} :
         n \in {n \in DOMAIN EntryKinds : Has(so, n) /\ IsObject(Get(so, n))}}

SessionOptions == IF Has(option, "session_options") THEN Get(option, "session_options") ELSE EmptyObject

IsConfigEntry(setting) == setting.path[1] = "config_entries"

\* A setter that throws is skipped, and so is its echo.  A config entry is read
\* back, and not echoed if that fails.
apply_session_options ==
  /\ pc = "settings"
  /\ \E accepted \in SUBSET Forwarded(SessionOptions) :
       \E unread \in SUBSET {s \in accepted : IsConfigEntry(s)} :
         /\ ort' = accepted
         /\ echo' = [echo EXCEPT !.settings = accepted \ unread]
  /\ pc' = "extensions"
  /\ UNCHANGED <<sourceVars, registered, cudaVars, ort_session, shapes>>

\* The items of the array, then the legacy path.
ToCollect(json) ==
  ExtensionItems(json) \o
  (IF Has(json, "ortextensions_path") THEN <<Get(json, "ortextensions_path")>> ELSE <<>>)

\* Mutation: a path is added whether it is there or not.
CollectAll(json) == SelectSeq(ToCollect(json), LAMBDA v : v.kind = "string")

\* The strings among the first k items, each once.
Collected(items) ==
  LET paths[k \in 0..Len(items)] ==
        IF k = 0 THEN <<>>
        ELSE IF items[k].kind = "string" /\ ~Contains(paths[k - 1], items[k])
             THEN Append(paths[k - 1], items[k]) ELSE paths[k - 1]
  IN  paths

collect_extensions(json) == Collected(ToCollect(json))[Len(ToCollect(json))]

Throw ==
  /\ pc' = "failed"
  /\ UNCHANGED <<sourceVars, ort, registered, ep, shapes, echo>>

\* register_extension for each path in turn; the first failure throws.
RegisterExtension ==
  LET wanted == collect_extensions(option) IN
  /\ pc = "extensions"
  /\ IF Len(registered) < Len(wanted)
     THEN /\ registered' = Append(registered, wanted[Len(registered) + 1])
          /\ UNCHANGED <<pc, echo>>
     ELSE /\ echo' = [echo EXCEPT !.extensions = wanted]
          /\ pc' = "cuda"
          /\ UNCHANGED registered
  /\ UNCHANGED <<sourceVars, ort, cudaVars, ort_session, shapes>>

RegisterFails ==
  /\ pc = "extensions" /\ Len(registered) < Len(collect_extensions(option))
  /\ Throw /\ UNCHANGED <<handle, ort_session>>

-----------------------------------------------------------------------------
(* append_cuda_session_options *)

CudaWanted ==
  CudaRuntime /\ Has(option, "cuda") /\ Get(option, "cuda") # Scalar("boolean", "false")

ProviderText(json) == AsConfigText(json).value

\* The keys and texts the caller gave.
CudaKeys ==
  LET cuda == Get(option, "cuda") IN
  IF IsObject(cuda) THEN [k \in DOMAIN cuda.fields |-> ProviderText(cuda.fields[k])]
  ELSE IF cuda.kind = "integer" THEN [k \in {"device_id"} |-> cuda.value]
  ELSE <<>>

\* External: the provider's options and their defaults.  An update gives the
\* keys of a group that it does not name their defaults again
\* (cuda/session_options.cpp:24-26).
CudaDefaults == [device_id |-> "0", gpu_mem_limit |-> "max", arena_extend_strategy |-> "0"]
CudaGroup(k) == IF k = "device_id" THEN {k} ELSE {"gpu_mem_limit", "arena_extend_strategy"}
UpdateCUDAProviderOptions(opts, given) ==
  [k \in DOMAIN opts |-> IF k \in DOMAIN given THEN given[k]
                         ELSE IF CudaGroup(k) \cap DOMAIN given # {} THEN CudaDefaults[k]
                         ELSE opts[k]]

SkipCuda ==
  /\ pc = "cuda" /\ ~CudaWanted
  /\ pc' = "load"
  /\ UNCHANGED <<sourceVars, ort, registered, cudaVars, ort_session, shapes, echo>>

CreateHandle ==
  /\ pc = "cuda" /\ CudaWanted /\ CudaBuild
  /\ handle' = [on |-> TRUE, opts |-> CudaDefaults]
  /\ pc' = "update"
  /\ UNCHANGED <<sourceVars, ort, registered, ep, ort_session, shapes, echo>>

\* No handle, or a build without CUDA.
CudaUnavailable ==
  /\ pc = "cuda" /\ CudaWanted
  /\ Throw /\ UNCHANGED <<handle, ort_session>>

\* Mutation: one call for each key.
UpdateKeyByKey ==
  /\ pc = "update" /\ DOMAIN CudaKeys \subseteq DOMAIN CudaDefaults
  /\ handle' = [handle EXCEPT !.opts =
       FoldSet(LAMBDA k, opts : UpdateCUDAProviderOptions(opts, [j \in {k} |-> CudaKeys[k]]), @,
               DOMAIN CudaKeys)]
  /\ pc' = "append"
  /\ UNCHANGED <<sourceVars, ort, registered, ep, ort_session, shapes, echo>>

\* One call with every key.
update_all ==
  /\ pc = "update" /\ DOMAIN CudaKeys \subseteq DOMAIN CudaDefaults
  /\ handle' = [handle EXCEPT !.opts = UpdateCUDAProviderOptions(@, CudaKeys)]
  /\ pc' = "append"
  /\ UNCHANGED <<sourceVars, ort, registered, ep, ort_session, shapes, echo>>

\* Mutation: the handle is released only where the function returns.
ThrowWithHandle ==
  /\ pc \in {"update", "append", "readback"}
  /\ Throw /\ UNCHANGED <<handle, ort_session>>

\* An unknown key or a bad value, a provider that does not start, memory that
\* runs out while the options are read back: the handle is released.
CudaFails ==
  /\ pc \in {"update", "append", "readback"}
  /\ handle' = NoCuda
  /\ Throw /\ UNCHANGED ort_session

AppendProvider ==
  /\ pc = "append"
  /\ ep' = handle
  /\ pc' = "readback"
  /\ UNCHANGED <<sourceVars, ort, registered, handle, ort_session, shapes, echo>>

\* The echo is read back, for the caller's keys and device_id; if that fails it
\* is empty.
ReadBack ==
  /\ pc = "readback"
  /\ \E keys \in {DOMAIN handle.opts \cap (DOMAIN CudaKeys \cup {"device_id"}), {}} :
       echo' = [echo EXCEPT !.cuda = [on |-> TRUE, opts |-> [k \in keys |-> handle.opts[k]]]]
  /\ handle' = NoCuda
  /\ pc' = "load"
  /\ UNCHANGED <<sourceVars, ort, registered, ep, ort_session, shapes>>

-----------------------------------------------------------------------------
(* The delegating constructors and init *)

\* The overrides are kept in _option until init has used them.
LoadModel ==
  /\ pc = "load"
  /\ ort_session' = TRUE
  /\ echo' = [echo EXCEPT !.overrides =
                {side \in Sides : Has(option, side) /\ IsObject(Get(option, side))}]
  /\ pc' = "inputs"
  /\ UNCHANGED <<sourceVars, ort, registered, cudaVars, shapes>>

LoadFails ==
  /\ pc = "load"
  /\ Throw /\ UNCHANGED <<handle, ort_session>>

\* The loop over the inputs and the one over the outputs.
Side == IF pc = "inputs" THEN "input_shape" ELSE "output_shape"
Current == ModelValues[Len(shapes) + 1]
MoreValues ==
  pc \in {"inputs", "outputs"} /\ Len(shapes) < Len(ModelValues) /\ Current.side = Side

\* json::get<int64_t> takes numbers only: to it a boolean is not 1 or 0.
IsDimension(json) == json.kind = "integer"

\* The override of the value at hand, if it has one that is an array.
Override ==
  IF Current.side \in echo.overrides /\ Has(Get(option, Current.side), Current.name)
     /\ IsArray(Get(Get(option, Current.side), Current.name))
  THEN Get(Get(option, Current.side), Current.name).items
  ELSE [d \in DOMAIN Current.shape |-> Scalar("integer", Current.shape[d])]

OverrideFits ==
  /\ Len(Override) = Len(Current.shape)
  /\ \A d \in DOMAIN Override : IsDimension(Override[d])

override_shape ==
  /\ MoreValues /\ OverrideFits
  /\ shapes' = Append(shapes, [d \in DOMAIN Current.shape |->
                                 IF d \in DOMAIN Override THEN Override[d].value ELSE Current.shape[d]])
  /\ UNCHANGED <<sourceVars, pc, ort, registered, cudaVars, ort_session, echo>>

\* The size differs or a dimension is not a number: the constructor it was
\* delegated to has finished, so ~session runs.
OverrideFails ==
  /\ MoreValues /\ ~OverrideFits
  /\ ort_session' = FALSE
  /\ Throw /\ UNCHANGED handle

\* Mutation: the overrides stay in _option.
LoopEndsAndKeeps ==
  /\ pc \in {"inputs", "outputs"} /\ ~MoreValues
  /\ pc' = IF pc = "inputs" THEN "outputs" ELSE "built"
  /\ UNCHANGED <<sourceVars, ort, registered, cudaVars, ort_session, shapes, echo>>

\* _option loses input_shape after the inputs, output_shape after the outputs.
LoopEnds ==
  /\ pc \in {"inputs", "outputs"} /\ ~MoreValues
  /\ echo' = [echo EXCEPT !.overrides = @ \ {Side}]
  /\ pc' = IF pc = "inputs" THEN "outputs" ELSE "built"
  /\ UNCHANGED <<sourceVars, ort, registered, cudaVars, ort_session, shapes>>

Next ==
  \/ \E e \in Entries : ReadEntry(e)
  \/ CreateFromList \/ apply_session_options \/ RegisterExtension \/ RegisterFails
  \/ SkipCuda \/ CreateHandle \/ CudaUnavailable \/ update_all \/ CudaFails
  \/ AppendProvider \/ ReadBack
  \/ LoadModel \/ LoadFails \/ override_shape \/ OverrideFails \/ LoopEnds

Spec == Init /\ [][Next]_vars

-----------------------------------------------------------------------------
(* Reference definitions. *)

\* An entry concerns a path: its own, one above it or one below it.
Concerns(e, path) == IsPrefix(e.path, path) \/ IsPrefix(path, e.path)

\* What an item says of a path: the value of its last entry, unless one that
\* concerns it comes later.
Said(path) ==
  {list[k].value : k \in {k \in DOMAIN list :
     list[k].path = path /\ \A j \in DOMAIN list : k < j => ~Concerns(list[j], path)}}

\* An entry that makes something else of extensions.
Spoils(e) == e.path[1] = "extensions" /\ ~IsExtension(e)

\* Where an item names libraries that count, and where a request does.
ListNames == {k \in DOMAIN list : IsExtension(list[k]) /\ \A j \in DOMAIN list : k < j => ~Spoils(list[j])}
RequestNames(items) == {k \in DOMAIN items : items[k].kind = "string"}

Named ==
  IF list # <<>> THEN [k \in ListNames |-> list[k].value]
  ELSE [k \in RequestNames(ToCollect(option)) |-> ToCollect(option)[k]]

\* Everything a function names, each once, in the order of the first places.
OnceInOrder(s, names) ==
  /\ Range(s) = Range(names)
  /\ \A j, k \in DOMAIN s : j < k =>
       \E a \in DOMAIN names : names[a] = s[j] /\ \A b \in DOMAIN names : names[b] = s[k] => a < b

\* The shape of the k-th value is the one given for it, or the model's.
ShapeIsWhole(k) ==
  LET value == ModelValues[k]
      given == Get(Get(option, value.side), value.name)
  IN  IF Has(option, value.side) /\ Has(Get(option, value.side), value.name) /\ IsArray(given)
      THEN /\ shapes[k] = [d \in DOMAIN given.items |-> given.items[d].value]
           /\ Len(given.items) = Len(value.shape)
           /\ \A d \in DOMAIN given.items : given.items[d].kind = "integer"
      ELSE shapes[k] = value.shape

-----------------------------------------------------------------------------
(* Properties. *)

\* Nothing is in _option but what session::to_json is documented to show, once
\* the session is built.
TypeOK ==
  /\ list \in Seq(Entries) /\ Len(list) <= MaxEntries /\ IsObject(option)
  /\ pc \in {"list", "settings", "extensions", "cuda", "update", "append", "readback", "load",
              "inputs", "outputs", "built", "failed"}
  /\ ort_session \in BOOLEAN
  /\ \A cuda \in {handle, ep, echo.cuda} : DOMAIN cuda = {"on", "opts"} /\ cuda.on \in BOOLEAN
  /\ Sequence(shapes) /\ Len(shapes) <= Len(ModelValues)
  /\ DOMAIN echo = {"cuda", "settings", "extensions", "overrides"} /\ echo.overrides \subseteq Sides
  /\ pc = "built" => echo.overrides = {}

\* The entries of an item are settings of their own: the last one of a path
\* wins, an entry for a group as a whole or for something inside a value takes
\* its place, and no entry touches its siblings
\* (session_key_with_option.cpp:58-70; "dotted wins (scalar discarded)",
\* unit_test_session.cpp:329).
LastEntryWins ==
  pc # "list" /\ list # <<>> =>
    \A n \in Settings :
      {c.value : c \in {c \in Forwarded(SessionOptions) : c.path = <<n>>}} =
        {v \in Said(<<"session_options", n>>) : v.kind \in SettingKinds[n] /\ Meaningful(n, v.value)}

\* The session says of its settings what ONNX Runtime holds: no more, whatever
\* was refused on the way, and no less, but for a config entry that could not be
\* read back (session.cpp:68-77); and of CUDA only what the provider was given.
EchoTellsWhatOrtHolds ==
  pc = "built" =>
    /\ echo.settings \subseteq ort
    /\ \A s \in ort \ echo.settings : IsConfigEntry(s)
    /\ echo.cuda.on = ep.on
    /\ \A k \in DOMAIN echo.cuda.opts : echo.cuda.opts[k] = ep.opts[k]

\* A session has every library it was told to load, each once, in the order
\* they were named: an item and a request, the array and the legacy path alike
\* (session.cpp:252-291, session_key_with_option.cpp:72-81).
LibrariesOnceInOrder ==
  pc = "built" => echo.extensions = registered /\ OnceInOrder(registered, Named)

\* Every CUDA key the caller gave is in force with the value it gave: giving one
\* key does not undo another ("Calling it once with the full key/value set is
\* the only way", cuda/session_options.cpp:26).
CudaKeysSurvive ==
  ep.on => \A k \in DOMAIN CudaKeys : ep.opts[k] = CudaKeys[k]

\* Wherever the construction throws, nothing stays behind: neither the
\* provider's options (cuda/session_options.cpp:133-184) nor the loaded model
\* (session.cpp:387, run because the constructor is a delegating one).
NothingLeftBehind ==
  /\ pc = "failed" => ~ort_session /\ ~handle.on
  /\ pc = "built" => ort_session /\ ~handle.on

\* A session has the shapes of its model, each replaced as a whole or not at
\* all: "any shape whose rank does not match the model's must be rejected"
\* (unit_test_session.cpp:8).
OverridesAreWhole == pc = "built" => \A k \in DOMAIN ModelValues : ShapeIsWhole(k)

\* What was asked for is in force, and the session's account of it is true.
InForceAsTold == EchoTellsWhatOrtHolds /\ CudaKeysSurvive

\* A construction ends with a session that is whole, or with nothing.
WholeOrNothing == NothingLeftBehind /\ OverridesAreWhole

-----------------------------------------------------------------------------
(* The inductive invariant of the proofs. *)

\* An item under way: its libraries are in the array, in order and once, and
\* what is not an object under a setting's path is what the item said of it.
AtSetting(n) ==
  {Get(SessionOptions, m) : m \in {m \in {n} : Has(SessionOptions, m) /\ ~IsObject(Get(SessionOptions, m))}}

ListInv ==
  /\ ArraysAreSequences(option)
  /\ pc = "list" /\ list = <<>> => option = EmptyObject
  /\ list # <<>> =>
       /\ OnceInOrder(ExtensionItems(option), Named)
       /\ \A v \in Range(ExtensionItems(option)) : v.kind = "string"
       /\ Has(option, "ortextensions_path") => Get(option, "ortextensions_path").kind # "string"
       /\ \A n \in Settings : AtSetting(n) = Said(<<"session_options", n>>)

SettingsInv ==
  echo.settings \subseteq ort /\ \A s \in ort \ echo.settings : IsConfigEntry(s)

\* What is registered is a beginning of what was asked for, then all of it.
LibrariesInv ==
  LET wanted == collect_extensions(option) IN
  /\ Sequence(registered)
  /\ pc \in {"list", "settings"} => registered = <<>>
  /\ pc = "extensions" => /\ Len(registered) <= Len(wanted)
                          /\ \A k \in 1..Len(registered) : registered[k] = wanted[k]
  /\ pc \in {"cuda", "update", "append", "readback", "load", "inputs", "outputs", "built"} =>
       registered = wanted /\ echo.extensions = wanted

\* The handle exists between its creation and its release, and from the update
\* on it holds what the caller gave; so does the provider made of it.
Given(opts) == \A k \in DOMAIN CudaKeys : opts[k] = CudaKeys[k]

CudaInv ==
  /\ handle.on <=> pc \in {"update", "append", "readback"}
  /\ handle.on => DOMAIN handle.opts = DOMAIN CudaDefaults
  /\ pc \in {"append", "readback"} => Given(handle.opts)
  /\ pc \in {"list", "settings", "extensions", "cuda", "update", "append"} => ~ep.on
  /\ pc \in {"list", "settings", "extensions", "cuda", "update", "append", "readback"} =>
       ~echo.cuda.on /\ DOMAIN echo.cuda.opts = {}
  /\ pc = "readback" => ep = handle
  /\ ep.on => Given(ep.opts)
  /\ pc \in {"load", "inputs", "outputs", "built"} =>
       echo.cuda.on = ep.on /\ \A k \in DOMAIN echo.cuda.opts : echo.cuda.opts[k] = ep.opts[k]

\* The session exists while the shapes are read; the overrides wait for the end
\* of their loop.
ShapesInv ==
  LET given == {side \in Sides : Has(option, side) /\ IsObject(Get(option, side))} IN
  /\ ort_session <=> pc \in {"inputs", "outputs", "built"}
  /\ \A k \in 1..Len(shapes) : ShapeIsWhole(k)
  /\ pc \in {"inputs", "outputs", "built", "failed"} \/ shapes = <<>>
  /\ pc = "inputs" => echo.overrides = given
  /\ pc = "outputs" =>
       /\ echo.overrides = given \ {"input_shape"}
       /\ \A k \in Len(shapes) + 1..Len(ModelValues) : ModelValues[k].side = "output_shape"
  /\ pc = "built" => Len(shapes) = Len(ModelValues)

IInv == TypeOK /\ ListInv /\ SettingsInv /\ LibrariesInv /\ CudaInv /\ ShapesInv
=============================================================================

------------------------------ MODULE Inference ------------------------------
(***************************************************************************)
(* One execution of a session: the context built from the request's JSON   *)
(* (src/onnx/execution/context.cpp, input_value.cpp), its run in the pool  *)
(* (src/task/execute_session.cpp), and the answer made of the output       *)
(* tensors, with every way to fail and the buffers each of them leaves.    *)
(***************************************************************************)
EXTENDS Tensor, FiniteSets

CONSTANTS Models,      \* bound: the inputs sessions have, in the session's order
          Requests,    \* bound: what clients send
          Outputs,     \* bound: the tensors ONNX Runtime returns
          MaxDim       \* bound: dimensions the properties look at

\* Names are numbers: they order as std::map orders the strings.  Element types
\* are told apart by what they take: "float" is every float but double and every
\* integer of 8 to 32 bits, "int64" is int64, uint64 and double.
InputInfos == [name : Nat, type : {"float", "int64", "bool", "string", "complex"},
               declared : Seq(Int), shape : Seq(Int)]
\* A model does not name two of its inputs alike.
ASSUME ModelsAssumption ==
  \A m \in Models : m \in Seq(InputInfos) /\ \A j, k \in DOMAIN m : m[j].name = m[k].name => j = k
\* Where a dimension of a bool input is known, it is not 0, by which the batch is divided.
ASSUME BoolAssumption ==
  \A m \in Models : \A k \in DOMAIN m : m[k].type = "bool" =>
    \A d \in DOMAIN m[k].shape : m[k].shape[d] = Dynamic \/ m[k].shape[d] > 0
ASSUME RequestsAssumption ==
  \A r \in Requests : \A n \in DOMAIN r.values : r.values[n] \in Jsons
ASSUME DimAssumption == MaxDim \in Nat
ASSUME OutputsAssumption ==
  \A o \in Outputs : /\ o.type \in {"float", "uint4", "int4", "uint2", "int2"}
                     /\ o.shape \in Seq(Nat) /\ Len(o.values) = Product(o.shape)

VARIABLES
  model,    \* session->inputs()
  request,  \* the dataset as sent: its form, and the values by name
  pc,       \* where the execution is
  i,        \* the input to build next
  inputs,   \* context::inputs: name to tensor
  heap,     \* names whose values are allocated and not released
  args,     \* the tensors handed to Ort::Session::Run
  output    \* the answer: the output tensor, and the JSON made of it

vars == <<model, request, pc, i, inputs, heap, args, output>>

None == <<>>
Info == model[i]
Data(name) == IF name \in DOMAIN request.values THEN request.values[name] ELSE Null

Init ==
  /\ model \in Models /\ request \in Requests
  /\ pc = "parse" /\ i = 1
  /\ inputs = None /\ heap = {} /\ args = None /\ output = None

-----------------------------------------------------------------------------
(* context::context *)

\* A string is parsed once more; what is not an object then is refused.
ParseDataset ==
  /\ pc = "parse"
  /\ pc' = IF request.form \in {"object", "quoted object"} THEN "inputs" ELSE "rejected"
  /\ UNCHANGED <<model, request, i, inputs, heap, args, output>>

\* json::get<T>: the library's own number types take numbers only, the other
\* arithmetic types booleans, too.
Takes(type) ==
  CASE type = "float" -> {"number", "boolean"} [] type = "int64" -> {"number"}
    [] type = "bool" -> {"boolean"} [] OTHER -> {"text"}
Converts(type, leaf) == ~IsArray(leaf) /\ leaf.kind \in Takes(type)

\* Mutation: a tensor of any rank is built.
RankIsAnything(data, info) == TRUE

RankFits(data, info) == Len(calcShape(data, Len(info.shape))) = Len(info.shape)

\* A bool input has the session's shape with its batch filled in, every other
\* input the shape of its JSON.
TensorShape(data, info) ==
  IF info.type = "bool"
  THEN batched_shape(info.shape, Len(flat_json_values(data)))
  ELSE calcShape(data, Len(info.shape))

\* Refused before anything is allocated.
RejectInput ==
  /\ pc = "inputs" /\ i <= Len(model)
  /\ \/ ~IsArray(Data(Info.name))
     \/ ~RankFits(Data(Info.name), Info)
     \/ Info.type = "complex"
  /\ pc' = "rejected"
  /\ UNCHANGED <<model, request, i, inputs, heap, args, output>>

Buildable ==
  /\ pc = "inputs" /\ i <= Len(model)
  /\ IsArray(Data(Info.name)) /\ RankFits(Data(Info.name), Info) /\ Info.type # "complex"

TensorAccepted ==
  LET values == flat_json_values(Data(Info.name))
  IN  /\ \A k \in DOMAIN values : Converts(Info.type, values[k])
      /\ CreateTensorAccepts(TensorShape(Data(Info.name), Info), Len(values))

\* A value does not convert or ONNX Runtime refuses the tensor: input_value's
\* constructor throws, and nobody owns the values it allocated.
ThrowInInput ==
  /\ Buildable /\ ~TensorAccepted
  /\ heap' = heap \cup {Info.name}
  /\ pc' = "rejected"
  /\ UNCHANGED <<model, request, i, inputs, args, output>>

BuildInput ==
  /\ Buildable /\ TensorAccepted
  /\ heap' = heap \cup {Info.name}
  /\ inputs' = [n \in DOMAIN inputs \cup {Info.name} |->
                  IF n # Info.name THEN inputs[n]
                  ELSE [name |-> n, shape |-> TensorShape(Data(n), Info),
                        values |-> flat_json_values(Data(n))]]
  /\ i' = i + 1
  /\ UNCHANGED <<model, request, pc, args, output>>

-----------------------------------------------------------------------------
(* execute_session::run, and the worker that runs the task *)

\* enqueue; a stopped pool throws and ~context releases the values.
Enqueue ==
  /\ pc = "inputs" /\ i > Len(model)
  /\ \/ pc' = "queued" /\ UNCHANGED heap
     \/ pc' = "failed" /\ heap' = {}
  /\ UNCHANGED <<model, request, i, inputs, args, output>>

\* flush() or the end of the pool breaks the promise; get() throws.
Dropped ==
  /\ pc = "queued"
  /\ pc' = "failed" /\ heap' = {}
  /\ UNCHANGED <<model, request, i, inputs, args, output>>

\* The order of session->inputs().
Arguments == [k \in DOMAIN model |-> inputs[model[k].name]]

\* Mutation: the values are released with the tensors that leave the map.
RunAndRelease ==
  /\ pc = "queued"
  /\ args' = Arguments
  /\ heap' = {}
  /\ pc' = "running"
  /\ UNCHANGED <<model, request, i, inputs, output>>

\* context::run: the tensors move into the argument list, their values stay.
Run ==
  /\ pc = "queued"
  /\ args' = Arguments
  /\ pc' = "running"
  /\ UNCHANGED <<model, request, i, inputs, heap, output>>

\* What Ort::Session::Run checks: rank and fixed dimensions of the model.
RunAccepts ==
  \A k \in DOMAIN args :
    /\ Len(args[k].shape) = Len(model[k].declared)
    /\ \A d \in DOMAIN args[k].shape :
         model[k].declared[d] \in {Dynamic, args[k].shape[d]}

\* Run throws (it may for other reasons, too); the exception reaches the client
\* through the future and ~context releases the values.
RunFails ==
  /\ pc = "running"
  /\ pc' = "failed" /\ heap' = {}
  /\ UNCHANGED <<model, request, i, inputs, args, output>>

RunReturns ==
  /\ pc = "running" /\ RunAccepts
  /\ \E o \in Outputs : output' = [tensor |-> o, json |-> Null]
  /\ pc' = "convert"
  /\ UNCHANGED <<model, request, i, inputs, heap, args>>

\* tensors_to_json, then the end of the context.
Answer ==
  /\ pc = "convert"
  /\ LET o == output.tensor IN
     output' = [output EXCEPT !.json =
                  Arr(get_tensor_data(o.type, Packed(o.type, o.values), o.shape))]
  /\ pc' = "answered" /\ heap' = {}
  /\ UNCHANGED <<model, request, i, inputs, args>>

Next == \/ ParseDataset \/ RejectInput \/ ThrowInInput \/ BuildInput
        \/ Enqueue \/ Dropped \/ Run \/ RunFails \/ RunReturns \/ Answer

Spec == Init /\ [][Next]_vars

-----------------------------------------------------------------------------
(* Properties. *)

Names == {model[k].name : k \in DOMAIN model}

\* The rank check comes before the values: what reaches ONNX Runtime has the
\* rank of the session's input and no more elements than values.
TypeOK ==
  /\ model \in Models /\ request \in Requests
  /\ pc \in {"parse", "inputs", "rejected", "queued", "running", "failed", "convert", "answered"}
  /\ i \in 1..Len(model) + 1
  /\ heap \subseteq Names
  /\ \A k \in 1..i - 1 :
       LET t == inputs[model[k].name] IN
       /\ Len(t.shape) = Len(model[k].shape)
       /\ \A d \in DOMAIN t.shape : t.shape[d] >= 0
       /\ Product(t.shape) <= Len(t.values)

Dims(n) == [1..n -> 1..MaxDim]

\* An input whose JSON is an array of the session's rank, or of one dimension
\* less, with all rows of the same length, becomes a tensor of these dimensions
\* (the missing one is 1) with every value in its row-major place
\* (context.cpp:58-88).  Ragged and deeper arrays carry no such promise: some
\* are accepted and cut, and some flatter ones are filled up with further 1s.
InputsKeepTheirShape ==
  \A k \in 1..i - 1 :
    LET info == model[k]
        t == inputs[info.name]
        json == Data(info.name)
        rank == Len(info.shape)
    IN  info.type # "bool" =>
          /\ \A dims \in Dims(rank) :
               HasDims(json, dims, Takes(info.type)) => t.shape = dims /\ json = Nest(dims, t.values)
          /\ rank > 1 => \A dims \in Dims(rank - 1) :
               HasDims(json, dims, Takes(info.type)) =>
                 t.shape = Append(dims, 1) /\ json = Nest(dims, t.values)

\* The dimensions are those of the shape, in which at most one is left open.
Suits(dims, shape) ==
  /\ \A d \in DOMAIN dims : shape[d] \in {Dynamic, dims[d]}
  /\ \A d, e \in DOMAIN dims : shape[d] = Dynamic /\ shape[e] = Dynamic => d = e

\* A request is refused only for a reason its client can see: it is not an
\* object, or one of the inputs has a type the server does not take, or is not
\* an array with equal rows of the session's rank and values that convert, or
\* (bool) does not fit the fixed dimensions, or has two that are not fixed.
GoodDataAccepted ==
  pc = "rejected" =>
    \/ request.form \notin {"object", "quoted object"}
    \/ Info.type = "complex" \/ ~IsArray(Data(Info.name))
    \/ ~\E dims \in Dims(Len(Info.shape)) :
          /\ HasDims(Data(Info.name), dims, Takes(Info.type))
          /\ Info.type = "bool" => Suits(dims, Info.shape)

\* Each argument of Run is made of the data of the input the model has at that
\* place: "iterate in session-defined order, not map alphabetical order"
\* (context.cpp:94).
InputsInSessionOrder ==
  args # None =>
    /\ Len(args) = Len(model)
    /\ \A k \in DOMAIN model :
         args[k].name = model[k].name /\ args[k].values = flat_json_values(Data(model[k].name))

\* A bool tensor with one dynamic dimension holds exactly the values sent
\* (input_value.cpp:124-147): none is cut off, none is made up.
BoolBatchIsExact ==
  \A k \in 1..i - 1 :
    LET t == inputs[model[k].name] IN
    model[k].type = "bool" /\ Contains(model[k].shape, Dynamic) => Product(t.shape) = Len(t.values)

\* Every input gets to its place with its own shape and values.
InputsArriveWhole == InputsKeepTheirShape /\ BoolBatchIsExact /\ InputsInSessionOrder

\* While ONNX Runtime runs, the values its tensors point to exist: the tensors
\* do not own them, and left the object that does (context.cpp:96).
BuffersLiveDuringRun ==
  pc = "running" => \A k \in DOMAIN args : args[k].name \in heap

\* No execution leaves memory behind but one whose context could not be built
\* (context.cpp:48: the destructor of an object that was never constructed does
\* not run), and that one only if an input had been built, or was just being.
OnlyRejectedLeak ==
  /\ pc \in {"failed", "answered"} => heap = {}
  /\ pc = "rejected" => heap \in {DOMAIN inputs, DOMAIN inputs \cup {Info.name}}

\* Values are there exactly as long as they are needed.
ValuesLiveAsNeeded == BuffersLiveDuringRun /\ OnlyRejectedLeak

\* "values_fit_shape must nest the flat data according to the tensor's
\* dimensions" (unit_test_value_info.cpp:273), and the values are those the
\* tensor was made of, sub-byte integers included.
OutputHasItsShape ==
  pc = "answered" =>
    LET o == output.tensor IN
    output.json = Nest(o.shape, [k \in DOMAIN o.values |-> Leaf("number", o.values[k])])

-----------------------------------------------------------------------------
(* The inductive invariant of the proofs. *)

\* The inputs built are the first i - 1, each under its own name and made of an
\* array.
InputsInv ==
  /\ DOMAIN inputs = {model[k].name : k \in 1..i - 1}
  /\ \A n \in DOMAIN inputs :
       inputs[n].name = n /\ inputs[n].values = flat_json_values(Data(n)) /\ IsArray(Data(n))
  /\ \A k \in 1..i - 1 : inputs[model[k].name].shape = TensorShape(Data(model[k].name), model[k])

\* The arguments are made when every input is there, and of all of them.
ArgsInv ==
  /\ pc \in {"parse", "inputs", "queued", "rejected"} => args = None
  /\ pc = "parse" => i = 1
  /\ pc \in {"queued", "running", "convert", "answered"} => i = Len(model) + 1
  /\ pc \in {"running", "convert", "answered"} => args = Arguments
  /\ args # None => i = Len(model) + 1 /\ args = Arguments

\* The values are those of the inputs built, until they are released.
HeapInv ==
  /\ pc \in {"parse", "inputs", "queued", "running", "convert"} => heap = DOMAIN inputs
  /\ OnlyRejectedLeak

\* What a context is refused for.
RejectedInv ==
  pc = "rejected" =>
    \/ request.form \notin {"object", "quoted object"}
    \/ /\ i <= Len(model)
       /\ \/ ~IsArray(Data(Info.name)) \/ ~RankFits(Data(Info.name), Info)
          \/ Info.type = "complex" \/ ~TensorAccepted

\* What is answered is made of one tensor that ONNX Runtime returned.
OutputInv ==
  /\ pc = "convert" => \E o \in Outputs : output = [tensor |-> o, json |-> Null]
  /\ pc = "answered" =>
       \E o \in Outputs :
         output = [tensor |-> o,
                   json |-> Arr(get_tensor_data(o.type, Packed(o.type, o.values), o.shape))]

IInv == TypeOK /\ InputsInv /\ ArgsInv /\ HeapInv /\ RejectedInv /\ OutputInv
=============================================================================

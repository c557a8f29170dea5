---------------------------- MODULE InferenceProofs ----------------------------
(***************************************************************************)
(* The invariants of Inference for every model, every request and every    *)
(* nesting and size of the values in it: ranks, the order of the arguments *)
(* and the life of the values; what the functions of Tensor do with        *)
(* packed integers, with the values and the dimensions of an array, with   *)
(* the batch of a bool input and with the nesting of an output; and from   *)
(* these that inputs arrive whole and that no good request is refused.     *)
(***************************************************************************)
EXTENDS Inference, WellFoundedInduction, TLAPS

-----------------------------------------------------------------------------
(* Types. *)

\* The inputs of a model, one by one.
LEMMA ModelFacts ==
  ASSUME model \in Models
  PROVE  /\ Len(model) \in Nat /\ DOMAIN model = 1..Len(model)
         /\ \A k \in 1..Len(model) : model[k] \in InputInfos /\ model[k].shape \in Seq(Int)
         /\ \A j, k \in 1..Len(model) : model[j].name = model[k].name => j = k
<1>1. model \in Seq(InputInfos) /\ \A j, k \in DOMAIN model : model[j].name = model[k].name => j = k
  BY ModelsAssumption
<1>2. \A v \in InputInfos : v.shape \in Seq(Int)
  BY DEF InputInfos
<1>3. /\ Len(model) \in Nat /\ DOMAIN model = 1..Len(model)
      /\ \A k \in 1..Len(model) : model[k] \in InputInfos
  <2> HIDE DEF InputInfos
  <2> QED BY <1>1
<1> QED BY <1>1, <1>2, <1>3

\* What is built has the rank of the session's input.
LEMMA TensorRank ==
  ASSUME NEW data, NEW info, info.shape \in Seq(Int), RankFits(data, info)
  PROVE  Len(TensorShape(data, info)) = Len(info.shape)
<1>1. CASE info.type = "bool"
  <2> DEFINE s == info.shape
             n == Len(flat_json_values(data))
  <2>1. TensorShape(data, info) = batched_shape(s, n)
    BY <1>1 DEF TensorShape
  <2>2. \A p, b : Len([s EXCEPT ![p] = b]) = Len(s)
    <3>1. DOMAIN s = 1..Len(s) /\ Len(s) \in Nat
      OBVIOUS
    <3>2. \A p, b : DOMAIN [s EXCEPT ![p] = b] = 1..Len(s)
      BY <3>1
    <3> QED BY <3>1, <3>2
  <2>3. Len(batched_shape(s, n)) = Len(s)
    <3> HIDE DEF s, n
    <3> QED BY <2>2 DEF batched_shape
  <2> QED BY <2>1, <2>3
<1>2. CASE info.type # "bool"
  BY <1>2 DEF TensorShape, RankFits
<1> QED BY <1>1, <1>2

\* The input built in a step, and those built before it.
LEMMA BuiltInput ==
  ASSUME TypeOK, BuildInput
  PROVE  /\ i \in 1..Len(model) /\ i' = i + 1 /\ UNCHANGED <<model, request, pc, args>>
         /\ pc = "inputs" /\ heap' = heap \cup {model[i].name}
         /\ DOMAIN inputs' = DOMAIN inputs \cup {model[i].name}
         /\ \A n \in DOMAIN inputs : n # model[i].name => inputs'[n] = inputs[n]
         /\ inputs'[model[i].name] = [name |-> model[i].name,
                                      shape |-> TensorShape(Data(model[i].name), model[i]),
                                      values |-> flat_json_values(Data(model[i].name))]
         /\ RankFits(Data(model[i].name), model[i]) /\ TensorAccepted /\ IsArray(Data(model[i].name))
<1>1. i \in Nat /\ i >= 1 /\ i <= Len(model) /\ Len(model) \in Nat
  <2>1. model \in Models /\ i \in 1..Len(model) + 1 /\ i <= Len(model)
    BY DEF TypeOK, BuildInput, Buildable
  <2>2. Len(model) \in Nat
    BY <2>1, ModelFacts
  <2> QED BY <2>1, <2>2
<1>2. i \in 1..Len(model)
  BY <1>1
<1>3. inputs' = [n \in DOMAIN inputs \cup {Info.name} |->
                   IF n # Info.name THEN inputs[n]
                   ELSE [name |-> n, shape |-> TensorShape(Data(n), Info),
                         values |-> flat_json_values(Data(n))]]
  BY DEF BuildInput
<1> HIDE DEF TypeOK
<1>4. /\ DOMAIN inputs' = DOMAIN inputs \cup {Info.name}
      /\ \A n \in DOMAIN inputs : n # Info.name => inputs'[n] = inputs[n]
      /\ inputs'[Info.name] = [name |-> Info.name, shape |-> TensorShape(Data(Info.name), Info),
                               values |-> flat_json_values(Data(Info.name))]
  BY <1>3
<1> QED BY <1>2, <1>4 DEF BuildInput, Buildable, Info

\* The numbers of the inputs after one more is built.
LEMMA OneMoreBuilt ==
  ASSUME TypeOK, BuildInput
  PROVE  /\ i - 1 \in Nat /\ i' - 1 = i /\ i' \in 1..Len(model) + 1
         /\ \A k \in 1..i : k \in 1..i - 1 \/ k = i
         /\ \A k \in 1..i - 1 : k \in 1..Len(model) /\ k \in 1..i /\ model[k].name # model[i].name
<1>1. model \in Models
  BY DEF TypeOK
<1>2. i \in 1..Len(model) /\ i' = i + 1 /\ Len(model) \in Nat
  BY <1>1, BuiltInput, ModelFacts
<1>3. \A k \in 1..i - 1 : k \in 1..Len(model) /\ k \in 1..i /\ k # i
  BY <1>2
<1>4. \A k \in 1..i - 1 : model[k].name # model[i].name
  BY <1>1, <1>2, <1>3, ModelFacts
<1>5. i - 1 \in Nat /\ i' - 1 = i /\ i' \in 1..Len(model) + 1 /\ \A k \in 1..i : k \in 1..i - 1 \/ k = i
  BY <1>2
<1> QED BY <1>3, <1>4, <1>5

\* Every step but the one that builds an input leaves the inputs alone.
LEMMA InputsStay ==
  ASSUME [Next]_vars, ~BuildInput
  PROVE  UNCHANGED <<model, request, i, inputs>>
BY DEF Next, vars, ParseDataset, RejectInput, ThrowInInput, Enqueue, Dropped, Run, RunFails, RunReturns, Answer

\* Every step preserves the types.
LEMMA TypeStep ==
  ASSUME TypeOK, InputsInv, [Next]_vars PROVE TypeOK'
<1> DEFINE Whole(k) == LET t == inputs[model[k].name] IN
                       /\ Len(t.shape) = Len(model[k].shape)
                       /\ \A d \in DOMAIN t.shape : t.shape[d] >= 0
                       /\ Product(t.shape) <= Len(t.values)
           Places == {"parse", "inputs", "rejected", "queued", "running", "failed", "convert", "answered"}
<1>1. /\ model \in Models /\ request \in Requests /\ pc \in Places /\ i \in 1..Len(model) + 1
      /\ heap \subseteq Names /\ \A k \in 1..i - 1 : Whole(k)
  BY DEF TypeOK
<1>2. CASE BuildInput
  <2> DEFINE new == inputs'[model[i].name]
  <2>1. /\ i \in 1..Len(model) /\ i' = i + 1 /\ UNCHANGED <<model, request, pc>>
        /\ heap' = heap \cup {model[i].name}
        /\ \A n \in DOMAIN inputs : n # model[i].name => inputs'[n] = inputs[n]
        /\ new = [name |-> model[i].name, shape |-> TensorShape(Data(model[i].name), model[i]),
                  values |-> flat_json_values(Data(model[i].name))]
        /\ RankFits(Data(model[i].name), model[i]) /\ TensorAccepted
    BY <1>2, BuiltInput
  <2>2. model[i].shape \in Seq(Int) /\ DOMAIN model = 1..Len(model)
    BY <1>1, <2>1, ModelFacts
  <2>3. new.shape = TensorShape(Data(model[i].name), model[i]) /\ new.values = flat_json_values(Data(model[i].name))
    BY <2>1
  <2>4. Len(new.shape) = Len(model[i].shape)
    BY <2>1, <2>2, <2>3, TensorRank
  <2>5. CreateTensorAccepts(new.shape, Len(new.values))
    BY <2>1, <2>3 DEF TensorAccepted, Info
  <2> HIDE DEF new
  <2>6. /\ \A d \in DOMAIN new.shape : new.shape[d] >= 0
        /\ Product(new.shape) <= Len(new.values)
    BY <2>5 DEF CreateTensorAccepts
  <2>7. ASSUME NEW k \in 1..i' - 1
        PROVE  LET t == inputs'[model[k].name] IN
               /\ Len(t.shape) = Len(model[k].shape)
               /\ \A d \in DOMAIN t.shape : t.shape[d] >= 0
               /\ Product(t.shape) <= Len(t.values)
    <3>1. k \in 1..i - 1 \/ k = i
      BY <1>2, <2>7, OneMoreBuilt
    <3>2. CASE k = i
      BY <2>4, <2>6, <3>2 DEF new
    <3>3. CASE k \in 1..i - 1
      <4>1. model[k].name \in DOMAIN inputs /\ model[k].name # model[i].name
        BY <1>2, <3>3, OneMoreBuilt DEF InputsInv
      <4>2. inputs'[model[k].name] = inputs[model[k].name]
        BY <2>1, <4>1
      <4> QED BY <1>1, <3>3, <4>2
    <3> QED BY <3>1, <3>2, <3>3
  <2>8. heap' \subseteq Names /\ Names' = Names
    BY <1>1, <2>1, <2>2 DEF Names
  <2>9. i' \in 1..Len(model) + 1
    BY <1>2, OneMoreBuilt
  <2> QED BY <1>1, <2>1, <2>7, <2>8, <2>9 DEF TypeOK
<1>3. CASE ~BuildInput
  <2>1. UNCHANGED <<model, request, i, inputs>>
    BY <1>3, InputsStay
  <2>2. pc' \in Places
    BY <1>1, <1>3 DEF Next, vars, ParseDataset, RejectInput, ThrowInInput, Enqueue, Dropped, Run, RunFails,
                      RunReturns, Answer
  <2>3. heap' \in {heap, {}, heap \cup {Info.name}} /\ (heap' = heap \cup {Info.name} => heap' = heap \/ ThrowInInput)
    BY <1>3 DEF Next, vars, ParseDataset, RejectInput, ThrowInInput, Enqueue, Dropped, Run, RunFails,
                RunReturns, Answer
  <2>4. ThrowInInput => Info.name \in Names
    <3>1. SUFFICES ASSUME ThrowInInput PROVE Info.name \in Names
      OBVIOUS
    <3>2. i \in 1..Len(model) + 1 /\ i <= Len(model) /\ Len(model) \in Nat /\ DOMAIN model = 1..Len(model)
      BY <1>1, <3>1, ModelFacts DEF ThrowInInput, Buildable
    <3>3. i \in 1..Len(model)
      BY <3>2
    <3> QED BY <3>2, <3>3 DEF Names, Info
  <2>5. heap' \subseteq Names /\ Names' = Names
    BY <1>1, <2>1, <2>3, <2>4 DEF Names
  <2> QED BY <1>1, <2>1, <2>2, <2>5 DEF TypeOK
<1> QED BY <1>2, <1>3

-----------------------------------------------------------------------------
(* The inputs, the arguments and the values. *)

\* The inputs built are the first ones, each under its own name.
LEMMA InputsStep ==
  ASSUME TypeOK, InputsInv, [Next]_vars PROVE InputsInv'
<1>1. CASE BuildInput
  <2>1. /\ DOMAIN inputs' = DOMAIN inputs \cup {model[i].name}
        /\ \A n \in DOMAIN inputs : n # model[i].name => inputs'[n] = inputs[n]
        /\ inputs'[model[i].name] = [name |-> model[i].name,
                                     shape |-> TensorShape(Data(model[i].name), model[i]),
                                     values |-> flat_json_values(Data(model[i].name))]
        /\ UNCHANGED <<model, request>>
    BY <1>1, BuiltInput
  <2>2. {model[k].name : k \in 1..i' - 1} = {model[k].name : k \in 1..i - 1} \cup {model[i].name}
    <3>1. i' - 1 = i /\ i \in 1..i
      <4>1. i - 1 \in Nat /\ i' - 1 = i /\ i \in 1..Len(model)
        BY <1>1, OneMoreBuilt, BuiltInput
      <4> QED BY <4>1
    <3>2. /\ \A k \in 1..i : k \in 1..i - 1 \/ k = i
          /\ \A k \in 1..i - 1 : k \in 1..i
      BY <1>1, OneMoreBuilt
    <3> QED BY <3>1, <3>2
  <2>3. DOMAIN inputs' = {model[k].name : k \in 1..i' - 1}
    BY <2>1, <2>2 DEF InputsInv
  <2>4. /\ inputs'[model[i].name].name = model[i].name
        /\ inputs'[model[i].name].shape = TensorShape(Data(model[i].name), model[i])
        /\ inputs'[model[i].name].values = flat_json_values(Data(model[i].name))
        /\ IsArray(Data(model[i].name))
    BY <1>1, <2>1, BuiltInput
  <2>5. \A n \in DOMAIN inputs' :
          inputs'[n].name = n /\ inputs'[n].values = flat_json_values(Data(n)) /\ IsArray(Data(n))
    BY <2>1, <2>4 DEF InputsInv
  <2>6. \A n : Data(n)' = Data(n)
    BY <2>1 DEF Data
  <2>7. \A n \in DOMAIN inputs' :
          inputs'[n].name = n /\ inputs'[n].values = flat_json_values(Data(n)') /\ IsArray(Data(n)')
    BY <2>5, <2>6
  <2>8. (DOMAIN inputs = {model[k].name : k \in 1..i - 1})'
    BY <2>1, <2>3
  <2>9. \A k \in 1..i' - 1 : inputs'[model[k].name].shape = TensorShape(Data(model[k].name), model[k])
    <3>1. i' - 1 = i /\ \A k \in 1..i : k \in 1..i - 1 \/ k = i
      BY <1>1, OneMoreBuilt
    <3>2. \A k \in 1..i - 1 : model[k].name \in DOMAIN inputs /\ model[k].name # model[i].name
      BY <1>1, OneMoreBuilt DEF InputsInv
    <3>3. \A k \in 1..i - 1 : inputs'[model[k].name].shape = TensorShape(Data(model[k].name), model[k])
      BY <2>1, <3>2 DEF InputsInv
    <3> QED BY <2>4, <3>1, <3>3
  <2>10. (\A k \in 1..i - 1 : inputs[model[k].name].shape = TensorShape(Data(model[k].name), model[k]))'
    BY <2>1, <2>9, <2>6 DEF TensorShape
  <2> QED BY <2>7, <2>8, <2>10 DEF InputsInv
<1>2. CASE ~BuildInput
  <2>1. UNCHANGED <<model, request, i, inputs>>
    BY <1>2, InputsStay
  <2>2. \A n : Data(n)' = Data(n)
    BY <2>1 DEF Data
  <2> QED BY <2>1, <2>2 DEF InputsInv
<1> QED BY <1>1, <1>2

\* The arguments are made when every input is there.
LEMMA ArgsStep ==
  ASSUME TypeOK, InputsInv, ArgsInv, [Next]_vars PROVE ArgsInv'
<1>1. CASE BuildInput
  <2>1. pc = "inputs" /\ UNCHANGED <<pc, args>>
    BY <1>1, BuiltInput
  <2>2. args = None
    BY <2>1 DEF ArgsInv
  <2> QED BY <2>1, <2>2 DEF ArgsInv, None
<1>2. CASE ~BuildInput
  <2>1. UNCHANGED <<model, i, inputs>> /\ Arguments' = Arguments
    BY <1>2, InputsStay DEF Arguments
  <2>2. CASE ParseDataset \/ RejectInput \/ ThrowInInput
    BY <2>1, <2>2 DEF ParseDataset, RejectInput, ThrowInInput, Buildable, ArgsInv, None
  <2>3. CASE Enqueue
    <3>1. i \in 1..Len(model) + 1 /\ i > Len(model) /\ Len(model) \in Nat
      BY <2>3, ModelFacts DEF Enqueue, TypeOK
    <3>2. i = Len(model) + 1
      BY <3>1
    <3> QED BY <2>1, <2>3, <3>2 DEF Enqueue, ArgsInv, None
  <2>4. CASE Run
    BY <2>1, <2>4 DEF Run, ArgsInv
  <2>5. CASE Dropped \/ RunFails \/ RunReturns \/ Answer
    BY <2>1, <2>5 DEF Dropped, RunFails, RunReturns, Answer, ArgsInv, None
  <2>6. CASE UNCHANGED vars
    BY <2>6 DEF vars, ArgsInv, None, Arguments
  <2> QED BY <1>2, <2>2, <2>3, <2>4, <2>5, <2>6 DEF Next
<1> QED BY <1>1, <1>2

\* The values are those of the inputs built, until they are released.
LEMMA HeapStep ==
  ASSUME TypeOK, HeapInv, [Next]_vars PROVE HeapInv'
<1>1. CASE BuildInput
  <2>1. /\ heap' = heap \cup {model[i].name} /\ DOMAIN inputs' = DOMAIN inputs \cup {model[i].name}
        /\ pc = "inputs" /\ pc' = pc
    BY <1>1, BuiltInput
  <2> QED BY <2>1 DEF HeapInv, OnlyRejectedLeak
<1>2. CASE ~BuildInput
  <2>1. UNCHANGED <<model, i, inputs>> /\ Info' = Info
    BY <1>2, InputsStay DEF Info
  <2> QED
    BY <1>2, <2>1
    DEF Next, vars, ParseDataset, RejectInput, ThrowInInput, Buildable, Enqueue, Dropped, Run, RunFails, RunReturns,
        Answer, HeapInv, OnlyRejectedLeak
<1> QED BY <1>1, <1>2

\* What is refused is refused for what the code looks at.
LEMMA RejectedStep ==
  ASSUME TypeOK, RejectedInv, [Next]_vars
  PROVE  RejectedInv'
<1> DEFINE Refused == \/ request.form \notin {"object", "quoted object"}
                      \/ /\ i <= Len(model)
                         /\ \/ ~IsArray(Data(Info.name)) \/ ~RankFits(Data(Info.name), Info)
                            \/ Info.type = "complex" \/ ~TensorAccepted
<1>1. CASE pc' # "rejected"
  BY <1>1 DEF RejectedInv
<1>2. CASE pc' = "rejected"
  <2>1. ~BuildInput
    <3>1. ASSUME BuildInput PROVE pc' = "inputs"
      BY <3>1 DEF BuildInput, Buildable
    <3> QED BY <1>2, <3>1
  <2>2. UNCHANGED <<model, request, i>>
    BY <2>1, InputsStay
  <2>3. Refused' = Refused
    BY <2>2 DEF Data, Info, TensorAccepted
  <2>4. Refused
    <3>1. CASE ParseDataset
      BY <1>2, <3>1 DEF ParseDataset
    <3>2. CASE RejectInput
      BY <3>2 DEF RejectInput
    <3>3. CASE ThrowInInput
      BY <3>3 DEF ThrowInInput, Buildable
    <3>4. CASE pc = "rejected"
      BY <3>4 DEF RejectedInv
    <3> QED
      BY <1>2, <2>1, <3>1, <3>2, <3>3, <3>4
      DEF Next, vars, Enqueue, Dropped, Run, RunFails, RunReturns, Answer
  <2> QED BY <1>2, <2>3, <2>4 DEF RejectedInv
<1> QED BY <1>1, <1>2

\* An output appears when Run returns, and changes when it is answered.
LEMMA OutputStep ==
  ASSUME OutputInv, [Next]_vars
  PROVE  OutputInv'
<1> DEFINE Json(o) == Arr(get_tensor_data(o.type, Packed(o.type, o.values), o.shape))
<1>1. CASE RunReturns
  BY <1>1 DEF RunReturns, OutputInv
<1>2. CASE Answer
  <2>1. PICK o \in Outputs : output = [tensor |-> o, json |-> Null]
    BY <1>2 DEF Answer, OutputInv
  <2>2. output' = [output EXCEPT !.json = Json(o)] /\ pc' = "answered"
    BY <1>2, <2>1 DEF Answer
  <2> HIDE DEF Json
  <2>3. output' = [tensor |-> o, json |-> Json(o)]
    BY <2>1, <2>2
  <2> QED BY <2>2, <2>3 DEF OutputInv, Json
<1>3. CASE UNCHANGED <<pc, output>>
  BY <1>3 DEF OutputInv
<1>4. CASE pc' \notin {"convert", "answered"}
  BY <1>4 DEF OutputInv
<1> QED
  BY <1>1, <1>2, <1>3, <1>4
  DEF Next, vars, ParseDataset, RejectInput, ThrowInInput, BuildInput, Buildable, Enqueue, Dropped,
      Run, RunFails

-----------------------------------------------------------------------------
(* The invariant and the properties. *)

\* The inductive invariant of an execution: the types and ranks of what was
\* built, whose it is, when the arguments are made, and which values exist.
THEOREM Invariance == Spec => []IInv
<1>1. ASSUME Init PROVE IInv
  <2>1. /\ model \in Models /\ request \in Requests /\ pc = "parse" /\ i = 1
        /\ inputs = None /\ heap = {} /\ args = None /\ DOMAIN None = {}
    BY <1>1 DEF Init, None
  <2>2. 1..i - 1 = {} /\ i \in 1..Len(model) + 1
    <3>1. Len(model) \in Nat
      BY <2>1, ModelFacts
    <3> QED BY <2>1, <3>1
  <2>3. TypeOK
    BY <2>1, <2>2 DEF TypeOK
  <2>4. InputsInv
    BY <2>1, <2>2 DEF InputsInv
  <2>5. ArgsInv /\ HeapInv /\ RejectedInv /\ OutputInv
    BY <2>1 DEF ArgsInv, HeapInv, OnlyRejectedLeak, RejectedInv, OutputInv
  <2> QED BY <2>3, <2>4, <2>5 DEF IInv
<1>2. ASSUME IInv, [Next]_vars PROVE IInv'
  <2>1. TypeOK /\ InputsInv /\ ArgsInv /\ HeapInv /\ RejectedInv /\ OutputInv
    BY <1>2 DEF IInv
  <2>2. TypeOK' /\ InputsInv'
    BY <1>2, <2>1, TypeStep, InputsStep
  <2>3. ArgsInv' /\ HeapInv'
    BY <1>2, <2>1, ArgsStep, HeapStep
  <2>4. RejectedInv' /\ OutputInv'
    BY <1>2, <2>1, RejectedStep, OutputStep
  <2> QED BY <2>2, <2>3, <2>4 DEF IInv
<1> QED BY <1>1, <1>2, PTL DEF Spec

\* Every tensor built has the rank of the session's input and no room for more
\* values than it has, and every value allocated is that of an input.
THEOREM TypeSafety == Spec => []TypeOK
<1>1. IInv => TypeOK
  BY DEF IInv
<1> QED BY <1>1, Invariance, PTL

\* The arguments of Run are the data of the session's inputs, in its order.
THEOREM ArgumentsInOrder == Spec => []InputsInSessionOrder
<1>1. ASSUME IInv PROVE InputsInSessionOrder
  <2>1. SUFFICES ASSUME args # None
                 PROVE  /\ Len(args) = Len(model)
                        /\ \A k \in DOMAIN model : /\ args[k].name = model[k].name
                                                   /\ args[k].values = flat_json_values(Data(model[k].name))
    BY DEF InputsInSessionOrder
  <2>2. i = Len(model) + 1 /\ args = Arguments
    BY <1>1, <2>1 DEF IInv, ArgsInv
  <2>3. Len(model) \in Nat /\ DOMAIN model = 1..Len(model)
    BY <1>1, ModelFacts DEF IInv, TypeOK
  <2>4. i - 1 = Len(model)
    BY <2>2, <2>3
  <2>5. \A k \in DOMAIN model : model[k].name \in DOMAIN inputs
    BY <1>1, <2>3, <2>4 DEF IInv, InputsInv
  <2>6. args = [k \in 1..Len(model) |-> inputs[model[k].name]]
    BY <2>2, <2>3 DEF Arguments
  <2>7. Len(args) = Len(model)
    BY <2>3, <2>6
  <2>8. \A k \in DOMAIN model : args[k] = inputs[model[k].name]
    BY <2>3, <2>6
  <2> QED BY <1>1, <2>5, <2>7, <2>8 DEF IInv, InputsInv
<1> QED BY <1>1, Invariance, PTL

\* The values an argument points to exist while ONNX Runtime runs, and nothing
\* is left of an execution whose context was built.
THEOREM ValuesLive == Spec => []ValuesLiveAsNeeded
<1>1. ASSUME IInv PROVE ValuesLiveAsNeeded
  <2>1. BuffersLiveDuringRun
    <3>1. SUFFICES ASSUME pc = "running", NEW k \in DOMAIN args PROVE args[k].name \in heap
      BY DEF BuffersLiveDuringRun
    <3>2. heap = DOMAIN inputs /\ args = Arguments /\ i = Len(model) + 1
      BY <1>1, <3>1 DEF IInv, HeapInv, ArgsInv
    <3>3. Len(model) \in Nat /\ DOMAIN model = 1..Len(model)
      BY <1>1, ModelFacts DEF IInv, TypeOK
    <3>4. i - 1 = Len(model)
      BY <3>2, <3>3
    <3>5. k \in DOMAIN model /\ args[k] = inputs[model[k].name]
      BY <3>1, <3>2 DEF Arguments
    <3>6. model[k].name \in DOMAIN inputs
      BY <1>1, <3>3, <3>4, <3>5 DEF IInv, InputsInv
    <3> QED BY <1>1, <3>2, <3>5, <3>6 DEF IInv, InputsInv
  <2>2. OnlyRejectedLeak
    BY <1>1 DEF IInv, HeapInv
  <2> QED BY <2>1, <2>2 DEF ValuesLiveAsNeeded
<1> QED BY <1>1, Invariance, PTL

-----------------------------------------------------------------------------
(* Sub-byte integers. *)

\* Halves of a byte, the low one first.
LEMMA Nibbles ==
  ASSUME NEW a \in 0..15, NEW b \in 0..15
  PROVE  (a + 16 * b) % 16 = a /\ (a + 16 * b) \div 16 = b
OBVIOUS

\* Quarters of a byte, the lowest first.
LEMMA Quarters ==
  ASSUME NEW a \in 0..3, NEW b \in 0..3, NEW c \in 0..3, NEW d \in 0..3
  PROVE  LET byte == a + 4 * b + 16 * c + 64 * d IN
         /\ (byte \div 1) % 4 = a /\ (byte \div 4) % 4 = b
         /\ (byte \div 16) % 4 = c /\ (byte \div 64) % 4 = d
OBVIOUS

\* The values of a type, and its two's complement.
ValuesOf(type) == IF type = "uint4" THEN 0..15 ELSE IF type = "int4" THEN -8..7
                  ELSE IF type = "uint2" THEN 0..3 ELSE -2..1
LEMMA Complement ==
  /\ \A v \in -8..7 : v % 16 \in 0..15 /\ (IF v % 16 >= 8 THEN (v % 16) - 16 ELSE v % 16) = v
  /\ \A v \in -2..1 : v % 4 \in 0..3 /\ (IF v % 4 >= 2 THEN (v % 4) - 4 ELSE v % 4) = v
  /\ \A v \in 0..15 : v % 16 = v
  /\ \A v \in 0..3 : v % 4 = v
<1>1. \A v \in -8..7 : v % 16 = IF v >= 0 THEN v ELSE v + 16
  OBVIOUS
<1>2. \A v \in -2..1 : v % 4 = IF v >= 0 THEN v ELSE v + 4
  OBVIOUS
<1>3. \A v \in 0..15 : v % 16 = v
  OBVIOUS
<1>4. \A v \in 0..3 : v % 4 = v
  OBVIOUS
<1>5. \A v \in -8..7 : v % 16 \in 0..15 /\ (IF v % 16 >= 8 THEN (v % 16) - 16 ELSE v % 16) = v
  BY <1>1
<1>6. \A v \in -2..1 : v % 4 \in 0..3 /\ (IF v % 4 >= 2 THEN (v % 4) - 4 ELSE v % 4) = v
  BY <1>2
<1> QED BY <1>3, <1>4, <1>5, <1>6

\* A sub-byte integer is read back from the byte it shares with others: signed or
\* not, in a last byte that is not full, too (value_info.cpp, get_tensor_data).
THEOREM SubByteValues ==
  ASSUME NEW type \in {"uint4", "int4", "uint2", "int2"}, NEW values \in Seq(ValuesOf(type)),
         NEW place \in 0..Len(values) - 1
  PROVE  Element(type, Packed(type, values), place) = values[place + 1]
<1> DEFINE l == Len(values)
           v == values[place + 1]
           data == Packed(type, values)
           Bits4(j) == IF j <= l THEN values[j] % 16 ELSE 0
           Bits2(j) == IF j <= l THEN values[j] % 4 ELSE 0
<1>1. l \in Nat /\ place \in Nat /\ place < l /\ place + 1 \in 1..l
  <2>1. l \in Nat
    OBVIOUS
  <2> HIDE DEF l
  <2> QED BY <2>1 DEF l
<1>2. \A j \in 1..l : values[j] \in ValuesOf(type)
  OBVIOUS
<1> HIDE DEF l
<1>3. v \in ValuesOf(type)
  BY <1>1, <1>2
<1>4. CASE type \in {"uint4", "int4"}
  <2>1. PerByte(type) = 2
    BY <1>4, Zenon DEF PerByte
  <2>2. data = [k \in 1..(l + 1) \div 2 |-> Bits4(2 * k - 1) + 16 * Bits4(2 * k)]
    <3>1. l + 2 - 1 = l + 1
      BY <1>1
    <3> QED BY <2>1, <3>1 DEF Packed, l
  <2>3. \A j \in Nat \ {0} : Bits4(j) \in 0..15
    <3>1. \A j \in 1..l : values[j] \in 0..15 \/ values[j] \in -8..7
      BY <1>2, <1>4 DEF ValuesOf
    <3>2. \A j \in 1..l : values[j] % 16 \in 0..15
      BY <3>1, Complement
    <3>3. \A j \in Nat \ {0} : j <= l => j \in 1..l
      BY <1>1
    <3> QED BY <3>2, <3>3
  <2> DEFINE k == (place \div 2) + 1
  <2>4. /\ k \in 1..(l + 1) \div 2 /\ 2 * k - 1 \in Nat \ {0} /\ 2 * k \in Nat \ {0}
        /\ place % 2 = 0 => 2 * k - 1 = place + 1
        /\ place % 2 # 0 => 2 * k = place + 1
    BY <1>1
  <2> HIDE DEF data, Bits4, k
  <2>5. data[k] = Bits4(2 * k - 1) + 16 * Bits4(2 * k)
    BY <2>2, <2>4
  <2>6. data[k] % 16 = Bits4(2 * k - 1) /\ data[k] \div 16 = Bits4(2 * k)
    <3> DEFINE a == Bits4(2 * k - 1)
               b == Bits4(2 * k)
    <3>1. a \in 0..15 /\ b \in 0..15 /\ data[k] = a + 16 * b
      BY <2>3, <2>4, <2>5
    <3> HIDE DEF a, b
    <3>2. (a + 16 * b) % 16 = a /\ (a + 16 * b) \div 16 = b
      BY <3>1, Nibbles
    <3> QED BY <3>1, <3>2 DEF a, b
  <2>7. Bits4(place + 1) = v % 16
    BY <1>1 DEF Bits4
  <2>8. unpack_nibble(data, place) = v % 16
    BY <2>4, <2>6, <2>7 DEF unpack_nibble, k
  <2> DEFINE n == unpack_nibble(data, place)
  <2>9. CASE type = "uint4"
    <3>1. Element(type, data, place) = n
      BY <2>9, Zenon DEF Element
    <3>2. v \in 0..15
      BY <1>3, <2>9 DEF ValuesOf
    <3>3. v % 16 = v
      BY <3>2, Complement
    <3> QED BY <2>8, <3>1, <3>3 DEF data
  <2>10. CASE type = "int4"
    <3>1. Element(type, data, place) = IF n >= 8 THEN n - 16 ELSE n
      BY <2>10, Zenon DEF Element
    <3>2. v \in -8..7
      BY <1>3, <2>10 DEF ValuesOf
    <3>3. (IF v % 16 >= 8 THEN (v % 16) - 16 ELSE v % 16) = v
      BY <3>2, Complement
    <3> QED BY <2>8, <3>1, <3>3 DEF data
  <2> QED BY <1>4, <2>9, <2>10
<1>5. CASE type \in {"uint2", "int2"}
  <2>1. PerByte(type) = 4
    BY <1>5, Zenon DEF PerByte
  <2> DEFINE Byte(k) == Bits2(4 * k - 3) + 4 * Bits2(4 * k - 2) + 16 * Bits2(4 * k - 1) + 64 * Bits2(4 * k)
  <2>2. data = [k \in 1..(l + 3) \div 4 |-> Byte(k)]
    <3>1. l + 4 - 1 = l + 3
      BY <1>1
    <3> QED BY <2>1, <3>1 DEF Packed, l
  <2>3. \A j \in Nat \ {0} : Bits2(j) \in 0..3
    <3>1. \A j \in 1..l : values[j] \in 0..3 \/ values[j] \in -2..1
      BY <1>2, <1>5 DEF ValuesOf
    <3>2. \A j \in 1..l : values[j] % 4 \in 0..3
      BY <3>1, Complement
    <3>3. \A j \in Nat \ {0} : j <= l => j \in 1..l
      BY <1>1
    <3> QED BY <3>2, <3>3
  <2> DEFINE k == (place \div 4) + 1
             r == place % 4
  <2>4. /\ k \in 1..(l + 3) \div 4 /\ r \in 0..3
        /\ 4 * k - 3 \in Nat \ {0} /\ 4 * k - 2 \in Nat \ {0} /\ 4 * k - 1 \in Nat \ {0} /\ 4 * k \in Nat \ {0}
        /\ r = 0 => 4 * k - 3 = place + 1
        /\ r = 1 => 4 * k - 2 = place + 1
        /\ r = 2 => 4 * k - 1 = place + 1
        /\ r = 3 => 4 * k = place + 1
    BY <1>1
  <2> HIDE DEF data, Bits2, k, r
  <2>5. data[k] = Byte(k)
    BY <2>2, <2>4
  <2>6. /\ (data[k] \div 1) % 4 = Bits2(4 * k - 3) /\ (data[k] \div 4) % 4 = Bits2(4 * k - 2)
        /\ (data[k] \div 16) % 4 = Bits2(4 * k - 1) /\ (data[k] \div 64) % 4 = Bits2(4 * k)
    <3> DEFINE a == Bits2(4 * k - 3)
               b == Bits2(4 * k - 2)
               c == Bits2(4 * k - 1)
               d == Bits2(4 * k)
               byte == a + 4 * b + 16 * c + 64 * d
    <3>1. /\ a \in 0..3 /\ b \in 0..3 /\ c \in 0..3 /\ d \in 0..3
          /\ data[k] = byte
      BY <2>3, <2>4, <2>5
    <3> HIDE DEF a, b, c, d
    <3>2. /\ (byte \div 1) % 4 = a /\ (byte \div 4) % 4 = b
          /\ (byte \div 16) % 4 = c /\ (byte \div 64) % 4 = d
      BY <3>1, Quarters
    <3> HIDE DEF byte
    <3> QED BY <3>1, <3>2 DEF a, b, c, d
  <2>7. Bits2(place + 1) = v % 4
    BY <1>1 DEF Bits2
  <2>8. unpack_2bit(data, place) = v % 4
    <3>1. unpack_2bit(data, place) = (data[k] \div <<1, 4, 16, 64>>[r + 1]) % 4
      BY DEF unpack_2bit, k, r
    <3>2. CASE r = 0
      BY <2>4, <2>6, <2>7, <3>1, <3>2
    <3>3. CASE r = 1
      BY <2>4, <2>6, <2>7, <3>1, <3>3
    <3>4. CASE r = 2
      BY <2>4, <2>6, <2>7, <3>1, <3>4
    <3>5. CASE r = 3
      BY <2>4, <2>6, <2>7, <3>1, <3>5
    <3>6. r = 0 \/ r = 1 \/ r = 2 \/ r = 3
      BY <2>4
    <3> QED BY <3>2, <3>3, <3>4, <3>5, <3>6
  <2> DEFINE b == unpack_2bit(data, place)
  <2>9. CASE type = "uint2"
    <3>1. Element(type, data, place) = b
      BY <2>9, Zenon DEF Element
    <3>2. v \in 0..3
      BY <1>3, <2>9 DEF ValuesOf
    <3>3. v % 4 = v
      BY <3>2, Complement
    <3> QED BY <2>8, <3>1, <3>3 DEF data
  <2>10. CASE type = "int2"
    <3>1. Element(type, data, place) = IF b >= 2 THEN b - 4 ELSE b
      BY <2>10, Zenon DEF Element
    <3>2. v \in -2..1
      BY <1>3, <2>10 DEF ValuesOf
    <3>3. (IF v % 4 >= 2 THEN (v % 4) - 4 ELSE v % 4) = v
      BY <3>2, Complement
    <3> QED BY <2>8, <3>1, <3>3 DEF data
  <2> QED BY <1>5, <2>9, <2>10
<1> QED BY <1>4, <1>5

-----------------------------------------------------------------------------
(* Induction. *)

\* A set of naturals that is not empty has a least element.
LEMMA LeastNumber ==
  ASSUME NEW T \in SUBSET Nat, T # {}
  PROVE  \E m \in T : \A k \in T : m <= k
<1> DEFINE R == OpToRel(<, Nat)
<1>1. IsWellFoundedOn(R, Nat)
  BY NatLessThanWellFounded
<1> HIDE DEF R
<1>2. PICK m \in T : \A k \in T : <<k, m>> \notin R
  BY <1>1, WFMin, Zenon
<1>3. ASSUME NEW k \in T PROVE m <= k
  <2>1. k \in Nat /\ m \in Nat
    OBVIOUS
  <2>2. k < m => <<k, m>> \in R
    BY <2>1 DEF R, OpToRel
  <2> QED BY <1>2, <2>1, <2>2
<1> QED BY <1>3

\* A set that holds 0 and with every number below n the next one holds 0..n.
LEMMA Induction ==
  ASSUME NEW n \in Nat, NEW T, 0 \in T, \A k \in 0..n - 1 : k \in T => k + 1 \in T
  PROVE  \A k \in 0..n : k \in T
<1> DEFINE Out == {k \in 0..n : k \notin T}
<1> SUFFICES ASSUME Out # {} PROVE FALSE
  OBVIOUS
<1>1. PICK m \in Out : \A k \in Out : m <= k
  <2>1. Out \in SUBSET Nat
    OBVIOUS
  <2> HIDE DEF Out
  <2> QED BY <2>1, LeastNumber
<1>2. m # 0 /\ m - 1 \in 0..n - 1 /\ m - 1 \in 0..n
  OBVIOUS
<1>3. m - 1 \in T
  BY <1>1, <1>2
<1>4. (m - 1) + 1 \in T /\ (m - 1) + 1 = m
  BY <1>2, <1>3
<1> QED BY <1>4

-----------------------------------------------------------------------------
(* The values of an array. *)

\* A set that holds every value whose inner values it holds holds all of them.
LEMMA DepthInduction ==
  ASSUME NEW T, \A j \in Jsons : (\A x \in Jsons : Depth(x) < Depth(j) => x \in T) => j \in T
  PROVE  \A j \in Jsons : j \in T
<1> DEFINE Out == {Depth(j) : j \in {x \in Jsons : x \notin T}}
<1> SUFFICES ASSUME Out # {} PROVE FALSE
  OBVIOUS
<1>1. \A j \in Jsons : Depth(j) \in Nat
  BY JsonsAssumption
<1>2. Out \in SUBSET Nat
  BY <1>1
<1>3. PICK m \in Out : \A k \in Out : m <= k
  <2> HIDE DEF Out
  <2> QED BY <1>2, LeastNumber
<1>4. PICK j \in Jsons : j \notin T /\ Depth(j) = m
  BY <1>3
<1>5. ASSUME NEW x \in Jsons, Depth(x) < Depth(j) PROVE x \in T
  <2>1. Depth(x) \in Out \/ x \in T
    OBVIOUS
  <2>2. Depth(x) \in Out => m <= Depth(x)
    BY <1>3
  <2> HIDE DEF Out
  <2> QED BY <1>1, <1>4, <1>5, <2>1, <2>2
<1> QED BY <1>4, <1>5

\* What is flattened of a value once its items are.
FlatBody(f, json) ==
  IF IsArray(json) THEN FlattenSeq([k \in DOMAIN json.items |-> f[json.items[k]]]) ELSE <<json>>
UpTo(f, m) == \A j \in Jsons : Depth(j) <= m => f[j] = FlatBody(f, j)
Items(json) == {json.items[k] : k \in DOMAIN json.items}
LEMMA InnerValues ==
  ASSUME NEW j \in Jsons, IsArray(j)
  PROVE  /\ j = Arr(j.items) /\ j.items \in Seq(Jsons)
         /\ \A x \in Items(j) : x \in Jsons /\ Depth(x) < Depth(j)
<1>1. j = Arr(j.items) /\ j.items \in Seq(Jsons) /\ \A k \in DOMAIN j.items : Depth(j.items[k]) < Depth(j)
  BY JsonsAssumption
<1> QED BY <1>1 DEF Items

LEMMA SameBody ==
  ASSUME NEW f, NEW g, NEW j, IsArray(j) => \A x \in Items(j) : f[x] = g[x]
  PROVE  FlatBody(f, j) = FlatBody(g, j)
<1>1. CASE IsArray(j)
  <2>1. \A k \in DOMAIN j.items : f[j.items[k]] = g[j.items[k]]
    BY <1>1 DEF Items
  <2>2. [k \in DOMAIN j.items |-> f[j.items[k]]] = [k \in DOMAIN j.items |-> g[j.items[k]]]
    BY <2>1
  <2> QED BY <1>1, <2>2 DEF FlatBody
<1>2. CASE ~IsArray(j)
  BY <1>2 DEF FlatBody
<1> QED BY <1>1, <1>2

\* Two functions that flatten what is not nested deeper than a depth agree on it.
LEMMA FlatUnique ==
  ASSUME NEW f, NEW g, NEW m \in Nat, NEW n \in Nat, UpTo(f, m), UpTo(g, n)
  PROVE  \A j \in Jsons : Depth(j) <= m /\ Depth(j) <= n => f[j] = g[j]
<1> DEFINE T == {j \in Jsons : Depth(j) <= m /\ Depth(j) <= n => f[j] = g[j]}
<1>1. ASSUME NEW j \in Jsons, \A x \in Jsons : Depth(x) < Depth(j) => x \in T PROVE j \in T
  <2>1. SUFFICES ASSUME Depth(j) <= m, Depth(j) <= n PROVE f[j] = g[j]
    OBVIOUS
  <2>2. f[j] = FlatBody(f, j) /\ g[j] = FlatBody(g, j)
    BY <2>1 DEF UpTo
  <2>3. ASSUME IsArray(j), NEW x \in Items(j) PROVE f[x] = g[x]
    <3>1. x \in Jsons /\ Depth(x) < Depth(j) /\ Depth(x) \in Nat /\ Depth(j) \in Nat
      BY <2>3, InnerValues, JsonsAssumption
    <3>2. x \in T
      BY <1>1, <3>1
    <3>3. Depth(x) <= m /\ Depth(x) <= n
      BY <2>1, <3>1
    <3> QED BY <3>2, <3>3
  <2>4. FlatBody(f, j) = FlatBody(g, j)
    BY <2>3, SameBody
  <2> QED BY <2>2, <2>4
<1> HIDE DEF T
<1>2. \A j \in Jsons : j \in T
  BY <1>1, DepthInduction
<1> QED BY <1>2 DEF T

LEMMA FlatUpTo ==
  ASSUME NEW m \in Nat
  PROVE  \E f : UpTo(f, m)
<1> DEFINE T == {k \in 0..m : \E f : UpTo(f, k)}
           Deeper(f, k) == [j \in Jsons |-> IF Depth(j) <= k THEN f[j] ELSE FlatBody(f, j)]
<1>1. ASSUME NEW f, NEW k \in Int, UpTo(f, k) PROVE UpTo(Deeper(f, k), k + 1)
  <2> DEFINE g == Deeper(f, k)
  <2>1. SUFFICES ASSUME NEW j \in Jsons, Depth(j) <= k + 1 PROVE g[j] = FlatBody(g, j)
    BY DEF UpTo
  <2>2. Depth(j) \in Nat
    BY JsonsAssumption
  <2>3. g[j] = FlatBody(f, j)
    BY <1>1 DEF UpTo
  <2>4. ASSUME IsArray(j), NEW x \in Items(j) PROVE f[x] = g[x]
    <3>1. x \in Jsons /\ Depth(x) < Depth(j) /\ Depth(x) \in Nat
      BY <2>4, InnerValues, JsonsAssumption
    <3>2. Depth(x) <= k
      BY <2>1, <2>2, <3>1
    <3> QED BY <3>1, <3>2
  <2> HIDE DEF g
  <2>5. FlatBody(f, j) = FlatBody(g, j)
    BY <2>4, SameBody
  <2> QED BY <2>3, <2>5
<1> HIDE DEF Deeper
<1>2. 0 \in T
  <2>1. UpTo(<<>>, -1)
    <3>1. \A j \in Jsons : ~(Depth(j) <= -1)
      BY JsonsAssumption
    <3> QED BY <3>1 DEF UpTo
  <2>2. UpTo(Deeper(<<>>, -1), -1 + 1)
    BY <1>1, <2>1
  <2>3. -1 + 1 = 0 /\ 0 \in 0..m
    OBVIOUS
  <2> QED BY <2>2, <2>3
<1>3. ASSUME NEW k \in 0..m - 1, k \in T PROVE k + 1 \in T
  <2>1. k \in Int /\ k + 1 \in 0..m
    OBVIOUS
  <2> QED BY <1>1, <1>3, <2>1
<1> HIDE DEF T
<1>4. \A k \in 0..m : k \in T
  BY <1>2, <1>3, Induction
<1>5. m \in T
  BY <1>4
<1> QED BY <1>5 DEF T

\* The values of an array are those of its items, one item after the other.
LEMMA FlatUnfold ==
  \A j \in Jsons :
    flat_json_values(j) = IF IsArray(j)
                          THEN FlattenSeq([k \in DOMAIN j.items |-> flat_json_values(j.items[k])])
                          ELSE <<j>>
<1> DEFINE Flat(m) == CHOOSE f : UpTo(f, m)
           all == [j \in Jsons |-> Flat(Depth(j))[j]]
           FlatIs(f) == f = [j \in Jsons |-> FlatBody(f, j)]
           flat == CHOOSE f : FlatIs(f)
<1>1. \A j \in Jsons : flat_json_values(j) = flat[j]
  BY DEF flat_json_values, FlatBody
<1>2. ASSUME NEW m \in Nat PROVE UpTo(Flat(m), m)
  <2>1. \E f : UpTo(f, m)
    BY FlatUpTo
  <2> QED BY <2>1
<1> HIDE DEF Flat, flat
<1>3. ASSUME NEW j \in Jsons PROVE all[j] = FlatBody(all, j)
  <2> DEFINE f == Flat(Depth(j))
  <2>1. Depth(j) \in Nat
    BY JsonsAssumption
  <2>2. UpTo(f, Depth(j))
    BY <1>2, <2>1
  <2>3. all[j] = f[j] /\ f[j] = FlatBody(f, j)
    BY <2>1, <2>2 DEF UpTo
  <2>4. ASSUME IsArray(j), NEW x \in Items(j) PROVE f[x] = all[x]
    <3> DEFINE g == Flat(Depth(x))
    <3>1. x \in Jsons /\ Depth(x) < Depth(j) /\ Depth(x) \in Nat
      BY <2>4, InnerValues, JsonsAssumption
    <3>2. UpTo(g, Depth(x)) /\ all[x] = g[x]
      BY <1>2, <3>1
    <3>3. Depth(x) <= Depth(x) /\ Depth(x) <= Depth(j)
      BY <2>1, <3>1
    <3> HIDE DEF f, g, all
    <3>4. g[x] = f[x]
      BY <2>1, <2>2, <3>1, <3>2, <3>3, FlatUnique
    <3> QED BY <3>2, <3>4
  <2> HIDE DEF f, all
  <2>5. FlatBody(f, j) = FlatBody(all, j)
    BY <2>4, SameBody
  <2> QED BY <2>3, <2>5
<1>4. FlatIs(all)
  <2> DEFINE body == [j \in Jsons |-> FlatBody(all, j)]
  <2>1. all = [j \in Jsons |-> all[j]]
    OBVIOUS
  <2> HIDE DEF all
  <2> QED BY <1>3, <2>1
<1>5. FlatIs(flat)
  BY <1>4 DEF flat
<1>6. \A j \in Jsons : flat[j] = FlatBody(flat, j)
  BY <1>5
<1> HIDE DEF FlatIs, all
<1>7. ASSUME NEW j \in Jsons
      PROVE  flat_json_values(j) = IF IsArray(j)
                                   THEN FlattenSeq([k \in DOMAIN j.items |-> flat_json_values(j.items[k])])
                                   ELSE <<j>>
  <2>1. CASE ~IsArray(j)
    BY <1>1, <1>6, <2>1 DEF FlatBody
  <2>2. CASE IsArray(j)
    <3>1. \A k \in DOMAIN j.items : j.items[k] \in Jsons
      BY <2>2, InnerValues DEF Items
    <3>2. \A k \in DOMAIN j.items : flat_json_values(j.items[k]) = flat[j.items[k]]
      BY <1>1, <3>1
    <3>3. [k \in DOMAIN j.items |-> flat_json_values(j.items[k])] = [k \in DOMAIN j.items |-> flat[j.items[k]]]
      BY <3>2
    <3> QED BY <1>1, <1>6, <2>2, <3>3 DEF FlatBody
  <2> QED BY <2>1, <2>2
<1> QED BY <1>7

\* Sequences put after one another.
LEMMA FlattenUnfold ==
  ASSUME NEW seqs, NEW n \in Nat \ {0}, DOMAIN seqs = 1..n, Len(seqs) = n
  PROVE  \E f : /\ FlattenSeq(seqs) = f[n] /\ f[1] = seqs[1]
                /\ \A k \in 2..n : f[k] = f[k - 1] \o seqs[k]
<1> DEFINE Is(g, m) == g = [k \in 1..m |-> IF k = 1 THEN seqs[k] ELSE g[k - 1] \o seqs[k]]
           T == {m \in 0..n - 1 : \E g : Is(g, m + 1)}
           f == CHOOSE g : Is(g, n)
<1>1. FlattenSeq(seqs) = f[n]
  BY DEF FlattenSeq
<1>0. n \in Nat \ {0} /\ n - 1 \in Nat /\ (n - 1) + 1 = n
  OBVIOUS
<1> HIDE DEF f
<1>2. 0 \in T
  <2>1. \A k \in 1..1 : k = 1
    OBVIOUS
  <2>2. Is([k \in 1..1 |-> seqs[k]], 1)
    BY <2>1
  <2> HIDE DEF Is
  <2>3. 0 + 1 = 1 /\ 0 \in 0..n - 1
    BY <1>0
  <2> QED BY <2>2, <2>3
<1>3. ASSUME NEW m \in 0..n - 1 - 1, m \in T PROVE m + 1 \in T
  <2>1. PICK g : Is(g, m + 1)
    BY <1>3
  <2> DEFINE h == [k \in 1..m + 2 |-> IF k <= m + 1 THEN g[k] ELSE g[k - 1] \o seqs[k]]
  <2>2. ASSUME NEW k \in 1..m + 2
        PROVE  h[k] = IF k = 1 THEN seqs[k] ELSE h[k - 1] \o seqs[k]
    <3>1. /\ k # 1 => k - 1 \in 1..m + 2 /\ k - 1 <= m + 1
          /\ k <= m + 1 => k \in 1..m + 1
          /\ k = 1 => k <= m + 1
      BY <1>0
    <3> QED BY <2>1, <3>1
  <2>3. Is(h, m + 2)
    BY <2>2
  <2>4. m + 1 \in 0..n - 1 /\ (m + 1) + 1 = m + 2
    BY <1>0
  <2> HIDE DEF Is, h
  <2> QED BY <2>3, <2>4
<1>4. n - 1 \in T
  <2> HIDE DEF T
  <2>1. \A k \in 0..n - 1 : k \in T
    BY <1>0, <1>2, <1>3, Induction
  <2> QED BY <1>0, <2>1
<1>5. Is(f, n)
  <2>1. PICK g : Is(g, n)
    BY <1>0, <1>4
  <2> QED BY <2>1 DEF f
<1>6. f[1] = seqs[1] /\ \A k \in 2..n : f[k] = f[k - 1] \o seqs[k]
  <2>1. 1 \in 1..n /\ \A k \in 2..n : k \in 1..n /\ k # 1
    BY <1>0
  <2> QED BY <1>5, <2>1
<1> QED BY <1>1, <1>6

\* The values of a value are a sequence of values that are not arrays.
Simple == {j \in Jsons : ~IsArray(j)}
LEMMA FlatIsSeq == \A j \in Jsons : flat_json_values(j) \in Seq(Simple)
<1> DEFINE T == {j \in Jsons : flat_json_values(j) \in Seq(Simple)}
<1>1. ASSUME NEW j \in Jsons, \A x \in Jsons : Depth(x) < Depth(j) => x \in T PROVE j \in T
  <2>1. CASE ~IsArray(j)
    <3>1. flat_json_values(j) = <<j>> /\ j \in Simple
      BY <2>1, FlatUnfold DEF Simple
    <3> HIDE DEF Simple
    <3>2. <<j>> \in Seq(Simple)
      BY <3>1
    <3> QED BY <3>1, <3>2
  <2>2. CASE IsArray(j)
    <3> DEFINE n == Len(j.items)
               seqs == [k \in DOMAIN j.items |-> flat_json_values(j.items[k])]
    <3>1. flat_json_values(j) = FlattenSeq(seqs)
      BY <2>2, FlatUnfold
    <3>2. n \in Nat /\ DOMAIN j.items = 1..n
      <4>1. j.items \in Seq(Jsons)
        BY <2>2, InnerValues
      <4> QED BY <4>1
    <3>3. \A k \in 1..n : seqs[k] \in Seq(Simple)
      <4>1. \A k \in 1..n : j.items[k] \in Jsons /\ Depth(j.items[k]) < Depth(j)
        BY <2>2, <3>2, InnerValues DEF Items
      <4>2. \A k \in 1..n : j.items[k] \in T
        BY <1>1, <4>1
      <4> HIDE DEF Simple
      <4> QED BY <3>2, <4>2
    <3>4. DOMAIN seqs = 1..n /\ Len(seqs) = n
      <4>1. DOMAIN seqs = 1..n
        BY <3>2
      <4> HIDE DEF seqs
      <4>2. Len([k \in 1..n |-> seqs[k]]) = n
        BY <3>2
      <4>3. seqs = [k \in 1..n |-> seqs[k]]
        <5>1. seqs = [k \in DOMAIN seqs |-> seqs[k]]
          BY DEF seqs
        <5> QED BY <4>1, <5>1
      <4> QED BY <4>1, <4>2, <4>3
    <3> HIDE DEF n, seqs, Simple
    <3>5. CASE n = 0
      <4>1. FlattenSeq(seqs) = seqs
        BY <3>4, <3>5 DEF FlattenSeq
      <4>2. seqs \in Seq(Simple)
        <5>1. DOMAIN seqs = {} /\ seqs = [k \in DOMAIN seqs |-> seqs[k]]
          BY <3>4, <3>5 DEF seqs
        <5>2. seqs = <<>>
          BY <5>1
        <5> QED BY <5>2
      <4> QED BY <3>1, <4>1, <4>2
    <3>6. CASE n # 0
      <4>1. PICK f : /\ FlattenSeq(seqs) = f[n] /\ f[1] = seqs[1]
                     /\ \A k \in 2..n : f[k] = f[k - 1] \o seqs[k]
        <5>1. n \in Nat \ {0}
          BY <3>2, <3>6
        <5> QED BY <3>4, <5>1, FlattenUnfold, Zenon
      <4> DEFINE U == {k \in 0..n - 1 : f[k + 1] \in Seq(Simple)}
      <4>2. 0 \in U /\ n - 1 \in Nat /\ (n - 1) + 1 = n
        <5>1. n - 1 \in Nat /\ 0 \in 0..n - 1 /\ 1 \in 1..n /\ 0 + 1 = 1 /\ (n - 1) + 1 = n
          BY <3>2, <3>6
        <5> QED BY <3>3, <4>1, <5>1
      <4>3. ASSUME NEW k \in 0..n - 1 - 1, k \in U PROVE k + 1 \in U
        <5>1. k + 2 \in 2..n /\ k + 2 \in 1..n /\ (k + 2) - 1 = k + 1 /\ (k + 1) + 1 = k + 2 /\ k + 1 \in 0..n - 1
          BY <3>2
        <5>2. f[k + 2] = f[k + 1] \o seqs[k + 2]
          BY <4>1, <5>1
        <5>3. f[k + 1] \in Seq(Simple) /\ seqs[k + 2] \in Seq(Simple)
          BY <3>3, <4>3, <5>1
        <5>4. f[k + 2] \in Seq(Simple)
          BY <5>2, <5>3
        <5> QED BY <5>1, <5>4
      <4>4. n - 1 \in U
        <5> HIDE DEF U
        <5>1. \A k \in 0..n - 1 : k \in U
          BY <4>2, <4>3, Induction
        <5> QED BY <4>2, <5>1
      <4> QED BY <3>1, <4>1, <4>2, <4>4
    <3> QED BY <3>5, <3>6
  <2> QED BY <2>1, <2>2
<1> HIDE DEF T
<1>2. \A j \in Jsons : j \in T
  BY <1>1, DepthInduction
<1> QED BY <1>2 DEF T

\* The data of an input is a JSON value, what a request leaves out included.
LEMMA DataFacts ==
  ASSUME request \in Requests
  PROVE  \A n : Data(n) \in Jsons
BY JsonsAssumption, RequestsAssumption DEF Data

-----------------------------------------------------------------------------
(* The batch of a bool input. *)

\* The product of a shape, dimension by dimension.
ProductIs(g, shape, m) == g = [k \in 0..m |-> IF k = 0 THEN 1 ELSE g[k - 1] * shape[k]]
LEMMA ProductUnfold ==
  ASSUME NEW shape, Len(shape) \in Nat
  PROVE  \E f : /\ Product(shape) = f[Len(shape)] /\ f[0] = 1
                /\ \A k \in 1..Len(shape) : f[k] = f[k - 1] * shape[k]
<1> DEFINE n == Len(shape)
           T == {m \in 0..n : \E g : ProductIs(g, shape, m)}
           f == CHOOSE g : ProductIs(g, shape, n)
<1>1. Product(shape) = f[n]
  BY DEF Product, ProductIs
<1>0. n \in Nat
  OBVIOUS
<1> HIDE DEF n, f
<1>2. 0 \in T
  <2>1. \A k \in 0..0 : k = 0
    OBVIOUS
  <2>2. ProductIs([k \in 0..0 |-> 1], shape, 0)
    BY <2>1 DEF ProductIs
  <2> QED BY <1>0, <2>2
<1>3. ASSUME NEW m \in 0..n - 1, m \in T PROVE m + 1 \in T
  <2>1. PICK g : ProductIs(g, shape, m)
    BY <1>3
  <2> DEFINE h == [k \in 0..m + 1 |-> IF k <= m THEN g[k] ELSE g[k - 1] * shape[k]]
  <2>2. ASSUME NEW k \in 0..m + 1
        PROVE  h[k] = IF k = 0 THEN 1 ELSE h[k - 1] * shape[k]
    <3>1. /\ k # 0 => k - 1 \in 0..m + 1 /\ k - 1 <= m
          /\ k <= m => k \in 0..m
          /\ k = 0 => k <= m
      BY <1>0
    <3> QED BY <2>1, <3>1 DEF ProductIs
  <2>3. ProductIs(h, shape, m + 1)
    BY <2>2 DEF ProductIs
  <2>4. m + 1 \in 0..n
    BY <1>0
  <2> QED BY <2>3, <2>4
<1>4. n \in T
  <2> HIDE DEF T
  <2>1. \A k \in 0..n : k \in T
    BY <1>0, <1>2, <1>3, Induction
  <2> QED BY <1>0, <2>1
<1>5. ProductIs(f, shape, n)
  <2>1. PICK g : ProductIs(g, shape, n)
    BY <1>4
  <2> QED BY <2>1 DEF f
<1>6. f[0] = 1 /\ \A k \in 1..n : f[k] = f[k - 1] * shape[k]
  <2>1. 0 \in 0..n /\ \A k \in 1..n : k \in 0..n /\ k # 0
    BY <1>0
  <2> QED BY <1>5, <2>1 DEF ProductIs
<1> QED BY <1>1, <1>6 DEF n

\* The batch, dimension by dimension.
Divided(b, s) == IF s = Dynamic THEN b ELSE Greater(1, (b + s - 1) \div s)
BatchIs(g, shape, count, m) ==
  g = [k \in 0..m |-> IF k = 0 THEN count ELSE Divided(g[k - 1], shape[k])]
BatchLevels(f, shape, count) ==
  /\ Batch(shape, count) = f[Len(shape)] /\ f[0] = count
  /\ \A k \in 1..Len(shape) : f[k] = Divided(f[k - 1], shape[k])
LEMMA BatchUnfold ==
  ASSUME NEW shape, Len(shape) \in Nat, NEW count
  PROVE  \E f : BatchLevels(f, shape, count)
<1> DEFINE n == Len(shape)
           T == {m \in 0..n : \E g : BatchIs(g, shape, count, m)}
           f == CHOOSE g : BatchIs(g, shape, count, n)
<1>1. Batch(shape, count) = f[n]
  BY DEF Batch, BatchIs, Divided
<1>0. n \in Nat
  OBVIOUS
<1> HIDE DEF n, f
<1>2. 0 \in T
  <2>1. \A k \in 0..0 : k = 0
    OBVIOUS
  <2>2. BatchIs([k \in 0..0 |-> count], shape, count, 0)
    BY <2>1 DEF BatchIs
  <2> QED BY <1>0, <2>2
<1>3. ASSUME NEW m \in 0..n - 1, m \in T PROVE m + 1 \in T
  <2>1. PICK g : BatchIs(g, shape, count, m)
    BY <1>3
  <2> DEFINE h == [k \in 0..m + 1 |-> IF k <= m THEN g[k] ELSE Divided(g[k - 1], shape[k])]
  <2>2. ASSUME NEW k \in 0..m + 1
        PROVE  h[k] = IF k = 0 THEN count ELSE Divided(h[k - 1], shape[k])
    <3>1. /\ k # 0 => k - 1 \in 0..m + 1 /\ k - 1 <= m
          /\ k <= m => k \in 0..m
          /\ k = 0 => k <= m
      BY <1>0
    <3> QED BY <2>1, <3>1 DEF BatchIs
  <2>3. BatchIs(h, shape, count, m + 1)
    BY <2>2 DEF BatchIs
  <2>4. m + 1 \in 0..n
    BY <1>0
  <2> QED BY <2>3, <2>4
<1>4. n \in T
  <2> HIDE DEF T
  <2>1. \A k \in 0..n : k \in T
    BY <1>0, <1>2, <1>3, Induction
  <2> QED BY <1>0, <2>1
<1>5. BatchIs(f, shape, count, n)
  <2>1. PICK g : BatchIs(g, shape, count, n)
    BY <1>4
  <2> QED BY <2>1 DEF f
<1>6. f[0] = count /\ \A k \in 1..n : f[k] = Divided(f[k - 1], shape[k])
  <2>1. 0 \in 0..n /\ \A k \in 1..n : k \in 0..n /\ k # 0
    BY <1>0
  <2> QED BY <1>5, <2>1 DEF BatchIs
<1> QED BY <1>1, <1>6 DEF n, BatchLevels

\* Dividing and rounding up loses nothing.
LEMMA RoundedUp ==
  ASSUME NEW b \in Nat, NEW s \in Nat \ {0}
  PROVE  /\ Greater(1, (b + s - 1) \div s) \in Nat \ {0}
         /\ Greater(1, (b + s - 1) \div s) * s >= b
<1> DEFINE c == (b + s - 1) \div s
<1>1. c \in Int
  OBVIOUS
<1>2. c * s >= b
  OBVIOUS
<1>3. c \in Nat => c * s \in Nat
  OBVIOUS
<1>4. 1 * s >= c * s \/ c > 1
  <2>1. \A a \in Int : a <= 1 => 1 * s >= a * s
    OBVIOUS
  <2> HIDE DEF c
  <2> QED BY <1>1, <2>1
<1> HIDE DEF c
<1>5. CASE c > 1
  BY <1>1, <1>2, <1>5 DEF Greater, c
<1>6. CASE ~(c > 1)
  <2>1. 1 * s >= b
    <3>1. 1 * s \in Int /\ c * s \in Int
      BY <1>1
    <3> QED BY <1>2, <1>4, <1>6, <3>1
  <2>2. Greater(1, (b + s - 1) \div s) = 1
    BY <1>1, <1>6 DEF Greater, c
  <2> QED BY <2>1, <2>2
<1> QED BY <1>5, <1>6

\* Products of three numbers.
LEMMA Regrouped ==
  ASSUME NEW a \in Int, NEW b \in Int, NEW c \in Int
  PROVE  a * (b * c) = (a * b) * c /\ (a * c) * b = a * (b * c)
OBVIOUS

\* Products of a larger and a smaller number.
LEMMA Larger ==
  ASSUME NEW a \in Nat, NEW b \in Nat, NEW q \in Nat, a >= b
  PROVE  a * q >= b * q
<1>1. PICK d \in Nat : a = b + d
  <2>1. a - b \in Nat /\ a = b + (a - b)
    OBVIOUS
  <2> QED BY <2>1
<1>2. (b + d) * q = b * q + d * q /\ d * q \in Nat /\ b * q \in Nat
  OBVIOUS
<1> QED BY <1>1, <1>2

\* The batch makes room for every value.
LEMMA BatchFills ==
  ASSUME NEW shape \in Seq(Int), NEW count \in Nat, NEW j \in 1..Len(shape), shape[j] = Dynamic,
         \A d \in 1..Len(shape) : d # j => shape[d] # Dynamic /\ shape[d] > 0
  PROVE  /\ Product([shape EXCEPT ![j] = Batch(shape, count)]) \in Nat
         /\ Product([shape EXCEPT ![j] = Batch(shape, count)]) >= count
<1> DEFINE n == Len(shape)
           B == Batch(shape, count)
           t == [shape EXCEPT ![j] = B]
           u == [shape EXCEPT ![j] = 1]
<1>1. /\ n \in Nat /\ j \in 1..n /\ \A d \in 1..n : shape[d] \in Int
      /\ \A d \in 1..n : d # j => shape[d] # Dynamic /\ shape[d] \in Nat \ {0}
  OBVIOUS
<1>2. /\ Len(t) = n /\ t[j] = B /\ \A d \in 1..n : d # j => t[d] = shape[d]
      /\ Len(u) = n /\ u[j] = 1 /\ \A d \in 1..n : d # j => u[d] = shape[d]
  <2>1. DOMAIN shape = 1..n
    OBVIOUS
  <2>2. DOMAIN t = 1..n /\ DOMAIN u = 1..n
    BY <2>1
  <2> HIDE DEF B
  <2> QED BY <1>1, <2>1, <2>2
<1> HIDE DEF n, t, u
<1>3. PICK b : B = b[n] /\ b[0] = count /\ \A k \in 1..n : b[k] = Divided(b[k - 1], shape[k])
  <2>1. Len(shape) \in Nat
    BY <1>1 DEF n
  <2>2. PICK b : BatchLevels(b, shape, count)
    BY <2>1, BatchUnfold
  <2> QED BY <2>2 DEF n, BatchLevels
<1>4. PICK p : Product(t) = p[n] /\ p[0] = 1 /\ \A k \in 1..n : p[k] = p[k - 1] * t[k]
  <2>1. \E f : /\ Product(t) = f[Len(t)] /\ f[0] = 1
               /\ \A k \in 1..Len(t) : f[k] = f[k - 1] * t[k]
    BY <1>1, <1>2, ProductUnfold, Zenon
  <2> QED BY <1>2, <2>1
<1>5. PICK q : Product(u) = q[n] /\ q[0] = 1 /\ \A k \in 1..n : q[k] = q[k - 1] * u[k]
  <2>1. \E f : /\ Product(u) = f[Len(u)] /\ f[0] = 1
               /\ \A k \in 1..Len(u) : f[k] = f[k - 1] * u[k]
    BY <1>1, <1>2, ProductUnfold, Zenon
  <2> QED BY <1>2, <2>1
<1> HIDE DEF B
<1> DEFINE Room == {k \in 0..n : b[k] \in Nat /\ q[k] \in Nat /\ b[k] * q[k] >= count}
           Apart == {k \in 0..n : p[k] = IF k < j THEN q[k] ELSE B * q[k]}
<1>6. \A k \in 0..n - 1 : k + 1 \in 1..n /\ k \in 0..n /\ k + 1 \in 0..n /\ (k + 1) - 1 = k
  BY <1>1
<1>7. n \in Room
  <2>1. 0 \in Room
    BY <1>1, <1>3, <1>5
  <2>2. ASSUME NEW k \in 0..n - 1, k \in Room PROVE k + 1 \in Room
    <3>1. /\ b[k] \in Nat /\ q[k] \in Nat /\ b[k] * q[k] >= count
          /\ b[k + 1] = Divided(b[k], shape[k + 1]) /\ q[k + 1] = q[k] * u[k + 1]
      BY <1>3, <1>5, <1>6, <2>2
    <3>2. CASE k + 1 = j
      <4>1. b[k + 1] = b[k] /\ q[k + 1] = q[k]
        BY <1>2, <3>1, <3>2 DEF Divided
      <4> QED BY <1>6, <3>1, <4>1
    <3>3. CASE k + 1 # j
      <4> DEFINE s == shape[k + 1]
                 c == Greater(1, (b[k] + s - 1) \div s)
      <4>1. s \in Nat \ {0} /\ s # Dynamic
        BY <1>1, <1>6, <3>3
      <4>2. b[k + 1] = c /\ q[k + 1] = q[k] * s
        BY <1>2, <1>6, <3>1, <3>3, <4>1 DEF Divided
      <4>3. c \in Nat /\ c * s >= b[k]
        <5> HIDE DEF s
        <5> QED BY <3>1, <4>1, RoundedUp
      <4> HIDE DEF s, c
      <4> DEFINE qk == q[k]
      <4> HIDE DEF qk
      <4>4. c * s \in Nat /\ qk * s \in Nat /\ c * (qk * s) = (c * s) * qk
        <5>1. qk \in Nat
          BY <3>1 DEF qk
        <5> QED BY <4>1, <4>3, <5>1, Regrouped
      <4>5. (c * s) * q[k] >= b[k] * q[k]
        BY <3>1, <4>3, <4>4, Larger
      <4>6. c * (qk * s) >= count
        <5> DEFINE bk == b[k]
                   cs == c * s
        <5>1. bk \in Nat /\ qk \in Nat /\ cs \in Nat /\ bk * qk >= count /\ count \in Nat
          BY <3>1, <4>4 DEF qk
        <5>2. cs * qk >= bk * qk
          BY <4>5 DEF qk
        <5>3. c * (qk * s) = cs * qk
          BY <4>4
        <5> HIDE DEF bk, cs
        <5>4. \A x, y \in Nat : x * y \in Nat
          OBVIOUS
        <5>5. bk * qk \in Nat /\ cs * qk \in Nat
          BY <5>1, <5>4
        <5>6. cs * qk >= count
          BY <5>1, <5>2, <5>5
        <5> QED BY <5>3, <5>6
      <4> QED BY <1>6, <4>2, <4>3, <4>4, <4>6 DEF qk
    <3> QED BY <3>2, <3>3
  <2> HIDE DEF Room
  <2>3. \A k \in 0..n : k \in Room
    BY <1>1, <2>1, <2>2, Induction
  <2> QED BY <1>1, <2>3
<1>8. B \in Nat
  BY <1>3, <1>7
<1>9. n \in Apart
  <2> DEFINE Both == Apart \cap {k \in 0..n : q[k] \in Int}
  <2>1. 0 \in Both
    BY <1>1, <1>4, <1>5
  <2>2. ASSUME NEW k \in 0..n - 1, k \in Both PROVE k + 1 \in Both
    <3>1. /\ q[k] \in Int /\ p[k] = (IF k < j THEN q[k] ELSE B * q[k])
          /\ p[k + 1] = p[k] * t[k + 1] /\ q[k + 1] = q[k] * u[k + 1]
      BY <1>4, <1>5, <1>6, <2>2
    <3>2. CASE k + 1 = j
      <4>1. p[k + 1] = q[k] * B /\ q[k + 1] = q[k] * 1
        BY <1>1, <1>2, <3>1, <3>2
      <4> QED BY <1>6, <1>8, <3>1, <3>2, <4>1
    <3>3. CASE k + 1 # j
      <4> DEFINE s == shape[k + 1]
      <4>1. s \in Int /\ p[k + 1] = p[k] * s /\ q[k + 1] = q[k] * s
        BY <1>1, <1>2, <1>6, <3>1, <3>3
      <4>2. k < j <=> k + 1 < j
        BY <1>1, <3>3
      <4> HIDE DEF s
      <4>3. q[k] * s \in Int /\ (B * q[k]) * s = B * (q[k] * s)
        BY <1>8, <3>1, <4>1
      <4> QED BY <1>6, <3>1, <4>1, <4>2, <4>3
    <3> QED BY <3>2, <3>3
  <2> HIDE DEF Both
  <2>3. \A k \in 0..n : k \in Both
    BY <1>1, <2>1, <2>2, Induction
  <2> QED BY <1>1, <2>3 DEF Both
<1>10. p[n] = B * q[n]
  BY <1>1, <1>9
<1>11. p[n] \in Nat /\ p[n] >= count
  BY <1>3, <1>7, <1>10
<1> QED BY <1>4, <1>11 DEF t, B

\* A tensor with a batch filled in that ONNX Runtime takes has exactly as many
\* elements as there are values, and only one dimension was open.
LEMMA BatchIsExact ==
  ASSUME NEW shape \in Seq(Int), NEW count \in Nat, Contains(shape, Dynamic),
         \A d \in DOMAIN shape : shape[d] = Dynamic \/ shape[d] > 0,
         CreateTensorAccepts(batched_shape(shape, count), count)
  PROVE  Product(batched_shape(shape, count)) = count
<1> DEFINE n == Len(shape)
           Open == {d \in 1..n : shape[d] = Dynamic}
           j == SelectInSeq(shape, LAMBDA s : s = Dynamic)
           B == Batch(shape, count)
           t == [shape EXCEPT ![j] = B]
<1>1. n \in Nat /\ DOMAIN shape = 1..n
  OBVIOUS
<1>2. Open # {}
  BY DEF Contains
<1>3. j = CHOOSE d \in Open : \A e \in Open : d <= e
  BY <1>2 DEF SelectInSeq, Min
<1> HIDE DEF j
<1>4. j \in Open
  <2>1. Open \in SUBSET Nat
    OBVIOUS
  <2> HIDE DEF Open
  <2>2. \E d \in Open : \A e \in Open : d <= e
    BY <1>2, <2>1, LeastNumber
  <2> QED BY <1>3, <2>2
<1>5. batched_shape(shape, count) = t
  BY DEF batched_shape, j
<1>6. DOMAIN t = 1..n /\ \A d \in 1..n : d # j => t[d] = shape[d]
  BY <1>1
<1>7. Product(t) <= count /\ \A d \in 1..n : t[d] >= 0
  BY <1>5, <1>6 DEF CreateTensorAccepts
<1>8. \A d \in 1..n : d # j => shape[d] # Dynamic /\ shape[d] > 0
  BY <1>1, <1>6, <1>7 DEF Dynamic
<1>9. Product(t) \in Nat /\ Product(t) >= count
  BY <1>4, <1>8, BatchFills
<1> QED BY <1>5, <1>7, <1>9

\* A bool tensor with an open dimension holds exactly the values sent, whatever
\* its other dimensions are and however many values there are.
THEOREM BatchesExact == Spec => []BoolBatchIsExact
<1>1. ASSUME IInv PROVE BoolBatchIsExact
  <2>1. SUFFICES ASSUME NEW k \in 1..i - 1, model[k].type = "bool", Contains(model[k].shape, Dynamic)
                 PROVE  Product(inputs[model[k].name].shape) = Len(inputs[model[k].name].values)
    BY DEF BoolBatchIsExact
  <2> DEFINE name == model[k].name
             s == model[k].shape
             values == flat_json_values(Data(name))
             t == inputs[name]
  <2>2. model \in Models /\ request \in Requests /\ i \in 1..Len(model) + 1
    BY <1>1 DEF IInv, TypeOK
  <2>3. k \in 1..Len(model) /\ k \in DOMAIN model /\ s \in Seq(Int)
    <3>1. Len(model) \in Nat /\ DOMAIN model = 1..Len(model)
      BY <2>2, ModelFacts
    <3>2. k \in 1..Len(model)
      BY <2>2, <3>1
    <3> QED BY <2>2, <3>1, <3>2, ModelFacts
  <2>4. name \in DOMAIN inputs /\ t.shape = TensorShape(Data(name), model[k])
    BY <1>1 DEF IInv, InputsInv
  <2>5. t.values = values /\ IsArray(Data(name))
    BY <1>1, <2>4 DEF IInv, InputsInv
  <2>6. t.shape = batched_shape(s, Len(values))
    BY <2>1, <2>4 DEF TensorShape
  <2>7. Len(values) \in Nat
    <3>1. Data(name) \in Jsons
      BY <2>2, DataFacts
    <3>2. values \in Seq(Simple)
      BY <3>1, FlatIsSeq
    <3> HIDE DEF values, Simple
    <3> QED BY <3>2
  <2>8. \A d \in DOMAIN s : s[d] = Dynamic \/ s[d] > 0
    BY <2>1, <2>2, <2>3, BoolAssumption
  <2>9. CreateTensorAccepts(t.shape, Len(values))
    BY <1>1, <2>5 DEF IInv, TypeOK, CreateTensorAccepts
  <2> HIDE DEF s, values, t
  <2>10. Product(t.shape) = Len(values)
    BY <2>1, <2>3, <2>6, <2>7, <2>8, <2>9, BatchIsExact DEF s
  <2> QED BY <2>5, <2>10 DEF t
<1> QED BY <1>1, Invariance, PTL

-----------------------------------------------------------------------------
(* The nesting of an output. *)

\* The rows, dimension by dimension from the last one.
FitIs(g, values, shape, depth, m) ==
  g = [k \in 0..m |-> IF k = 0 THEN values ELSE Rows(g[k - 1], shape[depth + 1 - k])]
LEMMA FitUnfold ==
  ASSUME NEW values, NEW shape, NEW depth \in Nat \ {0}
  PROVE  \E f : /\ values_fit_shape(values, shape, depth) = f[depth - 1] /\ f[0] = values
                /\ \A k \in 1..depth - 1 : f[k] = Rows(f[k - 1], shape[depth + 1 - k])
<1> DEFINE n == depth - 1
           T == {m \in 0..n : \E g : FitIs(g, values, shape, depth, m)}
           f == CHOOSE g : FitIs(g, values, shape, depth, n)
<1>1. values_fit_shape(values, shape, depth) = f[n]
  BY DEF values_fit_shape, FitIs
<1>0. n \in Nat
  OBVIOUS
<1> HIDE DEF n, f
<1>2. 0 \in T
  <2>1. \A k \in 0..0 : k = 0
    OBVIOUS
  <2>2. FitIs([k \in 0..0 |-> values], values, shape, depth, 0)
    BY <2>1 DEF FitIs
  <2> QED BY <1>0, <2>2
<1>3. ASSUME NEW m \in 0..n - 1, m \in T PROVE m + 1 \in T
  <2>1. PICK g : FitIs(g, values, shape, depth, m)
    BY <1>3
  <2> DEFINE h == [k \in 0..m + 1 |-> IF k <= m THEN g[k] ELSE Rows(g[k - 1], shape[depth + 1 - k])]
  <2>2. ASSUME NEW k \in 0..m + 1
        PROVE  h[k] = IF k = 0 THEN values ELSE Rows(h[k - 1], shape[depth + 1 - k])
    <3>1. /\ k # 0 => k - 1 \in 0..m + 1 /\ k - 1 <= m
          /\ k <= m => k \in 0..m
          /\ k = 0 => k <= m
      BY <1>0
    <3> QED BY <2>1, <3>1 DEF FitIs
  <2>3. FitIs(h, values, shape, depth, m + 1)
    BY <2>2 DEF FitIs
  <2>4. m + 1 \in 0..n
    BY <1>0
  <2> QED BY <2>3, <2>4
<1>4. n \in T
  <2> HIDE DEF T
  <2>1. \A k \in 0..n : k \in T
    BY <1>0, <1>2, <1>3, Induction
  <2> QED BY <1>0, <2>1
<1>5. FitIs(f, values, shape, depth, n)
  <2>1. PICK g : FitIs(g, values, shape, depth, n)
    BY <1>4
  <2> QED BY <2>1 DEF f
<1>6. f[0] = values /\ \A k \in 1..n : f[k] = Rows(f[k - 1], shape[depth + 1 - k])
  <2>1. 0 \in 0..n /\ \A k \in 1..n : k \in 0..n /\ k # 0
    BY <1>0
  <2> QED BY <1>5, <2>1 DEF FitIs
<1> QED BY <1>1, <1>6 DEF n

\* The nested array of the reference definition, from the leaves up.
First(leaves) == [size |-> 1, at |-> [o \in Nat |-> leaves[o + 1]]]
Around(below, dim) ==
  [size |-> below.size * dim,
   at |-> [o \in Nat |-> Arr([d \in 1..dim |-> below.at[o + (d - 1) * below.size]])]]
NestIs(g, dims, leaves, m) ==
  g = [k \in 0..m |-> IF k = 0 THEN First(leaves) ELSE Around(g[k - 1], dims[Len(dims) + 1 - k])]
NestLevels(f, dims, leaves) ==
  /\ Nest(dims, leaves) = f[Len(dims)].at[0] /\ f[0] = First(leaves)
  /\ \A k \in 1..Len(dims) : f[k] = Around(f[k - 1], dims[Len(dims) + 1 - k])
LEMMA NestUnfold ==
  ASSUME NEW dims, Len(dims) \in Nat, NEW leaves
  PROVE  \E f : NestLevels(f, dims, leaves)
<1> DEFINE n == Len(dims)
           T == {m \in 0..n : \E g : NestIs(g, dims, leaves, m)}
           f == CHOOSE g : NestIs(g, dims, leaves, n)
<1>1. Nest(dims, leaves) = f[n].at[0]
  BY DEF Nest, NestIs, First, Around
<1>0. n \in Nat
  OBVIOUS
<1> HIDE DEF n, f
<1>2. 0 \in T
  <2>1. \A k \in 0..0 : k = 0
    OBVIOUS
  <2>2. NestIs([k \in 0..0 |-> First(leaves)], dims, leaves, 0)
    BY <2>1 DEF NestIs
  <2> QED BY <1>0, <2>2
<1>3. ASSUME NEW m \in 0..n - 1, m \in T PROVE m + 1 \in T
  <2>1. PICK g : NestIs(g, dims, leaves, m)
    BY <1>3
  <2> DEFINE h == [k \in 0..m + 1 |-> IF k <= m THEN g[k] ELSE Around(g[k - 1], dims[Len(dims) + 1 - k])]
  <2>2. ASSUME NEW k \in 0..m + 1
        PROVE  h[k] = IF k = 0 THEN First(leaves) ELSE Around(h[k - 1], dims[Len(dims) + 1 - k])
    <3>1. /\ k # 0 => k - 1 \in 0..m + 1 /\ k - 1 <= m
          /\ k <= m => k \in 0..m
          /\ k = 0 => k <= m
      BY <1>0
    <3> QED BY <2>1, <3>1 DEF NestIs
  <2>3. NestIs(h, dims, leaves, m + 1)
    BY <2>2 DEF NestIs
  <2>4. m + 1 \in 0..n
    BY <1>0
  <2> QED BY <2>3, <2>4
<1>4. n \in T
  <2> HIDE DEF T
  <2>1. \A k \in 0..n : k \in T
    BY <1>0, <1>2, <1>3, Induction
  <2> QED BY <1>0, <2>1
<1>5. NestIs(f, dims, leaves, n)
  <2>1. PICK g : NestIs(g, dims, leaves, n)
    BY <1>4
  <2> QED BY <2>1 DEF f
<1>6. f[0] = First(leaves) /\ \A k \in 1..n : f[k] = Around(f[k - 1], dims[Len(dims) + 1 - k])
  <2>1. 0 \in 0..n /\ \A k \in 1..n : k \in 0..n /\ k # 0
    BY <1>0
  <2> QED BY <1>5, <2>1 DEF NestIs
<1> QED BY <1>1, <1>6 DEF n, NestLevels

\* The place of the x-th value of the k-th row among the values, and the values
\* that come before the k-th of some that have a size each.
Place(k, d, x) == (k - 1) * d + x
Before(k, size) == (k - 1) * size
Row(values, d, k) == Arr([x \in 1..d |-> values[Place(k, d, x)]])
LEMMA PlaceInRow ==
  ASSUME NEW k \in Nat \ {0}, NEW m \in Nat, k <= m, NEW d \in Nat \ {0}, NEW x \in 1..d
  PROVE  Place(k, d, x) \in 1..m * d
<1> DEFINE k1 == k - 1
<1>1. k1 \in Nat /\ m - k \in Nat /\ m = (m - k) + k1 + 1
  OBVIOUS
<1> HIDE DEF k1
<1>2. k1 * d \in Nat /\ (m - k) * d \in Nat
  BY <1>1
<1>3. m * d = (m - k) * d + k1 * d + d
  <2>1. \A a, b \in Nat : (a + b + 1) * d = a * d + b * d + d
    OBVIOUS
  <2> QED BY <1>1, <2>1
<1>4. k1 * d + x \in 1..m * d
  BY <1>2, <1>3
<1> QED BY <1>4 DEF Place, k1

LEMMA BeforePlace ==
  ASSUME NEW k \in Nat \ {0}, NEW d \in Nat \ {0}, NEW x \in 1..d, NEW size \in Nat
  PROVE  Before(Place(k, d, x), size) = Before(k, size * d) + Before(x, size)
<1> DEFINE k1 == k - 1
<1>1. k1 \in Nat
  OBVIOUS
<1> HIDE DEF k1
<1>2. k1 * d \in Nat /\ size * d \in Nat /\ x - 1 \in Nat
  BY <1>1
<1>3. k1 * (size * d) = (k1 * d) * size
  <2>1. \A a \in Nat : a * (size * d) = (a * d) * size
    OBVIOUS
  <2> QED BY <1>1, <2>1
<1>4. (k1 * d + (x - 1)) * size = (k1 * d) * size + (x - 1) * size
  <2>1. \A a, b \in Nat : (a + b) * size = a * size + b * size
    OBVIOUS
  <2> QED BY <1>2, <2>1
<1>5. (k1 * d + x) - 1 = k1 * d + (x - 1)
  BY <1>2
<1>6. Place(k, d, x) = k1 * d + x /\ \A s : Before(k, s) = k1 * s
  BY DEF Place, Before, k1
<1>7. Before(Place(k, d, x), size) = (k1 * d + (x - 1)) * size /\ Before(x, size) = (x - 1) * size
  BY <1>5, <1>6 DEF Before
<1> QED BY <1>3, <1>4, <1>6, <1>7

\* The d values after the first a.
LEMMA ValuesAfter ==
  ASSUME NEW s, NEW a \in Int, NEW d \in Int
  PROVE  SubSeq(s, a + 1, a + d) = [x \in 1..d |-> s[a + x]]
OBVIOUS

\* The rows of values whose number is a multiple of the dimension.
LEMMA RowsOf ==
  ASSUME NEW values, NEW m \in Nat \ {0}, NEW d \in Nat \ {0}, DOMAIN values = 1..m * d
  PROVE  Rows(values, d) = [k \in 1..m |-> Row(values, d, k)]
<1>1. m * d \in Nat \ {0} /\ (m * d) \div d = m
  OBVIOUS
<1>2. Len(values) = m * d /\ values # <<>>
  BY <1>1
<1>3. ASSUME NEW k \in 1..m
      PROVE  SubSeq(values, (k - 1) * d + 1, k * d) = [x \in 1..d |-> values[(k - 1) * d + x]]
  <2>1. k * d \in Nat /\ (k - 1) * d \in Nat /\ k * d = (k - 1) * d + d
    OBVIOUS
  <2> DEFINE a == (k - 1) * d
  <2>2. a \in Int /\ d \in Int /\ k * d = a + d
    BY <2>1
  <2> HIDE DEF a
  <2>3. SubSeq(values, a + 1, a + d) = [x \in 1..d |-> values[a + x]]
    BY <2>2, ValuesAfter
  <2> QED BY <2>2, <2>3 DEF a
<1> QED BY <1>1, <1>2, <1>3 DEF Rows, Row, Place

\* The first dimensions of a shape, multiplied.
LEMMA Products ==
  ASSUME NEW shape \in Seq(Nat \ {0})
  PROVE  \E p : /\ Product(shape) = p[Len(shape)] /\ p[0] = 1
                /\ \A k \in 0..Len(shape) : p[k] \in Nat \ {0}
                /\ \A k \in 1..Len(shape) : p[k] = p[k - 1] * shape[k]
<1> DEFINE n == Len(shape)
<1>1. n \in Nat /\ \A k \in 1..n : shape[k] \in Nat \ {0}
  OBVIOUS
<1> HIDE DEF n
<1>2. PICK p : Product(shape) = p[n] /\ p[0] = 1 /\ \A k \in 1..n : p[k] = p[k - 1] * shape[k]
  BY <1>1, ProductUnfold DEF n
<1> DEFINE T == {k \in 0..n : p[k] \in Nat \ {0}}
<1>3. 0 \in T
  BY <1>1, <1>2
<1>4. ASSUME NEW k \in 0..n - 1, k \in T PROVE k + 1 \in T
  <2>1. k + 1 \in 1..n /\ k + 1 \in 0..n /\ (k + 1) - 1 = k
    BY <1>1
  <2>2. p[k] \in Nat \ {0} /\ shape[k + 1] \in Nat \ {0} /\ p[k + 1] = p[k] * shape[k + 1]
    BY <1>1, <1>2, <1>4, <2>1
  <2>3. \A a, b \in Nat \ {0} : a * b \in Nat \ {0}
    OBVIOUS
  <2> QED BY <2>1, <2>2, <2>3
<1> HIDE DEF T
<1>5. \A k \in 0..n : k \in T
  BY <1>1, <1>3, <1>4, Induction
<1> QED BY <1>2, <1>5 DEF n, T

\* The rows of rows are the nested array: after k dimensions, the j-th of them is
\* the nested array of the k inner dimensions that starts at its first leaf.
LEMMA FitsShape ==
  ASSUME NEW shape \in Seq(Nat \ {0}), shape # <<>>,
         NEW V, NEW leaves \in Seq(V), Len(leaves) = Product(shape)
  PROVE  Arr(values_fit_shape(leaves, shape, Len(shape))) = Nest(shape, leaves)
<1> DEFINE n == Len(shape)
<1>1. n \in Nat \ {0} /\ \A k \in 1..n : shape[k] \in Nat \ {0}
  OBVIOUS
<1>2. PICK p : /\ Product(shape) = p[n] /\ p[0] = 1
               /\ \A k \in 0..n : p[k] \in Nat \ {0}
               /\ \A k \in 1..n : p[k] = p[k - 1] * shape[k]
  BY Products
<1> HIDE DEF n
<1>3. PICK f : /\ values_fit_shape(leaves, shape, n) = f[n - 1] /\ f[0] = leaves
               /\ \A k \in 1..n - 1 : f[k] = Rows(f[k - 1], shape[n + 1 - k])
  <2>1. \E h : /\ values_fit_shape(leaves, shape, n) = h[n - 1] /\ h[0] = leaves
               /\ \A k \in 1..n - 1 : h[k] = Rows(h[k - 1], shape[n + 1 - k])
    <3> DEFINE fit == values_fit_shape(leaves, shape, n)
    <3>1. n \in Nat \ {0} /\ fit = values_fit_shape(leaves, shape, n)
      BY <1>1
    <3> HIDE DEF fit
    <3>2. \E h : /\ fit = h[n - 1] /\ h[0] = leaves
                 /\ \A k \in 1..n - 1 : h[k] = Rows(h[k - 1], shape[n + 1 - k])
      BY <3>1, FitUnfold
    <3> QED BY <3>1, <3>2
  <2> QED BY <2>1
<1>4. PICK g : /\ Nest(shape, leaves) = g[n].at[0] /\ g[0] = First(leaves)
               /\ \A k \in 1..n : g[k] = Around(g[k - 1], shape[n + 1 - k])
  <2>1. Len(shape) \in Nat
    BY <1>1 DEF n
  <2>2. PICK g : NestLevels(g, shape, leaves)
    BY <2>1, NestUnfold
  <2> QED BY <2>2 DEF n, NestLevels
<1> DEFINE Starts(k) == [j \in 1..p[n - k] |-> g[k].at[Before(j, g[k].size)]]
           T == {k \in 0..n - 1 : g[k].size \in Nat /\ f[k] = Starts(k)}
<1>5. 0 \in T
  <2>1. g[0].size = 1 /\ \A o \in Nat : g[0].at[o] = leaves[o + 1]
    BY <1>4 DEF First
  <2>2. n - 0 = n /\ leaves = [j \in 1..p[n] |-> leaves[j]] /\ p[n] \in Nat
    BY <1>1, <1>2
  <2>3. \A j \in 1..p[n] : Before(j, 1) \in Nat /\ Before(j, 1) + 1 = j
    BY <2>2 DEF Before
  <2>4. \A j \in 1..p[n] : g[0].at[Before(j, g[0].size)] = leaves[j]
    BY <2>1, <2>3
  <2>5. Starts(0) = [j \in 1..p[n] |-> leaves[j]]
    BY <2>2, <2>4
  <2>6. f[0] = Starts(0)
    BY <1>3, <2>2, <2>5
  <2> HIDE DEF Starts
  <2> QED BY <1>1, <2>1, <2>6
<1>6. ASSUME NEW k \in 0..n - 1 - 1, k \in T PROVE k + 1 \in T
  <2> DEFINE d == shape[n - k]
             m == p[n - (k + 1)]
             size == g[k].size
             at == g[k].at
  <2>1. /\ k \in Nat /\ k + 1 \in 1..n - 1 /\ k + 1 \in 0..n - 1 /\ k + 1 \in 1..n /\ (k + 1) - 1 = k
        /\ n + 1 - (k + 1) = n - k /\ n - k \in 1..n /\ (n - k) - 1 = n - (k + 1)
        /\ n - (k + 1) \in 0..n
    BY <1>1
  <2>2. d \in Nat \ {0} /\ m \in Nat \ {0} /\ p[n - k] = m * d
    BY <1>1, <1>2, <2>1
  <2>3. size \in Nat /\ f[k] = Starts(k)
    BY <1>6
  <2>4. f[k + 1] = Rows(f[k], d) /\ g[k + 1] = Around(g[k], d)
    BY <1>3, <1>4, <2>1
  <2>5. /\ g[k + 1].size = size * d
        /\ \A o \in Nat : g[k + 1].at[o] = Arr([x \in 1..d |-> at[o + Before(x, size)]])
    BY <2>4 DEF Around, Before
  <2> HIDE DEF d, m, size, at, T
  <2>6. DOMAIN f[k] = 1..m * d /\ \A j \in 1..m * d : f[k][j] = at[Before(j, size)]
    BY <2>2, <2>3 DEF size, at
  <2> HIDE DEF Starts
  <2>7. f[k + 1] = [j \in 1..m |-> Row(f[k], d, j)]
    BY <2>2, <2>4, <2>6, RowsOf
  <2>8. ASSUME NEW j \in 1..m
        PROVE  Row(f[k], d, j) = g[k + 1].at[Before(j, size * d)]
    <3>1. j \in Nat \ {0} /\ m \in Nat /\ j <= m /\ 1 \in 1..d
      BY <2>2
    <3>2. ASSUME NEW x \in 1..d
          PROVE  /\ Place(j, d, x) \in 1..m * d /\ Before(j, size * d) \in Nat
                 /\ Before(Place(j, d, x), size) = Before(j, size * d) + Before(x, size)
      <4>1. d \in Nat \ {0} /\ size \in Nat
        BY <2>2, <2>3
      <4>2. Place(j, d, x) \in 1..m * d
        BY <3>1, <4>1, PlaceInRow, Zenon
      <4>3. Before(j, size * d) \in Nat
        <5>1. j - 1 \in Nat /\ size * d \in Nat
          BY <3>1, <4>1
        <5>2. \A a, b \in Nat : a * b \in Nat
          OBVIOUS
        <5> QED BY <5>1, <5>2 DEF Before
      <4>4. Before(Place(j, d, x), size) = Before(j, size * d) + Before(x, size)
        BY <3>1, <4>1, BeforePlace
      <4> QED BY <4>2, <4>3, <4>4
    <3>3. \A x \in 1..d : f[k][Place(j, d, x)] = at[Before(j, size * d) + Before(x, size)]
      BY <2>6, <3>2
    <3>4. Before(j, size * d) \in Nat
      BY <3>1, <3>2
    <3>5. g[k + 1].at[Before(j, size * d)] = Arr([x \in 1..d |-> at[Before(j, size * d) + Before(x, size)]])
      BY <2>5, <3>4
    <3> QED BY <3>3, <3>5 DEF Row
  <2>9. f[k + 1] = [j \in 1..m |-> g[k + 1].at[Before(j, size * d)]]
    BY <2>7, <2>8
  <2>10. f[k + 1] = Starts(k + 1)
    BY <2>5, <2>9 DEF Starts, m
  <2>11. g[k + 1].size \in Nat
    <3>1. size * d \in Nat
      BY <2>2, <2>3
    <3> QED BY <2>5, <3>1
  <2> QED BY <2>1, <2>10, <2>11 DEF T
<1>7. n - 1 \in T
  <2>1. n - 1 \in Nat /\ n - 1 \in 0..n - 1
    BY <1>1
  <2> HIDE DEF T
  <2>2. \A k \in 0..n - 1 : k \in T
    BY <2>1, <1>5, <1>6, Induction
  <2> QED BY <2>1, <2>2
<1> DEFINE d == shape[1]
           below == g[n - 1]
<1>8. d \in Nat \ {0} /\ p[1] = d /\ n - (n - 1) = 1 /\ n + 1 - n = 1 /\ n \in 1..n
  <2>1. 1 \in 1..n /\ 1 - 1 = 0 /\ n - (n - 1) = 1 /\ n + 1 - n = 1 /\ n \in 1..n
    BY <1>1
  <2>2. shape[1] \in Nat \ {0} /\ p[1] = 1 * shape[1]
    BY <1>1, <1>2, <2>1
  <2> QED BY <2>1, <2>2
<1>9. f[n - 1] = [j \in 1..d |-> below.at[Before(j, below.size)]] /\ below.size \in Nat
  BY <1>7, <1>8
<1>10. g[n].at[0] = Arr([x \in 1..d |-> below.at[0 + Before(x, below.size)]])
  <2>1. g[n] = Around(below, d)
    BY <1>4, <1>8
  <2> HIDE DEF below, d
  <2> QED BY <2>1 DEF Around, Before
<1>11. \A x \in 1..d : 0 + Before(x, below.size) = Before(x, below.size)
  <2> DEFINE size == below.size
  <2>1. size \in Nat /\ d \in Nat
    BY <1>8, <1>9
  <2> HIDE DEF size, below, d
  <2>2. \A x \in 1..d : Before(x, size) \in Int
    BY <2>1 DEF Before
  <2> QED BY <2>2 DEF size
<1>12. Arr(f[n - 1]) = g[n].at[0]
  <2> HIDE DEF below, d
  <2> QED BY <1>9, <1>10, <1>11
<1> QED BY <1>3, <1>4, <1>12 DEF n

\* An output with at least one dimension, none of them 0, and with values of its
\* type: any for a type that is not packed.
Nested(o, floats) ==
  /\ o.shape # <<>> /\ o.shape \in Seq(Nat \ {0})
  /\ o.values \in Seq(IF o.type = "float" THEN floats ELSE ValuesOf(o.type))

\* Every value comes out of the storage it was packed in.
LEMMA ValuesComeBack ==
  ASSUME NEW o \in Outputs, NEW floats, Nested(o, floats), NEW place \in 0..Len(o.values) - 1
  PROVE  Element(o.type, Packed(o.type, o.values), place) = o.values[place + 1]
<1> DEFINE type == o.type
           values == o.values
<1>1. type \in {"float", "uint4", "int4", "uint2", "int2"}
  BY OutputsAssumption
<1>2. values \in Seq(IF type = "float" THEN floats ELSE ValuesOf(type)) /\ place \in 0..Len(values) - 1
  BY DEF Nested
<1> HIDE DEF type, values
<1>3. CASE type = "float"
  <2>1. PerByte(type) = 1
    BY <1>3, Zenon DEF PerByte
  <2>2. Packed(type, values) = values
    BY <2>1 DEF Packed
  <2>3. \A data : Element(type, data, place) = data[place + 1]
    BY <1>3, Zenon DEF Element
  <2> QED BY <2>2, <2>3 DEF type, values
<1>4. CASE type # "float"
  <2>1. type \in {"uint4", "int4", "uint2", "int2"} /\ values \in Seq(ValuesOf(type))
    BY <1>1, <1>2, <1>4
  <2>2. Element(type, Packed(type, values), place) = values[place + 1]
    BY <1>2, <2>1, SubByteValues
  <2> QED BY <2>2 DEF type, values
<1> QED BY <1>3, <1>4

\* The JSON of an output is the nested array of its dimensions with its values
\* in their places, for every shape of any rank and length but a scalar and a
\* shape with a dimension 0, for which the code does not do it: the run
\* inference_scalar (value_info.cpp, values_fit_shape and get_tensor_data).
THEOREM OutputsFit ==
  ASSUME NEW floats, \A o \in Outputs : Nested(o, floats)
  PROVE  Spec => []OutputHasItsShape
<1>1. ASSUME IInv PROVE OutputHasItsShape
  <2>1. SUFFICES ASSUME pc = "answered"
                 PROVE  output.json = Nest(output.tensor.shape,
                          [k \in DOMAIN output.tensor.values |-> Leaf("number", output.tensor.values[k])])
    BY DEF OutputHasItsShape
  <2>2. PICK o \in Outputs :
          output = [tensor |-> o,
                    json |-> Arr(get_tensor_data(o.type, Packed(o.type, o.values), o.shape))]
    BY <1>1, <2>1 DEF IInv, OutputInv
  <2> DEFINE leaves == [k \in 1..Product(o.shape) |-> Leaf("number", o.values[k])]
             V == {Leaf("number", v) : v \in {o.values[k] : k \in DOMAIN o.values}}
  <2>3. Nested(o, floats) /\ Len(o.values) = Product(o.shape)
    BY OutputsAssumption
  <2>4. Product(o.shape) \in Nat /\ DOMAIN o.values = 1..Product(o.shape)
    <3>1. \A S : o.values \in Seq(S) => Len(o.values) \in Nat /\ DOMAIN o.values = 1..Len(o.values)
      OBVIOUS
    <3> QED BY <2>3, <3>1 DEF Nested
  <2>5. leaves \in Seq(V) /\ Len(leaves) = Product(o.shape)
    BY <2>4
  <2>6. get_tensor_data(o.type, Packed(o.type, o.values), o.shape)
          = values_fit_shape(leaves, o.shape, Len(o.shape))
    <3> DEFINE E(k) == Element(o.type, Packed(o.type, o.values), k)
    <3>1. ASSUME NEW k \in 1..Product(o.shape) PROVE E(k - 1) = o.values[k]
      <4>1. k - 1 \in 0..Len(o.values) - 1 /\ (k - 1) + 1 = k
        BY <2>3, <2>4
      <4> HIDE DEF E
      <4>2. E(k - 1) = o.values[(k - 1) + 1]
        BY <2>3, <4>1, ValuesComeBack DEF E
      <4> QED BY <4>1, <4>2
    <3> HIDE DEF E
    <3>2. leaves = [k \in 1..Product(o.shape) |-> Leaf("number", E(k - 1))]
      BY <3>1
    <3> QED BY <3>2 DEF get_tensor_data, E
  <2> HIDE DEF leaves, V
  <2>7. Arr(values_fit_shape(leaves, o.shape, Len(o.shape))) = Nest(o.shape, leaves)
    BY <2>3, <2>5, FitsShape DEF Nested
  <2>8. output.json = Nest(o.shape, leaves)
    BY <2>2, <2>6, <2>7
  <2> QED BY <2>2, <2>4, <2>8 DEF leaves
<1> QED BY <1>1, Invariance, PTL

-----------------------------------------------------------------------------
(* The dimensions of an input. *)

\* Sequences of one length, one after another.
Joined(s, t, w) == /\ Len(w) = Len(s) + Len(t)
                   /\ \A p \in 1..Len(s) : w[p] = s[p]
                   /\ \A p \in 1..Len(t) : w[Len(s) + p] = t[p]
LEMMA OneMoreRow ==
  \A V : \A s, t \in Seq(V) : s \o t \in Seq(V) /\ Joined(s, t, s \o t)
<1> SUFFICES ASSUME NEW V, NEW s \in Seq(V), NEW t \in Seq(V)
             PROVE  s \o t \in Seq(V) /\ Joined(s, t, s \o t)
  OBVIOUS
<1> QED BY DEF Joined

LEMMA FlattenRows ==
  ASSUME NEW V, NEW d \in Nat \ {0}, NEW s \in Nat, NEW seqs, DOMAIN seqs = 1..d, Len(seqs) = d,
         \A x \in 1..d : seqs[x] \in Seq(V) /\ Len(seqs[x]) = s
  PROVE  /\ FlattenSeq(seqs) \in Seq(V) /\ Len(FlattenSeq(seqs)) = d * s
         /\ \A x \in 1..d : \A y \in 1..s : FlattenSeq(seqs)[Place(x, s, y)] = seqs[x][y]
<1>1. PICK f : /\ FlattenSeq(seqs) = f[d] /\ f[1] = seqs[1]
               /\ \A k \in 2..d : f[k] = f[k - 1] \o seqs[k]
  BY FlattenUnfold, Zenon
<1> DEFINE Filled(k) == /\ f[k] \in Seq(V) /\ Len(f[k]) = k * s
                        /\ \A x \in 1..k : \A y \in 1..s : f[k][Place(x, s, y)] = seqs[x][y]
           T == {k \in 0..d - 1 : Filled(k + 1)}
<1>2. 0 \in 0..d - 1 /\ 0 + 1 = 1 /\ 1 \in 1..d /\ d - 1 \in Nat /\ (d - 1) + 1 = d
  OBVIOUS
<1>3. 0 \in T
  <2>1. f[1] \in Seq(V) /\ Len(f[1]) = s /\ 1 * s = s
    BY <1>1, <1>2
  <2>2. \A x \in 1..1 : \A y \in 1..s : x = 1 /\ Place(x, s, y) = y
    BY DEF Place
  <2>3. Filled(1)
    BY <1>1, <2>1, <2>2
  <2> HIDE DEF Filled
  <2> QED BY <1>2, <2>3
<1>4. ASSUME NEW k \in 0..d - 1 - 1, k \in T PROVE k + 1 \in T
  <2> DEFINE i1 == k + 1
             i2 == k + 2
             a == i1 * s
  <2>1. /\ i1 \in Nat \ {0} /\ i2 \in 2..d /\ i2 \in 1..d /\ i2 - 1 = i1 /\ (k + 1) + 1 = i2
        /\ k + 1 \in 0..d - 1 /\ i2 = i1 + 1 /\ \A x \in 1..i2 : x \in 1..i1 \/ x = i2
    OBVIOUS
  <2>2. Filled(i1)
    BY <1>4
  <2> HIDE DEF i1, i2, T
  <2>3. f[i2] = f[i1] \o seqs[i2] /\ seqs[i2] \in Seq(V) /\ Len(seqs[i2]) = s
    BY <1>1, <2>1
  <2>4. a \in Nat /\ i2 * s = a + s
    <3>1. \A x \in Nat : x * s \in Nat /\ (x + 1) * s = x * s + s
      OBVIOUS
    <3> QED BY <2>1, <3>1
  <2>5. f[i1] \in Seq(V) /\ Len(f[i1]) = a
    BY <2>2
  <2> HIDE DEF a, Filled
  <2>6. /\ f[i2] \in Seq(V) /\ Len(f[i2]) = a + s
        /\ \A p \in 1..a : f[i2][p] = f[i1][p]
        /\ \A p \in 1..s : f[i2][a + p] = seqs[i2][p]
    <3> DEFINE u == f[i1]
               v == seqs[i2]
               w == f[i2]
    <3>1. u \in Seq(V) /\ v \in Seq(V) /\ a \in Nat /\ Len(u) = a /\ Len(v) = s /\ w = u \o v
      BY <2>3, <2>4, <2>5
    <3> HIDE DEF u, v, w
    <3>2. w \in Seq(V) /\ Joined(u, v, w)
      BY <3>1, OneMoreRow, Zenon
    <3>3. /\ w \in Seq(V) /\ Len(w) = a + s
          /\ \A p \in 1..a : w[p] = u[p]
          /\ \A p \in 1..s : w[a + p] = v[p]
      BY <3>1, <3>2, Zenon DEF Joined
    <3> QED BY <3>3 DEF u, v, w
  <2>7. ASSUME NEW x \in 1..i2, NEW y \in 1..s PROVE f[i2][Place(x, s, y)] = seqs[x][y]
    <3>1. CASE x \in 1..i1
      <4>1. s \in Nat \ {0} /\ x \in Nat \ {0} /\ x <= i1 /\ i1 \in Nat
        BY <2>1, <3>1
      <4>2. Place(x, s, y) \in 1..i1 * s
        BY <4>1, PlaceInRow
      <4>3. f[i1][Place(x, s, y)] = seqs[x][y]
        BY <2>2, <3>1 DEF Filled
      <4> QED BY <2>6, <4>2, <4>3 DEF a
    <3>2. CASE x = i2
      <4>1. Place(x, s, y) = a + y
        BY <2>1, <3>2 DEF Place, a
      <4> QED BY <2>6, <3>2, <4>1
    <3> QED BY <2>1, <3>1, <3>2
  <2>8. Filled(i2)
    BY <2>4, <2>6, <2>7 DEF Filled
  <2> QED BY <2>1, <2>8 DEF T
<1>5. d - 1 \in T
  <2> HIDE DEF T
  <2>1. \A k \in 0..d - 1 : k \in T
    BY <1>2, <1>3, <1>4, Induction
  <2> QED BY <1>2, <2>1
<1>6. Filled(d)
  <2> HIDE DEF Filled
  <2> QED BY <1>2, <1>5
<1> QED BY <1>1, <1>6

\* An array of these dimensions, level by level from the leaves up.
LeavesOf(kinds) == [json \in Jsons |-> ~IsArray(json) /\ json.kind \in kinds]
ArraysOf(below, dim) ==
  [json \in Jsons |-> /\ IsArray(json) /\ Len(json.items) = dim /\ dim > 0
                      /\ \A x \in 1..dim : below[json.items[x]]]
HasIs(g, dims, kinds, m) ==
  g = [k \in 0..m |-> IF k = 0 THEN LeavesOf(kinds) ELSE ArraysOf(g[k - 1], dims[Len(dims) + 1 - k])]
HasLevels(f, data, dims, kinds) ==
  /\ HasDims(data, dims, kinds) = f[Len(dims)][data] /\ f[0] = LeavesOf(kinds)
  /\ \A k \in 1..Len(dims) : f[k] = ArraysOf(f[k - 1], dims[Len(dims) + 1 - k])
LEMMA HasUnfold ==
  ASSUME NEW data, NEW dims, Len(dims) \in Nat, NEW kinds
  PROVE  \E f : HasLevels(f, data, dims, kinds)
<1> DEFINE n == Len(dims)
           T == {m \in 0..n : \E g : HasIs(g, dims, kinds, m)}
           f == CHOOSE g : HasIs(g, dims, kinds, n)
<1>1. HasDims(data, dims, kinds) = f[n][data]
  BY DEF HasDims, HasIs, LeavesOf, ArraysOf
<1>0. n \in Nat
  OBVIOUS
<1> HIDE DEF n, f
<1>2. 0 \in T
  <2>1. \A k \in 0..0 : k = 0
    OBVIOUS
  <2>2. HasIs([k \in 0..0 |-> LeavesOf(kinds)], dims, kinds, 0)
    BY <2>1 DEF HasIs
  <2> QED BY <1>0, <2>2
<1>3. ASSUME NEW m \in 0..n - 1, m \in T PROVE m + 1 \in T
  <2>1. PICK g : HasIs(g, dims, kinds, m)
    BY <1>3
  <2> DEFINE Level(b, k) == ArraysOf(b, dims[Len(dims) + 1 - k])
             h == [k \in 0..m + 1 |-> IF k <= m THEN g[k] ELSE Level(g[k - 1], k)]
  <2>2. ASSUME NEW k \in 0..m + 1
        PROVE  h[k] = IF k = 0 THEN LeavesOf(kinds) ELSE Level(h[k - 1], k)
    <3>1. /\ k # 0 => k - 1 \in 0..m + 1 /\ k - 1 <= m
          /\ k <= m => k \in 0..m
          /\ k = 0 => k <= m
      BY <1>0
    <3> QED BY <2>1, <3>1 DEF HasIs
  <2>3. HasIs(h, dims, kinds, m + 1)
    BY <2>2 DEF HasIs
  <2>4. m + 1 \in 0..n
    BY <1>0
  <2> QED BY <2>3, <2>4
<1>4. n \in T
  <2> HIDE DEF T
  <2>1. \A k \in 0..n : k \in T
    BY <1>0, <1>2, <1>3, Induction
  <2> QED BY <1>0, <2>1
<1>5. HasIs(f, dims, kinds, n)
  <2>1. PICK g : HasIs(g, dims, kinds, n)
    BY <1>4
  <2> QED BY <2>1 DEF f
<1>6. f[0] = LeavesOf(kinds) /\ \A k \in 1..n : f[k] = ArraysOf(f[k - 1], dims[Len(dims) + 1 - k])
  <2>1. 0 \in 0..n /\ \A k \in 1..n : k \in 0..n /\ k # 0
    BY <1>0
  <2> QED BY <1>5, <2>1 DEF HasIs
<1> QED BY <1>1, <1>6 DEF n, HasLevels

\* The number of values of the inner dimensions.
LEMMA Sizes ==
  ASSUME NEW dims \in Seq(Nat \ {0}), NEW size, size[0] = 1,
         \A k \in 1..Len(dims) : size[k] = size[k - 1] * dims[Len(dims) + 1 - k]
  PROVE  size[Len(dims)] = Product(dims) /\ \A k \in 0..Len(dims) : size[k] \in Nat \ {0}
<1> DEFINE n == Len(dims)
<1>1. n \in Nat /\ \A k \in 1..n : dims[k] \in Nat \ {0}
  OBVIOUS
<1> HIDE DEF n
<1>2. PICK p : /\ Product(dims) = p[n] /\ p[0] = 1
               /\ \A k \in 0..n : p[k] \in Nat \ {0}
               /\ \A k \in 1..n : p[k] = p[k - 1] * dims[k]
  BY Products DEF n
<1> DEFINE T == {k \in 0..n : size[k] \in Nat \ {0} /\ size[k] * p[n - k] = p[n]}
<1>3. 0 \in T
  <2>1. n - 0 = n /\ p[n] \in Nat /\ 0 \in 0..n /\ 1 \in Nat \ {0}
    BY <1>1, <1>2
  <2>2. 1 * p[n] = p[n]
    BY <2>1
  <2> QED BY <2>1, <2>2
<1>4. ASSUME NEW k \in 0..n - 1, k \in T PROVE k + 1 \in T
  <2> DEFINE a == size[k]
             b == p[n - (k + 1)]
             c == dims[n - k]
  <2>1. /\ k + 1 \in 1..n /\ k + 1 \in 0..n /\ (k + 1) - 1 = k /\ n + 1 - (k + 1) = n - k
        /\ n - k \in 1..n /\ (n - k) - 1 = n - (k + 1) /\ n - (k + 1) \in 0..n
    BY <1>1
  <2>2. size[k + 1] = a * c /\ p[n - k] = b * c
    BY <1>2, <2>1 DEF n
  <2>3. a \in Nat \ {0} /\ b \in Nat /\ c \in Nat \ {0}
    BY <1>1, <1>2, <1>4, <2>1
  <2>4. a * (b * c) = p[n]
    BY <1>4, <2>2
  <2> HIDE DEF a, b, c
  <2>5. (a * c) * b = a * (b * c) /\ a * c \in Nat \ {0}
    <3>1. a \in Int /\ b \in Int /\ c \in Int
      BY <2>3
    <3>2. (a * c) * b = a * (b * c)
      BY <3>1, Regrouped
    <3>3. \A x, y \in Nat \ {0} : x * y \in Nat \ {0}
      OBVIOUS
    <3>4. a * c \in Nat \ {0}
      BY <2>3, <3>3
    <3> QED BY <3>2, <3>4
  <2> QED BY <2>1, <2>2, <2>4, <2>5 DEF b
<1> HIDE DEF T
<1>5. \A k \in 0..n : k \in T
  BY <1>1, <1>3, <1>4, Induction
<1>6. size[n] \in Nat \ {0} /\ size[n] * p[0] = p[n]
  <2>1. n \in 0..n /\ n - n = 0
    BY <1>1
  <2> QED BY <1>5, <2>1 DEF T
<1>7. size[n] = Product(dims)
  BY <1>2, <1>6
<1> QED BY <1>5, <1>7 DEF n, T

\* A value that is an array of these dimensions is the nested array of its
\* values: there are as many as the dimensions have places, each of one of these
\* kinds.
Of(kinds) == {j \in Simple : j.kind \in kinds}
LEMMA Dimensioned ==
  ASSUME NEW json \in Jsons, NEW dims \in Seq(Nat \ {0}), NEW kinds, HasDims(json, dims, kinds)
  PROVE  /\ flat_json_values(json) \in Seq(Of(kinds))
         /\ Len(flat_json_values(json)) = Product(dims)
         /\ json = Nest(dims, flat_json_values(json))
<1> DEFINE n == Len(dims)
           V == Of(kinds)
           leaves == flat_json_values(json)
<1>1. n \in Nat /\ \A k \in 1..n : dims[k] \in Nat \ {0}
  OBVIOUS
<1> HIDE DEF n, V, leaves
<1>2. PICK h : /\ HasDims(json, dims, kinds) = h[n][json] /\ h[0] = LeavesOf(kinds)
               /\ \A k \in 1..n : h[k] = ArraysOf(h[k - 1], dims[n + 1 - k])
  <2>1. Len(dims) \in Nat
    BY <1>1 DEF n
  <2>2. \E h : HasLevels(h, json, dims, kinds)
    BY <2>1, HasUnfold
  <2> QED BY <2>2 DEF n, HasLevels
<1>3. PICK g : /\ Nest(dims, leaves) = g[n].at[0] /\ g[0] = First(leaves)
               /\ \A k \in 1..n : g[k] = Around(g[k - 1], dims[n + 1 - k])
  <2>1. Len(dims) \in Nat
    BY <1>1 DEF n
  <2>2. PICK g : NestLevels(g, dims, leaves)
    BY <2>1, NestUnfold
  <2> QED BY <2>2 DEF n, NestLevels
<1>4. g[n].size = Product(dims) /\ \A k \in 0..n : g[k].size \in Nat
  <2> DEFINE size == [k \in 0..n |-> g[k].size]
  <2>1. size[0] = 1
    BY <1>1, <1>3 DEF First
  <2>2. ASSUME NEW k \in 1..n PROVE size[k] = size[k - 1] * dims[n + 1 - k]
    <3>1. k - 1 \in 0..n /\ k \in 0..n
      BY <1>1
    <3>2. g[k] = Around(g[k - 1], dims[n + 1 - k])
      BY <1>3
    <3> QED BY <3>1, <3>2 DEF Around
  <2>3. n \in 0..n
    BY <1>1
  <2> HIDE DEF size
  <2>4. size[n] = Product(dims) /\ \A k \in 0..n : size[k] \in Nat \ {0}
    BY <2>1, <2>2, Sizes DEF n
  <2> QED BY <2>3, <2>4 DEF size
<1> DEFINE Fills(o, j) == \A p \in 1..Len(flat_json_values(j)) : leaves[o + p] = flat_json_values(j)[p]
           Inner(k, j) == /\ flat_json_values(j) \in Seq(V) /\ Len(flat_json_values(j)) = g[k].size
                          /\ \A o \in Nat : Fills(o, j) => g[k].at[o] = j
           T == {k \in 0..n : \A j \in Jsons : h[k][j] => Inner(k, j)}
<1>5. 0 \in T
  <2>1. ASSUME NEW j \in Jsons, h[0][j] PROVE Inner(0, j)
    <3>1. ~IsArray(j) /\ j.kind \in kinds
      BY <1>2, <2>1 DEF LeavesOf
    <3>2. flat_json_values(j) = <<j>> /\ j \in V
      BY <3>1, FlatUnfold DEF V, Of, Simple
    <3>3. g[0].size = 1 /\ \A o \in Nat : g[0].at[o] = leaves[o + 1]
      BY <1>3 DEF First
    <3>4. <<j>> \in Seq(V) /\ Len(<<j>>) = 1 /\ 1 \in 1..1 /\ <<j>>[1] = j
      BY <3>2
    <3> QED BY <3>2, <3>3, <3>4
  <2>2. 0 \in 0..n
    BY <1>1
  <2> QED BY <2>1, <2>2
<1>6. ASSUME NEW k \in 0..n - 1, k \in T PROVE k + 1 \in T
  <2> DEFINE d == dims[n - k]
             size == g[k].size
             at == g[k].at
  <2>1. k + 1 \in 1..n /\ k \in 0..n /\ k + 1 \in 0..n /\ (k + 1) - 1 = k /\ n + 1 - (k + 1) = n - k /\ n - k \in 1..n
    BY <1>1
  <2>2. d \in Nat \ {0} /\ size \in Nat
    BY <1>1, <1>4, <2>1
  <2>3. h[k + 1] = ArraysOf(h[k], d) /\ g[k + 1] = Around(g[k], d)
    BY <1>2, <1>3, <2>1
  <2>4. /\ g[k + 1].size = size * d
        /\ \A o \in Nat : g[k + 1].at[o] = Arr([x \in 1..d |-> at[o + Before(x, size)]])
    BY <2>3 DEF Around, Before
  <2>5. \A j \in Jsons : h[k][j] => /\ flat_json_values(j) \in Seq(V) /\ Len(flat_json_values(j)) = size
                                    /\ \A o \in Nat : Fills(o, j) => at[o] = j
    BY <1>6
  <2> HIDE DEF d, size, at, T
  <2>6. ASSUME NEW j \in Jsons, h[k + 1][j] PROVE Inner(k + 1, j)
    <3> DEFINE seqs == [x \in DOMAIN j.items |-> flat_json_values(j.items[x])]
               flat == flat_json_values(j)
    <3>1. IsArray(j) /\ Len(j.items) = d /\ \A x \in 1..d : h[k][j.items[x]]
      BY <2>3, <2>6 DEF ArraysOf
    <3>2. j = Arr(j.items) /\ j.items \in Seq(Jsons) /\ flat = FlattenSeq(seqs)
      BY <3>1, InnerValues, FlatUnfold
    <3>3. DOMAIN j.items = 1..d /\ (\A x \in 1..d : j.items[x] \in Jsons) /\ j.items = [x \in 1..d |-> j.items[x]]
      <4>1. \A q \in Seq(Jsons) : DOMAIN q = 1..Len(q) /\ (\A x \in 1..Len(q) : q[x] \in Jsons) /\ q = [x \in 1..Len(q) |-> q[x]]
        OBVIOUS
      <4> QED BY <3>1, <3>2, <4>1
    <3>4. \A x \in 1..d : seqs[x] = flat_json_values(j.items[x]) /\ seqs[x] \in Seq(V) /\ Len(seqs[x]) = size
      BY <2>5, <3>1, <3>3
    <3>5. DOMAIN seqs = 1..d /\ Len(seqs) = d
      <4>1. seqs = [x \in 1..d |-> seqs[x]]
        BY <3>3
      <4> HIDE DEF seqs
      <4>2. Len([x \in 1..d |-> seqs[x]]) = d
        BY <2>2
      <4> QED BY <4>1, <4>2
    <3> HIDE DEF seqs, flat
    <3>6. /\ flat \in Seq(V) /\ Len(flat) = d * size
          /\ \A x \in 1..d : \A y \in 1..size : flat[Place(x, size, y)] = seqs[x][y]
      <4>1. /\ FlattenSeq(seqs) \in Seq(V) /\ Len(FlattenSeq(seqs)) = d * size
            /\ \A x \in 1..d : \A y \in 1..size : FlattenSeq(seqs)[Place(x, size, y)] = seqs[x][y]
        BY <2>2, <3>4, <3>5, FlattenRows
      <4> QED BY <3>2, <4>1
    <3>7. d * size = size * d
      BY <2>2
    <3>8. ASSUME NEW o \in Nat, Fills(o, j) PROVE g[k + 1].at[o] = j
      <4>1. ASSUME NEW x \in 1..d PROVE at[o + Before(x, size)] = j.items[x]
        <5> DEFINE o1 == o + Before(x, size)
        <5>1. x \in Nat \ {0} /\ x <= d /\ d \in Nat /\ x - 1 \in Nat
          BY <2>2
        <5>2. Before(x, size) \in Nat
          <6>1. \A a, b \in Nat : a * b \in Nat
            OBVIOUS
          <6> QED BY <2>2, <5>1, <6>1 DEF Before
        <5>3. ASSUME NEW y \in 1..size PROVE leaves[o1 + y] = seqs[x][y]
          <6>1. size \in Nat \ {0}
            BY <2>2
          <6>2. Place(x, size, y) \in 1..d * size
            BY <5>1, <6>1, PlaceInRow, Zenon
          <6>3. leaves[o + Place(x, size, y)] = flat[Place(x, size, y)]
            BY <3>6, <3>8, <6>2 DEF flat
          <6>4. o + Place(x, size, y) = o1 + y
            <7>1. Place(x, size, y) = Before(x, size) + y
              BY DEF Place, Before
            <7> QED BY <5>2, <6>1, <7>1
          <6> QED BY <3>6, <6>3, <6>4
        <5>4. o1 \in Nat /\ j.items[x] \in Jsons /\ h[k][j.items[x]]
          BY <3>1, <3>3, <5>2
        <5> HIDE DEF o1
        <5>5. Fills(o1, j.items[x])
          BY <3>4, <5>3
        <5> HIDE DEF Fills
        <5>6. at[o1] = j.items[x]
          BY <2>5, <5>4, <5>5
        <5> QED BY <5>6 DEF o1
      <4>2. g[k + 1].at[o] = Arr([x \in 1..d |-> j.items[x]])
        BY <2>4, <4>1
      <4> QED BY <3>2, <3>3, <4>2
    <3> HIDE DEF Fills
    <3> QED BY <2>4, <3>6, <3>7, <3>8 DEF flat
  <2> HIDE DEF Inner
  <2> QED BY <2>1, <2>6 DEF T
<1>7. n \in T
  <2> HIDE DEF T
  <2>1. \A k \in 0..n : k \in T
    BY <1>1, <1>5, <1>6, Induction
  <2>2. n \in 0..n
    BY <1>1
  <2> QED BY <2>1, <2>2
<1>8. Inner(n, json)
  <2> HIDE DEF Inner
  <2> QED BY <1>2, <1>7
<1>9. Fills(0, json)
  <2>1. \A p \in Nat : 0 + p = p
    OBVIOUS
  <2>2. \A m : \A p \in 1..m : p \in Nat
    OBVIOUS
  <2> QED BY <2>1, <2>2 DEF leaves
<1>10. g[n].at[0] = json
  <2> HIDE DEF Fills
  <2> QED BY <1>8, <1>9
<1> QED BY <1>3, <1>4, <1>8, <1>10 DEF V, leaves

\* The shape of a value, one call of calc_shape after another: what the last one
\* adds to the sizes it was given.
ShapeStep(inner, c) ==
  [json \in Jsons |-> [shape \in Seq(Nat) |->
    LET below == IF IsArray(json) /\ c # 0 /\ json.items # <<>>
                 THEN inner[json.items[1]][Append(shape, Len(json.items))]
                 ELSE shape
    IN  IF Len(below) = c - 1 THEN Append(below, 1) ELSE below]]
CalcIs(g, m) == g = [c \in 0..m |-> ShapeStep(g[c - 1], c)]
CalcLevels(f, data, count) ==
  /\ calcShape(data, count) = f[count][data][<<>>]
  /\ \A c \in 0..count : f[c] = ShapeStep(f[c - 1], c)
LEMMA CalcUnfold ==
  ASSUME NEW data, NEW count \in Nat
  PROVE  \E f : CalcLevels(f, data, count)
<1> DEFINE T == {m \in 0..count : \E g : CalcIs(g, m)}
           f == CHOOSE g : CalcIs(g, count)
<1>1. calcShape(data, count) = f[count][data][<<>>]
  BY DEF calcShape, CalcIs, ShapeStep
<1> HIDE DEF f
<1>2. 0 \in T
  <2> DEFINE g == [c \in 0..0 |-> ShapeStep(<<>>, 0)]
  <2>1. \A a, b : ShapeStep(a, 0) = ShapeStep(b, 0)
    BY DEF ShapeStep
  <2>2. \A c \in 0..0 : c = 0
    OBVIOUS
  <2>3. \A c \in 0..0 : ShapeStep(<<>>, 0) = ShapeStep(g[c - 1], c)
    BY <2>1, <2>2
  <2>4. CalcIs(g, 0)
    <3> DEFINE h == [c \in 0..0 |-> ShapeStep(g[c - 1], c)]
    <3>1. g = h
      <4> HIDE DEF g
      <4>1. g = [c \in 0..0 |-> ShapeStep(<<>>, 0)]
        BY DEF g
      <4> QED BY <2>3, <4>1
    <3> HIDE DEF g
    <3> QED BY <3>1 DEF CalcIs
  <2> HIDE DEF g
  <2>5. 0 \in 0..count
    OBVIOUS
  <2> QED BY <2>4, <2>5
<1>3. ASSUME NEW m \in 0..count - 1, m \in T PROVE m + 1 \in T
  <2>1. PICK g : CalcIs(g, m)
    BY <1>3
  <2> DEFINE h == [c \in 0..m + 1 |-> IF c <= m THEN g[c] ELSE ShapeStep(g[c - 1], c)]
  <2>2. ASSUME NEW c \in 0..m + 1
        PROVE  h[c] = ShapeStep(h[c - 1], c)
    <3>1. CASE c = 0
      <4>1. \A a, b : ShapeStep(a, 0) = ShapeStep(b, 0)
        BY DEF ShapeStep
      <4>2. 0 <= m /\ 0 \in 0..m /\ 0 \in 0..m + 1
        OBVIOUS
      <4>3. h[0] = ShapeStep(g[0 - 1], 0)
        BY <2>1, <4>2 DEF CalcIs
      <4> HIDE DEF h
      <4> QED BY <3>1, <4>1, <4>3
    <3>2. CASE c # 0
      <4>1. c - 1 \in 0..m + 1 /\ c - 1 <= m /\ c - 1 \in 0..m /\ (c <= m => c \in 0..m)
        BY <3>2
      <4>2. h[c - 1] = g[c - 1]
        BY <4>1
      <4>3. h[c] = ShapeStep(g[c - 1], c)
        BY <2>1, <4>1 DEF CalcIs
      <4> HIDE DEF h
      <4> QED BY <4>2, <4>3
    <3> QED BY <3>1, <3>2
  <2>3. CalcIs(h, m + 1)
    BY <2>2 DEF CalcIs
  <2>4. m + 1 \in 0..count
    OBVIOUS
  <2> HIDE DEF h
  <2> QED BY <2>3, <2>4
<1>4. count \in T
  <2> HIDE DEF T
  <2>1. \A k \in 0..count : k \in T
    BY <1>2, <1>3, Induction
  <2> QED BY <2>1
<1>5. CalcIs(f, count)
  <2>1. PICK g : CalcIs(g, count)
    BY <1>4
  <2> QED BY <2>1 DEF f
<1>6. \A c \in 0..count : f[c] = ShapeStep(f[c - 1], c)
  BY <1>5 DEF CalcIs
<1> QED BY <1>1, <1>6 DEF CalcLevels

\* The first elements of a sequence.
LEMMA OneMoreElement ==
  ASSUME NEW V, NEW s \in Seq(V)
  PROVE  /\ SubSeq(s, 1, Len(s)) = s /\ SubSeq(s, 1, 0) = <<>>
         /\ \A m \in 0..Len(s) : SubSeq(s, 1, m) \in Seq(V)
         /\ \A m \in 1..Len(s) : Append(SubSeq(s, 1, m - 1), s[m]) = SubSeq(s, 1, m)
<1>1. SubSeq(s, 1, Len(s)) = s /\ SubSeq(s, 1, 0) = <<>>
  OBVIOUS
<1>2. \A m \in 0..Len(s) : SubSeq(s, 1, m) \in Seq(V)
  OBVIOUS
<1>3. \A m \in 1..Len(s) : Append(SubSeq(s, 1, m - 1), s[m]) = SubSeq(s, 1, m)
  OBVIOUS
<1> QED BY <1>1, <1>2, <1>3

\* The shape of an array of these dimensions is these dimensions; where one more
\* was asked for, it is a 1 at the end.
LEMMA ShapeOf ==
  ASSUME NEW json \in Jsons, NEW dims \in Seq(Nat \ {0}), NEW kinds, HasDims(json, dims, kinds),
         NEW e \in {0, 1}
  PROVE  calcShape(json, Len(dims) + e) = IF e = 0 THEN dims ELSE Append(dims, 1)
<1> DEFINE n == Len(dims)
<1>1. n \in Nat /\ e \in Nat /\ n + e \in Nat /\ \A k \in 1..n : dims[k] \in Nat \ {0}
  OBVIOUS
<1>2. dims \in Seq(Nat)
  OBVIOUS
<1> HIDE DEF n
<1>3. PICK h : /\ HasDims(json, dims, kinds) = h[n][json] /\ h[0] = LeavesOf(kinds)
               /\ \A k \in 1..n : h[k] = ArraysOf(h[k - 1], dims[n + 1 - k])
  <2>1. Len(dims) \in Nat
    BY <1>1 DEF n
  <2>2. \E h : HasLevels(h, json, dims, kinds)
    BY <2>1, HasUnfold
  <2> QED BY <2>2 DEF n, HasLevels
<1>4. PICK f : CalcLevels(f, json, n + e)
  BY <1>1, CalcUnfold
<1> DEFINE Outer(m) == SubSeq(dims, 1, m)
           Whole(k) == IF e = 1 /\ k = n THEN Append(dims, 1) ELSE dims
           T == {k \in 0..n : \A j \in Jsons : h[k][j] => f[k + e][j][Outer(n - k)] = Whole(k)}
<1>5. /\ Outer(n) = dims /\ Outer(0) = <<>> /\ \A m \in 0..n : Outer(m) \in Seq(Nat)
      /\ \A m \in 1..n : Append(Outer(m - 1), dims[m]) = Outer(m)
  BY <1>2, OneMoreElement DEF n
<1> HIDE DEF Outer
<1>6. \A k \in 0..n : f[k + e] = ShapeStep(f[k + e - 1], k + e)
  <2>1. \A k \in 0..n : k + e \in 0..n + e
    BY <1>1
  <2> QED BY <1>4, <2>1 DEF CalcLevels
<1>7. 0 \in T
  <2>1. ASSUME NEW j \in Jsons, h[0][j] PROVE f[0 + e][j][Outer(n - 0)] = Whole(0)
    <3>1. ~IsArray(j)
      BY <1>3, <2>1 DEF LeavesOf
    <3>2. n - 0 = n /\ 0 + e = e /\ 0 \in 0..n
      BY <1>1
    <3>3. f[e] = ShapeStep(f[e - 1], e) /\ dims \in Seq(Nat)
      BY <1>2, <1>6, <3>2
    <3>4. f[e][j][dims] = IF Len(dims) = e - 1 THEN Append(dims, 1) ELSE dims
      <4> DEFINE inner == f[e - 1]
      <4>1. f[e] = ShapeStep(inner, e)
        BY <3>3
      <4> HIDE DEF inner
      <4>2. ShapeStep(inner, e)[j][dims] = IF Len(dims) = e - 1 THEN Append(dims, 1) ELSE dims
        BY <1>2, <3>1 DEF ShapeStep
      <4> QED BY <4>1, <4>2
    <3>5. Len(dims) = e - 1 <=> e = 1 /\ 0 = n
      BY <1>1 DEF n
    <3> QED BY <1>5, <3>2, <3>4, <3>5
  <2>2. 0 \in 0..n
    BY <1>1
  <2> QED BY <2>1, <2>2
<1>8. ASSUME NEW k \in 0..n - 1, k \in T PROVE k + 1 \in T
  <2>1. /\ k + 1 \in 1..n /\ k + 1 \in 0..n /\ (k + 1) - 1 = k /\ n + 1 - (k + 1) = n - k
        /\ n - k \in 1..n /\ n - (k + 1) = (n - k) - 1 /\ n - (k + 1) \in 0..n /\ k # n
        /\ (k + 1) + e - 1 = k + e /\ (k + 1) + e # 0
    BY <1>1
  <2> DEFINE d == dims[n - k]
             start == Outer(n - (k + 1))
  <2>2. start \in Seq(Nat) /\ Append(start, d) = Outer(n - k)
    BY <1>5, <2>1
  <2>3. h[k + 1] = ArraysOf(h[k], d) /\ f[(k + 1) + e] = ShapeStep(f[k + e], (k + 1) + e)
    BY <1>3, <1>6, <2>1
  <2>4. d \in Nat \ {0}
    BY <1>1, <2>1
  <2> HIDE DEF d, start
  <2>5. ASSUME NEW j \in Jsons, h[k + 1][j] PROVE f[(k + 1) + e][j][start] = Whole(k + 1)
    <3>1. IsArray(j) /\ Len(j.items) = d /\ \A x \in 1..d : h[k][j.items[x]]
      BY <2>3, <2>5 DEF ArraysOf
    <3>2. j.items \in Seq(Jsons)
      BY <3>1, InnerValues
    <3>3. j.items # <<>> /\ j.items[1] \in Jsons /\ h[k][j.items[1]]
      <4>1. 1 \in 1..d /\ d # 0
        BY <2>4
      <4>2. \A q \in Seq(Jsons) : Len(q) = d => q # <<>> /\ q[1] \in Jsons
        BY <2>4
      <4> QED BY <3>1, <3>2, <4>1, <4>2
    <3>4. f[k + e][j.items[1]][Outer(n - k)] = dims
      BY <1>8, <2>1, <3>3
    <3>5. f[(k + 1) + e][j][start] = IF Len(dims) = (k + 1) + e - 1 THEN Append(dims, 1) ELSE dims
      <4> DEFINE c == (k + 1) + e
                 inner == f[k + e]
                 below == inner[j.items[1]][Append(start, Len(j.items))]
      <4>1. below = dims
        BY <2>2, <3>1, <3>4
      <4>2. f[c] = ShapeStep(inner, c) /\ c # 0
        BY <2>1, <2>3
      <4> HIDE DEF c, inner
      <4>3. ShapeStep(inner, c)[j][start] = IF Len(below) = c - 1 THEN Append(below, 1) ELSE below
        BY <2>2, <3>1, <3>3, <4>2 DEF ShapeStep
      <4> QED BY <4>1, <4>2, <4>3 DEF c
    <3>6. Len(dims) = (k + 1) + e - 1 <=> e = 1 /\ k + 1 = n
      BY <1>1, <2>1 DEF n
    <3> QED BY <3>5, <3>6
  <2> HIDE DEF Whole
  <2> QED BY <2>1, <2>5 DEF start
<1>9. n \in T
  <2> HIDE DEF T
  <2>1. \A k \in 0..n : k \in T
    BY <1>1, <1>7, <1>8, Induction
  <2>2. n \in 0..n
    BY <1>1
  <2> QED BY <2>1, <2>2
<1>10. f[n + e][json][<<>>] = Whole(n)
  <2>1. n - n = 0
    BY <1>1
  <2> HIDE DEF Whole
  <2> QED BY <1>3, <1>5, <1>9, <2>1
<1> QED BY <1>4, <1>10 DEF n, CalcLevels

\* A multiple is divided without a rest.
LEMMA Exactly ==
  ASSUME NEW m \in Nat \ {0}, NEW c \in Nat \ {0}
  PROVE  Greater(1, (m * c + c - 1) \div c) = m
<1>1. m * c \in Nat
  OBVIOUS
<1>2. (m * c + c - 1) \div c = m
  BY <1>1
<1> QED BY <1>2 DEF Greater

\* The batch of as many values as some dimensions have places is the dimension
\* that was open.
LEMMA BatchSuits ==
  ASSUME NEW dims \in Seq(Nat \ {0}), NEW shape \in Seq(Int), Len(shape) = Len(dims),
         NEW j \in 1..Len(dims), shape[j] = Dynamic, \A d \in 1..Len(dims) : d # j => shape[d] = dims[d]
  PROVE  Batch(shape, Product(dims)) = dims[j]
<1> DEFINE n == Len(dims)
<1>1. n \in Nat /\ Len(shape) = n /\ \A k \in 1..n : dims[k] \in Nat \ {0}
  OBVIOUS
<1>2. dims[j] \in Nat \ {0} /\ j \in 1..n
  OBVIOUS
<1> HIDE DEF n
<1>3. PICK f : /\ Batch(shape, Product(dims)) = f[n] /\ f[0] = Product(dims)
               /\ \A k \in 1..n : f[k] = Divided(f[k - 1], shape[k])
  <2>1. Len(shape) \in Nat
    BY <1>1
  <2>2. PICK f : BatchLevels(f, shape, Product(dims))
    BY <2>1, BatchUnfold
  <2> QED BY <1>1, <2>2 DEF BatchLevels
<1>4. PICK size : /\ size[0] = 1
                  /\ \A k \in 1..n : size[k] = size[k - 1] * dims[n + 1 - k]
                  /\ size[n] = Product(dims) /\ \A k \in 0..n : size[k] \in Nat \ {0}
  <2>1. Len(dims) \in Nat
    BY <1>1 DEF n
  <2>2. PICK g : NestLevels(g, dims, <<>>)
    BY <2>1, NestUnfold
  <2> DEFINE size == [k \in 0..n |-> g[k].size]
  <2>3. size[0] = 1
    <3>1. 0 \in 0..n /\ g[0] = First(<<>>)
      BY <1>1, <2>2 DEF NestLevels
    <3> HIDE DEF size
    <3>2. g[0].size = 1
      BY <3>1 DEF First
    <3> QED BY <3>1, <3>2 DEF size
  <2>4. ASSUME NEW k \in 1..n PROVE size[k] = size[k - 1] * dims[n + 1 - k]
    <3>1. k - 1 \in 0..n /\ k \in 0..n
      BY <1>1
    <3>2. g[k] = Around(g[k - 1], dims[n + 1 - k])
      BY <2>2 DEF n, NestLevels
    <3> QED BY <3>1, <3>2 DEF Around
  <2> HIDE DEF size
  <2>5. size[n] = Product(dims) /\ \A k \in 0..n : size[k] \in Nat \ {0}
    BY <2>3, <2>4, Sizes DEF n
  <2> QED BY <2>3, <2>4, <2>5
<1> DEFINE Batched(k) == IF j <= k THEN dims[j] ELSE 1
           T == {k \in 0..n : f[k] = size[n - k] * Batched(k)}
<1>5. \A k \in Nat : Batched(k) \in Nat \ {0}
  BY <1>2
<1>6. 0 \in T
  <2>1. n - 0 = n /\ ~(j <= 0) /\ 0 \in 0..n /\ n \in 0..n
    BY <1>1, <1>2
  <2>2. size[n] * 1 = size[n]
    BY <1>4, <2>1
  <2> QED BY <1>3, <1>4, <2>1, <2>2
<1>7. ASSUME NEW k \in 0..n - 1, k \in T PROVE k + 1 \in T
  <2> DEFINE c == dims[k + 1]
             w == size[n - (k + 1)]
             x == Batched(k)
             f0 == f[k]
             f1 == f[k + 1]
  <2>1. /\ k + 1 \in 1..n /\ k + 1 \in 0..n /\ (k + 1) - 1 = k /\ k \in Nat /\ k + 1 \in Nat
        /\ n - k \in 1..n /\ (n - k) - 1 = n - (k + 1) /\ n + 1 - (n - k) = k + 1 /\ n - (k + 1) \in 0..n
    BY <1>1
  <2>2. size[n - k] = w * c
    BY <1>4, <2>1
  <2>3. f1 = Divided(f0, shape[k + 1]) /\ f0 = (w * c) * x
    BY <1>3, <1>7, <2>1, <2>2
  <2>4. c \in Nat \ {0} /\ w \in Nat \ {0} /\ x \in Nat \ {0}
    <3>1. c \in Nat \ {0} /\ w \in Nat \ {0}
      BY <1>1, <1>4, <2>1
    <3>2. x \in Nat \ {0}
      BY <1>5, <2>1
    <3> QED BY <3>1, <3>2
  <2>5. CASE k + 1 = j
    <3>1. x = 1 /\ Batched(k + 1) = c
      <4>1. \A y \in Nat : ~(y + 1 <= y) /\ y + 1 <= y + 1
        OBVIOUS
      <4>2. ~(j <= k) /\ j <= k + 1
        BY <2>1, <2>5, <4>1, Zenon
      <4> QED BY <2>5, <4>2, Zenon
    <3>2. f1 = f0
      <4>1. f1 = Divided(f0, Dynamic)
        BY <2>3, <2>5, Zenon
      <4> HIDE DEF f0, f1
      <4> QED BY <4>1 DEF Divided
    <3> HIDE DEF c, w, x, f0, f1, Batched, T
    <3>3. (w * c) * 1 = w * c
      BY <2>4
    <3>4. f1 = w * Batched(k + 1)
      BY <2>3, <3>1, <3>2, <3>3
    <3> QED BY <2>1, <3>4 DEF f1, w, T
  <2>6. CASE k + 1 # j
    <3>1. Batched(k + 1) = x
      BY <1>2, <2>1, <2>6
    <3>2. shape[k + 1] = c
      BY <2>1, <2>6 DEF n
    <3> HIDE DEF c, w, x, f0, f1, Batched, T
    <3>3. c # Dynamic
      BY <2>4 DEF Dynamic
    <3> DEFINE m == w * x
    <3>4. m \in Nat \ {0} /\ (w * c) * x = m * c
      <4>1. \A a, b \in Nat \ {0} : a * b \in Nat \ {0}
        OBVIOUS
      <4>2. w \in Int /\ x \in Int /\ c \in Int
        BY <2>4
      <4>3. (w * c) * x = w * (x * c) /\ w * (x * c) = (w * x) * c
        BY <4>2, Regrouped
      <4> QED BY <2>4, <4>1, <4>3
    <3> HIDE DEF m
    <3>5. Greater(1, (m * c + c - 1) \div c) = m
      BY <2>4, <3>4, Exactly
    <3>6. f1 = m
      BY <2>3, <3>2, <3>3, <3>4, <3>5 DEF Divided
    <3>7. f1 = w * Batched(k + 1)
      BY <3>1, <3>6 DEF m
    <3> QED BY <2>1, <3>7 DEF f1, w, T
  <2> QED BY <2>5, <2>6
<1>8. n \in T
  <2> HIDE DEF T
  <2>1. \A k \in 0..n : k \in T
    BY <1>1, <1>6, <1>7, Induction
  <2>2. n \in 0..n
    BY <1>1
  <2> QED BY <2>1, <2>2
<1>9. f[n] = dims[j]
  <2>1. n - n = 0 /\ j <= n
    BY <1>1, <1>2
  <2>2. f[n] = 1 * dims[j]
    BY <1>4, <1>8, <2>1
  <2> QED BY <1>2, <2>2
<1> QED BY <1>3, <1>9

\* The shape of a bool input whose dimensions suit the session's is these
\* dimensions.
LEMMA ShapeSuits ==
  ASSUME NEW dims \in Seq(Nat \ {0}), NEW shape \in Seq(Int), Len(shape) = Len(dims), Suits(dims, shape)
  PROVE  batched_shape(shape, Product(dims)) = dims
<1> DEFINE n == Len(dims)
           Open == {d \in 1..n : shape[d] = Dynamic}
           j == SelectInSeq(shape, LAMBDA s : s = Dynamic)
<1>1. n \in Nat /\ DOMAIN shape = 1..n /\ DOMAIN dims = 1..n /\ Len(shape) = n
  OBVIOUS
<1>2. dims = [d \in 1..n |-> dims[d]] /\ shape = [d \in 1..n |-> shape[d]]
  OBVIOUS
<1> HIDE DEF n
<1>3. CASE Open = {}
  <2>1. \A d \in 1..n : shape[d] = dims[d]
    BY <1>1, <1>3 DEF Suits
  <2>2. shape = dims
    BY <1>2, <2>1
  <2>3. ~Contains(shape, Dynamic)
    BY <1>1, <1>3 DEF Contains
  <2> QED BY <2>2, <2>3 DEF batched_shape
<1>4. CASE Open # {}
  <2>1. Contains(shape, Dynamic)
    BY <1>1, <1>4 DEF Contains
  <2>2. j = CHOOSE d \in Open : \A e \in Open : d <= e
    BY <1>1, <1>4 DEF SelectInSeq, Min
  <2> HIDE DEF j
  <2>3. j \in Open
    <3>1. Open \in SUBSET Nat
      OBVIOUS
    <3> HIDE DEF Open
    <3>2. \E d \in Open : \A e \in Open : d <= e
      BY <1>4, <3>1, LeastNumber
    <3> QED BY <2>2, <3>2
  <2>4. batched_shape(shape, Product(dims)) = [shape EXCEPT ![j] = Batch(shape, Product(dims))]
    BY <2>1 DEF batched_shape, j
  <2>5. \A d \in 1..n : d # j => shape[d] = dims[d]
    BY <1>1, <2>3 DEF Suits
  <2>6. Batch(shape, Product(dims)) = dims[j]
    BY <2>3, <2>5, BatchSuits DEF n
  <2>7. [shape EXCEPT ![j] = dims[j]] = dims
    <3> DEFINE t == [shape EXCEPT ![j] = dims[j]]
    <3>1. t = [d \in 1..n |-> t[d]]
      BY <1>1
    <3>2. \A d \in 1..n : t[d] = dims[d]
      BY <1>1, <2>5
    <3> HIDE DEF t
    <3>3. [d \in 1..n |-> t[d]] = [d \in 1..n |-> dims[d]]
      BY <3>2
    <3>4. t = dims
      BY <1>2, <3>1, <3>3, Zenon
    <3> QED BY <3>4 DEF t
  <2> QED BY <2>4, <2>6, <2>7
<1> QED BY <1>3, <1>4

\* Dimensions are those of a sequence.
LEMMA DimsFacts ==
  ASSUME NEW n \in Nat, NEW dims \in Dims(n)
  PROVE  dims \in Seq(Nat \ {0}) /\ Len(dims) = n
<1>1. \A d \in 1..n : dims[d] \in Nat \ {0}
  BY DimAssumption DEF Dims
<1>2. dims = [d \in 1..n |-> dims[d]]
  BY DEF Dims
<1>3. \A S : \A s : s = [d \in 1..n |-> s[d]] /\ (\A d \in 1..n : s[d] \in S) => s \in Seq(S) /\ Len(s) = n
  OBVIOUS
<1> QED BY <1>1, <1>2, <1>3

\* Every input gets to Run in its place, with the shape of its JSON and every
\* value where it was, for values of every size and nesting (context.cpp,
\* calc_shape and flat_json_values; input_value.cpp, the bool batch).
THEOREM InputsWhole == Spec => []InputsArriveWhole
<1>1. ASSUME IInv PROVE InputsKeepTheirShape
  <2>1. SUFFICES ASSUME NEW k \in 1..i - 1, model[k].type # "bool"
                 PROVE  LET info == model[k]
                            t == inputs[info.name]
                            json == Data(info.name)
                            rank == Len(info.shape)
                        IN  /\ \A dims \in Dims(rank) :
                                 HasDims(json, dims, Takes(info.type)) => t.shape = dims /\ json = Nest(dims, t.values)
                            /\ rank > 1 => \A dims \in Dims(rank - 1) :
                                 HasDims(json, dims, Takes(info.type)) =>
                                   t.shape = Append(dims, 1) /\ json = Nest(dims, t.values)
    BY DEF InputsKeepTheirShape
  <2> DEFINE info == model[k]
             t == inputs[info.name]
             json == Data(info.name)
             rank == Len(info.shape)
             kinds == Takes(info.type)
  <2>2. rank \in Nat /\ json \in Jsons
    <3>1. model \in Models /\ request \in Requests /\ i \in 1..Len(model) + 1
      BY <1>1 DEF IInv, TypeOK
    <3>2. Len(model) \in Nat /\ \A m \in 1..Len(model) : model[m].shape \in Seq(Int)
      BY <3>1, ModelFacts
    <3>3. k \in 1..Len(model)
      BY <3>1, <3>2
    <3>4. info.shape \in Seq(Int)
      BY <3>2, <3>3
    <3> QED BY <3>1, <3>4, DataFacts
  <2>3. t.values = flat_json_values(json) /\ t.shape = calcShape(json, rank)
    <3>1. info.name \in DOMAIN inputs /\ t.shape = TensorShape(json, info)
      BY <1>1 DEF IInv, InputsInv
    <3>2. t.values = flat_json_values(json)
      BY <1>1, <3>1 DEF IInv, InputsInv
    <3> QED BY <2>1, <3>1, <3>2 DEF TensorShape
  <2> HIDE DEF t, json, rank, kinds
  <2>4. ASSUME NEW dims \in Dims(rank), HasDims(json, dims, kinds)
        PROVE  t.shape = dims /\ json = Nest(dims, t.values)
    <3>1. dims \in Seq(Nat \ {0}) /\ Len(dims) = rank /\ rank + 0 = rank
      BY <2>2, DimsFacts
    <3>2. json = Nest(dims, flat_json_values(json))
      BY <2>2, <2>4, <3>1, Dimensioned
    <3>3. calcShape(json, Len(dims) + 0) = dims
      <4>1. 0 \in {0, 1} /\ 0 = 0
        OBVIOUS
      <4> QED BY <2>2, <2>4, <3>1, <4>1, ShapeOf
    <3> QED BY <2>3, <3>1, <3>2, <3>3
  <2>5. ASSUME rank > 1, NEW dims \in Dims(rank - 1), HasDims(json, dims, kinds)
        PROVE  t.shape = Append(dims, 1) /\ json = Nest(dims, t.values)
    <3>1. rank - 1 \in Nat /\ (rank - 1) + 1 = rank
      BY <2>2, <2>5
    <3>2. dims \in Seq(Nat \ {0}) /\ Len(dims) = rank - 1
      BY <3>1, DimsFacts
    <3>3. json = Nest(dims, flat_json_values(json))
      BY <2>2, <2>5, <3>2, Dimensioned
    <3>4. calcShape(json, Len(dims) + 1) = Append(dims, 1)
      <4>1. 1 \in {0, 1} /\ 1 # 0
        OBVIOUS
      <4> QED BY <2>2, <2>5, <3>2, <4>1, ShapeOf
    <3> QED BY <2>3, <3>1, <3>2, <3>3, <3>4
  <2> QED BY <2>4, <2>5 DEF t, json, rank, kinds
<1>2. Spec => []InputsKeepTheirShape
  BY <1>1, Invariance, PTL
<1>3. InputsKeepTheirShape /\ BoolBatchIsExact /\ InputsInSessionOrder => InputsArriveWhole
  BY DEF InputsArriveWhole
<1> QED BY <1>2, <1>3, ArgumentsInOrder, BatchesExact, PTL

\* No request is refused whose inputs are arrays with equal rows, of the session's
\* rank and of values that convert, for values of every size and nesting
\* (context.cpp, the rank check; input_value.cpp, what each type takes).
THEOREM GoodRequestsTaken == Spec => []GoodDataAccepted
<1>1. ASSUME IInv PROVE GoodDataAccepted
  <2> DEFINE data == Data(Info.name)
             shape == Info.shape
             rank == Len(shape)
             kinds == Takes(Info.type)
             Fits(dims) == HasDims(data, dims, kinds) /\ (Info.type = "bool" => Suits(dims, shape))
  <2>1. SUFFICES ASSUME pc = "rejected", request.form \in {"object", "quoted object"},
                        Info.type # "complex", IsArray(data), NEW dims \in Dims(rank), Fits(dims)
                 PROVE  FALSE
    BY DEF GoodDataAccepted
  <2>2. i <= Len(model) /\ (~RankFits(data, Info) \/ ~TensorAccepted)
    BY <1>1, <2>1 DEF IInv, RejectedInv
  <2>3. shape \in Seq(Int) /\ rank \in Nat /\ data \in Jsons
    <3>1. model \in Models /\ request \in Requests /\ i \in 1..Len(model) + 1
      BY <1>1 DEF IInv, TypeOK
    <3>2. Len(model) \in Nat /\ \A m \in 1..Len(model) : model[m].shape \in Seq(Int)
      BY <3>1, ModelFacts
    <3>3. i \in 1..Len(model)
      BY <2>2, <3>1, <3>2
    <3>4. shape \in Seq(Int)
      BY <3>2, <3>3 DEF Info
    <3> QED BY <3>1, <3>4, DataFacts
  <2> DEFINE values == flat_json_values(data)
             type == Info.type
  <2>4. values = flat_json_values(data) /\ rank = Len(shape) /\ type = Info.type /\ kinds = Takes(type)
    OBVIOUS
  <2>5. dims \in Dims(rank) /\ HasDims(data, dims, kinds) /\ (type = "bool" => Suits(dims, shape))
    BY <2>1
  <2>6. TensorAccepted <=> /\ \A p \in DOMAIN values : Converts(type, values[p])
                           /\ CreateTensorAccepts(TensorShape(data, Info), Len(values))
    BY DEF TensorAccepted
  <2>7. TensorShape(data, Info) = IF type = "bool" THEN batched_shape(shape, Len(values)) ELSE calcShape(data, rank)
    BY DEF TensorShape
  <2>8. RankFits(data, Info) <=> Len(calcShape(data, rank)) = rank
    BY DEF RankFits
  <2> HIDE DEF data, shape, rank, kinds, values, type
  <2>9. dims \in Seq(Nat \ {0}) /\ Len(dims) = rank /\ rank + 0 = rank
    BY <2>3, <2>5, DimsFacts
  <2>10. values \in Seq(Of(kinds)) /\ Len(values) = Product(dims)
    BY <2>3, <2>4, <2>5, <2>9, Dimensioned
  <2>11. calcShape(data, rank) = dims
    <3>1. 0 \in {0, 1} /\ 0 = 0
      OBVIOUS
    <3>2. calcShape(data, Len(dims) + 0) = dims
      BY <2>3, <2>5, <2>9, <3>1, ShapeOf
    <3> QED BY <2>9, <3>2
  <2>12. TensorShape(data, Info) = dims
    <3>1. type = "bool" => batched_shape(shape, Product(dims)) = dims
      BY <2>3, <2>4, <2>5, <2>9, ShapeSuits
    <3> QED BY <2>7, <2>10, <2>11, <3>1
  <2>13. \A p \in DOMAIN values : Converts(type, values[p])
    <3>1. \A p \in DOMAIN values : values[p] \in Of(kinds)
      <4> HIDE DEF Of
      <4> QED BY <2>10
    <3> QED BY <2>4, <3>1 DEF Of, Simple, Converts
  <2>14. CreateTensorAccepts(dims, Len(values))
    <3>1. Product(dims) \in Nat
      <4>1. Len(values) \in Nat
        <5> HIDE DEF Of
        <5> QED BY <2>10
      <4> QED BY <2>10, <4>1
    <3>2. \A d \in DOMAIN dims : dims[d] >= 0
      BY <2>9
    <3> QED BY <2>10, <3>1, <3>2 DEF CreateTensorAccepts
  <2> QED BY <2>2, <2>6, <2>8, <2>9, <2>11, <2>12, <2>13, <2>14
<1> QED BY <1>1, Invariance, PTL
=============================================================================

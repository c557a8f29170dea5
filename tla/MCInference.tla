----------------------------- MODULE MCInference -----------------------------
(* Small instances of Inference for TLC. *)
EXTENDS Inference

Num(n) == Leaf("number", n)
Flag(b) == Leaf("boolean", b)
Text == Leaf("text", 0)

\* The arrays of at most width elements of a set of values.
Arrays(elements, width) == {Arr(s) : s \in UNION {[1..n -> elements] : n \in 0..width}}

\* Every array of numbers up to depth 3 and width 2, ragged and empty ones
\* included (deeper than 2, all numbers are 1), longer rows, one text among
\* numbers, and one array of depth 4.
Flat(leaves) == leaves \cup Arrays(leaves, 2)
Numbers == Arrays({Num(1), Num(2)}, 3) \cup Arrays(Flat({Num(1), Num(2)}), 2)
Deep == Arrays({Num(1)} \cup Arrays(Flat({Num(1)}), 2), 2)
Others == {Arr(<<Num(1), Text>>), Arr(<<Text>>), Num(1), Text, Null,
           Nest(<<3, 2>>, [k \in 1..6 |-> Num(k)]),
           Nest(<<2, 1, 2, 1>>, [k \in 1..4 |-> Num(k)])}
Flags == {Arr([k \in 1..n |-> Flag(k % 2)]) : n \in 0..6} \cup
         {Nest(<<2, 2>>, [k \in 1..4 |-> Flag(k % 2)]), Nest(<<2, 3>>, [k \in 1..6 |-> Flag(k % 2)]),
          Nest(<<3, 2>>, [k \in 1..6 |-> Flag(k % 2)]), Nest(<<2, 1, 2>>, [k \in 1..4 |-> Flag(k % 2)]),
          Arr(<<Flag(1), Num(1)>>)}

Input(n, type, declared, shape) == [name |-> n, type |-> type, declared |-> declared, shape |-> shape]
Dyn(n) == [k \in 1..n |-> Dynamic]

\* The second input comes first in the map.  Shapes of bool inputs are those of
\* the model or an override of them.
MCModels ==
  {<<Input(2, "float", Dyn(n), Dyn(n)), Input(1, "string", Dyn(1), Dyn(1))>> : n \in 0..4} \cup
  {<<Input(2, "bool", Dyn(Len(s)), s), Input(1, "string", <<1>>, <<1>>)>> :
     s \in {<<-1>>, <<-1, 2>>, <<-1, 3>>, <<2, -1>>, <<-1, -1>>, <<2, 2>>, <<-1, 2, 2>>}} \cup
  {<<Input(2, "int64", Dyn(2), Dyn(2)), Input(1, "string", Dyn(1), Dyn(1))>>,
   <<Input(2, "int64", Dyn(1), Dyn(1)), Input(1, "float", Dyn(1), Dyn(1))>>} \cup
  {<<Input(2, "complex", Dyn(1), Dyn(1))>>}

Object(a, b) == [form |-> "object", values |-> (1 :> b) @@ (2 :> a)]

MCRequests ==
  {Object(a, Arr(<<Text>>)) : a \in Numbers \cup Deep \cup Others \cup Flags} \cup
  {Object(a, b) : a \in {Arr(<<Num(1)>>), Arr(<<Flag(1), Flag(0)>>)},
                  b \in {Null, Text, Arr(<<Num(1)>>), Arr(<<>>), Arr(<<Text, Text>>)}} \cup
  {[form |-> f, values |-> (1 :> Arr(<<Text>>)) @@ (2 :> Arr(<<Num(1), Num(2)>>))] :
     f \in {"quoted object", "quoted other", "array"}}

\* Every JSON value of a request, with all values in it: no array has more than
\* four levels.
Opened(jsons) ==
  jsons \cup UNION {{json.items[k] : k \in DOMAIN json.items} : json \in {j \in jsons : IsArray(j)}}
Values ==
  Opened(Opened(Opened(Opened({Null} \cup {r.values[n] : r \in MCRequests, n \in {1, 2}}))))
MCJsons == Values   \* TLC evaluates Values once

RECURSIVE MCDepth(_)
MCDepth(json) ==
  IF IsArray(json)
  THEN CHOOSE d \in 1..4 : \A e \in 1..4 :
         d <= e <=> \A k \in DOMAIN json.items : MCDepth(json.items[k]) < e
  ELSE 0

\* Outputs with at least one dimension and no dimension 0.
Tensors(shapes, types) ==
  {[type |-> t, shape |-> s,
    values |-> [k \in 1..Product(s) |-> CASE t = "int4" -> (k % 16) - 8 [] t = "uint4" -> k % 16
                                           [] t = "int2" -> (k % 4) - 2 [] t = "uint2" -> k % 4
                                           [] OTHER -> k]] : s \in shapes, t \in types}
MCOutputs ==
  Tensors({<<1>>, <<3>>, <<2, 3>>, <<3, 1>>, <<2, 3, 2>>, <<1, 2, 3>>}, {"float"}) \cup
  Tensors({<<1>>, <<5>>, <<3, 3>>}, {"int4", "uint4", "int2", "uint2"})

\* Outputs of every rank, and with dimensions 0.
MCAnyOutputs == Tensors({<<>>, <<3>>, <<0>>, <<2, 0>>, <<0, 2>>}, {"float"})
MCOneRequest == {Object(Arr(<<Num(1)>>), Arr(<<Text>>))}
=============================================================================

-------------------------------- MODULE Tensor --------------------------------
(***************************************************************************)
(* JSON values and tensors: the shape and the values of an input           *)
(* (src/onnx/execution/context.cpp, input_value.cpp), the packed integer   *)
(* formats and the nesting of an output (src/onnx/value_info.cpp), and     *)
(* what ONNX Runtime takes for a tensor.  What the code does by recursion  *)
(* is a function here.                                                     *)
(*                                                                         *)
(* A JSON value is a leaf or an array of values.  Floating-point decoding  *)
(* is left out; the packed integer formats are not.                        *)
(***************************************************************************)
EXTENDS Integers, Sequences, SequencesExt

CONSTANTS Jsons,      \* bound: the JSON values of inputs, with all values in them
          Depth(_)    \* levels of arrays in a value

Leaf(kind, v) == [kind |-> kind, value |-> v]
Arr(s) == [items |-> s]
IsArray(json) == DOMAIN json = {"items"}
Null == Leaf("null", 0)

\* Arrays are nested finitely deep.
ASSUME JsonsAssumption ==
  /\ Null \in Jsons
  /\ \A json \in Jsons :
       /\ Depth(json) \in Nat
       /\ IsArray(json) => /\ json = Arr(json.items) /\ json.items \in Seq(Jsons)
                           /\ \A k \in DOMAIN json.items : Depth(json.items[k]) < Depth(json)

-----------------------------------------------------------------------------
(* Inputs. *)

\* Mutation: the sizes are put together from the inside out.
calcShapeInsideOut(data, count) ==
  LET calc[c \in 0..count] ==
        [json \in Jsons |-> [shape \in Seq(Nat) |->
          LET below == IF IsArray(json) /\ c # 0 /\ json.items # <<>>
                       THEN calc[c - 1][json.items[1]][<<Len(json.items)>> \o shape]
                       ELSE shape
          IN  IF Len(below) = c - 1 THEN Append(below, 1) ELSE below]]
  IN  calc[count][data][<<>>]

\* The sizes met on the way down the first elements, at most count of them; on
\* the way back a call that finds the shape one short of its own count adds a 1.
calcShape(data, count) ==
  LET calc[c \in 0..count] ==
        [json \in Jsons |-> [shape \in Seq(Nat) |->
          LET below == IF IsArray(json) /\ c # 0 /\ json.items # <<>>
                       THEN calc[c - 1][json.items[1]][Append(shape, Len(json.items))]
                       ELSE shape
          IN  IF Len(below) = c - 1 THEN Append(below, 1) ELSE below]]
  IN  calc[count][data][<<>>]

\* Mutation: two levels are flattened, not all of them.
FlatTwoLevels(data) ==
  LET Items(json) == IF IsArray(json) THEN json.items ELSE <<json>>
  IN  FlattenSeq([i \in DOMAIN Items(data) |-> Items(Items(data)[i])])

flat_json_values(data) ==
  LET flat[json \in Jsons] ==
        IF IsArray(json)
        THEN FlattenSeq([i \in DOMAIN json.items |-> flat[json.items[i]]])
        ELSE <<json>>
  IN  flat[data]

Dynamic == -1
Greater(a, b) == IF a > b THEN a ELSE b

\* max(1, ceil(batch / s)) over the known dimensions (none of which is 0), the
\* first k of them in batch[k].
Batch(shape, count) ==
  LET batch[k \in 0..Len(shape)] ==
        IF k = 0 THEN count
        ELSE IF shape[k] = Dynamic THEN batch[k - 1]
             ELSE Greater(1, (batch[k - 1] + shape[k] - 1) \div shape[k])
  IN  batch[Len(shape)]

\* The first dynamic dimension, and no other, becomes the batch.
batched_shape(shape, count) ==
  IF Contains(shape, Dynamic)
  THEN [shape EXCEPT ![SelectInSeq(shape, LAMBDA s : s = Dynamic)] = Batch(shape, count)]
  ELSE shape

-----------------------------------------------------------------------------
(* Outputs. *)

\* Indices of values are those of the code, from 0.
unpack_nibble(data, i) ==
  IF i % 2 = 0 THEN data[(i \div 2) + 1] % 16 ELSE data[(i \div 2) + 1] \div 16

unpack_2bit(data, i) == (data[(i \div 4) + 1] \div <<1, 4, 16, 64>>[(i % 4) + 1]) % 4

\* The i-th value of a tensor of an element type, from its storage.
Element(type, data, i) ==
  LET n == unpack_nibble(data, i)
      b == unpack_2bit(data, i)
  IN  CASE type = "uint4" -> n
        [] type = "int4" -> IF n >= 8 THEN n - 16 ELSE n
        [] type = "uint2" -> b
        [] type = "int2" -> IF b >= 2 THEN b - 4 ELSE b
        [] OTHER -> data[i + 1]

Product(shape) ==
  LET product[k \in 0..Len(shape)] == IF k = 0 THEN 1 ELSE product[k - 1] * shape[k]
  IN  product[Len(shape)]

\* Rows of a dimension.  A dimension 0 comes with no values and no rows.
Rows(values, dim) ==
  [k \in 1..IF values = <<>> THEN 0 ELSE Len(values) \div dim |->
     Arr(SubSeq(values, (k - 1) * dim + 1, k * dim))]

Undefined == Leaf("undefined", 0)   \* the program has read what is not there

\* Mutation: rows have the length of the dimension before.
FitOneOff(values, shape, depth) ==
  LET fit[k \in 0..depth - 1] == IF k = 0 THEN values ELSE Rows(fit[k - 1], shape[depth - k])
  IN  fit[depth - 1]

\* Rows of the last dimension, then rows of rows.  depth is a size_t that is
\* decremented before it is tested: for a scalar it wraps around and the shape
\* is read out of bounds.
values_fit_shape(values, shape, depth) ==
  LET fit[k \in 0..depth - 1] == IF k = 0 THEN values ELSE Rows(fit[k - 1], shape[depth + 1 - k])
  IN  IF depth = 0 THEN <<Undefined>> ELSE fit[depth - 1]

get_tensor_data(type, data, shape) ==
  values_fit_shape([i \in 1..Product(shape) |-> Leaf("number", Element(type, data, i - 1))],
                   shape, Len(shape))

\* Reference definition: the nested array with these dimensions whose leaf at
\* each place is that of the place in row-major order.  nest[k] has the k inner
\* dimensions: the leaves of such an array, and the one that starts at a leaf.
Nest(dims, leaves) ==
  LET n == Len(dims)
      nest[k \in 0..n] ==
        IF k = 0 THEN [size |-> 1, at |-> [o \in Nat |-> leaves[o + 1]]]
        ELSE LET below == nest[k - 1]
                 dim == dims[n + 1 - k]
             IN  [size |-> below.size * dim,
                  at |-> [o \in Nat |-> Arr([i \in 1..dim |-> below.at[o + (i - 1) * below.size]])]]
  IN  nest[n].at[0]

\* The json is an array of these dimensions, none of which is 0, with leaves of
\* these kinds.  has[k] tells it of the k inner dimensions.
HasDims(data, dims, kinds) ==
  LET n == Len(dims)
      has[k \in 0..n] ==
        IF k = 0 THEN [json \in Jsons |-> ~IsArray(json) /\ json.kind \in kinds]
        ELSE LET below == has[k - 1]
                 dim == dims[n + 1 - k]
             IN  [json \in Jsons |->
                    /\ IsArray(json) /\ Len(json.items) = dim /\ dim > 0
                    /\ \A i \in 1..dim : below[json.items[i]]]
  IN  has[n][data]

-----------------------------------------------------------------------------
(* ONNX Runtime, as the code relies on it. *)

\* CreateTensor wants dimensions that are not negative and at least as many
\* values as the shape has room for.
CreateTensorAccepts(shape, count) ==
  (\A i \in DOMAIN shape : shape[i] >= 0) /\ Product(shape) <= count

\* Storage of a tensor: sub-byte integers share bytes, the lowest bits first.
PerByte(type) == CASE type \in {"uint4", "int4"} -> 2 [] type \in {"uint2", "int2"} -> 4 [] OTHER -> 1
Packed(type, values) ==
  LET per == PerByte(type)
      base == IF per = 2 THEN 16 ELSE 4
      Bits(i) == IF i <= Len(values) THEN values[i] % base ELSE 0
      Byte(k) == IF per = 2 THEN Bits(2 * k - 1) + 16 * Bits(2 * k)
                 ELSE Bits(4 * k - 3) + 4 * Bits(4 * k - 2) + 16 * Bits(4 * k - 1) + 64 * Bits(4 * k)
  IN  IF per = 1 THEN values ELSE [k \in 1..(Len(values) + per - 1) \div per |-> Byte(k)]
=============================================================================

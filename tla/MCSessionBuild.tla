---------------------------- MODULE MCSessionBuild ----------------------------
(* A small instance of SessionBuild for TLC. *)
EXTENDS SessionBuild

Str(t) == Scalar("string", t)
Num(t) == Scalar("integer", t)
On == Scalar("boolean", "true")
Off == Scalar("boolean", "false")
Entry(path, v) == [path |-> path, value |-> v]
Field(k, v) == [x \in {k} |-> v]

\* Scalars and dotted keys of one group, siblings, values of a wrong kind, and
\* libraries under both names.
MCEntries ==
  {Entry(<<"cuda">>, On), Entry(<<"cuda">>, Num("1")),
   Entry(<<"cuda", "gpu_mem_limit">>, Num("9")), Entry(<<"cuda", "arena_extend_strategy">>, Num("1")),
   Entry(<<"cuda", "no_such_key">>, On),
   Entry(<<"session_options">>, On),
   Entry(<<"session_options", "logid">>, Str("a")), Entry(<<"session_options", "logid">>, Str("b")),
   Entry(<<"session_options", "intra_op_num_threads">>, Num("4")),
   Entry(<<"session_options", "logid", "x">>, On),
   Entry(<<"extensions">>, Str("/l1")), Entry(<<"extensions">>, Str("/l2")),
   Entry(<<"ortextensions_path">>, Str("/l1")),
   Entry(<<"extensions">>, Num("1")), Entry(<<"extensions", "x">>, On)}

\* Two inputs and an output.
MCModelValues ==
  <<[side |-> "input_shape", name |-> "x", shape |-> <<"-1", "1">>],
    [side |-> "input_shape", name |-> "y", shape |-> <<"-1">>],
    [side |-> "output_shape", name |-> "z", shape |-> <<"-1", "1">>]>>

Overrides == {Array(<<Num("2"), Num("3")>>), Array(<<On, Num("3")>>), Array(<<Num("2")>>), Array(<<Num("2"), Str("3")>>), Num("2")}
SessionSettings ==
  Object([n \in {"execution_mode", "graph_optimization_level", "enable_profiling", "log_severity_level",
                 "config_entries", "free_dimension_overrides", "unknown"} |->
     CASE n = "execution_mode" -> Str("parallel") [] n = "graph_optimization_level" -> Str("absurd")
       [] n = "enable_profiling" -> Off [] n = "log_severity_level" -> Str("2")
       [] n = "config_entries" -> Object([k \in {"a", "b", "c"} |->
            CASE k = "a" -> On [] k = "b" -> Num("1") [] OTHER -> Array(<<>>)])
       [] n = "free_dimension_overrides" -> Object([k \in {"batch", "seq"} |->
            IF k = "batch" THEN Num("1") ELSE Str("1")])
       [] OTHER -> On])

MCJsonOptions ==
  {Object(Field("input_shape", Object(Field("x", a) @@ Field("y", Array(<<Num("7")>>)))) @@
          Field("output_shape", Object(Field(n, b)))) :
     a \in Overrides, b \in Overrides, n \in {"z", "other"}} \cup
  {Object(Field("input_shape", On) @@ Field("session_options", SessionSettings) @@ Field("cuda", c) @@
          Field("extensions", Array(<<Str("/l1"), Num("1"), Str("/l2"), Str("/l1")>>)) @@
          Field("ortextensions_path", p)) :
     c \in {Off, Num("1"), Str("yes"), Object(Field("device_id", Num("2")) @@ Field("gpu_mem_limit", Str("5")))},
     p \in {Str("/l3"), Str("/l2"), Num("1")}}
=============================================================================

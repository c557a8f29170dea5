---------------------------- MODULE MCTcpSession ----------------------------
(* Small instances of TcpSession for TLC. *)
EXTENDS TcpSession

Hdr(t, l, j, p) == [type |-> t, length |-> l, json |-> j, post |-> p]

\* Every valid header of the instance, and one header for each way to be
\* invalid: over a limit, negative, with a length that is not the sum, or with
\* one that is the sum only because it wraps around.
MCHeaders ==
  {Hdr("create", j + p, j, p) : j \in 0..PayloadLimit, p \in 0..UploadLimit} \cup
  {Hdr("other", j + p, j, p) : j \in 0..PayloadLimit, p \in 0..PayloadLimit} \cup
  {Hdr("create", PayloadLimit + 1, PayloadLimit + 1, 0),
   Hdr("create", UploadLimit + 1, 0, UploadLimit + 1),
   Hdr("other", PayloadLimit + 1, 0, PayloadLimit + 1),
   Hdr("other", 0, -1, 1), Hdr("other", 0, 1, -1),
   Hdr("other", 0, 1, 0),
   Hdr("create", Int64Sum(UploadLimit, UploadLimit), UploadLimit, UploadLimit)}
=============================================================================

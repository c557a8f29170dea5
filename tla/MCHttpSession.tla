--------------------------- MODULE MCHttpSession ---------------------------
(* Small instances of HttpSession for TLC. *)
EXTENDS HttpSession

Req(m, t, b, k) == [method |-> m, target |-> t, body |-> b, keep |-> k]
Kind(k) == [kind |-> k]
Doc(tail, len) == [kind |-> "doc", tail |-> tail, len |-> len]

\* Every route, with and without keep-alive, and bodies up to one unit over the
\* limit.  The documents are those of --swagger-url-path=/swagger.
MCRequests ==
  {Req("post", Kind("session"), b, k) : b \in 0..BodyLimit + 1, k \in BOOLEAN} \cup
  {Req(m, Kind("sessions"), 0, TRUE) : m \in {"get", "post", "put"}} \cup
  {Req(m, Kind("session"), 0, TRUE) : m \in {"get", "delete"}} \cup
  {Req("get", Kind("version"), 0, TRUE), Req("get", Kind("health"), 0, FALSE),
   Req("get", Doc("none", 8), 0, TRUE), Req("get", Doc("slash", 9), 0, FALSE),
   Req("get", Doc("yaml", 21), 0, TRUE), Req("get", Doc("page", 14), 0, TRUE)}
=============================================================================

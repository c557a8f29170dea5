---------------------------- MODULE HttpSession ----------------------------
(***************************************************************************)
(* One HTTP or HTTPS connection: http_session_base::run                    *)
(* (src/transport/http/http_session_base.cpp) in a thread of its own,      *)
(* against a client that may send a request before the last one was        *)
(* answered and may hang up at any byte.                                   *)
(*                                                                         *)
(* A request is a head and `body' units of body on the wire; unit k of     *)
(* request i is <<i, k>>, and k = 0 is the head.  Boost.Beast is external: *)
(* http::read fetches up to a chunk at a time, which may reach beyond the  *)
(* end of the request.  What a task does is a choice of outcomes;          *)
(* SessionManager has the details.                                         *)
(***************************************************************************)
EXTENDS Integers, Sequences

CONSTANTS MaxRequests,  \* bound: requests the client sends
          Requests,     \* bound: the requests the client may send
          BodyLimit,    \* request_payload_limit
          Chunk,        \* what one read of the socket fetches at most
          Npos          \* std::string::npos, the largest size_t

Methods == {"get", "post", "delete", "put"}

\* A target is told apart as far as the routes do: "session" is
\* /api/sessions/{model}/{version}, "doc" a url under swagger_url_path with
\* its length.  A doc is the path itself, without a slash at its end ("none");
\* the path, or the path and a slash, with one ("slash"); any url under it that
\* ends in /openapi.yaml ("yaml"); or any other ("page").
Targets == [kind : {"session", "sessions", "version", "health", "other"}]
             \cup [kind : {"doc"}, tail : {"none", "slash", "yaml", "page"}, len : 1..Npos]

ASSUME MaxRequestsIsNat == MaxRequests \in Nat
ASSUME SizesAreNat == BodyLimit \in Nat /\ Chunk \in Nat \ {0} /\ Npos \in Nat
ASSUME RequestsAreRequests ==
  Requests \subseteq [method : Methods, target : Targets, body : Nat, keep : BOOLEAN]

VARIABLES
  wire,      \* units sent and not yet read
  asked,     \* the requests sent
  early,     \* the numbers of those sent before all earlier ones were answered
  hungup,    \* the client, or the network, has ended the connection
  pc,        \* the connection's thread
  buffer,    \* units in beast::flat_buffer and in the parser
  cur,       \* number of the request being served
  res,       \* its response
  endpoint,  \* _remote_endpoint is cached
  out        \* the responses written

vars == <<wire, asked, early, hungup, pc, buffer, cur, res, endpoint, out>>

clientVars == <<asked, early, hungup>>

PC == {"handshake", "loop", "read", "handle", "write", "closing", "closed"}
Statuses == {200, 302, 400, 404, 409, 500}
Responses == [req : 0..MaxRequests, status : Statuses,
              type : {"json", "text", "yaml", "html"}, keep : BOOLEAN]
NoResponse == [req |-> 0, status |-> 200, type |-> "text", keep |-> FALSE]

\* An https_session has its handshake in the constructor, an http_session none.
Init == /\ wire = <<>> /\ asked = <<>> /\ early = {} /\ hungup = FALSE
        /\ pc \in {"handshake", "loop"}
        /\ buffer = <<>>
        /\ cur = 0 /\ res = NoResponse
        /\ endpoint = FALSE
        /\ out = <<>>

-----------------------------------------------------------------------------
(* The client (external). *)

Answered(i) == \E j \in 1..Len(out) : out[j].req = i

ClientSend(q) ==
  /\ ~hungup /\ Len(asked) < MaxRequests
  /\ asked' = Append(asked, q)
  /\ early' = IF \A i \in 1..Len(asked) : Answered(i)
              THEN early ELSE early \cup {Len(asked')}
  /\ wire' = wire \o [k \in 1..q.body + 1 |-> <<Len(asked'), k - 1>>]
  /\ UNCHANGED <<hungup, pc, buffer, cur, res, endpoint, out>>

\* What was sent last may never arrive.
ClientHangup ==
  /\ ~hungup
  /\ hungup' = TRUE
  /\ \E n \in 0..Len(wire) : wire' = SubSeq(wire, 1, n)
  /\ UNCHANGED <<asked, early, pc, buffer, cur, res, endpoint, out>>

AtEof == wire = <<>> /\ hungup

-----------------------------------------------------------------------------
(* get_remote_endpoint, called by every log line *)

\* socket.remote_endpoint() may throw once the peer is gone, unless cached before.
EndpointKnown == endpoint' = TRUE
EndpointThrows == hungup /\ ~endpoint /\ UNCHANGED endpoint

-----------------------------------------------------------------------------
(* do_read *)

\* The handshake may fail or be cut, and then the constructor throws.
Handshake ==
  /\ pc = "handshake"
  /\ pc' \in {"loop", "closing"}
  /\ UNCHANGED <<wire, clientVars, buffer, cur, res, endpoint, out>>

\* A new parser and an empty buffer: whatever was fetched beyond the end of the
\* last request is gone.
ReadBegin ==
  /\ pc = "loop"
  /\ buffer' = <<>>
  /\ pc' = "read"
  /\ UNCHANGED <<wire, clientVars, cur, res, endpoint, out>>

\* What the parser makes of the buffer.  The body of a request does not look
\* like the head of another one.
AtHead == buffer # <<>> /\ buffer[1][2] = 0

\* Mutation: the limit is not set.
NeverTooBig == FALSE

TooBig == AtHead /\ asked[buffer[1][1]].body > BodyLimit
Garbled == buffer # <<>> /\ ~AtHead

\* Mutation: the request is taken to be complete when its head is.
HeadParsed == AtHead

Whole == AtHead /\ Len(buffer) > asked[buffer[1][1]].body

ReadSome ==
  /\ pc = "read" /\ ~TooBig /\ ~Garbled /\ ~Whole
  /\ \E n \in 1..(IF Chunk < Len(wire) THEN Chunk ELSE Len(wire)) :
       /\ buffer' = buffer \o SubSeq(wire, 1, n)
       /\ wire' = SubSeq(wire, n + 1, Len(wire))
  /\ UNCHANGED <<clientVars, pc, cur, res, endpoint, out>>

ReadDone ==
  /\ pc = "read" /\ Whole /\ ~TooBig
  /\ cur' = buffer[1][1]
  /\ pc' = "handle"
  /\ UNCHANGED <<wire, clientVars, buffer, res, endpoint, out>>

\* The client ended the connection between two requests.
EndOfStream ==
  /\ pc = "read" /\ AtEof /\ buffer = <<>>
  /\ pc' = "closing"
  /\ UNCHANGED <<wire, clientVars, buffer, cur, res, endpoint, out>>

\* Mutation: a request that cannot be read is skipped.
ReadFailsContinues ==
  /\ pc = "read"
  /\ TooBig \/ Garbled \/ (AtEof /\ ~Whole)
  /\ EndpointKnown \/ EndpointThrows
  /\ pc' = "loop"
  /\ UNCHANGED <<wire, clientVars, buffer, cur, res, out>>

\* Any other error is logged, which may itself throw, and ends the connection
\* without an answer.
ReadFails ==
  /\ pc = "read"
  /\ TooBig \/ Garbled \/ (AtEof /\ ~Whole)
  /\ EndpointKnown \/ EndpointThrows
  /\ pc' = "closing"
  /\ UNCHANGED <<wire, clientVars, buffer, cur, res, out>>

-----------------------------------------------------------------------------
(* handle_request *)

Route(q) ==
  CASE q.target.kind = "session" /\ q.method = "post" -> "execute"
    [] q.target.kind = "session" /\ q.method = "get" -> "get"
    [] q.target.kind = "session" /\ q.method = "delete" -> "destroy"
    [] q.target.kind = "sessions" /\ q.method = "get" -> "list"
    [] q.target.kind = "sessions" /\ q.method = "post" -> "create"
    [] q.target.kind = "version" /\ q.method = "get" -> "version"
    [] q.target.kind = "health" -> "health"
    [] q.target.kind = "doc" -> "doc"
    [] OTHER -> "none"

Tasks == {"execute", "get", "destroy", "list", "create"}

\* The status of what a route may throw: a bad key is a runtime_error, a body
\* that is no JSON or a model that cannot be loaded any other std::exception.
Errors(route) ==
  IF route = "execute" THEN {400, 404, 500}
  ELSE IF route = "create" THEN {400, 409, 500}
  ELSE IF route \in {"get", "destroy"} THEN {404, 500}
  ELSE {}

\* simple_response
Reply(status, type) ==
  res' = [req |-> cur, status |-> status, type |-> type, keep |-> asked[cur].keep]

\* The task returned, or the target is none of a task.
HandleReturns ==
  /\ pc = "handle"
  /\ LET route == Route(asked[cur])
     IN \/ route \in Tasks /\ Reply(200, "json")
        \/ route \in {"version", "health"} /\ Reply(200, "text")
        \/ route = "none" /\ Reply(404, "text")
  /\ pc' = "write"
  /\ UNCHANGED <<wire, clientVars, buffer, cur, endpoint, out>>

\* url.rfind("/openapi.yaml") == url.length() - 13, in size_t.
EndsInYaml(t) ==
  (IF t.tail = "yaml" THEN t.len - 13 ELSE Npos) = (t.len - 13) % (Npos + 1)

\* swagger_serve::get_response
DocStatus(t) == IF EndsInYaml(t) \/ t.tail = "slash" THEN 200
                ELSE IF t.tail = "none" THEN 302 ELSE 404
DocType(t) == IF EndsInYaml(t) THEN "yaml"
              ELSE IF t.tail = "slash" THEN "html" ELSE "text"

\* Mutation: the page's response keeps HTTP/1.1's default.
HandleDocKeepsDefault ==
  /\ pc = "handle"
  /\ Route(asked[cur]) = "doc"
  /\ res' = [req |-> cur, status |-> DocStatus(asked[cur].target),
             type |-> DocType(asked[cur].target), keep |-> TRUE]
  /\ pc' = "write"
  /\ UNCHANGED <<wire, clientVars, buffer, cur, endpoint, out>>

HandleDoc ==
  /\ pc = "handle"
  /\ Route(asked[cur]) = "doc"
  /\ Reply(DocStatus(asked[cur].target), DocType(asked[cur].target))
  /\ pc' = "write"
  /\ UNCHANGED <<wire, clientVars, buffer, cur, endpoint, out>>

\* What a task throws is logged and becomes a status.
HandleThrows ==
  /\ pc = "handle"
  /\ EndpointKnown
  /\ \E status \in Errors(Route(asked[cur])) : Reply(status, "json")
  /\ pc' = "write"
  /\ UNCHANGED <<wire, clientVars, buffer, cur, out>>

\* Logging throws inside the handler, or the text of the error is not UTF-8 and
\* what_to_json cannot dump it: the exception leaves run().
HandleUnwinds ==
  /\ pc = "handle" /\ Errors(Route(asked[cur])) # {}
  /\ EndpointThrows \/ EndpointKnown
  /\ pc' = "closing"
  /\ UNCHANGED <<wire, clientVars, buffer, cur, res, out>>

-----------------------------------------------------------------------------
(* run: access log, do_write, keep-alive *)

Respond ==
  /\ pc = "write"
  /\ EndpointKnown
  /\ out' = Append(out, res)
  /\ pc' = IF asked[cur].keep THEN "loop" ELSE "closing"
  /\ UNCHANGED <<wire, clientVars, buffer, cur, res>>

\* The peer is gone: the access log throws, or the write fails.
RespondFails ==
  /\ pc = "write" /\ hungup
  /\ EndpointThrows \/ EndpointKnown
  /\ pc' = "closing"
  /\ UNCHANGED <<wire, clientVars, buffer, cur, res, out>>

\* The session is destroyed with its stream, or by the exception that ends the
\* thread; client_connected's own socket was moved from.
Close ==
  /\ pc = "closing"
  /\ pc' = "closed"
  /\ UNCHANGED <<wire, clientVars, buffer, cur, res, endpoint, out>>

-----------------------------------------------------------------------------
Thread == \/ Handshake \/ ReadBegin \/ ReadSome \/ ReadDone
          \/ EndOfStream \/ ReadFails
          \/ HandleReturns \/ HandleDoc \/ HandleThrows \/ HandleUnwinds
          \/ Respond \/ RespondFails \/ Close

Client == ClientHangup \/ \E q \in Requests : ClientSend(q)

Next == Thread \/ Client

Spec == Init /\ [][Next]_vars

\* The thread runs whenever it is not blocked on the socket; tasks return.
FairSpec == Spec /\ WF_vars(Thread)

-----------------------------------------------------------------------------
(* Properties. *)

\* A connection holds at most one body within the limit and one chunk, whatever
\* the client sends.
BufferBounded == Len(buffer) <= BodyLimit + Chunk

Units == (1..MaxRequests) \X Nat

\* Types, and that the buffer is bounded.
TypeOK ==
  /\ wire \in Seq(Units)
  /\ asked \in Seq(Requests) /\ Len(asked) <= MaxRequests
  /\ early \subseteq 1..Len(asked)
  /\ hungup \in BOOLEAN
  /\ pc \in PC
  /\ buffer \in Seq(Units) /\ BufferBounded
  /\ cur \in 0..Len(asked)
  /\ pc \in {"handle", "write"} => cur > 0
  /\ res \in Responses
  /\ endpoint \in BOOLEAN
  /\ out \in Seq(Responses)

\* A client that waits for each answer before it asks again is never left
\* waiting by a connection that is still open: do_read throws away what it
\* fetched too much, and that may cost only requests that were sent early.
NoAnswerOwed ==
  pc = "read" /\ buffer = <<>> /\ wire = <<>> /\ ~hungup =>
    \A i \in 1..Len(asked) : Answered(i) \/ i \in early

\* The thread stays in step with such a client: while it is there, a read fails
\* only on a body over the limit, never on the rest of an earlier request.
StaysInStep ==
  [][pc = "read" /\ pc' = "closing" /\ ~hungup =>
       early # {} \/ \E i \in 1..Len(asked) : asked[i].body > BodyLimit]_vars

\* Requests are answered in the order they were sent, at most once each, with
\* what they asked for about the connection, on every route; nothing follows
\* an answer that announced the end.
KeepAliveAgrees ==
  /\ \A j \in 1..Len(out) : out[j].keep = asked[out[j].req].keep
  /\ \A j \in 1..Len(out) - 1 : out[j].keep /\ out[j].req < out[j + 1].req

\* What the thread may still read: a read goes on from its buffer, any other
\* step leaves behind what the buffer holds.
Unread == IF pc = "read" THEN buffer \o wire ELSE wire

\* Units of its request that come after unit u, where a are the requests.
Left(u, a) == a[u[1]].body - u[2]

\* Unit after unit of one request after the other.
InFrames(s, a) ==
  /\ \A p \in DOMAIN s : s[p][1] \in 1..Len(a) /\ Left(s[p], a) >= 0
  /\ \A p, q \in DOMAIN s : p < q =>
       IF q - p <= Left(s[p], a)
       THEN s[q] = <<s[p][1], s[p][2] + (q - p)>>
       ELSE s[q][1] > s[p][1]

Complete(s, a) == \A p \in DOMAIN s : p + Left(s[p], a) <= Len(s)

\* The stream is made of whole requests, all later than the last one served; only
\* a client that hung up can have cut it.
StreamInv ==
  /\ InFrames(Unread, asked)
  /\ ~hungup => Complete(Unread, asked)
  /\ \A p \in DOMAIN Unread : Unread[p][1] > cur

\* Answers were given to requests served before, and each asked for the next
\* request to be read.
AnswersInv ==
  /\ \A j \in DOMAIN out :
       /\ out[j].req \in 1..cur
       /\ pc \in {"handle", "write"} => out[j].req < cur
       /\ pc \notin {"closing", "closed"} => out[j].keep
  /\ pc = "write" => res.req = cur /\ res.keep = asked[cur].keep

\* A request that was not sent early comes after answered ones only, and its own
\* answer is given, in work, or its head is still to be read.
OwedInv ==
  \A i \in 1..Len(asked) : i \notin early =>
    /\ \A j \in 1..(i - 1) : Answered(j)
    /\ ~hungup /\ pc \notin {"closing", "closed"} =>
         \/ Answered(i)
         \/ pc \in {"handle", "write"} /\ cur = i
         \/ \E p \in DOMAIN Unread : Unread[p] = <<i, 0>>

\* With a client that waits for its answers, nothing is unread while a request is
\* served, and what is unread otherwise begins with the head of a request.
LockstepInv ==
  early = {} /\ pc \notin {"closing", "closed"} /\ Unread # <<>> =>
    pc \notin {"handle", "write"} /\ Unread[1][2] = 0

\* The inductive invariant.
IInv == /\ TypeOK /\ StreamInv /\ AnswersInv /\ OwedInv /\ LockstepInv
        /\ KeepAliveAgrees

\* A client that goes away, wherever the thread is, ends the thread.
HangupEndsThread == hungup ~> pc = "closed"
=============================================================================

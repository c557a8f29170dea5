----------------------------- MODULE TcpSession -----------------------------
(***************************************************************************)
(* One TCP connection: tcp_session (src/transport/tcp/tcp_session.cpp) as  *)
(* tcp_server::client_connected runs it, in a thread of its own, against a *)
(* client that sends frames and may hang up at any byte.                   *)
(*                                                                         *)
(* The stream is a sequence of units: a header (read by one read_some,     *)
(* which may also return less than a header) or one byte of a body.  What  *)
(* the bytes spell is left out: the outcome of parsing and running the     *)
(* task is a choice.  Connections share nothing but the session manager,   *)
(* so one of them is enough here.                                          *)
(***************************************************************************)
EXTENDS Integers, Sequences, FiniteSets

CONSTANTS MaxFrames,      \* bound: frames the client sends
          Headers,        \* bound: the headers the client may send
          PayloadLimit,   \* request_payload_limit
          UploadLimit,    \* model_upload_limit
          IntMax,         \* INT64_MAX
          Chunk           \* MAX_RECV_BUF_LENGTH

ASSUME MaxFramesIsNat == MaxFrames \in Nat
ASSUME HeadersAreHeaders ==
  Headers \subseteq [type : {"create", "other"}, length : -(IntMax + 1)..IntMax,
                     json : -(IntMax + 1)..IntMax, post : -(IntMax + 1)..IntMax]
ASSUME LimitsAreInt64 ==
  IntMax \in Nat /\ PayloadLimit \in 0..IntMax /\ UploadLimit \in 0..IntMax
ASSUME ChunkPositive == Chunk \in Nat \ {0}

VARIABLES
  wire,      \* units sent and not yet read
  sent,      \* frames the client has sent
  hungup,    \* the client, or the network, has ended the connection
  pc,        \* the connection's thread
  cur,       \* number of the frame being served
  header,    \* its header
  need,      \* bytes read_exact still has to read
  buffer,    \* bytes in std::string buffer
  path,      \* uploaded_model_path is not empty
  disk,      \* the temp file: "none", "partial", "whole", or "bad" after a failed write
  stray,     \* frames whose temp file could not be removed; its name is lost
  endpoint,  \* _remote_endpoint is cached
  out        \* frames written: <<number of the request, "result" or "error">>

vars == <<wire, sent, hungup, pc, cur, header, need, buffer, path, disk, stray, endpoint, out>>

clientVars == <<sent, hungup>>

\* The type of a header is CREATE_SESSION or one of the other values.
NoHeader == [type |-> "other", length |-> 0, json |-> 0, post |-> 0]
PC == {"loop", "header", "json", "open", "upload", "post", "task", "closing", "closed"}

MinOf(a, b) == IF a < b THEN a ELSE b

Init == /\ wire = <<>> /\ sent = 0 /\ hungup = FALSE
        /\ pc = "loop"
        /\ cur = 0 /\ header = NoHeader
        /\ need = 0 /\ buffer = 0
        /\ path = FALSE /\ disk = "none" /\ stray = {}
        /\ endpoint = FALSE
        /\ out = <<>>

-----------------------------------------------------------------------------
(* The client (external). *)

Body(h) == IF h.json < 0 \/ h.post < 0 THEN 0 ELSE h.json + h.post

ClientSend(h) ==
  /\ ~hungup /\ sent < MaxFrames
  /\ sent' = sent + 1
  /\ wire' = Append(wire, [unit |-> "header", h |-> h])
               \o [i \in 1..Body(h) |-> [unit |-> "byte", h |-> NoHeader]]
  /\ UNCHANGED <<hungup, pc, cur, header, need, buffer, path, disk, stray, endpoint, out>>

\* What was sent last may never arrive.
ClientHangup ==
  /\ ~hungup
  /\ hungup' = TRUE
  /\ \E n \in 0..Len(wire) : wire' = SubSeq(wire, 1, n)
  /\ UNCHANGED <<sent, pc, cur, header, need, buffer, path, disk, stray, endpoint, out>>

-----------------------------------------------------------------------------
(* Helpers of the connection's thread. *)

Arrived(n) == wire' = SubSeq(wire, n + 1, Len(wire))
AtEof == wire = <<>> /\ hungup

\* socket.remote_endpoint() may throw once the peer is gone, unless cached before.
EndpointKnown == endpoint' = TRUE
EndpointThrows == hungup /\ ~endpoint /\ UNCHANGED endpoint

\* do_write reports failure only if nothing could be sent.
Write(kind) == out' = Append(out, <<cur, kind>>)
WriteFails == hungup /\ UNCHANGED out

\* send_error's result is ignored.
SendError == Write("error") \/ WriteFails

\* cleanup_upload: the outcome of remove() is ignored, and the name is cleared
\* whether or not the file is gone.
CleanupUpload ==
  IF path
  THEN /\ path' = FALSE /\ disk' = "none"
       /\ \/ UNCHANGED stray
          \/ disk # "none" /\ stray' = stray \cup {cur}
  ELSE UNCHANGED <<path, disk, stray>>

-----------------------------------------------------------------------------
(* do_read *)

\* Mutation: the temp file of the previous request is not removed.
ReadBeginNoCleanup ==
  /\ pc = "loop"
  /\ buffer' = 0
  /\ path' = FALSE /\ UNCHANGED <<disk, stray>>
  /\ pc' = "header"
  /\ UNCHANGED <<wire, clientVars, cur, header, need, endpoint, out>>

\* Lines 123-124, and on to the read of a header.
ReadBegin ==
  /\ pc = "loop"
  /\ buffer' = 0
  /\ CleanupUpload
  /\ pc' = "header"
  /\ UNCHANGED <<wire, clientVars, cur, header, need, endpoint, out>>

PostLimit(h) == IF h.type = "create" THEN UploadLimit ELSE PayloadLimit

\* The sum of two non-negative int64 values as the build computes it: signed
\* overflow is undefined, and wraps around where it is not trapped.
Int64Sum(a, b) == IF a + b <= IntMax THEN a + b ELSE a + b - 2 * (IntMax + 1)

\* Mutation: only the length says what a frame holds.
ValidHeaderUnbounded(h) ==
  /\ h.json >= 0 /\ h.post >= 0
  /\ h.length = Int64Sum(h.json, h.post)

\* The negation of the condition at lines 149-150.
ValidHeader(h) ==
  /\ h.json >= 0 /\ h.post >= 0
  /\ h.json <= PayloadLimit /\ h.post <= PostLimit(h)
  /\ h.length = Int64Sum(h.json, h.post)

ReadHeader ==
  /\ pc = "header" /\ wire # <<>>
  /\ Arrived(1)
  /\ cur' = cur + 1
  /\ header' = Head(wire).h
  /\ ValidHeader(header')
  /\ need' = header'.json
  /\ pc' = "json"
  /\ UNCHANGED <<clientVars, buffer, path, disk, stray, endpoint, out>>

\* An invalid header is logged, answered and ends the connection; the logging
\* itself may throw, and then the thread unwinds.
RejectHeader ==
  /\ pc = "header" /\ wire # <<>>
  /\ Arrived(1)
  /\ cur' = cur + 1
  /\ header' = Head(wire).h
  /\ ~ValidHeader(header')
  /\ \/ EndpointThrows /\ UNCHANGED out
     \/ /\ EndpointKnown
        /\ \/ out' = Append(out, <<cur', "error">>)
           \/ WriteFails
  /\ pc' = "closing"
  /\ UNCHANGED <<clientVars, need, buffer, path, disk, stray>>

\* read_some returned less than a header, or the end of the stream.
ShortHeader ==
  /\ pc = "header"
  /\ wire # <<>> \/ hungup
  /\ pc' = "closing"
  /\ UNCHANGED <<wire, clientVars, cur, header, need, buffer, path, disk, stray, endpoint, out>>

\* One round of read_exact into the buffer, for the JSON body or another body.
ReadIntoBuffer ==
  /\ pc \in {"json", "post"} /\ need > 0
  /\ \E n \in 1..MinOf(MinOf(Chunk, need), Len(wire)) :
       /\ Arrived(n)
       /\ need' = need - n
       /\ buffer' = buffer + n
  /\ UNCHANGED <<clientVars, pc, cur, header, path, disk, stray, endpoint, out>>

\* Mutation: only a CREATE_SESSION frame can have a post body, so none is read.
JsonReadSkipsPost ==
  /\ pc = "json" /\ need = 0
  /\ IF header.type = "create" /\ header.post > 0
     THEN pc' = "open" /\ need' = header.post
     ELSE pc' = "task" /\ UNCHANGED need
  /\ UNCHANGED <<wire, clientVars, cur, header, buffer, path, disk, stray, endpoint, out>>

\* The JSON body is complete: lines 162, 181, 187.
JsonRead ==
  /\ pc = "json" /\ need = 0
  /\ IF header.post > 0
     THEN /\ pc' = IF header.type = "create" THEN "open" ELSE "post"
          /\ need' = header.post
     ELSE pc' = "task" /\ UNCHANGED need
  /\ UNCHANGED <<wire, clientVars, cur, header, buffer, path, disk, stray, endpoint, out>>

\* The model binary goes to a new temp file; if it cannot be opened the client
\* is told and the connection ends.  Without a temp directory or a source of
\* randomness there is no name for it, and the thread unwinds.
OpenUpload ==
  /\ pc = "open"
  /\ \/ /\ path' = TRUE /\ disk' = "partial"
        /\ pc' = "upload"
        /\ UNCHANGED <<endpoint, out>>
     \/ /\ path' = TRUE /\ UNCHANGED disk
        /\ \/ EndpointThrows /\ UNCHANGED out
           \/ EndpointKnown /\ SendError
        /\ pc' = "closing"
     \/ /\ pc' = "closing"
        /\ UNCHANGED <<path, disk, stray, endpoint, out>>
  /\ UNCHANGED <<wire, clientVars, cur, header, need, buffer, stray>>

\* One round of read_exact into the file; a failed write leaves the stream's
\* failbit set and reading goes on.
ReadIntoFile ==
  /\ pc = "upload" /\ need > 0
  /\ \E n \in 1..MinOf(MinOf(Chunk, need), Len(wire)) :
       /\ Arrived(n)
       /\ need' = need - n
  /\ disk' \in {disk, "bad"}
  /\ UNCHANGED <<clientVars, pc, cur, header, buffer, path, stray, endpoint, out>>

\* close() flushes, which may fail too.
UploadRead ==
  /\ pc = "upload" /\ need = 0
  /\ \/ disk = "partial" /\ disk' = "whole" /\ pc' = "task"
     \/ disk' = "bad" /\ pc' = "closing"
  /\ UNCHANGED <<wire, clientVars, cur, header, need, buffer, path, stray, endpoint, out>>

PostRead ==
  /\ pc = "post" /\ need = 0
  /\ pc' = "task"
  /\ UNCHANGED <<wire, clientVars, cur, header, need, buffer, path, disk, stray, endpoint, out>>

\* Mutation: a body that ends early is served as it is.
BodyCutServed ==
  /\ pc \in {"json", "post", "upload"} /\ need > 0 /\ AtEof
  /\ pc' = "task"
  /\ UNCHANGED <<wire, clientVars, cur, header, need, buffer, path, disk, stray, endpoint, out>>

\* read_exact meets the end of the stream.
BodyCut ==
  /\ pc \in {"json", "post", "upload"} /\ need > 0 /\ AtEof
  /\ pc' = "closing"
  /\ UNCHANGED <<wire, clientVars, cur, header, need, buffer, path, disk, stray, endpoint, out>>

-----------------------------------------------------------------------------
(* run: the task and its answer *)

\* Lines 64-96: the task is run and its result written; a failed write ends
\* the connection.
TaskSucceeds ==
  /\ pc = "task"
  /\ EndpointKnown
  /\ \/ Write("result") /\ pc' = "loop"
     \/ WriteFails /\ pc' = "closing"
  /\ UNCHANGED <<wire, clientVars, cur, header, need, buffer, path, disk, stray>>

\* Mutation: an error ends the request without an answer.
TaskFailsSilently ==
  /\ pc = "task"
  /\ EndpointKnown
  /\ pc' = "loop"
  /\ UNCHANGED <<wire, clientVars, cur, header, need, buffer, path, disk, stray, out>>

\* Lines 97-103: parsing, the task or its construction threw; the client gets
\* an error and the connection goes on, whether or not the error was written.
TaskFails ==
  /\ pc = "task"
  /\ EndpointKnown
  /\ SendError
  /\ pc' = "loop"
  /\ UNCHANGED <<wire, clientVars, cur, header, need, buffer, path, disk, stray>>

\* An exception leaves run(): get_remote_endpoint throws in the handler too, or
\* the error quotes bytes of the request that are not UTF-8, which what_to_json
\* cannot dump.
TaskUnwinds ==
  /\ pc = "task"
  /\ EndpointThrows \/ EndpointKnown
  /\ pc' = "closing"
  /\ UNCHANGED <<wire, clientVars, cur, header, need, buffer, path, disk, stray, out>>

\* Mutation: a destructor without cleanup_upload.
DestroyNoCleanup ==
  /\ pc = "closing"
  /\ pc' = "closed"
  /\ UNCHANGED <<wire, clientVars, cur, header, need, buffer, path, disk, stray, endpoint, out>>

\* ~tcp_session
Destroy ==
  /\ pc = "closing"
  /\ CleanupUpload
  /\ pc' = "closed"
  /\ UNCHANGED <<wire, clientVars, cur, header, need, buffer, endpoint, out>>

-----------------------------------------------------------------------------
Thread == \/ ReadBegin \/ ReadHeader \/ RejectHeader \/ ShortHeader
          \/ ReadIntoBuffer \/ JsonRead \/ PostRead \/ BodyCut
          \/ OpenUpload \/ ReadIntoFile \/ UploadRead
          \/ TaskSucceeds \/ TaskFails \/ TaskUnwinds \/ Destroy

Client == ClientHangup \/ \E h \in Headers : ClientSend(h)

Next == Thread \/ Client

Spec == Init /\ [][Next]_vars

\* The thread runs whenever it is not blocked on the socket; tasks return.
FairSpec == Spec /\ WF_vars(Thread)

-----------------------------------------------------------------------------
(* Properties. *)

\* The buffer of a connection stays within what the limits allow: a JSON body
\* and a post body of one payload limit each; a model is never held in memory.
BufferBounded ==
  /\ buffer <= 2 * PayloadLimit
  /\ header.type = "create" /\ pc # "loop" => buffer <= PayloadLimit

\* Types, and that the buffer is bounded.
TypeOK ==
  /\ wire \in Seq([unit : {"header", "byte"}, h : Headers \cup {NoHeader}])
  /\ sent \in 0..MaxFrames
  /\ hungup \in BOOLEAN
  /\ pc \in PC
  /\ cur \in 0..MaxFrames
  /\ header \in Headers \cup {NoHeader}
  /\ need \in Nat
  /\ buffer \in Nat /\ BufferBounded
  /\ path \in BOOLEAN
  /\ disk \in {"none", "partial", "whole", "bad"}
  /\ stray \subseteq 1..MaxFrames
  /\ endpoint \in BOOLEAN
  /\ out \in Seq((1..MaxFrames) \X {"result", "error"})

\* The thread never takes a body byte for a header: whatever the type of the
\* request and however it failed, its whole body was consumed before the next
\* header is read, because errors after do_read keep the connection open.
InSync == pc \in {"loop", "header"} /\ wire # <<>> => Head(wire).unit = "header"

\* The states in which the thread serves frame cur.
Serving == {"json", "open", "upload", "post", "task"}

\* A temp file exists only while the connection that made it knows its name, so
\* it is "Removed at the start of the next read and on destruction"
\* (tcp_server.hpp:43), on every way out of do_read and run, unless remove()
\* itself fails: then the file stays, nobody knows it (tcp_session.cpp:49-51),
\* and it is not the file of the request being served.
UploadHasOwner ==
  /\ disk # "none" => path
  /\ pc \in {"header", "json", "open", "closed"} => disk = "none"
  /\ pc \in Serving => cur \notin stray

\* A task that is created sees exactly the request that was sent: the whole
\* model file, or the whole body in the buffer, and nothing from before.
TaskSeesWholeRequest ==
  pc = "task" =>
    IF header.type = "create" /\ header.post > 0
    THEN disk = "whole" /\ path /\ buffer = header.json
    ELSE disk = "none" /\ ~path /\ buffer = header.json + header.post

\* Each frame gets at most one answer and answers come in the order of the
\* frames.  While the client is there, every frame after which the connection
\* goes on has its answer.  A connection may end without an answer to its last
\* frame (an error text that cannot be dumped, an upload that could not be named
\* or written), but never without one to an earlier frame.
AnswersInOrder ==
  /\ \A i, j \in 1..Len(out) : i < j => out[i][1] < out[j][1]
  /\ ~hungup /\ pc \in {"loop", "header"} => Len(out) = cur
  /\ ~hungup /\ pc \in {"closing", "closed"} => Len(out) >= cur - 1

\* Where the headers are that have not been read.
HeadersAt == {i \in DOMAIN wire : wire[i].unit = "header"}

\* Body bytes of the frame being served that have not been read.
Due == IF pc = "json" THEN need + header.post
       ELSE IF pc \in {"open", "upload", "post"} THEN need ELSE 0

\* After a header come its body and the next header.
FramesInv ==
  \A i \in HeadersAt : \A j \in DOMAIN wire :
    /\ i < j /\ j <= i + Body(wire[i].h) => wire[j].unit = "byte"
    /\ j = i + Body(wire[i].h) + 1 => wire[j].unit = "header"

\* First come the bytes the thread is still to read, and then a header.
DueInv ==
  pc \notin {"closing", "closed"} => \A j \in DOMAIN wire :
    /\ j <= Due => wire[j].unit = "byte"
    /\ j = Due + 1 => wire[j].unit = "header"

\* What a client that has not hung up sent is there as a whole.
WholeInv ==
  ~hungup =>
    /\ \A i \in HeadersAt : i + Body(wire[i].h) <= Len(wire)
    /\ pc \notin {"closing", "closed"} => Due <= Len(wire)

\* Every header was sent.
CountInv == cur + Cardinality(HeadersAt) <= sent

\* A temp file, removed or not, is one of a frame that was read.
StrayInv == stray \subseteq 1..cur /\ (disk # "none" => cur >= 1)

\* How much of the request is in memory and on disk.
RequestInv ==
  /\ pc \in Serving => cur >= 1 /\ ValidHeader(header)
  /\ pc = "header" => buffer = 0
  /\ pc \in {"header", "json", "open", "post"} => ~path /\ disk = "none"
  /\ pc = "json" => need <= header.json /\ buffer = header.json - need
  /\ pc \in {"open", "upload"} => header.type = "create" /\ buffer = header.json
  /\ pc \in {"open", "upload", "post"} => header.post > 0 /\ need <= header.post
  /\ pc = "upload" => path /\ disk \in {"partial", "bad"}
  /\ pc = "post" => header.type = "other" /\ buffer = header.json + header.post - need

\* Answers go to requests that were read, and to the one being served not yet;
\* the client that is there has those of all frames before it.
AnswersInv ==
  /\ \A i \in DOMAIN out : out[i][1] <= cur /\ (pc \in Serving => out[i][1] < cur)
  /\ ~hungup /\ pc \in Serving => Len(out) = cur - 1

\* The inductive invariant.
IInv == /\ TypeOK /\ FramesInv /\ DueInv /\ WholeInv /\ CountInv
        /\ RequestInv /\ StrayInv /\ AnswersInv
        /\ InSync /\ UploadHasOwner /\ TaskSeesWholeRequest /\ AnswersInOrder

\* When the client goes away, in whatever state, the thread ends and leaves no
\* temp file but those remove() failed on.
HangupEndsClean == hungup ~> pc = "closed" /\ disk = "none"
=============================================================================

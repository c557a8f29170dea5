------------------------------- MODULE Service -------------------------------
(***************************************************************************)
(* The life of the serving process: the loop and the cleanup of main       *)
(* (src/standalone/main.cpp), the acceptor of a server                     *)
(* (src/transport/server.cpp), the detached thread of each connection, and *)
(* the destruction of servers and session manager while such threads run.  *)
(*                                                                         *)
(* A connection's thread is told apart by which shared object it uses      *)
(* next: the server (its virtual client_connected; later, over HTTP, the   *)
(* server's swagger pages), the session manager, the manager's pool.  What *)
(* happens inside a connection is TcpSession and HttpSession, inside the   *)
(* manager SessionManager, inside the pool ThreadPool.                     *)
(***************************************************************************)
EXTENDS Integers, Sequences, FiniteSets

CONSTANTS Clients,      \* bound: each connects once
          Listeners,    \* the servers main constructed
          WebListeners, \* those that serve swagger pages
          Workers,      \* workers of the pool
          MaxThreads    \* connection threads the system grants the process

ASSUME ListenersAssumption == WebListeners \subseteq Listeners /\ "manager" \notin Listeners
ASSUME LimitsAssumption == Workers \in Nat /\ MaxThreads \in Nat \ {0}

NoClient == "nobody"
Failed == "failed"
ASSUME ClientsAssumption == IsFiniteSet(Clients) /\ {NoClient, Failed} \cap Clients = {}

VARIABLES
  main,        \* where the main thread is
  terminated,  \* the flag of the signal handler
  servers,     \* the server objects that exist
  manager,     \* "alive", "stopped" (its pool refuses tasks) or "gone"
  missed,      \* a worker went to sleep after the notification that ends it
  backlog,     \* per listener, connections the kernel holds
  accepted,    \* per listener, the outcome of async_accept its handler has not seen yet
  via,         \* the listener a client connected to
  thread,      \* where the thread of a connection is
  misused      \* who used which object after its destruction

vars == <<main, terminated, servers, manager, missed, backlog, accepted, via, thread, misused>>
mainVars == <<main, terminated, servers, manager, missed>>
netVars == <<backlog, accepted, via>>

ThreadStates == {"none", "starting", "reading", "calling", "queued", "running", "ended", "wild"}
Live == {c \in Clients : thread[c] \notin {"none", "ended"}}
In(state) == {c \in Clients : thread[c] = state}
InBacklog(c) == \E l \in Listeners : \E i \in DOMAIN backlog[l] : backlog[l][i] = c
Ended == main \in {"exited", "aborted"}

Init ==
  /\ main = "polling" /\ terminated = FALSE
  /\ servers = Listeners /\ manager = "alive" /\ missed = FALSE
  /\ backlog = [l \in Listeners |-> <<>>]
  /\ accepted = [l \in Listeners |-> NoClient]
  /\ via \in [Clients -> Listeners]
  /\ thread = [c \in Clients |-> "none"]
  /\ misused = {}

-----------------------------------------------------------------------------
(* The outside: clients, and the operator's SIGTERM. *)

Connect(c) ==
  /\ ~Ended /\ via[c] \in servers
  /\ thread[c] = "none" /\ ~InBacklog(c) /\ \A l \in Listeners : accepted[l] # c
  /\ backlog' = [backlog EXCEPT ![via[c]] = Append(@, c)]
  /\ UNCHANGED <<mainVars, accepted, via, thread, misused>>

on_sigterm ==
  /\ ~Ended /\ ~terminated
  /\ terminated' = TRUE
  /\ UNCHANGED <<main, servers, manager, missed, netVars, thread, misused>>

-----------------------------------------------------------------------------
(* The acceptor: io_context runs on the main thread, inside run_for. *)

\* accept(2) succeeds for the operation armed by accept().
Accepted(l) ==
  /\ main = "polling" /\ l \in servers
  /\ accepted[l] = NoClient /\ backlog[l] # <<>>
  /\ accepted' = [accepted EXCEPT ![l] = Head(backlog[l])]
  /\ backlog' = [backlog EXCEPT ![l] = Tail(@)]
  /\ UNCHANGED <<mainVars, via, thread, misused>>

\* accept(2) fails, for want of descriptors; the connection stays in the backlog.
AcceptFails(l) ==
  /\ main = "polling" /\ l \in servers
  /\ accepted[l] = NoClient /\ backlog[l] # <<>>
  /\ accepted' = [accepted EXCEPT ![l] = Failed]
  /\ UNCHANGED <<mainVars, backlog, via, thread, misused>>

\* Mutation: after an error the handler returns and accept() is not called.
HandlerGivesUp(l) ==
  /\ main = "polling"
  /\ accepted[l] \in Clients
  /\ accepted' = [accepted EXCEPT ![l] = NoClient]
  /\ misused' = IF l \in servers THEN misused ELSE misused \cup {<<"main", l>>}
  /\ IF Cardinality(Live) < MaxThreads
     THEN thread' = [thread EXCEPT ![accepted[l]] = "starting"] /\ UNCHANGED main
     ELSE main' = "aborted" /\ UNCHANGED thread
  /\ UNCHANGED <<terminated, servers, manager, missed, backlog, via>>

\* The lambda of accept(): a thread for the connection, then accept() again, on
\* success and on error.  std::thread throws when the system has no thread to
\* give, and nothing between here and main catches it.
Handler(l) ==
  /\ main = "polling"
  /\ accepted[l] # NoClient
  /\ accepted' = [accepted EXCEPT ![l] = NoClient]
  /\ misused' = IF l \in servers THEN misused ELSE misused \cup {<<"main", l>>}
  /\ IF accepted[l] = Failed
     THEN UNCHANGED <<main, thread>>
     ELSE IF Cardinality(Live) < MaxThreads
     THEN thread' = [thread EXCEPT ![accepted[l]] = "starting"] /\ UNCHANGED main
     ELSE main' = "aborted" /\ UNCHANGED thread
  /\ UNCHANGED <<terminated, servers, manager, missed, backlog, via>>

-----------------------------------------------------------------------------
(* The thread of a connection. *)

\* A step of c's thread from one state to another that uses an object.  If the
\* object is gone the step has no defined outcome: the thread goes wild.
Uses(c, from, object, exists, to) ==
  /\ ~Ended /\ thread[c] = from
  /\ IF exists
     THEN thread' = [thread EXCEPT ![c] = to] /\ UNCHANGED misused
     ELSE thread' = [thread EXCEPT ![c] = "wild"] /\ misused' = misused \cup {<<c, object>>}
  /\ UNCHANGED <<mainVars, netVars>>

\* this->client_connected: the limits and the manager's address are read from
\* the server.
client_connected(c) == Uses(c, "starting", via[c], via[c] \in servers, "reading")

\* A page of swagger_serve, a member of the server.
ServePage(c) ==
  via[c] \in WebListeners /\ Uses(c, "reading", via[c], via[c] \in servers, "reading")

\* A request becomes a task that calls the manager (a look-up, say).
CallManager(c) == Uses(c, "reading", "manager", manager # "gone", "calling")

\* The task is not an execution, or it threw: the answer is written.
Answer(c) ==
  /\ ~Ended /\ thread[c] = "calling"
  /\ thread' = [thread EXCEPT ![c] = "reading"]
  /\ UNCHANGED <<mainVars, netVars, misused>>

\* An execution goes to the pool; a stopped pool throws and the client is told.
Enqueue(c) ==
  Uses(c, "calling", "manager", manager # "gone",
       IF manager = "alive" THEN "queued" ELSE "reading")

\* The connection ends: the client is gone, or asked to close.
Close(c) ==
  /\ ~Ended /\ thread[c] = "reading"
  /\ thread' = [thread EXCEPT ![c] = "ended"]
  /\ UNCHANGED <<mainVars, netVars, misused>>

\* An exception leaves client_connected; the thread's function catches it.
Unwinds(c) ==
  /\ ~Ended /\ thread[c] \in {"reading", "calling"}
  /\ thread' = [thread EXCEPT ![c] = "ended"]
  /\ UNCHANGED <<mainVars, netVars, misused>>

\* What a thread may do once it has used an object that is gone.
Crash(c) ==
  /\ ~Ended /\ thread[c] = "wild"
  /\ main' = "aborted"
  /\ UNCHANGED <<terminated, servers, manager, missed, netVars, thread, misused>>

\* Mutation: a worker takes a task before it is done with the last one.
StartTaskTooEarly(c) ==
  /\ ~Ended /\ thread[c] = "queued"
  /\ Workers > 0
  /\ thread' = [thread EXCEPT ![c] = "running"]
  /\ UNCHANGED <<mainVars, netVars, misused>>

\* The pool's workers, as PoolContract describes them.
StartTask(c) ==
  /\ ~Ended /\ thread[c] = "queued"
  /\ Cardinality(In("running")) < Workers
  /\ thread' = [thread EXCEPT ![c] = "running"]
  /\ UNCHANGED <<mainVars, netVars, misused>>

FinishTask(c) ==
  /\ ~Ended /\ thread[c] = "running"
  /\ thread' = [thread EXCEPT ![c] = "reading"]
  /\ UNCHANGED <<mainVars, netVars, misused>>

-----------------------------------------------------------------------------
(* The end of main. *)

Released(S) == [c \in Clients |-> IF c \in S THEN "reading" ELSE thread[c]]

LeaveLoop ==
  /\ main = "polling" /\ terminated
  /\ main' = "cleanup"
  /\ UNCHANGED <<terminated, servers, manager, missed, netVars, thread, misused>>

\* Mutation: the loop is entered again, to let what is pending finish.
ClearAndDrain ==
  /\ main = "cleanup"
  /\ servers' = {}
  /\ backlog' = [l \in Listeners |-> <<>>]
  /\ main' = "polling"
  /\ UNCHANGED <<terminated, manager, missed, accepted, via, thread, misused>>

\* servers.clear(): acceptors and unhandled sockets are closed; a handler that
\* has not run yet stays in io_context.
ClearServers ==
  /\ main = "cleanup"
  /\ servers' = {}
  /\ backlog' = [l \in Listeners |-> <<>>]
  /\ main' = "flush"
  /\ UNCHANGED <<terminated, manager, missed, accepted, via, thread, misused>>

\* ~session_manager: the tasks that wait are dropped and their callers told.
Flush ==
  /\ main = "flush"
  /\ thread' = Released(In("queued"))
  /\ main' = "stop"
  /\ UNCHANGED <<terminated, servers, manager, missed, netVars, misused>>

\* ~builtin_thread_pool refuses new tasks and notifies its workers.  It holds no
\* lock: one worker (who does) may have seen that there is nothing to do and not
\* sleep yet, and misses both.
StopPool ==
  /\ main = "stop"
  /\ manager' = "stopped"
  /\ missed' \in {FALSE, In("queued") = {} /\ Cardinality(In("running")) < Workers}
  /\ main' = "join"
  /\ UNCHANGED <<terminated, servers, netVars, thread, misused>>

\* A condition variable may wake a thread that nobody notified.
WakeSpuriously ==
  /\ main = "join" /\ missed
  /\ missed' = FALSE
  /\ UNCHANGED <<main, terminated, servers, manager, netVars, thread, misused>>

\* Mutation: the workers are detached instead of joined.
DetachPool ==
  /\ main = "join"
  /\ manager' = "gone"
  /\ main' = "return"
  /\ UNCHANGED <<terminated, servers, missed, netVars, thread, misused>>

\* Mutation: the destructor waits for the connections, too.
JoinConnections ==
  /\ main = "join" /\ ~missed
  /\ Live = {}
  /\ manager' = "gone"
  /\ main' = "return"
  /\ UNCHANGED <<terminated, servers, missed, netVars, thread, misused>>

\* Then it joins its workers, who first run what was enqueued meanwhile; what is
\* left without workers is dropped with the queue.  Then the map goes.  A worker
\* that sleeps is waited for.
JoinPool ==
  /\ main = "join" /\ ~missed
  /\ In("running") = {} /\ (In("queued") = {} \/ Workers = 0)
  /\ manager' = "gone"
  /\ thread' = Released(In("queued"))
  /\ main' = "return"
  /\ UNCHANGED <<terminated, servers, missed, netVars, misused>>

\* main returns: io_context is destroyed with the handlers it still holds, and
\* the process ends with whatever its detached threads are doing.
Return ==
  /\ main = "return"
  /\ main' = "exited"
  /\ UNCHANGED <<terminated, servers, manager, missed, netVars, thread, misused>>

Connection(c) ==
  \/ client_connected(c) \/ ServePage(c) \/ CallManager(c) \/ Answer(c) \/ Enqueue(c)
  \/ Close(c) \/ Unwinds(c) \/ Crash(c) \/ StartTask(c) \/ FinishTask(c)

Next ==
  \/ on_sigterm \/ LeaveLoop \/ ClearServers \/ Flush \/ StopPool \/ WakeSpuriously
  \/ JoinPool \/ Return
  \/ \E l \in Listeners : Accepted(l) \/ AcceptFails(l) \/ Handler(l)
  \/ \E c \in Clients : Connect(c) \/ Connection(c)

Spec == Init /\ [][Next]_vars

\* main's own steps are taken (run_for returns after a second whatever is
\* ready); a handler that is ready is run; accept(2) does not fail for ever; the
\* pool's workers run.  Nothing is assumed of clients, of SIGTERM or of spurious
\* wake-ups: a join that waits for a worker asleep may wait for ever.
Fairness ==
  /\ WF_vars(LeaveLoop) /\ WF_vars(ClearServers) /\ WF_vars(Flush)
  /\ WF_vars(StopPool) /\ WF_vars(JoinPool) /\ WF_vars(Return)
  /\ \A l \in Listeners : SF_vars(Accepted(l)) /\ WF_vars(Handler(l))
  /\ \A c \in Clients : WF_vars(client_connected(c)) /\ SF_vars(StartTask(c)) /\ WF_vars(FinishTask(c))

FairSpec == Spec /\ Fairness

-----------------------------------------------------------------------------
(* Properties. *)

\* Threads and workers in use, as many as there are.
WithinLimits ==
  Cardinality(Live) <= MaxThreads /\ Cardinality(In("running")) <= Workers

TypeOK ==
  /\ main \in {"polling", "cleanup", "flush", "stop", "join", "return", "exited", "aborted"}
  /\ terminated \in BOOLEAN
  /\ servers \subseteq Listeners
  /\ manager \in {"alive", "stopped", "gone"}
  /\ missed \in BOOLEAN
  /\ backlog \in [Listeners -> Seq(Clients)]
  /\ accepted \in [Listeners -> Clients \cup {NoClient, Failed}]
  /\ via \in [Clients -> Listeners]
  /\ thread \in [Clients -> ThreadStates]
  /\ misused \subseteq (Clients \cup {"main"}) \X (Listeners \cup {"manager"})
  /\ WithinLimits

\* Nobody uses a server or the manager after its destruction (main.cpp:71-72)
\* but the thread of a connection that was there when SIGTERM ended the loop and
\* is still there: not the main thread, whose handlers hold `this` of a server
\* (server.cpp:24), and nobody at all while the program serves.
OnlyStragglersMisuse ==
  \A u \in misused :
    /\ u[1] \in Clients /\ thread[u[1]] = "wild"
    /\ terminated /\ main # "polling"
    /\ u[2] = "manager" => manager = "gone"

\* When the manager is gone no connection waits for a task of its pool and no
\* worker runs one: flush and join (session_manager.cpp:15, thread_pool.hpp:40)
\* have released every caller, those that enqueued in between too.
NobodyWaitsForDeadPool == manager = "gone" => In("queued") \cup In("running") = {}

\* What exists while main is where it is.
PhaseInv ==
  /\ main = "polling" => servers = Listeners
  /\ main \in {"polling", "cleanup", "flush", "stop"} => manager = "alive"
  /\ main = "join" => manager = "stopped"
  /\ missed => main \in {"join", "aborted"}
  /\ main \in {"return", "exited"} => manager = "gone"
  /\ main \notin {"polling", "aborted"} => terminated
  /\ servers # Listeners \/ manager # "alive" => terminated /\ main # "polling"

\* A connection is in one place: with the client, in the backlog of its listener,
\* with the handler of that listener, or with its thread.
OnePlaceInv ==
  /\ \A l \in Listeners : \A i \in DOMAIN backlog[l] : via[backlog[l][i]] = l
  /\ \A l \in Listeners : \A i, j \in DOMAIN backlog[l] : backlog[l][i] = backlog[l][j] => i = j
  /\ \A l \in Listeners : accepted[l] \in Clients =>
       via[accepted[l]] = l /\ thread[accepted[l]] = "none" /\ ~InBacklog(accepted[l])
  /\ \A c \in Clients : InBacklog(c) => thread[c] = "none"

\* The inductive invariant.
IInv == /\ TypeOK /\ PhaseInv /\ OnePlaceInv
        /\ OnlyStragglersMisuse /\ NobodyWaitsForDeadPool

\* A connection in the backlog is taken on, whatever accept(2) said meanwhile,
\* unless the program ends (server.cpp:39 arms the acceptor after errors too).
BacklogIsServed ==
  \A c \in Clients :
    InBacklog(c) ~> (thread[c] # "none" \/ terminated \/ Ended)

\* main waits in the destructor of the pool for a worker that sleeps.
JoinHangs == main = "join" /\ missed

\* After SIGTERM (main.cpp:66-72) the process ends, with connections open,
\* requests running and tasks waiting, but for one thing: the join of a worker
\* that missed the notification (thread_pool.hpp:36-40).  Nothing else that is
\* under way, in a connection or in the pool, keeps main from its end.
OnlyLostWakeUpOutlivesSigterm == <>terminated => <>Ended \/ <>[]JoinHangs
=============================================================================

---------------------------- MODULE ServiceProofs ----------------------------
(***************************************************************************)
(* The invariants of Service for any finite set of clients and any number  *)
(* of listeners, workers and threads.  What a step of a connection's       *)
(* thread may do is stated once (ConnectionSteps); the conjuncts of the    *)
(* inductive invariant IInv follow one by one.                             *)
(***************************************************************************)
EXTENDS Service, FiniteSetTheorems, SequenceTheorems, TLAPS

\* The thread of c goes from one place to another and, if it went wild, used
\* an object that does not exist.
Moves(c, to) ==
  /\ UNCHANGED <<mainVars, netVars>> /\ ~Ended
  /\ thread[c] \in ThreadStates \ {"none", "ended", "wild"}
  /\ thread' = [thread EXCEPT ![c] = to]
  /\ to \in {"queued", "running"} => manager = "alive" \/ thread[c] = "queued"
  /\ to = "running" => Cardinality(In("running")) < Workers
  /\ to # "wild" => misused' = misused
  /\ to = "wild" =>
       \E o \in Listeners \cup {"manager"} :
         /\ misused' = misused \cup {<<c, o>>}
         /\ o = "manager" => manager = "gone"
         /\ o # "manager" => o \notin servers

\* A step of a connection is the end of a process that went wild, or a move.
LEMMA ConnectionSteps ==
  ASSUME TypeOK, NEW c \in Clients, Connection(c)
  PROVE  Crash(c) \/ \E to \in ThreadStates \ {"none", "starting"} : Moves(c, to)
<1> USE DEF TypeOK, ThreadStates
<1>1. ASSUME client_connected(c) PROVE Moves(c, "reading") \/ Moves(c, "wild")
  BY <1>1, ListenersAssumption DEF client_connected, Uses, Moves, mainVars, netVars
<1>2. ASSUME ServePage(c) PROVE Moves(c, "reading") \/ Moves(c, "wild")
  BY <1>2, ListenersAssumption DEF ServePage, Uses, Moves, mainVars, netVars
<1>3. ASSUME CallManager(c) PROVE Moves(c, "calling") \/ Moves(c, "wild")
  BY <1>3 DEF CallManager, Uses, Moves, mainVars, netVars
<1>4. ASSUME Answer(c) PROVE Moves(c, "reading")
  BY <1>4 DEF Answer, Moves, mainVars, netVars
<1>5. ASSUME Enqueue(c) PROVE Moves(c, "queued") \/ Moves(c, "reading") \/ Moves(c, "wild")
  BY <1>5 DEF Enqueue, Uses, Moves, mainVars, netVars
<1>6. ASSUME Close(c) PROVE Moves(c, "ended")
  BY <1>6 DEF Close, Moves, mainVars, netVars
<1>7. ASSUME Unwinds(c) PROVE Moves(c, "ended")
  BY <1>7 DEF Unwinds, Moves, mainVars, netVars
<1>8. ASSUME StartTask(c) PROVE Moves(c, "running")
  BY <1>8 DEF StartTask, Moves, mainVars, netVars
<1>9. ASSUME FinishTask(c) PROVE Moves(c, "reading")
  BY <1>9 DEF FinishTask, Moves, mainVars, netVars
<1> QED
  BY <1>1, <1>2, <1>3, <1>4, <1>5, <1>6, <1>7, <1>8, <1>9 DEF Connection

\* Any set of clients is finite, and so is counted by a natural number.
LEMMA ClientsCounted ==
  ASSUME NEW S \in SUBSET Clients
  PROVE  /\ IsFiniteSet(S) /\ Cardinality(S) \in Nat
         /\ \A T \in SUBSET S : Cardinality(T) <= Cardinality(S)
         /\ \A c \in Clients : Cardinality(S \cup {c}) <= Cardinality(S) + 1
<1>1. IsFiniteSet(S)
  BY ClientsAssumption, FS_Subset
<1> QED BY <1>1, FS_CardinalityType, FS_Subset, FS_AddElement

-----------------------------------------------------------------------------
(* Types and limits. *)

\* A thread is started only below the system's limit, and a task only on a worker
\* that is free.
LEMMA LimitsStep ==
  ASSUME TypeOK, OnePlaceInv, [Next]_vars PROVE WithinLimits'
<1> USE DEF TypeOK, WithinLimits, ThreadStates
<1>1. ASSUME Live' \subseteq Live, In("running")' \subseteq In("running")
      PROVE  WithinLimits'
  <2>1. Live \in SUBSET Clients /\ In("running") \in SUBSET Clients
    BY DEF Live, In
  <2>2. /\ Cardinality(Live) \in Nat /\ Cardinality(Live') <= Cardinality(Live)
        /\ Cardinality(Live') \in Nat
    BY <1>1, <2>1, ClientsCounted
  <2>3. /\ Cardinality(In("running")) \in Nat
        /\ Cardinality(In("running")') <= Cardinality(In("running"))
        /\ Cardinality(In("running")') \in Nat
    BY <1>1, <2>1, ClientsCounted
  <2> QED BY <2>2, <2>3, LimitsAssumption
<1>2. ASSUME thread' = thread PROVE WithinLimits'
  BY <1>1, <1>2 DEF Live, In
<1>3. ASSUME NEW l \in Listeners, Handler(l) PROVE WithinLimits'
  <2>1. CASE thread' = thread
    BY <2>1, <1>2
  <2>2. CASE /\ thread' = [thread EXCEPT ![accepted[l]] = "starting"]
             /\ accepted[l] \in Clients /\ Cardinality(Live) < MaxThreads
    <3>1. Live' \subseteq Live \cup {accepted[l]} /\ Live \in SUBSET Clients
      BY <2>2 DEF Live
    <3>2. Cardinality(Live') <= Cardinality(Live) + 1
      <4>1. Live \cup {accepted[l]} \in SUBSET Clients
        BY <2>2, <3>1
      <4>2. Cardinality(Live \cup {accepted[l]}) <= Cardinality(Live) + 1
        BY <2>2, <3>1, ClientsCounted
      <4>3. /\ Cardinality(Live') <= Cardinality(Live \cup {accepted[l]})
            /\ Cardinality(Live \cup {accepted[l]}) \in Nat
        BY <3>1, <4>1, ClientsCounted
      <4>4. Cardinality(Live) \in Nat /\ Cardinality(Live') \in Nat
        BY <3>1, <4>1, ClientsCounted
      <4> QED BY <4>2, <4>3, <4>4
    <3>3. Cardinality(Live') <= MaxThreads
      <4>1. Cardinality(Live) \in Nat /\ Cardinality(Live') \in Nat
        BY <3>1, <2>2, ClientsCounted
      <4> QED BY <2>2, <3>2, <4>1, LimitsAssumption
    <3>4. In("running")' \subseteq In("running") /\ In("running") \in SUBSET Clients
      BY <2>2 DEF In
    <3>5. Cardinality(In("running")') <= Workers
      <4>1. /\ Cardinality(In("running")') <= Cardinality(In("running"))
            /\ Cardinality(In("running")') \in Nat /\ Cardinality(In("running")) \in Nat
        BY <3>4, ClientsCounted
      <4> QED BY <4>1, LimitsAssumption
    <3> QED BY <3>3, <3>5
  <2> QED BY <1>3, <2>1, <2>2 DEF Handler
<1>4. ASSUME NEW c \in Clients, NEW to \in ThreadStates \ {"none", "starting"}, Moves(c, to)
      PROVE  WithinLimits'
  <2>1. thread[c] \notin {"none", "ended"} /\ thread' = [thread EXCEPT ![c] = to]
    BY <1>4 DEF Moves
  <2>2. Live' \subseteq Live /\ Live \in SUBSET Clients
    BY <2>1 DEF Live
  <2>3. CASE to # "running"
    <3>1. In("running")' \subseteq In("running")
      BY <2>1, <2>3 DEF In
    <3> QED BY <1>1, <2>2, <3>1
  <2>4. CASE to = "running"
    <3>1. In("running")' = In("running") \cup {c} /\ In("running") \in SUBSET Clients
      BY <2>1, <2>4 DEF In
    <3>2. /\ Cardinality(In("running")) < Workers
          /\ Cardinality(In("running")) \in Nat
          /\ Cardinality(In("running")') <= Cardinality(In("running")) + 1
      BY <1>4, <2>4, <3>1, ClientsCounted DEF Moves
    <3>3. In("running")' \in SUBSET Clients
      BY <3>1
    <3>4. Cardinality(In("running")') \in Nat
      BY <3>3, ClientsCounted
    <3>5. /\ Cardinality(Live) \in Nat /\ Cardinality(Live') <= Cardinality(Live)
          /\ Cardinality(Live') \in Nat
      BY <2>2, ClientsCounted
    <3> QED BY <3>2, <3>4, <3>5, LimitsAssumption
  <2> QED BY <2>3, <2>4
<1>5. ASSUME thread' = Released(In("queued")) PROVE WithinLimits'
  <2>1. Live' \subseteq Live /\ In("running")' \subseteq In("running")
    BY <1>5 DEF Released, In, Live
  <2> QED BY <1>1, <2>1
<1>6. ASSUME NEW c \in Clients, Connection(c) PROVE WithinLimits'
  BY <1>2, <1>4, <1>6, ConnectionSteps DEF Crash
<1>7. ASSUME NEW c \in Clients, Connect(c) PROVE WithinLimits'
  BY <1>2, <1>7 DEF Connect
<1>8. ASSUME NEW l \in Listeners, Accepted(l) \/ AcceptFails(l) PROVE WithinLimits'
  BY <1>2, <1>8 DEF Accepted, AcceptFails
<1>9. CASE on_sigterm \/ LeaveLoop \/ ClearServers \/ StopPool \/ WakeSpuriously \/ Return
  BY <1>2, <1>9 DEF on_sigterm, LeaveLoop, ClearServers, StopPool, WakeSpuriously, Return
<1>10. CASE Flush \/ JoinPool
  BY <1>5, <1>10 DEF Flush, JoinPool
<1>11. CASE UNCHANGED vars
  BY <1>2, <1>11 DEF vars
<1> QED
  BY <1>3, <1>6, <1>7, <1>8, <1>9, <1>10, <1>11 DEF Next

\* Every step preserves the types.
LEMMA TypeStep ==
  ASSUME TypeOK, OnePlaceInv, [Next]_vars PROVE TypeOK'
<1> USE DEF TypeOK, ThreadStates, mainVars, netVars
<1> HIDE DEF WithinLimits
<1>1. WithinLimits'
  BY LimitsStep
<1>2. ASSUME NEW l \in Listeners, Accepted(l) PROVE TypeOK'
  <2>1. Head(backlog[l]) \in Clients /\ Tail(backlog[l]) \in Seq(Clients)
    BY <1>2 DEF Accepted
  <2> QED BY <1>1, <1>2, <2>1 DEF Accepted
<1>3. ASSUME NEW l \in Listeners, AcceptFails(l) PROVE TypeOK'
  BY <1>1, <1>3 DEF AcceptFails
<1>4. ASSUME NEW l \in Listeners, Handler(l) PROVE TypeOK'
  <2>1. misused' \subseteq (Clients \cup {"main"}) \X (Listeners \cup {"manager"})
    BY <1>4 DEF Handler
  <2>2. main' \in {main, "aborted"} /\ thread' \in [Clients -> ThreadStates]
    BY <1>4 DEF Handler
  <2>3. accepted' \in [Listeners -> Clients \cup {NoClient, Failed}]
    BY <1>4 DEF Handler
  <2> QED BY <1>1, <1>4, <2>1, <2>2, <2>3 DEF Handler
<1>5. ASSUME NEW c \in Clients, NEW to \in ThreadStates \ {"none", "starting"}, Moves(c, to)
      PROVE  TypeOK'
  <2>1. misused' \subseteq (Clients \cup {"main"}) \X (Listeners \cup {"manager"})
    BY <1>5 DEF Moves
  <2> QED BY <1>1, <1>5, <2>1 DEF Moves
<1>6. ASSUME NEW c \in Clients, Connection(c) PROVE TypeOK'
  BY <1>1, <1>5, <1>6, ConnectionSteps DEF Crash
<1>7. ASSUME NEW c \in Clients, Connect(c) PROVE TypeOK'
  <2>1. Append(backlog[via[c]], c) \in Seq(Clients)
    OBVIOUS
  <2> QED BY <1>1, <1>7, <2>1 DEF Connect
<1>8. CASE on_sigterm
  BY <1>1, <1>8 DEF on_sigterm
<1>9. CASE LeaveLoop
  BY <1>1, <1>9 DEF LeaveLoop
<1>10. CASE ClearServers
  BY <1>1, <1>10 DEF ClearServers
<1>11. CASE Flush
  BY <1>1, <1>11 DEF Flush, Released
<1>12. CASE StopPool
  BY <1>1, <1>12 DEF StopPool
<1>13. CASE JoinPool
  BY <1>1, <1>13 DEF JoinPool, Released
<1>14. CASE Return
  BY <1>1, <1>14 DEF Return
<1>15. CASE WakeSpuriously
  BY <1>1, <1>15 DEF WakeSpuriously
<1>16. CASE UNCHANGED vars
  BY <1>1, <1>16 DEF vars
<1> QED
  BY <1>2, <1>3, <1>4, <1>6, <1>7, <1>8, <1>9, <1>10, <1>11, <1>12, <1>13, <1>14, <1>15, <1>16 DEF Next

-----------------------------------------------------------------------------
(* What exists while main is where it is, and who may touch what is gone. *)

\* main destroys servers and manager in the order of its cleanup.
LEMMA PhaseStep ==
  ASSUME TypeOK, PhaseInv, [Next]_vars PROVE PhaseInv'
<1> USE DEF TypeOK, PhaseInv, mainVars, netVars
<1>1. ASSUME NEW l \in Listeners, Accepted(l) \/ AcceptFails(l) PROVE PhaseInv'
  BY <1>1 DEF Accepted, AcceptFails
<1>2. ASSUME NEW l \in Listeners, Handler(l) PROVE PhaseInv'
  BY <1>2 DEF Handler
<1>3. ASSUME NEW c \in Clients, NEW to \in ThreadStates, Moves(c, to) PROVE PhaseInv'
  BY <1>3 DEF Moves
<1>4. ASSUME NEW c \in Clients, Crash(c) PROVE PhaseInv'
  BY <1>4 DEF Crash, Ended
<1>5. ASSUME NEW c \in Clients, Connection(c) PROVE PhaseInv'
  BY <1>3, <1>4, <1>5, ConnectionSteps
<1>6. ASSUME NEW c \in Clients, Connect(c) PROVE PhaseInv'
  BY <1>6 DEF Connect
<1>7. CASE on_sigterm
  BY <1>7 DEF on_sigterm
<1>8. CASE LeaveLoop
  BY <1>8 DEF LeaveLoop
<1>9. CASE ClearServers
  BY <1>9 DEF ClearServers
<1>10. CASE Flush
  BY <1>10 DEF Flush
<1>11. CASE StopPool
  BY <1>11 DEF StopPool
<1>12. CASE JoinPool
  BY <1>12 DEF JoinPool
<1>13. CASE Return
  BY <1>13 DEF Return
<1>14. CASE WakeSpuriously
  BY <1>14 DEF WakeSpuriously
<1>15. CASE UNCHANGED vars
  BY <1>15 DEF vars
<1> QED
  BY <1>1, <1>2, <1>5, <1>6, <1>7, <1>8, <1>9, <1>10, <1>11, <1>12, <1>13, <1>14, <1>15 DEF Next

\* Only a thread that is still there after the servers or the manager are gone
\* uses one of them: while main polls everything exists, and main itself touches
\* a server from a handler of its loop only.
LEMMA MisuseStep ==
  ASSUME TypeOK, PhaseInv, OnlyStragglersMisuse, [Next]_vars PROVE OnlyStragglersMisuse'
<1> USE DEF TypeOK, PhaseInv, OnlyStragglersMisuse, mainVars, netVars
<1>1. ASSUME misused' = misused, terminated' = terminated, main = "polling" \/ main' # "polling",
             manager = "gone" => manager' = "gone",
             \A c \in Clients : thread[c] = "wild" => thread'[c] = "wild"
      PROVE  OnlyStragglersMisuse'
  BY <1>1
<1>2. ASSUME NEW l \in Listeners, Handler(l) PROVE OnlyStragglersMisuse'
  <2>1. main = "polling" /\ servers = Listeners /\ misused = {}
    BY <1>2 DEF Handler
  <2>2. misused' = {}
    BY <1>2, <2>1 DEF Handler
  <2> QED BY <2>2
<1>3. ASSUME NEW l \in Listeners, Accepted(l) \/ AcceptFails(l) PROVE OnlyStragglersMisuse'
  BY <1>3 DEF Accepted, AcceptFails
<1>4. ASSUME NEW c \in Clients, NEW to \in ThreadStates, Moves(c, to)
      PROVE  OnlyStragglersMisuse'
  <2>1. /\ UNCHANGED <<main, terminated, manager>>
        /\ thread[c] # "wild" /\ thread' = [thread EXCEPT ![c] = to]
    BY <1>4 DEF Moves
  <2>2. CASE to # "wild"
    BY <1>1, <1>4, <2>1, <2>2 DEF Moves
  <2>3. CASE to = "wild"
    <3>1. PICK o \in Listeners \cup {"manager"} :
            /\ misused' = misused \cup {<<c, o>>}
            /\ o = "manager" => manager = "gone"
            /\ o # "manager" => o \notin servers
      BY <1>4, <2>3 DEF Moves
    <3>2. terminated /\ main # "polling"
      BY <3>1
    <3>3. thread'[c] = "wild" /\ \A d \in Clients : d # c => thread'[d] = thread[d]
      BY <2>1, <2>3
    <3> QED BY <2>1, <3>1, <3>2, <3>3
  <2> QED BY <2>2, <2>3
<1>5. ASSUME NEW c \in Clients, Crash(c) PROVE OnlyStragglersMisuse'
  BY <1>5 DEF Crash
<1>6. ASSUME NEW c \in Clients, Connection(c) PROVE OnlyStragglersMisuse'
  BY <1>4, <1>5, <1>6, ConnectionSteps
<1>7. ASSUME NEW c \in Clients, Connect(c) PROVE OnlyStragglersMisuse'
  BY <1>7 DEF Connect
<1>8. CASE on_sigterm
  BY <1>8 DEF on_sigterm
<1>9. CASE LeaveLoop \/ ClearServers \/ WakeSpuriously \/ Return
  BY <1>9 DEF LeaveLoop, ClearServers, WakeSpuriously, Return
<1>10. CASE Flush
  BY <1>10, <1>1 DEF Flush, Released, In
<1>11. CASE StopPool
  BY <1>11 DEF StopPool
<1>12. CASE JoinPool
  BY <1>12, <1>1 DEF JoinPool, Released, In
<1>13. CASE UNCHANGED vars
  BY <1>13 DEF vars
<1> QED
  BY <1>2, <1>3, <1>6, <1>7, <1>8, <1>9, <1>10, <1>11, <1>12, <1>13 DEF Next

\* The join leaves no task behind, and a pool that is gone takes none.
LEMMA DeadPoolStep ==
  ASSUME TypeOK, PhaseInv, NobodyWaitsForDeadPool, [Next]_vars PROVE NobodyWaitsForDeadPool'
<1> USE DEF TypeOK, NobodyWaitsForDeadPool, In, mainVars, netVars
<1>1. ASSUME manager' = manager,
             \A c \in Clients : thread'[c] \in {"queued", "running"} => thread[c] \in {"queued", "running"}
      PROVE  NobodyWaitsForDeadPool'
  BY <1>1
<1>2. ASSUME NEW l \in Listeners, Accepted(l) \/ AcceptFails(l) PROVE NobodyWaitsForDeadPool'
  BY <1>1, <1>2 DEF Accepted, AcceptFails
<1>3. ASSUME NEW l \in Listeners, Handler(l) PROVE NobodyWaitsForDeadPool'
  BY <1>1, <1>3 DEF Handler
<1>4. ASSUME NEW c \in Clients, NEW to \in ThreadStates, Moves(c, to)
      PROVE  NobodyWaitsForDeadPool'
  <2>1. CASE manager = "gone"
    <3>1. thread[c] # "queued" /\ to \notin {"queued", "running"}
      BY <1>4, <2>1 DEF Moves
    <3> QED BY <1>1, <1>4, <3>1 DEF Moves
  <2>2. CASE manager # "gone"
    BY <1>4, <2>2 DEF Moves
  <2> QED BY <2>1, <2>2
<1>5. ASSUME NEW c \in Clients, Connection(c) PROVE NobodyWaitsForDeadPool'
  BY <1>4, <1>5, ConnectionSteps, <1>1 DEF Crash
<1>6. ASSUME NEW c \in Clients, Connect(c) PROVE NobodyWaitsForDeadPool'
  BY <1>1, <1>6 DEF Connect
<1>7. CASE on_sigterm \/ LeaveLoop \/ ClearServers \/ WakeSpuriously \/ Return
  BY <1>1, <1>7 DEF on_sigterm, LeaveLoop, ClearServers, WakeSpuriously, Return
<1>8. CASE Flush
  BY <1>1, <1>8 DEF Flush, Released
<1>9. CASE StopPool
  BY <1>9 DEF StopPool
<1>10. CASE JoinPool
  BY <1>10 DEF JoinPool, Released
<1>11. CASE UNCHANGED vars
  BY <1>1, <1>11 DEF vars
<1> QED
  BY <1>2, <1>3, <1>5, <1>6, <1>7, <1>8, <1>9, <1>10, <1>11 DEF Next

-----------------------------------------------------------------------------
(* A connection is in one place. *)

\* The places of a queue after its first element left.
LEMMA TailPlaces ==
  ASSUME NEW S, NEW q \in Seq(S), q # <<>>
  PROVE  /\ 1 \in DOMAIN q /\ Head(q) = q[1] /\ q[1] \in S
         /\ \A i \in DOMAIN Tail(q) : i \in Nat /\ i > 0 /\ i + 1 \in DOMAIN q /\ Tail(q)[i] = q[i + 1]
<1>1. Len(q) \in Nat /\ Len(q) > 0 /\ DOMAIN q = 1..Len(q)
  BY EmptySeq, LenProperties
<1>2. Tail(q) \in Seq(S) /\ Len(Tail(q)) = Len(q) - 1 /\ \A i \in 1..Len(Tail(q)) : Tail(q)[i] = q[i + 1]
  BY HeadTailProperties
<1>3. DOMAIN Tail(q) = 1..Len(Tail(q))
  BY <1>2, LenProperties
<1> QED BY <1>1, <1>2, <1>3, HeadTailProperties

\* The places of a queue after one arrived.
LEMMA AppendPlaces ==
  ASSUME NEW S, NEW q \in Seq(S), NEW e \in S, NEW i \in DOMAIN Append(q, e)
  PROVE  \/ i \in DOMAIN q /\ Append(q, e)[i] = q[i]
         \/ i = Len(q) + 1 /\ Append(q, e)[i] = e
<1>1. DOMAIN q = 1..Len(q) /\ Len(q) \in Nat
  BY LenProperties
<1>2. DOMAIN Append(q, e) = 1..(Len(q) + 1)
  BY AppendProperties, LenProperties
<1> QED BY <1>1, <1>2, AppendProperties

\* A connection moves from the client to a backlog, the handler and its thread.
LEMMA OnePlaceStep ==
  ASSUME TypeOK, OnePlaceInv, [Next]_vars PROVE OnePlaceInv'
<1> USE DEF mainVars, netVars
<1>a. \A l \in Listeners : \A i \in DOMAIN backlog[l] : via[backlog[l][i]] = l
  BY DEF OnePlaceInv
<1>b. \A l \in Listeners : \A i, j \in DOMAIN backlog[l] : backlog[l][i] = backlog[l][j] => i = j
  BY DEF OnePlaceInv
<1>c. \A l \in Listeners : accepted[l] \in Clients =>
        via[accepted[l]] = l /\ thread[accepted[l]] = "none" /\ ~InBacklog(accepted[l])
  BY DEF OnePlaceInv
<1>d. \A c \in Clients : InBacklog(c) => thread[c] = "none"
  BY DEF OnePlaceInv
<1>1. ASSUME UNCHANGED <<backlog, accepted, via>>,
             \A c \in Clients : thread[c] = "none" => thread'[c] = "none"
      PROVE  OnePlaceInv'
  BY <1>1, <1>a, <1>b, <1>c, <1>d DEF OnePlaceInv, InBacklog
<1>2. ASSUME NEW l \in Listeners, Accepted(l) PROVE OnePlaceInv'
  <2>1. backlog[l] \in Seq(Clients) /\ backlog[l] # <<>> /\ accepted[l] = NoClient
    BY <1>2 DEF Accepted, TypeOK
  <2>0. PICK c \in Clients : c = backlog[l][1]
    BY <2>1, TailPlaces
  <2>2. /\ 1 \in DOMAIN backlog[l] /\ Head(backlog[l]) = c /\ backlog[l][1] = c
        /\ \A i \in DOMAIN Tail(backlog[l]) :
             i \in Nat /\ i > 0 /\ i + 1 \in DOMAIN backlog[l] /\ Tail(backlog[l])[i] = backlog[l][i + 1]
    BY <2>0, <2>1, TailPlaces
  <2>3. /\ accepted'[l] = c /\ \A k \in Listeners : k # l => accepted'[k] = accepted[k]
        /\ backlog'[l] = Tail(backlog[l]) /\ \A k \in Listeners : k # l => backlog'[k] = backlog[k]
        /\ via' = via /\ thread' = thread
    BY <1>2, <2>2 DEF Accepted, TypeOK
  <2>4. \A i \in DOMAIN backlog'[l] :
          i \in Nat /\ i > 0 /\ i + 1 \in DOMAIN backlog[l] /\ backlog'[l][i] = backlog[l][i + 1]
    BY <2>2, <2>3
  <2>5. InBacklog(c) /\ via[c] = l /\ thread[c] = "none"
    <3>1. InBacklog(c) /\ via[c] = l
      BY <2>2, <1>a DEF InBacklog
    <3> QED BY <3>1, <2>2, <1>d
  <2>6. \A i \in DOMAIN backlog'[l] : backlog'[l][i] # c
    <3> SUFFICES ASSUME NEW i \in DOMAIN backlog'[l], backlog'[l][i] = c PROVE FALSE
      OBVIOUS
    <3>1. i \in Nat /\ i > 0 /\ i + 1 \in DOMAIN backlog[l] /\ backlog[l][i + 1] = backlog[l][1]
      BY <2>2, <2>4
    <3>2. i + 1 = 1
      BY <3>1, <2>2, <1>b
    <3> QED BY <3>1, <3>2
  <2>7. ASSUME NEW k \in Listeners, NEW i \in DOMAIN backlog'[k] PROVE via'[backlog'[k][i]] = k
    <3>1. CASE k = l
      BY <3>1, <2>3, <2>4, <2>7, <1>a
    <3>2. CASE k # l
      BY <3>2, <2>3, <2>7, <1>a
    <3> QED BY <3>1, <3>2
  <2>8. ~InBacklog(c)'
    <3> SUFFICES ASSUME NEW k \in Listeners, NEW i \in DOMAIN backlog'[k], backlog'[k][i] = c
                 PROVE  FALSE
      BY DEF InBacklog
    <3>1. via'[c] = k
      BY <2>7
    <3>2. k = l
      BY <3>1, <2>3, <2>5
    <3> QED BY <3>2, <2>6
  <2>9. ASSUME NEW d \in Clients, InBacklog(d)' PROVE InBacklog(d)
    <3>1. PICK k \in Listeners : \E i \in DOMAIN backlog'[k] : backlog'[k][i] = d
      BY <2>9 DEF InBacklog
    <3>2. CASE k = l
      BY <3>1, <3>2, <2>4 DEF InBacklog
    <3>3. CASE k # l
      BY <3>1, <3>3, <2>3 DEF InBacklog
    <3> QED BY <3>2, <3>3
  <2>10. ASSUME NEW k \in Listeners, NEW i \in DOMAIN backlog'[k], NEW j \in DOMAIN backlog'[k],
                backlog'[k][i] = backlog'[k][j]
         PROVE  i = j
    <3>1. CASE k # l
      BY <2>3, <2>10, <3>1, <1>b
    <3>2. CASE k = l
      <4>1. i + 1 = j + 1
        BY <2>4, <2>10, <3>2, <1>b
      <4> QED BY <4>1, <2>4, <2>10, <3>2
    <3> QED BY <3>1, <3>2
  <2>11. ASSUME NEW k \in Listeners, NEW d \in Clients, d = accepted'[k]
         PROVE  via'[d] = k /\ thread'[d] = "none" /\ ~InBacklog(d)'
    <3>1. CASE k = l
      BY <3>1, <2>3, <2>5, <2>8, <2>11
    <3>2. CASE k # l
      <4>1. d = accepted[k] /\ ~InBacklog(d) /\ via[d] = k /\ thread[d] = "none"
        BY <3>2, <2>3, <2>11, <1>c
      <4> QED BY <4>1, <2>3, <2>9
    <3> QED BY <3>1, <3>2
  <2>12. ASSUME NEW d \in Clients, InBacklog(d)' PROVE thread'[d] = "none"
    BY <2>3, <2>9, <2>12, <1>d
  <2> QED BY <2>7, <2>10, <2>11, <2>12 DEF OnePlaceInv, InBacklog
<1>3. ASSUME NEW l \in Listeners, AcceptFails(l) PROVE OnePlaceInv'
  <2>1. /\ UNCHANGED <<backlog, via, thread>>
        /\ \A k \in Listeners : accepted'[k] = accepted[k] \/ accepted'[k] = Failed
    BY <1>3 DEF AcceptFails, TypeOK
  <2> QED BY <2>1, <1>a, <1>b, <1>c, <1>d, ClientsAssumption DEF OnePlaceInv, InBacklog
<1>4. ASSUME NEW l \in Listeners, Handler(l) PROVE OnePlaceInv'
  <2>1. /\ backlog' = backlog /\ via' = via
        /\ accepted'[l] = NoClient /\ \A k \in Listeners : k # l => accepted'[k] = accepted[k]
        /\ \A c \in Clients : c # accepted[l] => thread'[c] = thread[c]
    BY <1>4 DEF Handler, TypeOK
  <2>2. \A c \in Clients : InBacklog(c)' <=> InBacklog(c)
    BY <2>1 DEF InBacklog
  <2>3. ASSUME NEW k \in Listeners, NEW d \in Clients, d = accepted'[k]
        PROVE  via'[d] = k /\ thread'[d] = "none" /\ ~InBacklog(d)'
    <3>1. k # l /\ d = accepted[k]
      BY <2>1, <2>3, ClientsAssumption
    <3>2. d # accepted[l]
      BY <3>1, <2>3, <1>c
    <3> QED BY <2>1, <2>2, <3>1, <3>2, <1>c
  <2>4. ASSUME NEW c \in Clients, InBacklog(c)' PROVE thread'[c] = "none"
    <3>1. InBacklog(c) /\ thread[c] = "none"
      BY <2>2, <2>4, <1>d
    <3>2. c # accepted[l]
      BY <3>1, <1>c
    <3> QED BY <2>1, <3>1, <3>2
  <2> QED BY <2>1, <2>3, <2>4, <1>a, <1>b DEF OnePlaceInv, InBacklog
<1>5. ASSUME NEW c \in Clients, NEW to \in ThreadStates, Moves(c, to) PROVE OnePlaceInv'
  BY <1>1, <1>5 DEF Moves, TypeOK
<1>6. ASSUME NEW c \in Clients, Connection(c) PROVE OnePlaceInv'
  BY <1>1, <1>5, <1>6, ConnectionSteps DEF Crash, TypeOK
<1>7. ASSUME NEW c \in Clients, Connect(c) PROVE OnePlaceInv'
  <2> DEFINE q == backlog[via[c]]
  <2>1. /\ ~InBacklog(c) /\ thread[c] = "none" /\ \A l \in Listeners : accepted[l] # c
        /\ UNCHANGED <<accepted, via, thread>>
        /\ via[c] \in Listeners /\ backlog'[via[c]] = Append(q, c) /\ q \in Seq(Clients)
        /\ \A l \in Listeners : l # via[c] => backlog'[l] = backlog[l]
    BY <1>7 DEF Connect, TypeOK
  <2>2. \A i \in DOMAIN q : q[i] # c
    BY <2>1 DEF InBacklog
  <2>3. \A i \in DOMAIN Append(q, c) :
          \/ i \in DOMAIN q /\ Append(q, c)[i] = q[i]
          \/ i = Len(q) + 1 /\ Append(q, c)[i] = c
    <3> HIDE DEF q
    <3> QED BY <2>1, AppendPlaces
  <2>4. \A i \in DOMAIN backlog'[via[c]] :
          \/ i \in DOMAIN backlog[via[c]] /\ backlog'[via[c]][i] = backlog[via[c]][i]
          \/ i = Len(q) + 1 /\ backlog'[via[c]][i] = c
    BY <2>1, <2>3
  <2>5. \A i \in DOMAIN backlog[via[c]] : backlog[via[c]][i] # c
    BY <2>2
  <2> HIDE DEF q
  <2>6. ASSUME NEW d \in Clients, d # c, InBacklog(d)' PROVE InBacklog(d)
    <3>1. PICK k \in Listeners : \E i \in DOMAIN backlog'[k] : backlog'[k][i] = d
      BY <2>6 DEF InBacklog
    <3>2. CASE k = via[c]
      BY <3>1, <3>2, <2>4, <2>6 DEF InBacklog
    <3>3. CASE k # via[c]
      BY <3>1, <3>3, <2>1 DEF InBacklog
    <3> QED BY <3>2, <3>3
  <2>7. ASSUME NEW l \in Listeners, NEW i \in DOMAIN backlog'[l] PROVE via'[backlog'[l][i]] = l
    <3>1. CASE l = via[c]
      BY <2>1, <2>4, <2>7, <3>1, <1>a
    <3>2. CASE l # via[c]
      BY <2>1, <2>7, <3>2, <1>a
    <3> QED BY <3>1, <3>2
  <2>8. ASSUME NEW l \in Listeners, NEW i \in DOMAIN backlog'[l], NEW j \in DOMAIN backlog'[l],
               backlog'[l][i] = backlog'[l][j]
        PROVE  i = j
    <3>1. CASE l # via[c]
      BY <2>1, <2>8, <3>1, <1>b
    <3>2. CASE l = via[c]
      BY <2>1, <2>4, <2>5, <2>8, <3>2, <1>b
    <3> QED BY <3>1, <3>2
  <2>9. ASSUME NEW l \in Listeners, NEW d \in Clients, d = accepted'[l]
        PROVE  via'[d] = l /\ thread'[d] = "none" /\ ~InBacklog(d)'
    BY <2>1, <2>6, <2>9, <1>c
  <2>10. ASSUME NEW d \in Clients, InBacklog(d)' PROVE thread[d] = "none"
    BY <2>1, <2>6, <2>10, <1>d
  <2>11. \A d \in Clients : InBacklog(d)' => thread'[d] = "none"
    BY <2>1, <2>10
  <2> QED BY <2>7, <2>8, <2>9, <2>11 DEF OnePlaceInv, InBacklog
<1>8. CASE on_sigterm \/ LeaveLoop \/ StopPool \/ WakeSpuriously \/ Return
  BY <1>1, <1>8 DEF on_sigterm, LeaveLoop, StopPool, WakeSpuriously, Return
<1>9. CASE ClearServers
  <2>1. /\ \A l \in Listeners : backlog'[l] = <<>>
        /\ UNCHANGED <<accepted, via, thread>>
    BY <1>9 DEF ClearServers
  <2>2. \A c \in Clients : ~InBacklog(c)'
    BY <2>1 DEF InBacklog
  <2> QED BY <2>1, <2>2, <1>c DEF OnePlaceInv
<1>10. CASE Flush \/ JoinPool
  BY <1>1, <1>10 DEF Flush, JoinPool, Released, In
<1>11. CASE UNCHANGED vars
  BY <1>1, <1>11 DEF vars
<1> QED
  BY <1>2, <1>3, <1>4, <1>6, <1>7, <1>8, <1>9, <1>10, <1>11 DEF Next

-----------------------------------------------------------------------------

\* The inductive invariant holds initially.
LEMMA InitIInv == Init => IInv
<1> SUFFICES ASSUME Init PROVE IInv
  OBVIOUS
<1>1. Live = {} /\ In("running") = {} /\ In("queued") = {}
  BY DEF Init, Live, In
<1>2. WithinLimits
  BY <1>1, FS_EmptySet, LimitsAssumption DEF WithinLimits
<1>3. TypeOK
  <2>1. backlog \in [Listeners -> Seq(Clients)]
    BY EmptySeq DEF Init
  <2> QED BY <1>2, <2>1 DEF Init, TypeOK, ThreadStates
<1>4. OnePlaceInv
  BY ClientsAssumption DEF Init, OnePlaceInv, InBacklog
<1> QED
  BY <1>1, <1>3, <1>4
  DEF Init, IInv, PhaseInv, OnlyStragglersMisuse, NobodyWaitsForDeadPool

\* Every step preserves the inductive invariant.
LEMMA StepIInv == IInv /\ [Next]_vars => IInv'
  BY TypeStep, PhaseStep, OnePlaceStep, MisuseStep, DeadPoolStep DEF IInv

\* The inductive invariant holds in every reachable state.
THEOREM ServiceInvariant == Spec => []IInv
  BY InitIInv, StepIInv, PTL DEF Spec

\* Types are respected, and never more threads and workers in use than there are.
THEOREM ServiceTypeCorrect == Spec => []TypeOK
<1>1. IInv => TypeOK
  BY DEF IInv
<1> QED BY <1>1, ServiceInvariant, PTL

\* A connection is in one place: its thread is started once, for a connection
\* that its own listener accepted.
THEOREM ServiceOnePlace == Spec => []OnePlaceInv
<1>1. IInv => OnePlaceInv
  BY DEF IInv
<1> QED BY <1>1, ServiceInvariant, PTL

\* Whatever the number of threads and whenever SIGTERM comes, what was destroyed
\* is touched by threads of connections that outlive it only, and never by main.
THEOREM ServiceOnlyStragglersMisuse == Spec => []OnlyStragglersMisuse
<1>1. IInv => OnlyStragglersMisuse
  BY DEF IInv
<1> QED BY <1>1, ServiceInvariant, PTL

\* No thread waits for a pool that is gone.
THEOREM ServiceNobodyWaitsForDeadPool == Spec => []NobodyWaitsForDeadPool
<1>1. IInv => NobodyWaitsForDeadPool
  BY DEF IInv
<1> QED BY <1>1, ServiceInvariant, PTL
=============================================================================

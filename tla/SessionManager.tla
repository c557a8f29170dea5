--------------------------- MODULE SessionManager ---------------------------
(***************************************************************************)
(* session_manager (src/onnx/session_manager.cpp), the tasks that call it  *)
(* (src/task/*.cpp) and the life of the session objects (src/onnx/         *)
(* session.cpp), as seen by the detached threads that serve requests.      *)
(* Each request is one task run by one thread; a session is named after    *)
(* the request that created it, so names are never reused.                 *)
(*                                                                         *)
(* A step is what happens between two points where another thread can      *)
(* interfere: get_session and remove_session are one step each (they hold  *)
(* the mutex throughout), create_session is several (it holds the mutex    *)
(* while it loads the model), and the accesses made without the mutex (the *)
(* increment in touch, the copy of the map in list_session) are split.     *)
(***************************************************************************)
EXTENDS Naturals, FiniteSets

CONSTANTS Requests,  \* one per request served
          Keys,      \* well-formed (model, version) pairs
          BadKeys,   \* pairs session_key rejects, an empty name among them
          Nil        \* nullptr, and "nobody"

ASSUME RequestsFinite == IsFiniteSet(Requests)
ASSUME NilIsNew == Nil \notin Requests \cup Keys \cup BadKeys
ASSUME KeysAreGoodOrBad == Keys \cap BadKeys = {}

VARIABLES
  ask,       \* the task of each request: <<operation, key>>
  answer,    \* what the request will be answered, once that is decided
  pc,        \* the thread of each request
  sessions,  \* std::map sessions: the session under each key, or Nil
  mutex,     \* holder of the recursive mutex, or Nil
  local,     \* the session_ptr a thread holds
  built,     \* sessions whose construction succeeded
  freed,     \* sessions whose last session_ptr is gone
  count,     \* execution_count of each session
  seen,      \* the value of execution_count a thread is incrementing
  touches,   \* (history) finished calls of touch() on each session
  copy,      \* the sessions in the map list_session copied
  window,    \* (history) the registered sets a list_session has overlapped
  up         \* the process has not crashed

mapVars == <<sessions, mutex, window>>
objVars == <<built, count, seen, touches>>
refVars == <<local, copy, freed>>
vars == <<ask, answer, pc, mapVars, objVars, refVars, up>>

Ops == {"create", "get", "execute", "destroy"}
Asks == (Ops \X (Keys \cup BadKeys)) \cup {<<"list", Nil>>}
Answers == {"none", "found", "ok", "bad_request", "not_found", "conflict", "error"}
PC == {"start", "run", "check", "load", "emplace", "json", "touch", "count",
       "context", "execute", "copy", "listjson", "done"}

op(r) == ask[r][1]
key(r) == ask[r][2]

Registered == {sessions[k] : k \in Keys} \ {Nil}
Referenced(o) == \/ o \in Registered
                 \/ \E r \in Requests : local[r] = o \/ o \in copy[r]

Init == /\ ask = [r \in Requests |-> Nil]
        /\ answer = [r \in Requests |-> "none"]
        /\ pc = [r \in Requests |-> "start"]
        /\ sessions = [k \in Keys |-> Nil]
        /\ mutex = Nil
        /\ local = [r \in Requests |-> Nil]
        /\ built = {} /\ freed = {}
        /\ count = [o \in Requests |-> 0]
        /\ seen = [r \in Requests |-> 0]
        /\ touches = [o \in Requests |-> 0]
        /\ copy = [r \in Requests |-> {}]
        /\ window = [r \in Requests |-> {}]
        /\ up = TRUE

Goto(r, l) == pc' = [pc EXCEPT ![r] = l]
Answer(r, a) == answer' = [answer EXCEPT ![r] = a]

\* The mutex is recursive: its holder may take it again.
CanLock(r) == mutex \in {Nil, r}

\* A change of the map is seen by every copy that is being made of it.
ObserveMap == window' = [q \in Requests |->
                IF pc[q] = "copy" THEN window[q] \cup {Registered'} ELSE window[q]]

\* The thread's session_ptrs go out of scope; a session nobody else refers to
\* is destroyed.
DropRefs(r) ==
  /\ local' = [local EXCEPT ![r] = Nil]
  /\ copy' = [copy EXCEPT ![r] = {}]
  /\ freed' = freed \cup {o \in ({local[r]} \cup copy[r]) \ {Nil} :
                            /\ o \notin Registered
                            /\ \A q \in Requests \ {r} : local[q] # o /\ o \notin copy[q]}

-----------------------------------------------------------------------------
(* A request arrives: the constructor of its task. *)

\* The request names an operation, a model and a version.
Begin(r, a) ==
  /\ pc[r] = "start"
  /\ ask' = [ask EXCEPT ![r] = a]
  /\ Goto(r, "run")
  /\ UNCHANGED <<answer, mapVars, objVars, refVars>>

\* Fields are missing or have the wrong type: bad_request_error.
Malformed(r) ==
  /\ pc[r] = "start"
  /\ Answer(r, "bad_request")
  /\ Goto(r, "done")
  /\ UNCHANGED <<ask, mapVars, objVars, refVars>>

\* session_key rejects the name before the manager takes its mutex.
InvalidKey(r) ==
  /\ pc[r] = "run"
  /\ key(r) \in BadKeys
  /\ Answer(r, "error")
  /\ Goto(r, "done")
  /\ UNCHANGED <<ask, mapVars, objVars, refVars>>

-----------------------------------------------------------------------------
(* create_session *)

CreateLock(r) ==
  /\ pc[r] = "run" /\ op(r) = "create" /\ key(r) \in Keys
  /\ CanLock(r)
  /\ mutex' = r
  /\ Goto(r, "check")
  /\ UNCHANGED <<ask, answer, sessions, window, objVars, refVars>>

\* Mutation: the inner get_session takes a mutex that is not recursive.
CreateCheckSelfLock(r) ==
  /\ pc[r] = "check" /\ mutex = Nil
  /\ Goto(r, "load")
  /\ UNCHANGED <<ask, answer, mapVars, objVars, refVars>>

\* Mutation: the mutex guards the check only, not the load and the emplace.
CreateCheckUnlocks(r) ==
  /\ pc[r] = "check" /\ CanLock(r)
  /\ \/ /\ sessions[key(r)] # Nil
        /\ Answer(r, "conflict")
        /\ Goto(r, "done")
     \/ /\ sessions[key(r)] = Nil
        /\ Goto(r, "load")
        /\ UNCHANGED answer
  /\ mutex' = Nil
  /\ UNCHANGED <<ask, sessions, window, objVars, refVars>>

\* get_session under the mutex already held; conflict_error if there is one.
CreateCheck(r) ==
  /\ pc[r] = "check" /\ CanLock(r)
  /\ \/ /\ sessions[key(r)] # Nil
        /\ Answer(r, "conflict")
        /\ mutex' = Nil
        /\ Goto(r, "done")
     \/ /\ sessions[key(r)] = Nil
        /\ Goto(r, "load")
        /\ UNCHANGED <<answer, mutex>>
  /\ UNCHANGED <<ask, sessions, window, objVars, refVars>>

\* The session is constructed from the uploaded bytes, from option.path or from
\* what model_bin_getter reads; any of these, the options or the shape
\* overrides may throw, and then nothing was registered.
CreateLoad(r) ==
  /\ pc[r] = "load"
  /\ \/ /\ built' = built \cup {r}
        /\ local' = [local EXCEPT ![r] = r]
        /\ Goto(r, "emplace")
        /\ UNCHANGED <<answer, mutex>>
     \/ /\ Answer(r, "error")
        /\ mutex' = Nil
        /\ Goto(r, "done")
        /\ UNCHANGED <<built, local>>
  /\ UNCHANGED <<ask, sessions, window, count, seen, touches, copy, freed>>

\* std::map::emplace inserts only if the key is absent.
CreateEmplace(r) ==
  /\ pc[r] = "emplace"
  /\ sessions' = [sessions EXCEPT ![key(r)] = IF @ = Nil THEN r ELSE @]
  /\ ObserveMap
  /\ mutex' = Nil
  /\ Answer(r, "ok")
  /\ Goto(r, "json")
  /\ UNCHANGED <<ask, objVars, refVars>>

-----------------------------------------------------------------------------
(* get_session, as task get_session and task execute_session use it *)

\* Mutation: the key comparison ignores the version.
LookupAnyVersion(r) ==
  /\ pc[r] = "run" /\ op(r) \in {"get", "execute"} /\ key(r) \in Keys
  /\ CanLock(r)
  /\ \E o \in Registered : local' = [local EXCEPT ![r] = o]
  /\ Answer(r, "found")
  /\ Goto(r, IF op(r) = "get" THEN "json" ELSE "touch")
  /\ UNCHANGED <<ask, mapVars, objVars, copy, freed>>

\* Null is not_found_error; otherwise the thread now shares the session.
Lookup(r) ==
  /\ pc[r] = "run" /\ op(r) \in {"get", "execute"} /\ key(r) \in Keys
  /\ CanLock(r)
  /\ \/ /\ sessions[key(r)] = Nil
        /\ Answer(r, "not_found")
        /\ Goto(r, "done")
        /\ UNCHANGED local
     \/ /\ sessions[key(r)] # Nil
        /\ local' = [local EXCEPT ![r] = sessions[key(r)]]
        /\ Answer(r, "found")
        /\ Goto(r, IF op(r) = "get" THEN "json" ELSE "touch")
  /\ UNCHANGED <<ask, mapVars, objVars, copy, freed>>

\* session::to_json, and the end of a create or get.
Json(r) ==
  /\ pc[r] = "json"
  /\ Answer(r, "ok")
  /\ DropRefs(r)
  /\ Goto(r, "done")
  /\ UNCHANGED <<ask, mapVars, objVars>>

-----------------------------------------------------------------------------
(* execute_session *)

\* execution_count++ on a plain long: the load ...
TouchRead(r) ==
  /\ pc[r] = "touch"
  /\ seen' = [seen EXCEPT ![r] = count[local[r]]]
  /\ Goto(r, "count")
  /\ UNCHANGED <<ask, answer, mapVars, built, count, touches, refVars>>

\* Mutation: execution_count = execution_count++.
TouchWriteStale(r) ==
  /\ pc[r] = "count"
  /\ count' = [count EXCEPT ![local[r]] = seen[r]]
  /\ touches' = [touches EXCEPT ![local[r]] = @ + 1]
  /\ Goto(r, "context")
  /\ UNCHANGED <<ask, answer, mapVars, built, seen, refVars>>

\* ... and the store.
TouchWrite(r) ==
  /\ pc[r] = "count"
  /\ count' = [count EXCEPT ![local[r]] = seen[r] + 1]
  /\ touches' = [touches EXCEPT ![local[r]] = @ + 1]
  /\ Goto(r, "context")
  /\ UNCHANGED <<ask, answer, mapVars, built, seen, refVars>>

\* The execution context is built from the request's data, or rejects it.
BuildContext(r) ==
  /\ pc[r] = "context"
  /\ \/ /\ Goto(r, "execute")
        /\ UNCHANGED <<answer, refVars>>
     \/ /\ \E a \in {"bad_request", "error"} : Answer(r, a)
        /\ DropRefs(r)
        /\ Goto(r, "done")
  /\ UNCHANGED <<ask, mapVars, objVars>>

\* The context runs in the thread pool while this thread waits for it; the
\* run, the pool or the conversion of the outputs may throw.
ExecuteRun(r) ==
  /\ pc[r] = "execute"
  /\ \E a \in {"ok", "error"} : Answer(r, a)
  /\ DropRefs(r)
  /\ Goto(r, "done")
  /\ UNCHANGED <<ask, mapVars, objVars>>

-----------------------------------------------------------------------------
(* remove_session *)

\* Mutation: the map owns the sessions alone, erase destroys them.
RemoveDestroys(r) ==
  /\ pc[r] = "run" /\ op(r) = "destroy" /\ key(r) \in Keys
  /\ CanLock(r)
  /\ \/ /\ sessions[key(r)] = Nil
        /\ Answer(r, "not_found")
        /\ UNCHANGED <<sessions, window, freed>>
     \/ /\ sessions[key(r)] # Nil
        /\ sessions' = [sessions EXCEPT ![key(r)] = Nil]
        /\ ObserveMap
        /\ freed' = freed \cup {sessions[key(r)]}
        /\ Answer(r, "ok")
  /\ Goto(r, "done")
  /\ UNCHANGED <<ask, mutex, objVars, local, copy>>

\* Mutation: erase of a key that is not there is taken for success.
RemoveAlwaysOk(r) ==
  /\ pc[r] = "run" /\ op(r) = "destroy" /\ key(r) \in Keys
  /\ CanLock(r)
  /\ sessions' = [sessions EXCEPT ![key(r)] = Nil]
  /\ ObserveMap
  /\ freed' = freed \cup {o \in {sessions[key(r)]} \ {Nil} :
                            \A q \in Requests : local[q] # o /\ o \notin copy[q]}
  /\ Answer(r, "ok")
  /\ Goto(r, "done")
  /\ UNCHANGED <<ask, mutex, objVars, local, copy>>

Remove(r) ==
  /\ pc[r] = "run" /\ op(r) = "destroy" /\ key(r) \in Keys
  /\ CanLock(r)
  /\ \/ /\ sessions[key(r)] = Nil
        /\ Answer(r, "not_found")
        /\ UNCHANGED <<sessions, window, freed>>
     \/ /\ sessions[key(r)] # Nil
        /\ sessions' = [sessions EXCEPT ![key(r)] = Nil]
        /\ ObserveMap
        /\ freed' = freed \cup {o \in {sessions[key(r)]} :
                                  \A q \in Requests : local[q] # o /\ o \notin copy[q]}
        /\ Answer(r, "ok")
  /\ Goto(r, "done")
  /\ UNCHANGED <<ask, mutex, objVars, local, copy>>

-----------------------------------------------------------------------------
(* list_session: get_sessions() returns the map by reference, no lock *)

\* The copy of the map begins ...
ListBegin(r) ==
  /\ pc[r] = "run" /\ op(r) = "list"
  /\ window' = [window EXCEPT ![r] = {Registered}]
  /\ Goto(r, "copy")
  /\ UNCHANGED <<ask, answer, sessions, mutex, objVars, refVars>>

\* ... and ends.  A copy that overlapped a change of the map is a data race:
\* what it collects is any part of what the map held meanwhile.
ListEnd(r) ==
  /\ pc[r] = "copy"
  /\ \E c \in SUBSET ((UNION window[r]) \ freed) :
       /\ Cardinality(window[r]) = 1 => c \in window[r]
       /\ copy' = [copy EXCEPT ![r] = c]
  /\ Goto(r, "listjson")
  /\ UNCHANGED <<ask, answer, mapVars, objVars, local, freed>>

\* Or it follows a node that was just freed and the process dies.
ListCrash(r) ==
  /\ pc[r] = "copy"
  /\ Cardinality(window[r]) > 1
  /\ up' = FALSE
  /\ UNCHANGED <<ask, answer, pc, mapVars, objVars, refVars>>

ListJson(r) ==
  /\ pc[r] = "listjson"
  /\ Answer(r, "ok")
  /\ DropRefs(r)
  /\ Goto(r, "done")
  /\ UNCHANGED <<ask, mapVars, objVars>>

-----------------------------------------------------------------------------
\* The steps of a thread that serves a request.
Progress(r) ==
  \/ InvalidKey(r)
  \/ CreateLock(r) \/ CreateCheck(r) \/ CreateLoad(r) \/ CreateEmplace(r)
  \/ Lookup(r) \/ Json(r)
  \/ TouchRead(r) \/ TouchWrite(r) \/ BuildContext(r) \/ ExecuteRun(r)
  \/ Remove(r)
  \/ ListBegin(r) \/ ListEnd(r) \/ ListJson(r)

Arrive(r) == Malformed(r) \/ \E a \in Asks : Begin(r, a)

Next == /\ up
        /\ \E r \in Requests : \/ (Arrive(r) \/ Progress(r)) /\ UNCHANGED up
                               \/ ListCrash(r)

Spec == Init /\ [][Next]_vars

\* A thread that can take a step takes one: loading a model and running it
\* return, and the mutex is free again and again.
Fairness == \A r \in Requests : WF_vars(up /\ Progress(r) /\ UNCHANGED up)

FairSpec == Spec /\ Fairness

-----------------------------------------------------------------------------
(* Properties. *)

\* Types; and a thread has a session_ptr exactly between getting it and the end.
TypeOK ==
  /\ ask \in [Requests -> Asks \cup {Nil}]
  /\ answer \in [Requests -> Answers]
  /\ pc \in [Requests -> PC]
  /\ sessions \in [Keys -> Requests \cup {Nil}]
  /\ mutex \in Requests \cup {Nil}
  /\ local \in [Requests -> Requests \cup {Nil}]
  /\ built \in SUBSET Requests /\ freed \in SUBSET Requests
  /\ count \in [Requests -> Nat] /\ seen \in [Requests -> Nat]
  /\ touches \in [Requests -> Nat]
  /\ copy \in [Requests -> SUBSET Requests]
  /\ window \in [Requests -> SUBSET SUBSET Requests]
  /\ up \in BOOLEAN
  /\ \A r \in Requests : local[r] # Nil <=>
       pc[r] \in {"emplace", "json", "touch", "count", "context", "execute"}

\* The check of create_session is still true when it acts on it: from the check
\* to the emplace the thread owns the mutex and nobody registers its key, so
\* emplace never finds the key taken and never drops a session it reports.
CheckStillHolds ==
  \A r \in Requests :
    /\ pc[r] \in {"check", "load", "emplace"} => mutex = r
    /\ pc[r] \in {"load", "emplace"} => sessions[key(r)] = Nil

\* A session is registered under the key it was created for and under no other,
\* and a thread only ever works on a session of the key it was asked for.
RightSession ==
  /\ \A k \in Keys : sessions[k] # Nil =>
       ask[sessions[k]] = <<"create", k>> /\ answer[sessions[k]] = "ok"
  /\ \A r \in Requests : local[r] # Nil => key(local[r]) = key(r)

\* A session object lives exactly as long as the map or a thread refers to it:
\* destroying a session that is executing elsewhere does not pull it away, and
\* a session nobody can reach any more is released.
SessionLifetime == freed = {o \in built : ~Referenced(o)}

\* A registered session disappears only through a successful destroy of its
\* key, and is never replaced in place.
OnlyDestroyUnregisters ==
  [][\A k \in Keys : sessions[k] # Nil /\ sessions'[k] # sessions[k] =>
       /\ sessions'[k] = Nil
       /\ \E r \in Requests : /\ ask[r] = <<"destroy", k>>
                              /\ answer[r] = "none" /\ answer'[r] = "ok"]_vars

\* What the place of a thread says about its request.
RequestInv ==
  \A r \in Requests :
    /\ pc[r] = "start" => ask[r] = Nil
    /\ pc[r] \in {"start", "run", "check", "load", "emplace", "copy", "listjson"} =>
         answer[r] = "none"
    /\ pc[r] = "run" => ask[r] \in Asks
    /\ pc[r] \in {"check", "load", "emplace"} => \E k \in Keys : ask[r] = <<"create", k>>
    /\ pc[r] \in {"touch", "count", "context", "execute"} =>
         answer[r] = "found" /\ \E k \in Keys : ask[r] = <<"execute", k>>
    /\ pc[r] = "json" => \E k \in Keys :
         \/ ask[r] = <<"create", k>> /\ answer[r] = "ok"
         \/ ask[r] = <<"get", k>> /\ answer[r] = "found"
    /\ pc[r] \in {"copy", "listjson"} => ask[r] = <<"list", Nil>>

\* Sessions exist from the end of their construction on, and every pointer
\* points to one that exists.
BuiltInv ==
  /\ \A o \in built : pc[o] \in {"emplace", "json", "done"} /\ \E k \in Keys : ask[o] = <<"create", k>>
  /\ \A r \in Requests : /\ local[r] \in built \cup {Nil}
                         /\ copy[r] \subseteq built
                         /\ pc[r] # "listjson" => copy[r] = {}
                         /\ UNION window[r] \subseteq built
                         /\ pc[r] = "emplace" => local[r] = r
  /\ \A k \in Keys : sessions[k] # Nil => sessions[k] \in built /\ pc[sessions[k]] # "emplace"

\* The unsynchronised increment never overstates, and never loses everything.
CountWithinTouches ==
  \A o \in Requests : /\ count[o] <= touches[o]
                      /\ touches[o] > 0 => count[o] > 0

\* What a thread read before its store was within the bound as well.
SeenInv == \A r \in Requests : pc[r] = "count" => seen[r] <= touches[local[r]]

\* The inductive invariant of the proofs.
IInv == /\ TypeOK /\ RequestInv /\ BuiltInv /\ CheckStillHolds /\ RightSession
        /\ SessionLifetime /\ CountWithinTouches /\ SeenInv

Registry == INSTANCE SessionRegistry WITH registry <- sessions

\* The manager with its mutex is an atomic registry: two racing creates of a
\* key have one winner, the loser gets a conflict, and no answer contradicts
\* the order in which the map changed.
ImplementsRegistry == Registry!Spec

\* Every request that reached its task is answered, unless the process died in
\* the unsynchronised copy of the map.
EveryRequestAnswered ==
  \A r \in Requests : pc[r] = "run" ~> pc[r] = "done" \/ ~up

\* "List all sessions" (docs/swagger/openapi.yaml:17): a list holds exactly the
\* sessions that were registered at some moment of the call.
ListsAllSessions ==
  \A r \in Requests : pc[r] = "listjson" => copy[r] \in window[r]
=============================================================================

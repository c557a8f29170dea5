----------------------------- MODULE ThreadPool -----------------------------
(***************************************************************************)
(* builtin_thread_pool (src/thread_pool.hpp) as its one user drives it:    *)
(* threads of execute_session enqueue a packaged task and block on its     *)
(* future (src/task/execute_session.cpp:34), workers take tasks under      *)
(* queue_mutex, and the owner, ~session_manager, flushes the queue and     *)
(* then destroys the pool (src/onnx/session_manager.cpp:14-16).            *)
(*                                                                         *)
(* One step is one access that another thread can observe: taking or       *)
(* releasing the mutex, the read of the atomic stop flag, a notification.  *)
(* In particular the evaluation of the wait predicate and the atomic       *)
(* "release the mutex and sleep" that follows it are two steps.            *)
(***************************************************************************)
EXTENDS Naturals, Sequences, FiniteSets

CONSTANTS Workers,   \* the threads the constructor starts (num_threads)
          Tasks,     \* the calls of enqueue made in the pool's life
          NoTask     \* "this worker holds no task"

ASSUME WorkersFinite == IsFiniteSet(Workers)
ASSUME TasksFinite == IsFiniteSet(Tasks)
ASSUME NoTaskNotATask == NoTask \notin Tasks

VARIABLES
  tasks,    \* std::queue tasks, oldest first
  stop,     \* std::atomic_bool stop
  locked,   \* queue_mutex is held by the thread whose pc says so
  wpc,      \* worker threads
  wtask,    \* the local variable `task` of each worker
  epc,      \* threads that call enqueue(t) and then get() on its future
  future,   \* the shared state of each task's future
  opc       \* the owner: flush, then the destructor

vars == <<tasks, stop, locked, wpc, wtask, epc, future, opc>>

WorkerPC == {"lock",     \* about to take queue_mutex, at loop start or woken
             "pred",     \* holds it, about to evaluate the wait predicate
             "block",    \* holds it, predicate was false, about to sleep
             "waiting",  \* asleep in the condition variable
             "check",    \* holds it, predicate was true
             "run",      \* runs its task, mutex released
             "exited"}   \* thread function returned

EnqueuePC == {"idle", "push", "notify", "get", "returned", "threw"}
FutureState == {"none", "pending", "value", "exception", "broken"}
OwnerPC == {"alive", "flushed", "notify", "join", "destroyed"}

QueuedTasks == {tasks[i] : i \in 1..Len(tasks)}
Waiting == {w \in Workers : wpc[w] = "waiting"}

Init == /\ tasks = <<>>
        /\ stop = FALSE
        /\ locked = FALSE
        /\ wpc = [w \in Workers |-> "lock"]
        /\ wtask = [w \in Workers |-> NoTask]
        /\ epc = [t \in Tasks |-> "idle"]
        /\ future = [t \in Tasks |-> "none"]
        /\ opc = "alive"

-----------------------------------------------------------------------------
(* Worker threads. *)

\* Line 18, and the reacquisition inside condition.wait after a wake-up.
WorkerLock(w) ==
  /\ wpc[w] = "lock"
  /\ ~locked
  /\ locked' = TRUE
  /\ wpc' = [wpc EXCEPT ![w] = "pred"]
  /\ UNCHANGED <<tasks, stop, wtask, epc, future, opc>>

\* Mutation: the mutex is released before the wait begins, not by the wait.
WorkerPredUnlocked(w) ==
  /\ wpc[w] = "pred"
  /\ wpc' = [wpc EXCEPT ![w] = IF stop \/ tasks # <<>> THEN "check" ELSE "block"]
  /\ locked' = (stop \/ tasks # <<>>)
  /\ UNCHANGED <<tasks, stop, wtask, epc, future, opc>>

\* Line 19: the predicate, evaluated with the mutex held.
WorkerPred(w) ==
  /\ wpc[w] = "pred"
  /\ wpc' = [wpc EXCEPT ![w] = IF stop \/ tasks # <<>> THEN "check" ELSE "block"]
  /\ UNCHANGED <<tasks, stop, locked, wtask, epc, future, opc>>

\* Line 19: the wait itself releases the mutex and sleeps in one step.
WorkerBlock(w) ==
  /\ wpc[w] = "block"
  /\ locked' = FALSE
  /\ wpc' = [wpc EXCEPT ![w] = "waiting"]
  /\ UNCHANGED <<tasks, stop, wtask, epc, future, opc>>

\* A condition variable may wake a thread nobody notified.
SpuriousWakeup(w) ==
  /\ wpc[w] = "waiting"
  /\ wpc' = [wpc EXCEPT ![w] = "lock"]
  /\ UNCHANGED <<tasks, stop, locked, wtask, epc, future, opc>>

\* Lines 21-23: a stopped pool is left only when its queue is empty.
WorkerExit(w) ==
  /\ wpc[w] = "check"
  /\ stop /\ tasks = <<>>
  /\ locked' = FALSE
  /\ wpc' = [wpc EXCEPT ![w] = "exited"]
  /\ UNCHANGED <<tasks, stop, wtask, epc, future, opc>>

\* Mutation: front() without pop(), the task stays in the queue.
WorkerTakeNoPop(w) ==
  /\ wpc[w] = "check"
  /\ ~(stop /\ tasks = <<>>)
  /\ wtask' = [wtask EXCEPT ![w] = Head(tasks)]
  /\ locked' = FALSE
  /\ wpc' = [wpc EXCEPT ![w] = "run"]
  /\ UNCHANGED <<tasks, stop, epc, future, opc>>

\* Mutation: a stack, the youngest task is taken first.
WorkerTakeYoungest(w) ==
  /\ wpc[w] = "check"
  /\ ~(stop /\ tasks = <<>>)
  /\ wtask' = [wtask EXCEPT ![w] = tasks[Len(tasks)]]
  /\ tasks' = SubSeq(tasks, 1, Len(tasks) - 1)
  /\ locked' = FALSE
  /\ wpc' = [wpc EXCEPT ![w] = "run"]
  /\ UNCHANGED <<stop, epc, future, opc>>

\* Lines 25-27.
WorkerTake(w) ==
  /\ wpc[w] = "check"
  /\ ~(stop /\ tasks = <<>>)
  /\ wtask' = [wtask EXCEPT ![w] = Head(tasks)]
  /\ tasks' = Tail(tasks)
  /\ locked' = FALSE
  /\ wpc' = [wpc EXCEPT ![w] = "run"]
  /\ UNCHANGED <<stop, epc, future, opc>>

\* Line 29: a packaged_task stores the value or the exception of its function.
WorkerRun(w) ==
  /\ wpc[w] = "run"
  /\ \E r \in {"value", "exception"} : future' = [future EXCEPT ![wtask[w]] = r]
  /\ wtask' = [wtask EXCEPT ![w] = NoTask]
  /\ wpc' = [wpc EXCEPT ![w] = "lock"]
  /\ UNCHANGED <<tasks, stop, locked, epc, opc>>

WorkerStep(w) == \/ WorkerLock(w) \/ WorkerPred(w) \/ WorkerBlock(w)
                 \/ WorkerExit(w) \/ WorkerTake(w) \/ WorkerRun(w)

-----------------------------------------------------------------------------
(* enqueue and the future it returns. *)

\* Lines 54-57: the mutex is taken and stop is read under it.  A call made on a
\* destroyed pool is outside the object's life and is not a step of the pool.
EnqueueLock(t) ==
  /\ epc[t] = "idle"
  /\ opc # "destroyed"
  /\ ~locked
  /\ locked' = ~stop
  /\ epc' = [epc EXCEPT ![t] = IF stop THEN "threw" ELSE "push"]
  /\ UNCHANGED <<tasks, stop, wpc, wtask, future, opc>>

\* Lines 59-60.
EnqueuePush(t) ==
  /\ epc[t] = "push"
  /\ tasks' = Append(tasks, t)
  /\ future' = [future EXCEPT ![t] = "pending"]
  /\ locked' = FALSE
  /\ epc' = [epc EXCEPT ![t] = "notify"]
  /\ UNCHANGED <<stop, wpc, wtask, opc>>

\* Mutation: no notify_one after the push.
EnqueueNotNotified(t) ==
  /\ epc[t] = "notify"
  /\ epc' = [epc EXCEPT ![t] = "get"]
  /\ UNCHANGED <<tasks, stop, locked, wpc, wtask, future, opc>>

\* Line 61: notify_one wakes one waiting worker, or none if none waits.
EnqueueNotify(t) ==
  /\ epc[t] = "notify"
  /\ \/ Waiting = {} /\ UNCHANGED wpc
     \/ \E w \in Waiting : wpc' = [wpc EXCEPT ![w] = "lock"]
  /\ epc' = [epc EXCEPT ![t] = "get"]
  /\ UNCHANGED <<tasks, stop, locked, wtask, future, opc>>

\* The caller blocks in get() until the future is ready.
EnqueueGet(t) ==
  /\ epc[t] = "get"
  /\ future[t] # "pending"
  /\ epc' = [epc EXCEPT ![t] = "returned"]
  /\ UNCHANGED <<tasks, stop, locked, wpc, wtask, future, opc>>

-----------------------------------------------------------------------------
(* The owner: ~session_manager calls flush(), then the pool's destructor. *)

\* The promises of the tasks that are destroyed unrun are broken.
BreakQueued == [t \in Tasks |-> IF t \in QueuedTasks THEN "broken" ELSE future[t]]

\* Lines 65-68, called at session_manager.cpp:15.
Flush ==
  /\ opc = "alive"
  /\ ~locked
  /\ tasks' = <<>>
  /\ future' = BreakQueued
  /\ opc' = "flushed"
  /\ UNCHANGED <<stop, locked, wpc, wtask, epc>>

\* Line 36: stop is set without taking queue_mutex.
StopPool ==
  /\ opc = "flushed"
  /\ stop' = TRUE
  /\ opc' = "notify"
  /\ UNCHANGED <<tasks, locked, wpc, wtask, epc, future>>

\* Line 37.
NotifyAll ==
  /\ opc = "notify"
  /\ wpc' = [w \in Workers |-> IF wpc[w] = "waiting" THEN "lock" ELSE wpc[w]]
  /\ opc' = "join"
  /\ UNCHANGED <<tasks, stop, locked, wtask, epc, future>>

\* Lines 39-41, then the members are destroyed, the queue among them.
Join ==
  /\ opc = "join"
  /\ \A w \in Workers : wpc[w] = "exited"
  /\ tasks' = <<>>
  /\ future' = BreakQueued
  /\ opc' = "destroyed"
  /\ UNCHANGED <<stop, locked, wpc, wtask, epc>>

-----------------------------------------------------------------------------
Next == \/ \E w \in Workers : WorkerStep(w) \/ SpuriousWakeup(w)
        \/ \E t \in Tasks : \/ EnqueueLock(t) \/ EnqueuePush(t)
                            \/ EnqueueNotify(t) \/ EnqueueGet(t)
        \/ Flush \/ StopPool \/ NotifyAll \/ Join

Spec == Init /\ [][Next]_vars

(***************************************************************************)
(* Threads that can run do run; a task's function returns; a call of       *)
(* enqueue that holds the mutex finishes.  Nothing obliges a caller to     *)
(* call, the owner to begin, or a spurious wake-up to happen, but a        *)
(* destructor that began keeps going.                                      *)
(***************************************************************************)
Fairness == /\ \A w \in Workers : WF_vars(WorkerStep(w))
            /\ \A t \in Tasks :
                 WF_vars(EnqueuePush(t) \/ EnqueueNotify(t) \/ EnqueueGet(t))
            /\ WF_vars(StopPool \/ NotifyAll \/ Join)

FairSpec == Spec /\ Fairness

-----------------------------------------------------------------------------
(* Properties. *)

\* Every variable has its type, and a worker holds a task exactly while it runs
\* it: the std::function of one iteration never survives into the next.
TypeOK ==
  /\ tasks \in Seq(Tasks)
  /\ stop \in BOOLEAN
  /\ locked \in BOOLEAN
  /\ wpc \in [Workers -> WorkerPC]
  /\ wtask \in [Workers -> Tasks \cup {NoTask}]
  /\ epc \in [Tasks -> EnqueuePC]
  /\ future \in [Tasks -> FutureState]
  /\ opc \in OwnerPC
  /\ \A w \in Workers : wtask[w] # NoTask <=> wpc[w] = "run"

WorkerHolds(w) == wpc[w] \in {"pred", "block", "check"}
EnqueueHolds(t) == epc[t] = "push"

\* queue_mutex protects the queue: at most one thread, worker or caller, is
\* between its lock and its unlock, across every way a worker can leave the
\* critical section (sleep, exit, take) and every way it can come back to it.
MutualExclusion ==
  /\ \A w \in Workers : WorkerHolds(w) => locked
  /\ \A t \in Tasks : EnqueueHolds(t) => locked
  /\ \A v, w \in Workers : WorkerHolds(v) /\ WorkerHolds(w) => v = w
  /\ \A s, t \in Tasks : EnqueueHolds(s) /\ EnqueueHolds(t) => s = t
  /\ \A w \in Workers, t \in Tasks : ~(WorkerHolds(w) /\ EnqueueHolds(t))

\* A future is pending exactly while somebody still has its task: the queue
\* (once) or one worker (and no other), never both.  So a caller blocked in
\* get() at execute_session.cpp:34 always waits for something that exists, and
\* no task is run twice or abandoned without its promise being broken.
TaskAccounting ==
  /\ \A i, j \in 1..Len(tasks) : tasks[i] = tasks[j] => i = j
  /\ \A v, w \in Workers : wtask[v] = wtask[w] /\ wtask[v] # NoTask => v = w
  /\ \A v \in Workers : wtask[v] \notin QueuedTasks
  /\ \A t \in Tasks :
       future[t] = "pending" <=> \/ t \in QueuedTasks
                                 \/ \E w \in Workers : wtask[w] = t

\* front() and pop() are never called on an empty queue (undefined behaviour):
\* what the predicate saw still holds when the worker acts on it.
NoPopFromEmpty == \A w \in Workers : wpc[w] = "check" => stop \/ tasks # <<>>

\* The other half of what a holder has seen: a worker about to sleep found the
\* queue empty and it still is.
BlocksOnlyIfEmpty == \A w \in Workers : wpc[w] = "block" => tasks = <<>>

AwakeIdle == {w \in Workers : wpc[w] \in {"lock", "pred", "check"}}
Notifiers == {t \in Tasks : epc[t] = "notify"}

\* No wake-up of enqueue is lost: while a worker sleeps, every queued task has
\* a worker that is awake and free, or a caller about to notify one.
WorkConserving ==
  Waiting # {} => Len(tasks) <= Cardinality(AwakeIdle) + Cardinality(Notifiers)

\* Once a worker has left, the pool is closed for good and nothing is queued:
\* no task is accepted that no worker would ever run.
NoTaskLeftBehind ==
  (\E w \in Workers : wpc[w] = "exited") =>
    /\ stop
    /\ tasks = <<>>
    /\ \A t \in Tasks : epc[t] # "push"

\* A future comes into being with the push of its task.
FutureIffPushed ==
  \A t \in Tasks : future[t] = "none" <=> epc[t] \in {"idle", "push", "threw"}

\* The inductive invariant of the proofs.
IInv == /\ TypeOK /\ MutualExclusion /\ NoPopFromEmpty /\ BlocksOnlyIfEmpty
        /\ FutureIffPushed /\ TaskAccounting /\ NoTaskLeftBehind
        /\ WorkConserving

Running(t) == \E w \in Workers : wtask[w] = t

\* Where a task is in its life, read off its future, its caller and the workers.
StatusOf(f, threw, running) ==
  IF f = "none" THEN IF threw THEN "rejected" ELSE "new"
  ELSE IF f = "pending" THEN IF running THEN "running" ELSE "queued"
  ELSE IF f = "broken" THEN "dropped" ELSE "done"

TaskStatus == [t \in Tasks |-> StatusOf(future[t], epc[t] = "threw", Running(t))]

Contract == INSTANCE PoolContract WITH
              queue <- tasks, closed <- stop, status <- TaskStatus

\* The pool with its threads, mutex and condition variable behaves as the FIFO
\* contract says: run in order, at most once, run or dropped but never both.
ImplementsContract == Contract!Spec

\* Every task enqueue accepted is eventually resolved, so the thread that waits
\* in get() is eventually released, whatever the workers and the owner do.
EveryFutureResolves ==
  \A t \in Tasks : future[t] = "pending" ~> future[t] # "pending"

\* The destructor returns: main.cpp:70-74 cleans up and logs "Terminated".
DestructorReturns == opc = "join" ~> opc = "destroyed"
=============================================================================

---------------------------- MODULE PoolContract ----------------------------
(***************************************************************************)
(* What builtin_thread_pool (src/thread_pool.hpp) promises its callers,    *)
(* without threads, mutex or condition variable: a submitted task waits in *)
(* a FIFO queue, is started at most once and only from the head, finishes  *)
(* after it was started, and is either run or dropped, never both.  A      *)
(* submission is refused only by a pool that is closed.                    *)
(***************************************************************************)
EXTENDS Naturals, Sequences

CONSTANT Tasks

VARIABLES queue,    \* the tasks waiting, oldest first
          status,   \* where each task is in its life
          closed    \* the owner has begun to destroy the pool

cvars == <<queue, status, closed>>

Status == {"new", "queued", "running", "done", "dropped", "rejected"}

Init == /\ queue = <<>>
        /\ status = [t \in Tasks |-> "new"]
        /\ closed = FALSE

Submit(t) == /\ status[t] = "new"
             /\ queue' = Append(queue, t)
             /\ status' = [status EXCEPT ![t] = "queued"]
             /\ UNCHANGED closed

Reject(t) == /\ closed
             /\ status[t] = "new"
             /\ status' = [status EXCEPT ![t] = "rejected"]
             /\ UNCHANGED <<queue, closed>>

Start == /\ queue # <<>>
         /\ status[Head(queue)] = "queued"
         /\ queue' = Tail(queue)
         /\ status' = [status EXCEPT ![Head(queue)] = "running"]
         /\ UNCHANGED closed

Finish(t) == /\ status[t] = "running"
             /\ status' = [status EXCEPT ![t] = "done"]
             /\ UNCHANGED <<queue, closed>>

\* Everything that waits is dropped, nothing that runs is.
DropAll == /\ queue' = <<>>
           /\ status' = [t \in Tasks |->
                           IF status[t] = "queued" THEN "dropped" ELSE status[t]]
           /\ UNCHANGED closed

Close == /\ closed' = TRUE
         /\ UNCHANGED <<queue, status>>

Next == \/ \E t \in Tasks : Submit(t) \/ Reject(t) \/ Finish(t)
        \/ Start
        \/ DropAll
        \/ Close

Spec == Init /\ [][Next]_cvars
=============================================================================

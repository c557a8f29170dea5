-------------------------- MODULE ThreadPoolProofs --------------------------
(***************************************************************************)
(* The invariants of ThreadPool for any finite sets of workers and tasks.  *)
(* They are proved in layers, one lemma per conjunct of the inductive      *)
(* invariant IInv and in each one step per action: types and what the      *)
(* holder of the mutex has seen, mutual exclusion, task accounting, and    *)
(* the two properties about the end of a worker and about wake-ups.        *)
(***************************************************************************)
EXTENDS ThreadPool, FiniteSetTheorems, TLAPS

-----------------------------------------------------------------------------
(* Types, mutual exclusion and the wait predicate. *)

\* Every step preserves the types; popping relies on NoPopFromEmpty.
LEMMA TypeStep ==
  ASSUME TypeOK, NoPopFromEmpty, [Next]_vars PROVE TypeOK'
<1> USE NoTaskNotATask DEF TypeOK, WorkerPC, EnqueuePC, FutureState, OwnerPC
<1>1. ASSUME NEW w \in Workers, WorkerLock(w) PROVE TypeOK'
  BY <1>1 DEF WorkerLock
<1>2. ASSUME NEW w \in Workers, WorkerPred(w) PROVE TypeOK'
  BY <1>2 DEF WorkerPred
<1>3. ASSUME NEW w \in Workers, WorkerBlock(w) PROVE TypeOK'
  BY <1>3 DEF WorkerBlock
<1>4. ASSUME NEW w \in Workers, WorkerExit(w) PROVE TypeOK'
  BY <1>4 DEF WorkerExit
<1>5. ASSUME NEW w \in Workers, WorkerTake(w) PROVE TypeOK'
  <2>1. tasks # <<>> BY <1>5 DEF WorkerTake, NoPopFromEmpty
  <2>2. Head(tasks) \in Tasks /\ Tail(tasks) \in Seq(Tasks) BY <2>1
  <2> QED BY <1>5, <2>2 DEF WorkerTake
<1>6. ASSUME NEW w \in Workers, WorkerRun(w) PROVE TypeOK'
  <2>1. PICK r \in {"value", "exception"} : future' = [future EXCEPT ![wtask[w]] = r]
    BY <1>6 DEF WorkerRun
  <2>2. future' \in [Tasks -> FutureState] BY <2>1
  <2> QED BY <1>6, <2>2 DEF WorkerRun
<1>7. ASSUME NEW w \in Workers, SpuriousWakeup(w) PROVE TypeOK'
  BY <1>7 DEF SpuriousWakeup
<1>8. ASSUME NEW t \in Tasks, EnqueueLock(t) PROVE TypeOK'
  BY <1>8 DEF EnqueueLock
<1>9. ASSUME NEW t \in Tasks, EnqueuePush(t) PROVE TypeOK'
  <2>1. Append(tasks, t) \in Seq(Tasks) OBVIOUS
  <2>2. /\ future' \in [Tasks -> FutureState]
        /\ epc' \in [Tasks -> EnqueuePC]
    BY <1>9 DEF EnqueuePush
  <2> QED BY <1>9, <2>1, <2>2 DEF EnqueuePush
<1>10. ASSUME NEW t \in Tasks, EnqueueNotify(t) PROVE TypeOK'
  BY <1>10 DEF EnqueueNotify, Waiting
<1>11. ASSUME NEW t \in Tasks, EnqueueGet(t) PROVE TypeOK'
  BY <1>11 DEF EnqueueGet
<1>12. CASE Flush
  BY <1>12 DEF Flush, BreakQueued, QueuedTasks
<1>13. CASE StopPool
  BY <1>13 DEF StopPool
<1>14. CASE NotifyAll
  BY <1>14 DEF NotifyAll
<1>15. CASE Join
  BY <1>15 DEF Join, BreakQueued, QueuedTasks
<1>16. CASE UNCHANGED vars
  BY <1>16 DEF vars
<1> QED
  BY <1>1, <1>2, <1>3, <1>4, <1>5, <1>6, <1>7, <1>8, <1>9, <1>10, <1>11, <1>12, <1>13, <1>14, <1>15, <1>16 DEF Next, WorkerStep

\* The mutex is released by its holder only and taken only when it is free.
LEMMA MutexStep ==
  ASSUME TypeOK, MutualExclusion, [Next]_vars PROVE MutualExclusion'
<1> USE DEF TypeOK, MutualExclusion, WorkerHolds, EnqueueHolds, WorkerPC, EnqueuePC
<1>1. ASSUME NEW w \in Workers, WorkerLock(w) PROVE MutualExclusion'
  BY <1>1 DEF WorkerLock
<1>2. ASSUME NEW w \in Workers, WorkerPred(w) PROVE MutualExclusion'
  BY <1>2 DEF WorkerPred
<1>3. ASSUME NEW w \in Workers, WorkerBlock(w) PROVE MutualExclusion'
  BY <1>3 DEF WorkerBlock
<1>4. ASSUME NEW w \in Workers, WorkerExit(w) PROVE MutualExclusion'
  BY <1>4 DEF WorkerExit
<1>5. ASSUME NEW w \in Workers, WorkerTake(w) PROVE MutualExclusion'
  BY <1>5 DEF WorkerTake
<1>6. ASSUME NEW w \in Workers, WorkerRun(w) PROVE MutualExclusion'
  BY <1>6 DEF WorkerRun
<1>7. ASSUME NEW w \in Workers, SpuriousWakeup(w) PROVE MutualExclusion'
  BY <1>7 DEF SpuriousWakeup
<1>8. ASSUME NEW t \in Tasks, EnqueueLock(t) PROVE MutualExclusion'
  BY <1>8 DEF EnqueueLock
<1>9. ASSUME NEW t \in Tasks, EnqueuePush(t) PROVE MutualExclusion'
  BY <1>9 DEF EnqueuePush
<1>10. ASSUME NEW t \in Tasks, EnqueueNotify(t) PROVE MutualExclusion'
  BY <1>10 DEF EnqueueNotify, Waiting
<1>11. ASSUME NEW t \in Tasks, EnqueueGet(t) PROVE MutualExclusion'
  BY <1>11 DEF EnqueueGet
<1>12. CASE Flush
  BY <1>12 DEF Flush
<1>13. CASE StopPool
  BY <1>13 DEF StopPool
<1>14. CASE NotifyAll
  BY <1>14 DEF NotifyAll
<1>15. CASE Join
  BY <1>15 DEF Join
<1>16. CASE UNCHANGED vars
  BY <1>16 DEF vars
<1> QED
  BY <1>1, <1>2, <1>3, <1>4, <1>5, <1>6, <1>7, <1>8, <1>9, <1>10, <1>11, <1>12, <1>13, <1>14, <1>15, <1>16 DEF Next, WorkerStep

\* What a worker saw in the wait predicate still holds when it acts on it.
LEMMA SeenStep ==
  ASSUME TypeOK, MutualExclusion, NoPopFromEmpty, BlocksOnlyIfEmpty, [Next]_vars PROVE (NoPopFromEmpty /\ BlocksOnlyIfEmpty)'
<1> USE DEF TypeOK, MutualExclusion, WorkerHolds, EnqueueHolds, NoPopFromEmpty, BlocksOnlyIfEmpty
<1>1. ASSUME NEW w \in Workers, WorkerLock(w) PROVE (NoPopFromEmpty /\ BlocksOnlyIfEmpty)'
  BY <1>1 DEF WorkerLock
<1>2. ASSUME NEW w \in Workers, WorkerPred(w) PROVE (NoPopFromEmpty /\ BlocksOnlyIfEmpty)'
  BY <1>2 DEF WorkerPred
<1>3. ASSUME NEW w \in Workers, WorkerBlock(w) PROVE (NoPopFromEmpty /\ BlocksOnlyIfEmpty)'
  BY <1>3 DEF WorkerBlock
<1>4. ASSUME NEW w \in Workers, WorkerExit(w) PROVE (NoPopFromEmpty /\ BlocksOnlyIfEmpty)'
  BY <1>4 DEF WorkerExit
<1>5. ASSUME NEW w \in Workers, WorkerTake(w) PROVE (NoPopFromEmpty /\ BlocksOnlyIfEmpty)'
  BY <1>5 DEF WorkerTake
<1>6. ASSUME NEW w \in Workers, WorkerRun(w) PROVE (NoPopFromEmpty /\ BlocksOnlyIfEmpty)'
  BY <1>6 DEF WorkerRun
<1>7. ASSUME NEW w \in Workers, SpuriousWakeup(w) PROVE (NoPopFromEmpty /\ BlocksOnlyIfEmpty)'
  BY <1>7 DEF SpuriousWakeup
<1>8. ASSUME NEW t \in Tasks, EnqueueLock(t) PROVE (NoPopFromEmpty /\ BlocksOnlyIfEmpty)'
  BY <1>8 DEF EnqueueLock
<1>9. ASSUME NEW t \in Tasks, EnqueuePush(t) PROVE (NoPopFromEmpty /\ BlocksOnlyIfEmpty)'
  BY <1>9 DEF EnqueuePush
<1>10. ASSUME NEW t \in Tasks, EnqueueNotify(t) PROVE (NoPopFromEmpty /\ BlocksOnlyIfEmpty)'
  BY <1>10 DEF EnqueueNotify, Waiting
<1>11. ASSUME NEW t \in Tasks, EnqueueGet(t) PROVE (NoPopFromEmpty /\ BlocksOnlyIfEmpty)'
  BY <1>11 DEF EnqueueGet
<1>12. CASE Flush
  BY <1>12 DEF Flush
<1>13. CASE StopPool
  BY <1>13 DEF StopPool
<1>14. CASE NotifyAll
  BY <1>14 DEF NotifyAll
<1>15. CASE Join
  BY <1>15 DEF Join
<1>16. CASE UNCHANGED vars
  BY <1>16 DEF vars
<1> QED
  BY <1>1, <1>2, <1>3, <1>4, <1>5, <1>6, <1>7, <1>8, <1>9, <1>10, <1>11, <1>12, <1>13, <1>14, <1>15, <1>16 DEF Next, WorkerStep

\* Tasks move from the queue to one worker and out, together with their future.
LEMMA AccountingStep ==
  ASSUME TypeOK, MutualExclusion, NoPopFromEmpty, FutureIffPushed, TaskAccounting, [Next]_vars PROVE (FutureIffPushed /\ TaskAccounting)'
<1> USE NoTaskNotATask DEF TypeOK, FutureIffPushed, TaskAccounting, QueuedTasks
<1>1. ASSUME NEW w \in Workers, WorkerLock(w) PROVE (FutureIffPushed /\ TaskAccounting)'
  BY <1>1 DEF WorkerLock
<1>2. ASSUME NEW w \in Workers, WorkerPred(w) PROVE (FutureIffPushed /\ TaskAccounting)'
  BY <1>2 DEF WorkerPred
<1>3. ASSUME NEW w \in Workers, WorkerBlock(w) PROVE (FutureIffPushed /\ TaskAccounting)'
  BY <1>3 DEF WorkerBlock
<1>4. ASSUME NEW w \in Workers, WorkerExit(w) PROVE (FutureIffPushed /\ TaskAccounting)'
  BY <1>4 DEF WorkerExit
<1>5. ASSUME NEW w \in Workers, WorkerTake(w) PROVE (FutureIffPushed /\ TaskAccounting)'
  <2>1. tasks # <<>> BY <1>5 DEF WorkerTake, NoPopFromEmpty
  <2>2. /\ Head(tasks) \in Tasks /\ Head(tasks) = tasks[1]
        /\ Len(Tail(tasks)) = Len(tasks) - 1 /\ Len(tasks) \in Nat \ {0}
        /\ \A i \in 1..Len(tasks) - 1 : Tail(tasks)[i] = tasks[i + 1]
    BY <2>1
  <2>3. \A x \in QueuedTasks' : x \in QueuedTasks /\ x # Head(tasks)
    <3>1. ASSUME NEW i \in 1..Len(tasks') PROVE tasks'[i] = tasks[i + 1] /\ i + 1 \in 2..Len(tasks)
      BY <1>5, <2>2 DEF WorkerTake
    <3> QED BY <2>2, <3>1
  <2>4. \A x \in QueuedTasks : x = Head(tasks) \/ x \in QueuedTasks'
    <3>1. ASSUME NEW i \in 2..Len(tasks) PROVE tasks[i] = tasks'[i - 1] /\ i - 1 \in 1..Len(tasks')
      BY <1>5, <2>2 DEF WorkerTake
    <3> QED BY <2>2, <3>1
  <2>5. \A i, j \in 1..Len(tasks') : tasks'[i] = tasks'[j] => i = j
    BY <1>5, <2>2 DEF WorkerTake
  <2>6. Head(tasks) \in QueuedTasks BY <2>2
  <2>7. \A v \in Workers : wtask'[v] = IF v = w THEN Head(tasks) ELSE wtask[v]
    BY <1>5 DEF WorkerTake
  <2>8. FutureIffPushed' BY <1>5 DEF WorkerTake
  <2>9. future' = future /\ wtask[w] = NoTask BY <1>5 DEF WorkerTake
  <2>10. \A v \in Workers : wtask'[v] \notin QueuedTasks'
    BY <2>3, <2>7
  <2>11. \A u, v \in Workers : wtask'[u] = wtask'[v] /\ wtask'[u] # NoTask => u = v
    BY <2>6, <2>7
  <2>12. \A x \in Tasks :
           (x \in QueuedTasks \/ \E v \in Workers : wtask[v] = x)
             <=> (x \in QueuedTasks' \/ \E v \in Workers : wtask'[v] = x)
    <3> HIDE DEF QueuedTasks
    <3> QED BY <2>2, <2>3, <2>4, <2>6, <2>7, <2>9
  <2> QED BY <2>5, <2>8, <2>9, <2>10, <2>11, <2>12
<1>6. ASSUME NEW w \in Workers, WorkerRun(w) PROVE (FutureIffPushed /\ TaskAccounting)'
  <2>1. PICK r \in {"value", "exception"} : future' = [future EXCEPT ![wtask[w]] = r]
    BY <1>6 DEF WorkerRun
  <2>2. wtask[w] \in Tasks /\ future[wtask[w]] = "pending"
    BY <1>6 DEF WorkerRun
  <2> QED BY <1>6, <2>1, <2>2 DEF WorkerRun
<1>7. ASSUME NEW w \in Workers, SpuriousWakeup(w) PROVE (FutureIffPushed /\ TaskAccounting)'
  BY <1>7 DEF SpuriousWakeup
<1>8. ASSUME NEW t \in Tasks, EnqueueLock(t) PROVE (FutureIffPushed /\ TaskAccounting)'
  BY <1>8 DEF EnqueueLock
<1>9. ASSUME NEW t \in Tasks, EnqueuePush(t) PROVE (FutureIffPushed /\ TaskAccounting)'
  <2>1. QueuedTasks' = QueuedTasks \cup {t}
    BY <1>9 DEF EnqueuePush
  <2>2. t \notin QueuedTasks BY <1>9 DEF EnqueuePush
  <2>3. \A i, j \in 1..Len(tasks') : tasks'[i] = tasks'[j] => i = j
    BY <1>9, <2>2 DEF EnqueuePush
  <2>4. \A v \in Workers : wtask[v] # t BY <1>9 DEF EnqueuePush
  <2>5. /\ wtask' = wtask /\ future' = [future EXCEPT ![t] = "pending"]
        /\ epc[t] = "push" /\ epc' = [epc EXCEPT ![t] = "notify"]
    BY <1>9 DEF EnqueuePush
  <2> HIDE DEF QueuedTasks
  <2>6. FutureIffPushed'
    BY <2>5
  <2>7. \A v \in Workers : wtask'[v] \notin QueuedTasks'
    BY <2>1, <2>4, <2>5
  <2>8. \A x \in Tasks : future'[x] = "pending" <=>
                          x \in QueuedTasks' \/ \E v \in Workers : wtask'[v] = x
    BY <2>1, <2>5
  <2> QED BY <2>3, <2>5, <2>6, <2>7, <2>8
<1>10. ASSUME NEW t \in Tasks, EnqueueNotify(t) PROVE (FutureIffPushed /\ TaskAccounting)'
  BY <1>10 DEF EnqueueNotify, Waiting
<1>11. ASSUME NEW t \in Tasks, EnqueueGet(t) PROVE (FutureIffPushed /\ TaskAccounting)'
  BY <1>11 DEF EnqueueGet
<1>12. CASE Flush
  BY <1>12 DEF Flush, BreakQueued
<1>13. CASE StopPool
  BY <1>13 DEF StopPool
<1>14. CASE NotifyAll
  BY <1>14 DEF NotifyAll
<1>15. CASE Join
  BY <1>15 DEF Join, BreakQueued
<1>16. CASE UNCHANGED vars
  BY <1>16 DEF vars, FutureIffPushed, TaskAccounting, QueuedTasks
<1> QED
  BY <1>1, <1>2, <1>3, <1>4, <1>5, <1>6, <1>7, <1>8, <1>9, <1>10, <1>11, <1>12, <1>13, <1>14, <1>15, <1>16 DEF Next, WorkerStep

\* A worker exits with the mutex held and the queue empty, and then stop keeps every caller out.
LEMMA LeftBehindStep ==
  ASSUME TypeOK, MutualExclusion, NoTaskLeftBehind, [Next]_vars PROVE NoTaskLeftBehind'
<1> USE DEF TypeOK, MutualExclusion, WorkerHolds, EnqueueHolds, NoTaskLeftBehind
<1>1. ASSUME NEW w \in Workers, WorkerLock(w) PROVE NoTaskLeftBehind'
  BY <1>1 DEF WorkerLock
<1>2. ASSUME NEW w \in Workers, WorkerPred(w) PROVE NoTaskLeftBehind'
  BY <1>2 DEF WorkerPred
<1>3. ASSUME NEW w \in Workers, WorkerBlock(w) PROVE NoTaskLeftBehind'
  BY <1>3 DEF WorkerBlock
<1>4. ASSUME NEW w \in Workers, WorkerExit(w) PROVE NoTaskLeftBehind'
  BY <1>4 DEF WorkerExit
<1>5. ASSUME NEW w \in Workers, WorkerTake(w) PROVE NoTaskLeftBehind'
  BY <1>5 DEF WorkerTake
<1>6. ASSUME NEW w \in Workers, WorkerRun(w) PROVE NoTaskLeftBehind'
  BY <1>6 DEF WorkerRun
<1>7. ASSUME NEW w \in Workers, SpuriousWakeup(w) PROVE NoTaskLeftBehind'
  BY <1>7 DEF SpuriousWakeup
<1>8. ASSUME NEW t \in Tasks, EnqueueLock(t) PROVE NoTaskLeftBehind'
  BY <1>8 DEF EnqueueLock
<1>9. ASSUME NEW t \in Tasks, EnqueuePush(t) PROVE NoTaskLeftBehind'
  BY <1>9 DEF EnqueuePush
<1>10. ASSUME NEW t \in Tasks, EnqueueNotify(t) PROVE NoTaskLeftBehind'
  BY <1>10 DEF EnqueueNotify, Waiting
<1>11. ASSUME NEW t \in Tasks, EnqueueGet(t) PROVE NoTaskLeftBehind'
  BY <1>11 DEF EnqueueGet
<1>12. CASE Flush
  BY <1>12 DEF Flush
<1>13. CASE StopPool
  BY <1>13 DEF StopPool
<1>14. CASE NotifyAll
  BY <1>14 DEF NotifyAll
<1>15. CASE Join
  BY <1>15 DEF Join
<1>16. CASE UNCHANGED vars
  BY <1>16 DEF vars
<1> QED
  BY <1>1, <1>2, <1>3, <1>4, <1>5, <1>6, <1>7, <1>8, <1>9, <1>10, <1>11, <1>12, <1>13, <1>14, <1>15, <1>16 DEF Next, WorkerStep

-----------------------------------------------------------------------------
(* Wake-ups. *)

\* The sets WorkConserving counts are finite, so their sizes are naturals.
LEMMA CountsFinite ==
  /\ IsFiniteSet(AwakeIdle) /\ IsFiniteSet(AwakeIdle')
  /\ IsFiniteSet(Notifiers) /\ IsFiniteSet(Notifiers')
  /\ Cardinality(AwakeIdle) \in Nat /\ Cardinality(AwakeIdle') \in Nat
  /\ Cardinality(Notifiers) \in Nat /\ Cardinality(Notifiers') \in Nat
<1>1. AwakeIdle \subseteq Workers /\ AwakeIdle' \subseteq Workers
  BY DEF AwakeIdle
<1>2. Notifiers \subseteq Tasks /\ Notifiers' \subseteq Tasks
  BY DEF Notifiers
<1> QED BY <1>1, <1>2, WorkersFinite, TasksFinite, FS_Subset, FS_CardinalityType

\* An empty queue needs nobody awake.
LEMMA EmptyConserving == ASSUME tasks' = <<>> PROVE WorkConserving'
  BY CountsFinite DEF WorkConserving

\* A step that only wakes workers up or frees them keeps the property.
LEMMA MoreAwake ==
  ASSUME TypeOK, WorkConserving, UNCHANGED tasks, Notifiers' = Notifiers,
         AwakeIdle \subseteq AwakeIdle', Waiting' \subseteq Waiting
  PROVE  WorkConserving'
<1>1. Cardinality(AwakeIdle) <= Cardinality(AwakeIdle')
  BY CountsFinite, FS_Subset
<1> QED BY <1>1, CountsFinite DEF WorkConserving, TypeOK

\* A worker goes to sleep only on an empty queue, a push comes with a notifier, and a
\* notification either finds a sleeper or finds that nobody sleeps.
LEMMA ConservingStep ==
  ASSUME TypeOK, MutualExclusion, NoPopFromEmpty, BlocksOnlyIfEmpty, WorkConserving, [Next]_vars PROVE WorkConserving'
<1>1. ASSUME NEW w \in Workers, WorkerLock(w) PROVE WorkConserving'
  <2>1. AwakeIdle' = AwakeIdle /\ Waiting' = Waiting /\ Notifiers' = Notifiers
    BY <1>1 DEF WorkerLock, AwakeIdle, Waiting, Notifiers, TypeOK
  <2> QED BY <1>1, <2>1 DEF WorkerLock, WorkConserving
<1>2. ASSUME NEW w \in Workers, WorkerPred(w) PROVE WorkConserving'
  <2>1. CASE tasks = <<>> BY <1>2, <2>1, EmptyConserving DEF WorkerPred
  <2>2. CASE tasks # <<>>
    <3>1. AwakeIdle' = AwakeIdle /\ Waiting' = Waiting /\ Notifiers' = Notifiers
      BY <1>2, <2>2 DEF WorkerPred, AwakeIdle, Waiting, Notifiers, TypeOK
    <3> QED BY <1>2, <3>1 DEF WorkerPred, WorkConserving
  <2> QED BY <2>1, <2>2
<1>3. ASSUME NEW w \in Workers, WorkerBlock(w) PROVE WorkConserving'
  BY <1>3, EmptyConserving DEF WorkerBlock, BlocksOnlyIfEmpty
<1>4. ASSUME NEW w \in Workers, WorkerExit(w) PROVE WorkConserving'
  BY <1>4, EmptyConserving DEF WorkerExit
<1>5. ASSUME NEW w \in Workers, WorkerTake(w) PROVE WorkConserving'
  <2>1. AwakeIdle' = AwakeIdle \ {w} /\ w \in AwakeIdle
    BY <1>5 DEF WorkerTake, AwakeIdle, TypeOK
  <2>2. Waiting' = Waiting /\ Notifiers' = Notifiers
    BY <1>5 DEF WorkerTake, Waiting, Notifiers, TypeOK
  <2>3. Cardinality(AwakeIdle') = Cardinality(AwakeIdle) - 1
    BY <2>1, CountsFinite, FS_RemoveElement
  <2>4. Len(tasks') = Len(tasks) - 1 /\ Len(tasks) \in Nat
    BY <1>5 DEF WorkerTake, NoPopFromEmpty, TypeOK
  <2> QED BY <2>2, <2>3, <2>4, CountsFinite DEF WorkConserving
<1>6. ASSUME NEW w \in Workers, WorkerRun(w) PROVE WorkConserving'
  <2>1. AwakeIdle \subseteq AwakeIdle' /\ Waiting' = Waiting /\ Notifiers' = Notifiers
    BY <1>6 DEF WorkerRun, AwakeIdle, Waiting, Notifiers, TypeOK
  <2> QED BY <1>6, <2>1, MoreAwake DEF WorkerRun
<1>7. ASSUME NEW w \in Workers, SpuriousWakeup(w) PROVE WorkConserving'
  <2>1. AwakeIdle \subseteq AwakeIdle' /\ Waiting' \subseteq Waiting /\ Notifiers' = Notifiers
    BY <1>7 DEF SpuriousWakeup, AwakeIdle, Waiting, Notifiers, TypeOK
  <2> QED BY <1>7, <2>1, MoreAwake DEF SpuriousWakeup
<1>8. ASSUME NEW t \in Tasks, EnqueueLock(t) PROVE WorkConserving'
  <2>1. AwakeIdle' = AwakeIdle /\ Waiting' = Waiting /\ Notifiers' = Notifiers
    BY <1>8 DEF EnqueueLock, AwakeIdle, Waiting, Notifiers, TypeOK
  <2> QED BY <1>8, <2>1 DEF EnqueueLock, WorkConserving
<1>9. ASSUME NEW t \in Tasks, EnqueuePush(t) PROVE WorkConserving'
  <2>1. Notifiers' = Notifiers \cup {t} /\ t \notin Notifiers
    BY <1>9 DEF EnqueuePush, Notifiers, TypeOK
  <2>2. Waiting' = Waiting /\ AwakeIdle' = AwakeIdle
    BY <1>9 DEF EnqueuePush, Waiting, AwakeIdle, TypeOK
  <2>3. Cardinality(Notifiers') = Cardinality(Notifiers) + 1
    BY <2>1, CountsFinite, FS_AddElement
  <2>4. Len(tasks') = Len(tasks) + 1 /\ Len(tasks) \in Nat
    BY <1>9 DEF EnqueuePush, TypeOK
  <2> QED BY <2>2, <2>3, <2>4, CountsFinite DEF WorkConserving
<1>10. ASSUME NEW t \in Tasks, EnqueueNotify(t) PROVE WorkConserving'
  <2>1. Notifiers' = Notifiers \ {t} /\ t \in Notifiers
    BY <1>10 DEF EnqueueNotify, Notifiers, TypeOK
  <2>2. Cardinality(Notifiers') = Cardinality(Notifiers) - 1
    BY <2>1, CountsFinite, FS_RemoveElement
  <2>3. CASE Waiting = {} /\ UNCHANGED wpc
    BY <2>3 DEF WorkConserving, Waiting
  <2>4. ASSUME NEW w \in Waiting, wpc' = [wpc EXCEPT ![w] = "lock"] PROVE WorkConserving'
    <3>1. AwakeIdle' = AwakeIdle \cup {w} /\ w \notin AwakeIdle
      BY <2>4 DEF AwakeIdle, Waiting, TypeOK
    <3>2. Cardinality(AwakeIdle') = Cardinality(AwakeIdle) + 1
      BY <3>1, CountsFinite, FS_AddElement
    <3>3. Waiting # {} /\ Len(tasks') = Len(tasks) /\ Len(tasks) \in Nat
      BY <1>10, <2>4 DEF EnqueueNotify, TypeOK
    <3> QED BY <2>2, <3>2, <3>3, CountsFinite DEF WorkConserving
  <2> QED BY <1>10, <2>3, <2>4 DEF EnqueueNotify
<1>11. ASSUME NEW t \in Tasks, EnqueueGet(t) PROVE WorkConserving'
  <2>1. AwakeIdle' = AwakeIdle /\ Waiting' = Waiting /\ Notifiers' = Notifiers
    BY <1>11 DEF EnqueueGet, AwakeIdle, Waiting, Notifiers, TypeOK
  <2> QED BY <1>11, <2>1 DEF EnqueueGet, WorkConserving
<1>12. CASE Flush
  BY <1>12, EmptyConserving DEF Flush
<1>13. CASE StopPool
  BY <1>13 DEF StopPool, WorkConserving, AwakeIdle, Waiting, Notifiers
<1>14. CASE NotifyAll
  BY <1>14 DEF NotifyAll, WorkConserving, Waiting, TypeOK
<1>15. CASE Join
  BY <1>15, EmptyConserving DEF Join
<1>16. CASE UNCHANGED vars
  BY <1>16 DEF vars, WorkConserving, Waiting, AwakeIdle, Notifiers
<1> QED
  BY <1>1, <1>2, <1>3, <1>4, <1>5, <1>6, <1>7, <1>8, <1>9, <1>10, <1>11, <1>12, <1>13, <1>14, <1>15, <1>16 DEF Next, WorkerStep

-----------------------------------------------------------------------------
(* The theorems. *)

\* The initial state satisfies the inductive invariant.
LEMMA InitIInv == Init => IInv
<1> SUFFICES ASSUME Init PROVE IInv OBVIOUS
<1> USE NoTaskNotATask DEF Init
<1>1. TypeOK
  <2>1. tasks \in Seq(Tasks) OBVIOUS
  <2>6. stop \in BOOLEAN /\ locked \in BOOLEAN BY Zenon
  <2>2. wpc \in [Workers -> WorkerPC] /\ epc \in [Tasks -> EnqueuePC] BY DEF WorkerPC, EnqueuePC
  <2>3. wtask \in [Workers -> Tasks \cup {NoTask}] OBVIOUS
  <2>4. future \in [Tasks -> FutureState] /\ opc \in OwnerPC BY DEF FutureState, OwnerPC
  <2>5. \A w \in Workers : wtask[w] # NoTask <=> wpc[w] = "run" OBVIOUS
  <2> QED BY <2>1, <2>2, <2>3, <2>4, <2>5, <2>6 DEF TypeOK
<1>2. MutualExclusion BY DEF MutualExclusion, WorkerHolds, EnqueueHolds
<1>3. NoPopFromEmpty /\ BlocksOnlyIfEmpty BY DEF NoPopFromEmpty, BlocksOnlyIfEmpty
<1>4. FutureIffPushed BY DEF FutureIffPushed
<1>5. TaskAccounting BY DEF TaskAccounting, QueuedTasks
<1>6. NoTaskLeftBehind BY DEF NoTaskLeftBehind
<1>7. WorkConserving BY DEF WorkConserving, Waiting
<1> QED BY <1>1, <1>2, <1>3, <1>4, <1>5, <1>6, <1>7 DEF IInv

\* Every step of any thread preserves the inductive invariant.
LEMMA StepIInv == IInv /\ [Next]_vars => IInv'
  BY TypeStep, MutexStep, SeenStep, AccountingStep, LeftBehindStep, ConservingStep DEF IInv

\* The inductive invariant holds in every reachable state of the pool.
THEOREM PoolInvariant == Spec => []IInv
<1>1. Init => IInv BY InitIInv
<1>2. IInv /\ [Next]_vars => IInv' BY StepIInv
<1> QED BY <1>1, <1>2, PTL DEF Spec

\* Types: in particular a worker holds a task exactly while it runs it.
THEOREM PoolTypeCorrect == Spec => []TypeOK
<1>1. IInv => TypeOK BY DEF IInv
<1> QED BY <1>1, PoolInvariant, PTL

\* queue_mutex excludes: thread_pool.hpp has at most one thread between a lock
\* and its unlock, however many workers and callers there are.
THEOREM PoolMutualExclusion == Spec => []MutualExclusion
<1>1. IInv => MutualExclusion BY DEF IInv
<1> QED BY <1>1, PoolInvariant, PTL

\* No task is lost, duplicated or left without an owner while its caller waits.
THEOREM PoolTaskAccounting == Spec => []TaskAccounting
<1>1. IInv => TaskAccounting BY DEF IInv
<1> QED BY <1>1, PoolInvariant, PTL

\* A worker never pops an empty queue, whoever else emptied or stopped it.
THEOREM PoolNoPopFromEmpty == Spec => []NoPopFromEmpty
<1>1. IInv => NoPopFromEmpty BY DEF IInv
<1> QED BY <1>1, PoolInvariant, PTL

\* No wake-up of enqueue is lost, for any number of workers and callers.
THEOREM PoolWorkConserving == Spec => []WorkConserving
<1>1. IInv => WorkConserving BY DEF IInv
<1> QED BY <1>1, PoolInvariant, PTL

\* Workers leave only a closed and empty pool, which then stays empty.
THEOREM PoolNoTaskLeftBehind == Spec => []NoTaskLeftBehind
<1>1. IInv => NoTaskLeftBehind BY DEF IInv
<1> QED BY <1>1, PoolInvariant, PTL

-----------------------------------------------------------------------------
(* The refinement: every step of a thread is one step of the FIFO contract
   PoolContract or none.  The inductive invariant supplies that a task is in
   the queue exactly when its future is pending and no worker has it. *)

\* The status of one task now and after the step.
LEMMA StatusValue ==
  ASSUME NEW t \in Tasks
  PROVE  /\ TaskStatus[t] = StatusOf(future[t], epc[t] = "threw", Running(t))
         /\ TaskStatus'[t] = StatusOf(future'[t], epc'[t] = "threw", Running(t)')
  BY DEF TaskStatus

\* Two status functions that agree on every task are the same function.
LEMMA StatusExtensional ==
  /\ (\A t \in Tasks : TaskStatus'[t] = TaskStatus[t]) => TaskStatus' = TaskStatus
  /\ \A h \in Tasks : \A s :
       (\A t \in Tasks : TaskStatus'[t] = IF t = h THEN s ELSE TaskStatus[t])
         => TaskStatus' = [TaskStatus EXCEPT ![h] = s]
  /\ (\A t \in Tasks : TaskStatus'[t] = IF TaskStatus[t] = "queued" THEN "dropped"
                                         ELSE TaskStatus[t])
       => TaskStatus' = [t \in Tasks |-> IF TaskStatus[t] = "queued" THEN "dropped"
                                         ELSE TaskStatus[t]]
<1>1. /\ TaskStatus = [t \in Tasks |-> TaskStatus[t]]
      /\ TaskStatus' = [t \in Tasks |-> TaskStatus'[t]]
  BY DEF TaskStatus
<1> QED BY <1>1

\* A step that moves no task and resolves no future is invisible.
LEMMA Invisible ==
  ASSUME TypeOK, UNCHANGED <<tasks, stop, wtask, future>>,
         \A t \in Tasks : epc'[t] = "threw" <=> epc[t] = "threw"
  PROVE  UNCHANGED Contract!cvars
<1>1. ASSUME NEW t \in Tasks PROVE TaskStatus'[t] = TaskStatus[t]
  BY StatusValue DEF StatusOf, Running
<1>2. TaskStatus' = TaskStatus
  BY <1>1, StatusExtensional
<1> QED BY <1>2 DEF Contract!cvars

\* With the accounting of IInv, "queued" means what it says.
LEMMA QueuedStatus ==
  ASSUME IInv, NEW t \in Tasks
  PROVE  TaskStatus[t] = "queued" <=> t \in QueuedTasks
<1> USE NoTaskNotATask DEF IInv, TypeOK, FutureState
<1>1. future[t] = "pending" <=> t \in QueuedTasks \/ \E w \in Workers : wtask[w] = t
  BY DEF TaskAccounting
<1>2. \A w \in Workers : wtask[w] \notin QueuedTasks
  BY DEF TaskAccounting
<1> HIDE DEF IInv
<1> QED BY <1>1, <1>2, StatusValue DEF StatusOf, Running

\* flush, and the end of the destructor, drop exactly what is queued.
LEMMA DropsQueued ==
  ASSUME IInv, tasks' = <<>>, future' = BreakQueued, UNCHANGED <<stop, wtask, epc>>
  PROVE  Contract!DropAll
<1>1. ASSUME NEW t \in Tasks
      PROVE  TaskStatus'[t] = IF TaskStatus[t] = "queued" THEN "dropped" ELSE TaskStatus[t]
  <2>1. CASE t \in QueuedTasks
    <3>1. future'[t] = "broken" BY <2>1 DEF BreakQueued
    <3> QED BY <2>1, <3>1, QueuedStatus, StatusValue DEF StatusOf
  <2>2. CASE t \notin QueuedTasks
    <3>1. future'[t] = future[t] BY <2>2 DEF BreakQueued
    <3>2. TaskStatus'[t] = TaskStatus[t] BY <3>1, StatusValue DEF StatusOf, Running
    <3> QED BY <2>2, <3>2, QueuedStatus
  <2> QED BY <2>1, <2>2
<1>2. TaskStatus' = [t \in Tasks |-> IF TaskStatus[t] = "queued" THEN "dropped" ELSE TaskStatus[t]]
  BY <1>1, StatusExtensional
<1> QED BY <1>2 DEF Contract!DropAll

\* Taking the head of the queue starts that task.
LEMMA TakeStarts ==
  ASSUME IInv, NEW w \in Workers, WorkerTake(w) PROVE Contract!Start
<1> DEFINE h == Head(tasks)
<1>1. tasks # <<>> BY DEF WorkerTake, IInv, NoPopFromEmpty
<1>2. h \in Tasks /\ h \in QueuedTasks
  BY <1>1 DEF QueuedTasks, IInv, TypeOK
<1>3. TaskStatus[h] = "queued" BY <1>2, QueuedStatus
<1>4. future[h] = "pending" BY <1>2 DEF IInv, TaskAccounting
<1>5. /\ \A v \in Workers : wtask'[v] = IF v = w THEN h ELSE wtask[v]
      /\ wtask[w] = NoTask /\ future' = future /\ epc' = epc
  BY DEF WorkerTake, IInv, TypeOK
<1> HIDE DEF h
<1>6. ASSUME NEW t \in Tasks
      PROVE  TaskStatus'[t] = IF t = h THEN "running" ELSE TaskStatus[t]
  <2>1. CASE t = h BY <1>4, <1>5, <2>1, StatusValue DEF StatusOf, Running
  <2>2. CASE t # h
    <3>1. (\E v \in Workers : wtask'[v] = t) <=> (\E v \in Workers : wtask[v] = t)
      BY <1>5, <2>2, NoTaskNotATask
    <3> QED BY <1>5, <2>2, <3>1, StatusValue DEF StatusOf, Running
  <2> QED BY <2>1, <2>2
<1>7. TaskStatus' = [TaskStatus EXCEPT ![h] = "running"]
  BY <1>2, <1>6, StatusExtensional
<1> QED BY <1>1, <1>3, <1>7 DEF Contract!Start, WorkerTake, h

\* Running a task to its end finishes it.
LEMMA RunFinishes ==
  ASSUME IInv, NEW w \in Workers, WorkerRun(w)
  PROVE  wtask[w] \in Tasks /\ Contract!Finish(wtask[w])
<1> DEFINE h == wtask[w]
<1>1. h \in Tasks BY DEF WorkerRun, IInv, TypeOK
<1>2. future[h] = "pending" BY <1>1 DEF IInv, TaskAccounting
<1>3. TaskStatus[h] = "running" BY <1>1, <1>2, StatusValue DEF StatusOf, Running
<1>4. PICK r \in {"value", "exception"} : future' = [future EXCEPT ![h] = r]
  BY DEF WorkerRun
<1>5. /\ \A v \in Workers : wtask'[v] = IF v = w THEN NoTask ELSE wtask[v]
      /\ epc' = epc
  BY DEF WorkerRun, IInv, TypeOK
<1>6. \A t \in Tasks : future'[t] = IF t = h THEN r ELSE future[t]
  BY <1>1, <1>4 DEF IInv, TypeOK
<1>7. ASSUME NEW t \in Tasks
      PROVE  TaskStatus'[t] = IF t = h THEN "done" ELSE TaskStatus[t]
  <2>1. CASE t = h BY <1>6, <2>1, StatusValue DEF StatusOf, Running
  <2>2. CASE t # h
    <3>1. (\E v \in Workers : wtask'[v] = t) <=> (\E v \in Workers : wtask[v] = t)
      BY <1>5, <2>2, NoTaskNotATask
    <3> QED BY <1>5, <1>6, <2>2, <3>1, StatusValue DEF StatusOf, Running
  <2> QED BY <2>1, <2>2
<1>8. TaskStatus' = [TaskStatus EXCEPT ![h] = "done"]
  BY <1>1, <1>7, StatusExtensional
<1> QED BY <1>1, <1>3, <1>8 DEF Contract!Finish, WorkerRun

\* The push of an accepted task submits it.
LEMMA PushSubmits ==
  ASSUME IInv, NEW t \in Tasks, EnqueuePush(t) PROVE Contract!Submit(t)
<1>1. future[t] = "none" /\ TaskStatus[t] = "new"
  BY StatusValue DEF EnqueuePush, IInv, FutureIffPushed, StatusOf
<1>2. \A w \in Workers : wtask[w] # t
  BY <1>1 DEF IInv, TaskAccounting
<1>3. ASSUME NEW x \in Tasks
      PROVE  TaskStatus'[x] = IF x = t THEN "queued" ELSE TaskStatus[x]
  <2>1. wtask' = wtask /\ future'[x] = IF x = t THEN "pending" ELSE future[x]
    BY DEF EnqueuePush, IInv, TypeOK
  <2>2. epc'[x] = IF x = t THEN "notify" ELSE epc[x]
    BY DEF EnqueuePush, IInv, TypeOK
  <2> QED BY <1>2, <2>1, <2>2, StatusValue DEF StatusOf, Running
<1>4. TaskStatus' = [TaskStatus EXCEPT ![t] = "queued"]
  BY <1>3, StatusExtensional
<1> QED BY <1>1, <1>4 DEF Contract!Submit, EnqueuePush

\* A call that finds the pool stopped is rejected, and only such a call.
LEMMA LockRejects ==
  ASSUME IInv, NEW t \in Tasks, EnqueueLock(t), stop PROVE Contract!Reject(t)
<1>1. future[t] = "none" /\ TaskStatus[t] = "new"
  BY StatusValue DEF EnqueueLock, IInv, FutureIffPushed, StatusOf
<1>2. ASSUME NEW x \in Tasks
      PROVE  TaskStatus'[x] = IF x = t THEN "rejected" ELSE TaskStatus[x]
  <2>1. wtask' = wtask /\ future' = future
    BY DEF EnqueueLock
  <2>2. epc'[x] = IF x = t THEN "threw" ELSE epc[x]
    BY DEF EnqueueLock, IInv, TypeOK
  <2> QED BY <1>1, <2>1, <2>2, StatusValue DEF StatusOf, Running
<1>3. TaskStatus' = [TaskStatus EXCEPT ![t] = "rejected"]
  BY <1>2, StatusExtensional
<1> QED BY <1>1, <1>3 DEF Contract!Reject, EnqueueLock

\* One step of a thread is one step of the contract or none.
LEMMA StepRefines == IInv /\ [Next]_vars => [Contract!Next]_(Contract!cvars)
<1> SUFFICES ASSUME IInv, [Next]_vars PROVE [Contract!Next]_(Contract!cvars)
  OBVIOUS
<1>t. TypeOK BY DEF IInv
<1>1. ASSUME NEW w \in Workers,
             WorkerLock(w) \/ WorkerPred(w) \/ WorkerBlock(w) \/ WorkerExit(w) \/ SpuriousWakeup(w)
      PROVE  UNCHANGED Contract!cvars
  BY <1>1, <1>t, Invisible
     DEF WorkerLock, WorkerPred, WorkerBlock, WorkerExit, SpuriousWakeup
<1>2. ASSUME NEW w \in Workers, WorkerTake(w) PROVE Contract!Next
  BY <1>2, TakeStarts DEF Contract!Next
<1>3. ASSUME NEW w \in Workers, WorkerRun(w) PROVE Contract!Next
  BY <1>3, RunFinishes DEF Contract!Next
<1>4. ASSUME NEW t \in Tasks, EnqueueLock(t) PROVE [Contract!Next]_(Contract!cvars)
  <2>1. CASE stop BY <1>4, <2>1, LockRejects DEF Contract!Next
  <2>2. CASE ~stop
    BY <1>4, <2>2, <1>t, Invisible DEF EnqueueLock, TypeOK
  <2> QED BY <2>1, <2>2
<1>5. ASSUME NEW t \in Tasks, EnqueuePush(t) PROVE Contract!Next
  BY <1>5, PushSubmits DEF Contract!Next
<1>6. ASSUME NEW t \in Tasks, EnqueueNotify(t) \/ EnqueueGet(t) PROVE UNCHANGED Contract!cvars
  BY <1>6, <1>t, Invisible DEF EnqueueNotify, EnqueueGet, TypeOK
<1>7. CASE Flush \/ Join
  BY <1>7, DropsQueued DEF Flush, Join, Contract!Next
<1>8. CASE StopPool
  <2>1. TaskStatus' = TaskStatus BY <1>8 DEF StopPool, TaskStatus, Running
  <2> QED BY <1>8, <2>1 DEF StopPool, Contract!Close, Contract!Next
<1>9. CASE NotifyAll
  BY <1>9, <1>t, Invisible DEF NotifyAll
<1>10. CASE UNCHANGED vars
  BY <1>10, <1>t, Invisible DEF vars
<1> QED
  BY <1>1, <1>2, <1>3, <1>4, <1>5, <1>6, <1>7, <1>8, <1>9, <1>10 DEF Next, WorkerStep

\* builtin_thread_pool implements its FIFO contract.
THEOREM PoolImplementsContract == Spec => ImplementsContract
<1>1. Init => Contract!Init
  BY DEF Init, Contract!Init, TaskStatus, StatusOf
<1>2. IInv /\ [Next]_vars => [Contract!Next]_(Contract!cvars)
  BY StepRefines
<1> QED BY <1>1, <1>2, PoolInvariant, PTL DEF Spec, ImplementsContract, Contract!Spec
=============================================================================

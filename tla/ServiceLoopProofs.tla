-------------------------- MODULE ServiceLoopProofs --------------------------
(***************************************************************************)
(* Theorems about the two components that the loop of MMIService::OnThread *)
(* drives: the delegated tasks and the timers.                             *)
(*                                                                         *)
(* DelegateTasks, for any set of binder threads and any limits: it         *)
(* implements CallQueue, and each caller gets the answer of its own call.  *)
(* One inductive invariant carries the type invariant, the absence of lost *)
(* wakeups and the consistency of the task ids: the worker's access to its *)
(* batch is defined only because it holds one, and the ids stay below the  *)
(* end of the factory only because every id that is not queued has been    *)
(* recovered.                                                              *)
(*                                                                         *)
(* TimerManager, for any number of slots, any intervals and any clock,     *)
(* including one that is set back: the list keeps its type, its order and  *)
(* the distinctness of its ids through every use the event handlers and    *)
(* the callbacks make of it, and a pass leaves no timer that was due.      *)
(* With a clock that is not set, no slot runs twice in a pass and the      *)
(* worker does not sleep past the head of the list.                        *)
(***************************************************************************)
EXTENDS DelegateTasks, TimerManager, FiniteSetTheorems, SequenceTheorems, TLAPS

(* The worker is inside the loop of ProcessTasks exactly while tasks of the
   batch it popped are left. *)
WorkerHoldsBatch == (worker \in {"check", "run", "ran", "set"}) <=> (batch # <<>>)

IndInv == TypeOK /\ WorkerHoldsBatch /\ NoLostWakeup /\ IdsConsistent

(* What MarkWaited keeps: SetWaited changes no length, no id and no order. *)
LEMMA MarkWaitedKeeps ==
  ASSUME NEW c \in Clients, NEW q \in Seq(Task)
  PROVE  /\ MarkWaited(c, q) \in Seq(Task)
         /\ Len(MarkWaited(c, q)) = Len(q)
         /\ DOMAIN MarkWaited(c, q) = DOMAIN q
         /\ \A i \in DOMAIN q : MarkWaited(c, q)[i].id = q[i].id
         /\ MarkWaited(c, q) = <<>> <=> q = <<>>
<1> DEFINE m == MarkWaited(c, q)
<1>1. q \in [1..Len(q) -> Task] /\ Len(q) \in Nat /\ DOMAIN q = 1..Len(q)
  BY LenProperties
<1>2. \A i \in 1..Len(q) : q[i] \in Task /\ [q[i] EXCEPT !.waited = TRUE] \in Task
                           /\ [q[i] EXCEPT !.waited = TRUE].id = q[i].id
  BY <1>1 DEF Task
<1>3. m \in [1..Len(q) -> Task] /\ \A i \in 1..Len(q) : m[i].id = q[i].id
  BY <1>1, <1>2 DEF MarkWaited
<1>4. m \in Seq(Task)
  BY <1>1, <1>3, SeqDef
<1>5. DOMAIN m = 1..Len(q)
  BY <1>3
<1>6. Len(m) = Len(q)
  BY <1>1, <1>4, <1>5, LenProperties
<1>7. m = <<>> <=> q = <<>>
  BY <1>4, <1>6, <1>1, EmptySeq
<1> QED
  BY <1>1, <1>3, <1>4, <1>5, <1>6, <1>7

LEMMA IntervalCardinality ==
  ASSUME NEW n \in Nat
  PROVE  IsFiniteSet(1..n) /\ Cardinality(1..n) = n
<1>1. \A a, b \in Int : IsFiniteSet(a..b) /\ Cardinality(a..b) = IF a > b THEN 0 ELSE b - a + 1
  BY FS_Interval
<1> QED
  BY <1>1

(* The factory cannot be exhausted while a task may still be queued: with an
   empty pool all ids below the seed are queued, and the queue is bounded. *)
LEMMA SeedBelowLimit ==
  ASSUME TypeOK, IdsConsistent, HasRoom, freeIds = {}
  PROVE  seed <= QueueLimit + 1
<1> USE LimitsAssumption
<1>1. tasks \in [1..Len(tasks) -> Task] /\ Len(tasks) \in Nat /\ seed \in Nat \ {0}
  BY LenProperties DEF TypeOK
<1> DEFINE f == [i \in 1..Len(tasks) |-> tasks[i].id]
<1>2. QueuedIds = 1..(seed - 1)
  BY DEF IdsConsistent
<1>3. f \in Surjection(1..Len(tasks), 1..(seed - 1))
  BY <1>1, <1>2 DEF Surjection, QueuedIds
<1>4. IsFiniteSet(1..Len(tasks)) /\ Cardinality(1..Len(tasks)) = Len(tasks)
  BY <1>1, IntervalCardinality
<1>5. Cardinality(1..(seed - 1)) = seed - 1
  BY <1>1, IntervalCardinality
<1>6. Cardinality(1..(seed - 1)) <= Cardinality(1..Len(tasks))
  <2> HIDE DEF f
  <2> QED BY <1>3, <1>4, FS_Surjection
<1> QED
  BY <1>1, <1>4, <1>5, <1>6 DEF HasRoom

(* GenerateId returns a fresh id or one from the pool, never 0. *)
LEMMA GeneratedIdIsFree ==
  ASSUME TypeOK, IdsConsistent, HasRoom, NEW id \in GeneratedIds
  PROVE  /\ id \in 1..(SeedAfter - 1)
         /\ id \notin QueuedIds
         /\ SeedAfter \in Nat \ {0} /\ SeedAfter <= QueueLimit + 2
         /\ QueuedIds \cup (freeIds \ {id}) \cup {id} = 1..(SeedAfter - 1)
<1> USE LimitsAssumption
<1>1. seed \in Nat \ {0}
  BY DEF TypeOK
<1>2. CASE freeIds = {}
  <2>1. seed <= QueueLimit + 1
    BY <1>2, SeedBelowLimit
  <2>2. id = seed /\ SeedAfter = seed + 1
    BY <1>1, <1>2, <2>1 DEF GeneratedIds, SeedAfter
  <2>3. QueuedIds = 1..(seed - 1)
    BY <1>2 DEF IdsConsistent
  <2> QED
    BY <1>1, <1>2, <2>1, <2>2, <2>3
<1>3. CASE freeIds # {}
  <2>1. id \in freeIds /\ SeedAfter = seed
    BY <1>3 DEF GeneratedIds, SeedAfter
  <2> QED
    BY <1>1, <2>1 DEF IdsConsistent
<1> QED
  BY <1>2, <1>3

LEMMA InitIndInv == Init => IndInv
<1> SUFFICES ASSUME Init PROVE IndInv
  OBVIOUS
<1>1. TypeOK
  <2>1. tasks \in Seq(Task) /\ batch \in Seq(Task)
    BY EmptySeq DEF Init
  <2>2. seed \in Nat \ {0} /\ freeIds \in SUBSET Int /\ pipe \in 0..PipeCapacity
    BY LimitsAssumption DEF Init
  <2>3. poster \in [Clients -> PosterAt] /\ promise \in [Clients -> {"none", "unset", "set"}]
        /\ ran \in [Clients -> BOOLEAN] /\ worker \in WorkerAt /\ undefined \in BOOLEAN
    BY DEF Init, PosterAt, WorkerAt
  <2> QED
    BY <2>1, <2>2, <2>3 DEF TypeOK
<1>2. WorkerHoldsBatch /\ NoLostWakeup
  BY EmptySeq DEF Init, WorkerHoldsBatch, NoLostWakeup
<1>3. IdsConsistent
  BY LimitsAssumption DEF Init, IdsConsistent, IdsDistinct, QueuedIds
<1> QED
  BY <1>1, <1>2, <1>3 DEF IndInv

-----------------------------------------------------------------------------
(* The steps that change the queue. *)

LEMMA PushKeeps ==
  ASSUME IndInv, NEW c \in Clients, NEW sync \in BOOLEAN, PushTask(c, sync)
  PROVE  /\ tasks' \in Seq(Task) /\ seed' \in Nat \ {0} /\ freeIds' \in SUBSET Int
         /\ pipe' \in 0..PipeCapacity
         /\ Len(tasks') = Len(tasks) + 1 /\ pipe' = pipe + 1
         /\ IdsConsistent'
<1> USE LimitsAssumption
<1>1. PICK id \in GeneratedIds :
        /\ tasks' = Append(tasks, [id |-> id, client |-> c, sync |-> sync, waited |-> FALSE])
        /\ freeIds' = freeIds \ {id}
  BY DEF PushTask
<1>2. /\ id \in 1..(SeedAfter - 1) /\ id \notin QueuedIds
      /\ SeedAfter \in Nat \ {0} /\ SeedAfter <= QueueLimit + 2
      /\ QueuedIds \cup (freeIds \ {id}) \cup {id} = 1..(SeedAfter - 1)
  BY GeneratedIdIsFree DEF IndInv, PushTask
<1> DEFINE t == [id |-> id, client |-> c, sync |-> sync, waited |-> FALSE]
<1>3. t \in Task /\ t.id = id
  BY <1>2 DEF Task
<1>4. /\ tasks \in Seq(Task) /\ Len(tasks) \in Nat /\ DOMAIN tasks = 1..Len(tasks)
  BY LenProperties DEF IndInv, TypeOK
<1> HIDE DEF t
<1>5. /\ tasks' \in Seq(Task) /\ Len(tasks') = Len(tasks) + 1
      /\ \A i \in 1..Len(tasks) : tasks'[i] = tasks[i]
      /\ tasks'[Len(tasks) + 1] = t
  BY <1>1, <1>3, <1>4, AppendProperties DEF t
<1>6. DOMAIN tasks' = 1..(Len(tasks) + 1)
  BY <1>4, <1>5, LenProperties
<1>7. QueuedIds' = QueuedIds \cup {id}
  BY <1>3, <1>4, <1>5, <1>6 DEF QueuedIds
<1>8. IdsDistinct'
  BY <1>2, <1>3, <1>4, <1>5, <1>6 DEF IndInv, IdsConsistent, IdsDistinct, QueuedIds
<1>9. seed' = SeedAfter /\ freeIds' = freeIds \ {id} /\ pipe' = pipe + 1 /\ pipe < PipeCapacity
  BY <1>1 DEF PushTask
<1>10. IdsConsistent'
  BY <1>2, <1>7, <1>8, <1>9 DEF IndInv, IdsConsistent
<1> QED
  BY <1>2, <1>5, <1>9, <1>10 DEF IndInv, TypeOK

LEMMA RefusePipeKeeps ==
  ASSUME IndInv, RefusePipe
  PROVE  /\ seed' \in Nat \ {0} /\ freeIds' \in SUBSET Int
         /\ tasks' = tasks /\ pipe' = pipe
         /\ IdsConsistent'
<1> USE LimitsAssumption
<1>1. PICK id \in GeneratedIds : freeIds' = Recover(freeIds \ {id}, {id}, SeedAfter)
  BY DEF RefusePipe
<1>2. /\ id \in 1..(SeedAfter - 1) /\ id \notin QueuedIds
      /\ SeedAfter \in Nat \ {0} /\ SeedAfter <= QueueLimit + 2
      /\ QueuedIds \cup (freeIds \ {id}) \cup {id} = 1..(SeedAfter - 1)
  BY GeneratedIdIsFree DEF IndInv, RefusePipe
<1>3. freeIds' = (freeIds \ {id}) \cup {id}
  BY <1>1, <1>2 DEF Recover
<1>4. seed' = SeedAfter /\ tasks' = tasks /\ pipe' = pipe
  BY DEF RefusePipe
<1>5. QueuedIds' = QueuedIds /\ IdsDistinct'
  BY <1>4 DEF QueuedIds, IdsDistinct, IndInv, IdsConsistent
<1>6. IdsConsistent'
  BY <1>2, <1>3, <1>4, <1>5 DEF IndInv, IdsConsistent
<1> QED
  BY <1>2, <1>3, <1>4, <1>6 DEF IndInv, TypeOK

LEMMA PopKeeps ==
  ASSUME IndInv, PopPendingTaskList
  PROVE  /\ tasks' \in Seq(Task) /\ batch' \in Seq(Task) /\ freeIds' \in SUBSET Int
         /\ Len(tasks') = Len(tasks) - PopCount
         /\ PopCount \in 0..Len(tasks) /\ (Len(tasks) > 0 => PopCount > 0)
         /\ (batch' = <<>> <=> PopCount = 0)
         /\ IdsConsistent'
<1> USE LimitsAssumption
<1> DEFINE n == Len(tasks)
           k == PopCount
<1>1. /\ tasks \in Seq(Task) /\ n \in Nat /\ tasks \in [1..n -> Task] /\ DOMAIN tasks = 1..n
      /\ seed \in Nat \ {0}
  BY LenProperties DEF IndInv, TypeOK
<1>2. k \in 0..n /\ (n > 0 => k > 0)
  BY <1>1 DEF PopCount
<1>3. tasks' = SubSeq(tasks, k + 1, n) /\ batch' = SubSeq(tasks, 1, k) /\ seed' = seed
      /\ freeIds' = Recover(freeIds, {tasks[i].id : i \in 1..k}, seed)
  BY DEF PopPendingTaskList
<1> HIDE DEF n, k
<1>4. /\ tasks' \in Seq(Task) /\ Len(tasks') = n - k
      /\ \A i \in 1..(n - k) : tasks'[i] = tasks[k + i]
  BY <1>1, <1>2, <1>3, SubSeqProperties
<1>5. batch' \in Seq(Task) /\ Len(batch') = k
  BY <1>1, <1>2, <1>3, SubSeqProperties
<1>6. batch' = <<>> <=> k = 0
  BY <1>2, <1>5, EmptySeq
<1>7. DOMAIN tasks' = 1..(n - k)
  BY <1>4, LenProperties
<1> DEFINE popped == {tasks[i].id : i \in 1..k}
<1> DEFINE left == {tasks[i].id : i \in (k + 1)..n}
<1>8. QueuedIds = popped \cup QueuedIds'
  <2>1. QueuedIds' = {tasks'[i].id : i \in 1..(n - k)}
    BY <1>7 DEF QueuedIds
  <2>2. QueuedIds' \subseteq left
    BY <1>1, <1>2, <1>4, <2>1
  <2>3. left \subseteq QueuedIds'
    <3> SUFFICES ASSUME NEW j \in (k + 1)..n PROVE tasks[j].id \in QueuedIds'
      OBVIOUS
    <3>1. j - k \in 1..(n - k) /\ tasks'[j - k] = tasks[j]
      BY <1>1, <1>2, <1>4
    <3> QED BY <2>1, <3>1
  <2>4. QueuedIds = {tasks[i].id : i \in 1..n}
    BY <1>1 DEF QueuedIds
  <2>5. QueuedIds = popped \cup left
    BY <1>1, <1>2, <2>4
  <2> QED
    BY <2>2, <2>3, <2>5
<1>9. popped \cap QueuedIds' = {}
  <2> SUFFICES ASSUME NEW i \in 1..k, NEW j \in 1..(n - k) PROVE tasks[i].id # tasks'[j].id
    BY <1>7 DEF QueuedIds
  <2>1. i \in 1..n /\ k + j \in 1..n /\ i # k + j /\ tasks'[j] = tasks[k + j]
    BY <1>1, <1>2, <1>4
  <2> QED
    BY <1>1, <2>1 DEF IndInv, IdsConsistent, IdsDistinct
<1>10. QueuedIds \cup freeIds = 1..(seed - 1) /\ QueuedIds \cap freeIds = {}
       /\ seed <= QueueLimit + 2
  BY DEF IndInv, IdsConsistent
<1>11. freeIds' = freeIds \cup popped
  BY <1>1, <1>3, <1>8, <1>10 DEF Recover
<1>12. IdsDistinct'
  BY <1>1, <1>2, <1>4, <1>7 DEF IndInv, IdsConsistent, IdsDistinct
<1>13. IdsConsistent'
  <2> HIDE DEF popped
  <2> QED BY <1>3, <1>8, <1>9, <1>10, <1>11, <1>12 DEF IdsConsistent
<1>14. freeIds' \in SUBSET Int
  BY <1>8, <1>10, <1>11
<1> QED
  BY <1>2, <1>4, <1>5, <1>6, <1>13, <1>14 DEF n, k

(* SetWaited on every task of a leaving poster disturbs neither the ids nor
   the lengths. *)
LEMMA LeaveKeeps ==
  ASSUME IndInv, NEW c \in Clients, Leave(c)
  PROVE  IndInv'
<1>1. tasks \in Seq(Task) /\ batch \in Seq(Task)
  BY DEF IndInv, TypeOK
<1>2. /\ tasks' \in Seq(Task) /\ Len(tasks') = Len(tasks) /\ DOMAIN tasks' = DOMAIN tasks
      /\ \A i \in DOMAIN tasks : tasks'[i].id = tasks[i].id
  BY <1>1, MarkWaitedKeeps DEF Leave
<1>3. batch' \in Seq(Task) /\ (batch' = <<>> <=> batch = <<>>)
  BY <1>1, MarkWaitedKeeps DEF Leave
<1>4. UNCHANGED <<seed, freeIds, pipe, worker, ran, undefined>>
  BY DEF Leave
<1>5. poster' \in [Clients -> PosterAt] /\ promise' \in [Clients -> {"none", "unset", "set"}]
  BY DEF Leave, IndInv, TypeOK, PosterAt
<1>6. TypeOK'
  BY <1>2, <1>3, <1>4, <1>5 DEF IndInv, TypeOK
<1>7. WorkerHoldsBatch' /\ NoLostWakeup'
  BY <1>2, <1>3, <1>4 DEF IndInv, WorkerHoldsBatch, NoLostWakeup
<1>8. QueuedIds' = QueuedIds /\ IdsDistinct'
  BY <1>2 DEF QueuedIds, IdsDistinct, IndInv, IdsConsistent
<1>9. IdsConsistent'
  BY <1>4, <1>8 DEF IndInv, IdsConsistent
<1> QED
  BY <1>6, <1>7, <1>9 DEF IndInv

(* Moving on to the next task keeps the worker and its batch in step. *)
LEMMA NextTaskKeeps ==
  ASSUME TypeOK, batch # <<>>, NextTask
  PROVE  /\ batch' \in Seq(Task) /\ worker' \in {"epoll", "check"}
         /\ WorkerHoldsBatch'
<1>1. /\ batch' \in Seq(Task) /\ Len(batch') = Len(batch) - 1
      /\ Len(batch) \in Nat \ {0}
  BY HeadTailProperties, EmptySeq DEF TypeOK, NextTask
<1>2. batch' = <<>> <=> Len(batch) = 1
  <2>1. batch' # <<>> => Len(batch') \in Nat \ {0}
    BY <1>1, EmptySeq, Zenon
  <2>2. batch' = <<>> => Len(batch') = 0
    BY EmptySeq
  <2> QED
    BY <1>1, <2>1, <2>2
<1> QED
  BY <1>1, <1>2 DEF NextTask, WorkerHoldsBatch

(* A step that leaves the queue, the pool and the pipe alone, and does not
   bring the worker to or from the popping of tasks. *)
LEMMA QueueUntouchedKeeps ==
  ASSUME IndInv, UNCHANGED queueVars, worker # "pop", WorkerHoldsBatch', TypeOK'
  PROVE  IndInv'
<1>1. tasks' = tasks /\ seed' = seed /\ freeIds' = freeIds /\ pipe' = pipe
  BY DEF queueVars
<1>2. QueuedIds' = QueuedIds
  BY <1>1 DEF QueuedIds
<1>3. IdsConsistent'
  BY <1>1, <1>2 DEF IndInv, IdsConsistent, IdsDistinct
<1>4. Len(tasks) \in Nat
  BY LenProperties DEF IndInv, TypeOK
<1>5. NoLostWakeup'
  BY <1>1, <1>4 DEF IndInv, NoLostWakeup, TypeOK
<1> QED
  BY <1>3, <1>5 DEF IndInv

LEMMA PosterStepKeeps ==
  ASSUME IndInv, NEW c \in Clients, PosterStep(c)
  PROVE  IndInv'
<1> USE DEF IndInv
<1>1. ASSUME PushTask(c, TRUE) \/ PushTask(c, FALSE), UNCHANGED workerVars,
             undefined' = undefined, poster' \in [Clients -> PosterAt],
             promise' \in [Clients -> {"none", "unset", "set"}], ran' \in [Clients -> BOOLEAN]
      PROVE  IndInv'
  <2>1. /\ tasks' \in Seq(Task) /\ seed' \in Nat \ {0} /\ freeIds' \in SUBSET Int
        /\ pipe' \in 0..PipeCapacity
        /\ Len(tasks') = Len(tasks) + 1 /\ pipe' = pipe + 1
        /\ IdsConsistent'
    BY <1>1, PushKeeps
  <2>2. batch' = batch /\ worker' = worker
    BY <1>1 DEF workerVars
  <2>3. Len(tasks) \in Nat
    BY LenProperties DEF TypeOK
  <2>4. TypeOK' /\ WorkerHoldsBatch' /\ NoLostWakeup'
    BY <1>1, <2>1, <2>2, <2>3 DEF TypeOK, WorkerHoldsBatch, NoLostWakeup
  <2> QED
    BY <2>1, <2>4
<1>2. ASSUME RefusePipe \/ RefuseFull, UNCHANGED <<workerVars, posterVars, undefined>>
      PROVE  IndInv'
  <2>1. seed' \in Nat \ {0} /\ freeIds' \in SUBSET Int
        /\ tasks' = tasks /\ pipe' = pipe /\ IdsConsistent'
    <3>1. CASE RefusePipe
      BY <3>1, RefusePipeKeeps
    <3>2. CASE RefuseFull
      BY <3>2 DEF RefuseFull, queueVars, TypeOK, IdsConsistent, IdsDistinct, QueuedIds
    <3> QED BY <1>2, <3>1, <3>2
  <2>2. batch' = batch /\ worker' = worker /\ poster' = poster /\ promise' = promise
        /\ ran' = ran /\ undefined' = undefined
    BY <1>2 DEF workerVars, posterVars
  <2>3. TypeOK' /\ WorkerHoldsBatch' /\ NoLostWakeup'
    BY <2>1, <2>2 DEF TypeOK, WorkerHoldsBatch, NoLostWakeup
  <2> QED
    BY <2>1, <2>3
<1>3. CASE PostSyncTask(c)
  <2>1. CASE PushTask(c, TRUE)
             /\ poster' = [poster EXCEPT ![c] = "waiting"]
             /\ promise' = [promise EXCEPT ![c] = "unset"]
             /\ ran' = [ran EXCEPT ![c] = FALSE]
    <3>1. poster' \in [Clients -> PosterAt] /\ ran' \in [Clients -> BOOLEAN]
          /\ promise' \in [Clients -> {"none", "unset", "set"}]
      BY <2>1 DEF TypeOK, PosterAt
    <3> QED BY <1>1, <1>3, <2>1, <3>1 DEF PostSyncTask
  <2>2. CASE (RefusePipe \/ RefuseFull) /\ UNCHANGED posterVars
    BY <1>2, <1>3, <2>2 DEF PostSyncTask
  <2> QED BY <1>3, <2>1, <2>2 DEF PostSyncTask
<1>4. CASE PostAsyncTask(c)
  <2>1. CASE PushTask(c, FALSE)
    BY <1>1, <1>4, <2>1 DEF PostAsyncTask, posterVars, TypeOK
  <2>2. CASE RefusePipe \/ RefuseFull
    BY <1>2, <1>4, <2>2 DEF PostAsyncTask
  <2> QED BY <1>4, <2>1, <2>2 DEF PostAsyncTask
<1>5. CASE WaitReady(c) \/ WaitTimeout(c)
  <2>1. TypeOK' /\ WorkerHoldsBatch' /\ NoLostWakeup'
    BY <1>5 DEF WaitReady, WaitTimeout, queueVars, workerVars, TypeOK, PosterAt,
                WorkerHoldsBatch, NoLostWakeup
  <2>2. IdsConsistent'
    BY <1>5 DEF WaitReady, WaitTimeout, queueVars, IdsConsistent, IdsDistinct, QueuedIds
  <2> QED BY <2>1, <2>2
<1>6. CASE Leave(c)
  BY <1>6, LeaveKeeps
<1> QED
  BY <1>3, <1>4, <1>5, <1>6 DEF PosterStep

LEMMA WorkerStepKeeps ==
  ASSUME IndInv, WorkerStep \/ StopThread
  PROVE  IndInv'
<1> USE DEF IndInv
<1>1. CASE StartThread \/ StopThread \/ StartCallback
  <2>1. UNCHANGED <<queueVars, batch, posterVars, undefined>> /\ worker # "pop"
        /\ worker' \in WorkerAt /\ WorkerHoldsBatch'
    BY <1>1 DEF StartThread, StopThread, StartCallback, WorkerAt, WorkerHoldsBatch
  <2>2. TypeOK'
    BY <2>1 DEF queueVars, posterVars, TypeOK
  <2> QED BY <2>1, <2>2, QueueUntouchedKeeps
<1>2. CASE ReadRecord
  <2>1. TypeOK' /\ WorkerHoldsBatch'
    <3>1. pipe' \in 0..PipeCapacity
      BY <1>2, LimitsAssumption DEF ReadRecord, TypeOK
    <3> QED
      BY <1>2, <3>1 DEF ReadRecord, posterVars, TypeOK, WorkerAt, WorkerHoldsBatch
  <2>2. Len(tasks) \in Nat
    BY LenProperties DEF TypeOK
  <2>3. NoLostWakeup'
    BY <1>2, <2>2 DEF ReadRecord, NoLostWakeup, TypeOK
  <2>4. IdsConsistent'
    BY <1>2 DEF ReadRecord, IdsConsistent, IdsDistinct, QueuedIds
  <2> QED BY <2>1, <2>3, <2>4
<1>3. CASE PopPendingTaskList
  <2>1. /\ tasks' \in Seq(Task) /\ batch' \in Seq(Task) /\ freeIds' \in SUBSET Int
        /\ Len(tasks') = Len(tasks) - PopCount
        /\ PopCount \in 0..Len(tasks) /\ (Len(tasks) > 0 => PopCount > 0)
        /\ (batch' = <<>> <=> PopCount = 0)
        /\ IdsConsistent'
    BY <1>3, PopKeeps
  <2>2. UNCHANGED <<seed, pipe, posterVars, undefined>> /\ worker = "pop"
        /\ worker' = IF PopCount = 0 THEN "epoll" ELSE "check"
    BY <1>3 DEF PopPendingTaskList
  <2>3. Len(tasks) \in Nat
    BY LenProperties DEF TypeOK
  <2>4. TypeOK' /\ WorkerHoldsBatch'
    BY <2>1, <2>2 DEF TypeOK, posterVars, WorkerAt, WorkerHoldsBatch
  <2>5. NoLostWakeup'
    BY <2>1, <2>2, <2>3 DEF TypeOK, NoLostWakeup
  <2> QED BY <2>1, <2>4, <2>5
<1>4. CASE DiscardExpired
  <2>1. NextTask /\ batch # <<>> /\ UNCHANGED <<queueVars, posterVars, undefined>>
        /\ worker # "pop"
    BY <1>4 DEF DiscardExpired, WorkerHoldsBatch
  <2>2. batch' \in Seq(Task) /\ worker' \in {"epoll", "check"} /\ WorkerHoldsBatch'
    BY <2>1, NextTaskKeeps
  <2>3. TypeOK'
    BY <2>1, <2>2 DEF TypeOK, queueVars, posterVars, WorkerAt
  <2> QED BY <2>1, <2>2, <2>3, QueueUntouchedKeeps
<1>5. CASE FinishCallback
  <2>1. batch # <<>> /\ worker # "pop" /\ worker' = "ran" /\ UNCHANGED <<queueVars, batch, poster, promise>>
    BY <1>5 DEF FinishCallback, WorkerHoldsBatch
  <2>2. Head(batch) \in Task
    BY <2>1, HeadTailProperties DEF TypeOK
  <2> DEFINE t == Head(batch)
  <2>3. ran' \in [Clients -> BOOLEAN]
    <3>1. ran' = IF t.sync /\ ~t.waited THEN [ran EXCEPT ![t.client] = TRUE] ELSE ran
      BY <1>5 DEF FinishCallback
    <3> HIDE DEF t
    <3> QED BY <3>1 DEF TypeOK
  <2>4. undefined' \in BOOLEAN
    BY <1>5 DEF FinishCallback
  <2>5. TypeOK' /\ WorkerHoldsBatch'
    BY <2>1, <2>3, <2>4 DEF TypeOK, queueVars, WorkerAt, WorkerHoldsBatch
  <2> QED BY <2>1, <2>5, QueueUntouchedKeeps
<1>6. CASE DecideAnswer
  <2>1. batch # <<>> /\ UNCHANGED <<queueVars, posterVars, undefined>> /\ worker # "pop"
        /\ ((worker' = "set" /\ UNCHANGED batch) \/ NextTask)
    BY <1>6 DEF DecideAnswer, WorkerHoldsBatch
  <2>2. batch' \in Seq(Task) /\ worker' \in WorkerAt /\ WorkerHoldsBatch'
    <3>1. CASE NextTask
      BY <2>1, <3>1, NextTaskKeeps DEF WorkerAt
    <3>2. CASE worker' = "set" /\ UNCHANGED batch
      BY <2>1, <3>2 DEF WorkerAt, WorkerHoldsBatch, TypeOK
    <3> QED BY <2>1, <3>1, <3>2
  <2>3. TypeOK'
    BY <2>1, <2>2 DEF TypeOK, queueVars, posterVars
  <2> QED BY <2>1, <2>2, <2>3, QueueUntouchedKeeps
<1>7. CASE SetValue \/ SetValueDangling
  <2>1. batch # <<>> /\ NextTask /\ UNCHANGED <<queueVars, poster, ran>> /\ worker # "pop"
    BY <1>7 DEF SetValue, SetValueDangling, WorkerHoldsBatch
  <2>2. batch' \in Seq(Task) /\ worker' \in {"epoll", "check"} /\ WorkerHoldsBatch'
    BY <2>1, NextTaskKeeps
  <2>3. promise' \in [Clients -> {"none", "unset", "set"}] /\ undefined' \in BOOLEAN
    BY <1>7 DEF SetValue, SetValueDangling, TypeOK
  <2>4. TypeOK'
    BY <2>1, <2>2, <2>3 DEF TypeOK, queueVars, WorkerAt
  <2> QED BY <2>1, <2>2, <2>4, QueueUntouchedKeeps
<1>8. CASE Abort
  <2>1. Init'
    BY <1>8 DEF Abort, Init
  <2> QED BY <2>1, InitIndInv, PTL
<1> QED
  BY <1>1, <1>2, <1>3, <1>4, <1>5, <1>6, <1>7, <1>8 DEF WorkerStep

LEMMA StutterKeeps ==
  ASSUME IndInv, UNCHANGED vars
  PROVE  IndInv'
BY DEF vars, queueVars, workerVars, posterVars, IndInv, TypeOK, WorkerHoldsBatch, NoLostWakeup,
       IdsConsistent, IdsDistinct, QueuedIds

-----------------------------------------------------------------------------
(* The invariant of the whole component, for every number of binder threads
   and every value of the limits. *)
THEOREM InductiveInvariant == Spec => []IndInv
<1>1. Init => IndInv
  BY InitIndInv
<1>2. IndInv /\ [Next]_vars => IndInv'
  BY PosterStepKeeps, WorkerStepKeeps, StutterKeeps DEF Next
<1> QED
  BY <1>1, <1>2, PTL DEF Spec

(* The state of DelegateTasks, of the id factory, the pipe and the posters
   keeps its type. *)
THEOREM TypeCorrect == Spec => []TypeOK
BY InductiveInvariant, PTL DEF IndInv

(* PostTask writes its record under the mutex before the task is visible,
   and OnDelegateTask takes one record per wakeup: at every moment at least
   as many records are in the pipe as tasks are queued, less the one the
   worker has read and is about to act on. *)
THEOREM WakeupsCoverTasks == Spec => []NoLostWakeup
BY InductiveInvariant, PTL DEF IndInv

(* IdFactory never hands out an id that a queued task still carries, loses
   none, and is never exhausted by this client. *)
THEOREM IdsAreConsistent == Spec => []IdsConsistent
BY InductiveInvariant, PTL DEF IndInv
-----------------------------------------------------------------------------
(* DelegateTasks implements CallQueue, and a caller that is handed a value
   is handed the one of its own call.  Both are about the line of calls that
   the popped batch and the queue form together.  Most steps leave the line
   alone, popping only moves the border inside it, and the others append one
   task, take the first away or mark some of them: the lemmas say which does
   what. *)

Line == batch \o tasks

(* The calls of the abstract queue that a sequence of tasks stands for. *)
CallOf(t) == [client |-> t.client, sync |-> t.sync, expired |-> t.waited]
Calls(q) == [i \in DOMAIN q |-> CallOf(q[i])]

LEMMA LineType ==
  ASSUME TypeOK
  PROVE  /\ Line \in Seq(Task)
         /\ Len(Line) = Len(batch) + Len(tasks)
         /\ DOMAIN Line = 1..Len(Line)
         /\ batch # <<>> => Line # <<>> /\ Head(Line) = Head(batch)
<1>1. batch \in Seq(Task) /\ tasks \in Seq(Task) /\ Len(batch) \in Nat /\ Len(tasks) \in Nat
  BY LenProperties DEF TypeOK
<1>2. /\ Line \in Seq(Task) /\ Len(Line) = Len(batch) + Len(tasks)
      /\ \A i \in 1..(Len(batch) + Len(tasks)) :
           Line[i] = IF i <= Len(batch) THEN batch[i] ELSE tasks[i - Len(batch)]
  BY <1>1, ConcatProperties DEF Line
<1>3. DOMAIN Line = 1..Len(Line)
  BY <1>2, LenProperties
<1>4. ASSUME batch # <<>> PROVE Line # <<>> /\ Head(Line) = Head(batch)
  <2>1. Len(batch) \in Nat \ {0}
    BY <1>1, <1>4, EmptySeq
  <2>2. Len(Line) # 0 /\ Line[1] = batch[1]
    BY <1>1, <1>2, <2>1
  <2>3. Line # <<>>
    BY <1>2, <2>2, EmptySeq
  <2> QED
    BY <1>1, <1>2, <1>4, <2>2, <2>3, HeadTailProperties
<1> QED
  BY <1>2, <1>3, <1>4

(* A task that is posted goes to the end of the line. *)
LEMMA PushExtendsLine ==
  ASSUME TypeOK, NEW c \in Clients, NEW sync \in BOOLEAN, PushTask(c, sync), batch' = batch,
         IdsConsistent
  PROVE  \E id \in Int :
           Line' = Append(Line, [id |-> id, client |-> c, sync |-> sync, waited |-> FALSE])
<1>1. PICK id \in GeneratedIds :
        tasks' = Append(tasks, [id |-> id, client |-> c, sync |-> sync, waited |-> FALSE])
  BY DEF PushTask
<1> DEFINE t == [id |-> id, client |-> c, sync |-> sync, waited |-> FALSE]
<1>2. id \in Int
  BY GeneratedIdIsFree DEF PushTask
<1>3. t \in Task
  BY <1>2 DEF Task
<1>4. batch \in Seq(Task) /\ tasks \in Seq(Task)
  BY DEF TypeOK
<1>5. batch \o Append(tasks, t) = Append(batch \o tasks, t)
  <2> HIDE DEF t
  <2>1. batch \o tasks \in Seq(Task) /\ <<t>> \in Seq(Task)
    BY <1>3, <1>4, ConcatProperties
  <2>2. /\ Append(tasks, t) = tasks \o <<t>>
        /\ Append(batch \o tasks, t) = (batch \o tasks) \o <<t>>
    BY <1>3, <1>4, <2>1, AppendIsConcat
  <2> QED
    BY <1>4, <2>1, <2>2, ConcatAssociative
<1> QED
  BY <1>1, <1>2, <1>5 DEF Line

(* Popping moves tasks from the queue into the empty batch, in order. *)
LEMMA PopKeepsLine ==
  ASSUME TypeOK, batch = <<>>, PopPendingTaskList
  PROVE  Line' = Line
<1> DEFINE n == Len(tasks)
           k == PopCount
<1>1. tasks \in Seq(Task) /\ n \in Nat
  BY LenProperties DEF TypeOK
<1>2. k \in 0..n
  BY <1>1, LimitsAssumption DEF PopCount
<1>3. tasks' = SubSeq(tasks, k + 1, n) /\ batch' = SubSeq(tasks, 1, k)
  BY DEF PopPendingTaskList
<1> HIDE DEF k
<1>4. SubSeq(tasks, 1, k) \o SubSeq(tasks, k + 1, n) = SubSeq(tasks, 1, n)
  <2>1. 1 \in 1..Len(tasks) + 1 /\ k \in 1 - 1..Len(tasks) /\ n \in k..Len(tasks)
    BY <1>1, <1>2
  <2> QED
    BY ONLY <1>1, <2>1, ConcatAdjacentSubSeq, Zenon
<1>5. SubSeq(tasks, 1, n) = tasks
  BY <1>1, SubSeqFull
<1>6. batch' \o tasks' = tasks
  BY <1>3, <1>4, <1>5
<1>7. batch \o tasks = tasks
  BY <1>1, ConcatEmptySeq
<1> QED
  BY <1>6, <1>7 DEF Line

(* Going on to the next task takes the first one out of the line. *)
LEMMA NextTaskShortensLine ==
  ASSUME TypeOK, batch # <<>>, NextTask, tasks' = tasks
  PROVE  Line' = Tail(Line)
<1>1. /\ batch \in Seq(Task) /\ tasks \in Seq(Task) /\ Len(batch) \in Nat \ {0}
      /\ Len(tasks) \in Nat
  BY LenProperties, EmptySeq DEF TypeOK
<1>2. /\ batch' \in Seq(Task) /\ Len(batch') = Len(batch) - 1
      /\ \A i \in 1..(Len(batch) - 1) : batch'[i] = batch[i + 1]
  BY <1>1, HeadTailProperties DEF NextTask
<1>3. /\ Line' \in Seq(Task) /\ Len(Line') = Len(batch) - 1 + Len(tasks)
      /\ \A i \in 1..(Len(batch) - 1 + Len(tasks)) :
           Line'[i] = IF i <= Len(batch) - 1 THEN batch[i + 1] ELSE tasks[i - (Len(batch) - 1)]
  BY <1>1, <1>2, ConcatProperties DEF Line
<1>4. /\ Line \in Seq(Task) /\ Line # <<>> /\ Len(Line) = Len(batch) + Len(tasks)
      /\ \A i \in 1..(Len(batch) + Len(tasks)) :
           Line[i] = IF i <= Len(batch) THEN batch[i] ELSE tasks[i - Len(batch)]
  BY <1>1, LineType, ConcatProperties DEF Line
<1>5. /\ Tail(Line) \in Seq(Task) /\ Len(Tail(Line)) = Len(batch) + Len(tasks) - 1
      /\ \A i \in 1..(Len(batch) + Len(tasks) - 1) : Tail(Line)[i] = Line[i + 1]
  BY <1>1, <1>4, HeadTailProperties
<1>6. \A i \in 1..(Len(batch) - 1 + Len(tasks)) : Line'[i] = Tail(Line)[i]
  <2> SUFFICES ASSUME NEW i \in 1..(Len(batch) - 1 + Len(tasks)) PROVE Line'[i] = Tail(Line)[i]
    OBVIOUS
  <2>1. i + 1 \in 1..(Len(batch) + Len(tasks)) /\ i \in 1..(Len(batch) + Len(tasks) - 1)
        /\ i \in 1..(Len(batch) - 1 + Len(tasks)) /\ i \in Int
    BY <1>1
  <2>2. Tail(Line)[i] = IF i + 1 <= Len(batch) THEN batch[i + 1] ELSE tasks[i + 1 - Len(batch)]
    BY <1>4, <1>5, <2>1
  <2>3. Line'[i] = IF i <= Len(batch) - 1 THEN batch[i + 1] ELSE tasks[i - (Len(batch) - 1)]
    BY <1>3, <2>1
  <2>4. (i <= Len(batch) - 1 <=> i + 1 <= Len(batch)) /\ i - (Len(batch) - 1) = i + 1 - Len(batch)
    BY <1>1, <2>1
  <2>5. CASE i + 1 <= Len(batch)
    BY ONLY <2>2, <2>3, <2>4, <2>5, Zenon
  <2>6. CASE ~(i + 1 <= Len(batch))
    BY ONLY <2>2, <2>3, <2>4, <2>6, Zenon
  <2> QED
    BY <2>5, <2>6
<1> QED
  BY <1>1, <1>3, <1>5, <1>6, SeqEqual

(* SetWaited on a poster's tasks marks the same places of the line. *)
LEMMA LeaveMarksLine ==
  ASSUME TypeOK, NEW c \in Clients, Leave(c)
  PROVE  Line' = MarkWaited(c, Line)
<1>1. batch \in Seq(Task) /\ tasks \in Seq(Task) /\ Len(batch) \in Nat /\ Len(tasks) \in Nat
      /\ DOMAIN batch = 1..Len(batch) /\ DOMAIN tasks = 1..Len(tasks)
  BY LenProperties DEF TypeOK
<1>2. tasks' = MarkWaited(c, tasks) /\ batch' = MarkWaited(c, batch)
  BY DEF Leave
<1>3. /\ Line \in Seq(Task) /\ Len(Line) = Len(batch) + Len(tasks) /\ DOMAIN Line = 1..Len(Line)
      /\ \A i \in 1..(Len(batch) + Len(tasks)) :
           Line[i] = IF i <= Len(batch) THEN batch[i] ELSE tasks[i - Len(batch)]
  BY <1>1, LineType, ConcatProperties DEF Line
<1>4. /\ batch' \in Seq(Task) /\ Len(batch') = Len(batch)
      /\ tasks' \in Seq(Task) /\ Len(tasks') = Len(tasks)
      /\ MarkWaited(c, Line) \in Seq(Task) /\ Len(MarkWaited(c, Line)) = Len(Line)
  BY <1>1, <1>2, <1>3, MarkWaitedKeeps
<1>5. /\ Line' \in Seq(Task) /\ Len(Line') = Len(batch) + Len(tasks)
      /\ \A i \in 1..(Len(batch) + Len(tasks)) :
           Line'[i] = IF i <= Len(batch) THEN batch'[i] ELSE tasks'[i - Len(batch)]
  <2>1. Line' = batch' \o tasks'
    BY DEF Line
  <2>2. /\ batch' \o tasks' \in Seq(Task) /\ Len(batch' \o tasks') = Len(batch') + Len(tasks')
        /\ \A i \in 1..(Len(batch') + Len(tasks')) : (batch' \o tasks')[i] =
             IF i <= Len(batch') THEN batch'[i] ELSE tasks'[i - Len(batch')]
    BY ONLY <1>4, ConcatProperties, Zenon
  <2> QED
    BY <1>4, <2>1, <2>2
<1>6. ASSUME NEW i \in 1..(Len(batch) + Len(tasks))
      PROVE  Line'[i] = MarkWaited(c, Line)[i]
  <2>1. CASE i <= Len(batch)
    <3>1. i \in DOMAIN batch /\ i \in DOMAIN Line /\ Line[i] = batch[i] /\ Line'[i] = batch'[i]
      BY <1>1, <1>3, <1>5, <2>1
    <3> QED BY <1>2, <3>1 DEF MarkWaited
  <2>2. CASE i > Len(batch)
    <3> DEFINE j == i - Len(batch)
    <3>1. j \in DOMAIN tasks /\ i \in DOMAIN Line /\ Line[i] = tasks[j] /\ Line'[i] = tasks'[j]
      BY <1>1, <1>3, <1>5, <2>2
    <3> HIDE DEF j
    <3> QED BY <1>2, <3>1 DEF MarkWaited
  <2> QED BY <1>1, <2>1, <2>2
<1> QED
  BY <1>3, <1>4, <1>5, <1>6, SeqEqual

-----------------------------------------------------------------------------
(* The abstract queue under the mapping: pending is the line. *)

Serving == worker \in {"run", "ran", "set"}

LEMMA PendingIsLine ==
  /\ CQ!cqVars = <<Calls(Line), Serving>>
  /\ CQ!cqVars' = <<Calls(Line'), Serving'>>
BY DEF CQ!cqVars, Calls, CallOf, Line, Serving

(* How the calls follow the line. *)
LEMMA CallsOf ==
  ASSUME NEW q \in Seq(Task)
  PROVE  /\ Calls(q) \in Seq(CQ!Call) /\ Len(Calls(q)) = Len(q) /\ DOMAIN Calls(q) = 1..Len(q)
         /\ \A i \in 1..Len(q) : Calls(q)[i] = CallOf(q[i])
         /\ q # <<>> => Calls(q) # <<>> /\ Head(Calls(q)).expired = Head(q).waited
<1>1. q \in [1..Len(q) -> Task] /\ Len(q) \in Nat /\ DOMAIN q = 1..Len(q)
  BY LenProperties
<1>2. \A t \in Task : CallOf(t) \in CQ!Call
  BY DEF Task, CallOf, CQ!Call
<1>3. Calls(q) \in [1..Len(q) -> CQ!Call] /\ \A i \in 1..Len(q) : Calls(q)[i] = CallOf(q[i])
  <2> HIDE DEF CallOf
  <2> QED BY <1>1, <1>2 DEF Calls
<1>4. Calls(q) \in Seq(CQ!Call) /\ DOMAIN Calls(q) = 1..Len(q)
  BY <1>1, <1>3, SeqDef
<1>5. Len(Calls(q)) = Len(q)
  BY <1>1, <1>4, LenProperties
<1>6. ASSUME q # <<>> PROVE Calls(q) # <<>> /\ Head(Calls(q)).expired = Head(q).waited
  <2>1. Len(q) \in Nat \ {0}
    BY <1>1, <1>6, EmptySeq
  <2>2. Calls(q) # <<>>
    BY <1>4, <1>5, <2>1, EmptySeq
  <2>3. Head(Calls(q)) = Calls(q)[1] /\ Head(q) = q[1]
    BY <1>4, <1>5, <1>6, <2>1, <2>2
  <2> QED
    BY <1>3, <2>1, <2>2, <2>3 DEF CallOf
<1> QED
  BY <1>3, <1>4, <1>5, <1>6

LEMMA CallsOfTail ==
  ASSUME NEW q \in Seq(Task), q # <<>>
  PROVE  Calls(Tail(q)) = Tail(Calls(q))
<1>1. Len(q) \in Nat \ {0}
  BY LenProperties, EmptySeq
<1>2. /\ Tail(q) \in Seq(Task) /\ Len(Tail(q)) = Len(q) - 1
      /\ \A i \in 1..(Len(q) - 1) : Tail(q)[i] = q[i + 1]
  BY <1>1, HeadTailProperties
<1>3. /\ Calls(q) \in Seq(CQ!Call) /\ Len(Calls(q)) = Len(q) /\ Calls(q) # <<>>
      /\ \A i \in 1..Len(q) : Calls(q)[i] = CallOf(q[i])
  BY CallsOf
<1>4. /\ Tail(Calls(q)) \in Seq(CQ!Call) /\ Len(Tail(Calls(q))) = Len(q) - 1
      /\ \A i \in 1..(Len(q) - 1) : Tail(Calls(q))[i] = Calls(q)[i + 1]
  BY <1>1, <1>3, HeadTailProperties
<1>5. /\ Calls(Tail(q)) \in Seq(CQ!Call) /\ Len(Calls(Tail(q))) = Len(q) - 1
      /\ \A i \in 1..(Len(q) - 1) : Calls(Tail(q))[i] = CallOf(Tail(q)[i])
  BY <1>2, CallsOf
<1>6. \A i \in 1..(Len(q) - 1) : Calls(Tail(q))[i] = Tail(Calls(q))[i]
  <2> SUFFICES ASSUME NEW i \in 1..(Len(q) - 1) PROVE Calls(Tail(q))[i] = Tail(Calls(q))[i]
    OBVIOUS
  <2>1. i + 1 \in 1..Len(q)
    BY <1>1
  <2> QED BY <1>2, <1>3, <1>4, <1>5, <2>1, Zenon
<1> QED
  BY <1>4, <1>5, <1>6, SeqEqual

LEMMA CallsOfAppend ==
  ASSUME NEW q \in Seq(Task), NEW t \in Task
  PROVE  Calls(Append(q, t)) = Append(Calls(q), CallOf(t))
<1>1. Len(q) \in Nat
  BY LenProperties
<1>2. /\ Append(q, t) \in Seq(Task) /\ Len(Append(q, t)) = Len(q) + 1
      /\ \A i \in 1..Len(q) : Append(q, t)[i] = q[i]
      /\ Append(q, t)[Len(q) + 1] = t
  BY AppendProperties
<1>3. /\ Calls(q) \in Seq(CQ!Call) /\ Len(Calls(q)) = Len(q)
      /\ \A i \in 1..Len(q) : Calls(q)[i] = CallOf(q[i])
  BY CallsOf
<1>4. CallOf(t) \in CQ!Call
  BY DEF Task, CallOf, CQ!Call
<1>5. /\ Append(Calls(q), CallOf(t)) \in Seq(CQ!Call)
      /\ Len(Append(Calls(q), CallOf(t))) = Len(q) + 1
      /\ \A i \in 1..Len(q) : Append(Calls(q), CallOf(t))[i] = Calls(q)[i]
      /\ Append(Calls(q), CallOf(t))[Len(q) + 1] = CallOf(t)
  BY <1>3, <1>4, AppendProperties
<1>6. /\ Calls(Append(q, t)) \in Seq(CQ!Call) /\ Len(Calls(Append(q, t))) = Len(q) + 1
      /\ \A i \in 1..(Len(q) + 1) : Calls(Append(q, t))[i] = CallOf(Append(q, t)[i])
  BY <1>2, CallsOf
<1>7. \A i \in 1..(Len(q) + 1) : Calls(Append(q, t))[i] = Append(Calls(q), CallOf(t))[i]
  <2> SUFFICES ASSUME NEW i \in 1..(Len(q) + 1)
               PROVE  Calls(Append(q, t))[i] = Append(Calls(q), CallOf(t))[i]
    OBVIOUS
  <2>1. i \in 1..Len(q) \/ i = Len(q) + 1
    BY <1>1
  <2> QED BY <1>2, <1>3, <1>5, <1>6, <2>1, Zenon
<1> QED
  BY <1>5, <1>6, <1>7, SeqEqual

LEMMA ExpiredCall ==
  ASSUME NEW r \in CQ!Call
  PROVE  [r EXCEPT !.expired = TRUE] =
           [client |-> r.client, sync |-> r.sync, expired |-> TRUE]
<1> DEFINE x == [r EXCEPT !.expired = TRUE]
           y == [client |-> r.client, sync |-> r.sync, expired |-> TRUE]
<1>1. x \in CQ!Call /\ x.client = r.client /\ x.sync = r.sync /\ x.expired = TRUE
  BY DEF CQ!Call
<1>2. y \in CQ!Call /\ y.client = r.client /\ y.sync = r.sync /\ y.expired = TRUE
  BY DEF CQ!Call
<1> HIDE DEF x, y
<1> QED BY <1>1, <1>2 DEF CQ!Call

(* Marking a poster's tasks is what CallQueue calls Expire. *)
LEMMA CallsOfMarked ==
  ASSUME NEW q \in Seq(Task), NEW c \in Clients
  PROVE  Calls(MarkWaited(c, q)) =
           [i \in DOMAIN Calls(q) |->
              IF Calls(q)[i].client = c /\ Calls(q)[i].sync
              THEN [Calls(q)[i] EXCEPT !.expired = TRUE]
              ELSE Calls(q)[i]]
<1>1. q \in [1..Len(q) -> Task] /\ DOMAIN q = 1..Len(q) /\ DOMAIN MarkWaited(c, q) = 1..Len(q)
  BY LenProperties, MarkWaitedKeeps
<1>2. DOMAIN Calls(q) = 1..Len(q) /\ \A i \in 1..Len(q) : Calls(q)[i] = CallOf(q[i])
  BY CallsOf
<1>3. ASSUME NEW i \in 1..Len(q)
      PROVE  CallOf(MarkWaited(c, q)[i]) =
               IF Calls(q)[i].client = c /\ Calls(q)[i].sync
               THEN [Calls(q)[i] EXCEPT !.expired = TRUE]
               ELSE Calls(q)[i]
  <2>1. q[i] \in Task /\ Calls(q)[i] = CallOf(q[i])
    BY <1>1, <1>2
  <2>2. MarkWaited(c, q)[i] = IF q[i].client = c /\ q[i].sync
                              THEN [q[i] EXCEPT !.waited = TRUE] ELSE q[i]
    BY <1>1 DEF MarkWaited
  <2>3. Calls(q)[i].client = q[i].client /\ Calls(q)[i].sync = q[i].sync
    BY <2>1 DEF CallOf
  <2>4. CASE q[i].client = c /\ q[i].sync
    <3>1. /\ [q[i] EXCEPT !.waited = TRUE].client = q[i].client
          /\ [q[i] EXCEPT !.waited = TRUE].sync = q[i].sync
          /\ [q[i] EXCEPT !.waited = TRUE].waited = TRUE
      BY <2>1 DEF Task
    <3>2. CallOf(MarkWaited(c, q)[i]) = [CallOf(q[i]) EXCEPT !.expired = TRUE]
      <4>1. CallOf(MarkWaited(c, q)[i]) =
              [client |-> q[i].client, sync |-> q[i].sync, expired |-> TRUE]
        BY <2>2, <2>4, <3>1, Zenon DEF CallOf
      <4>2. [CallOf(q[i]) EXCEPT !.expired = TRUE] =
              [client |-> q[i].client, sync |-> q[i].sync, expired |-> TRUE]
        <5>1. /\ CallOf(q[i]) \in CQ!Call
              /\ CallOf(q[i]).client = q[i].client /\ CallOf(q[i]).sync = q[i].sync
          BY <2>1 DEF CallOf, Task, CQ!Call
        <5> QED BY <5>1, ExpiredCall, Zenon
      <4> QED BY <4>1, <4>2, Zenon
    <3> QED BY <2>1, <2>3, <2>4, <3>2, Zenon
  <2>5. CASE ~(q[i].client = c /\ q[i].sync)
    BY <2>1, <2>2, <2>3, <2>5, Zenon
  <2> QED BY <2>4, <2>5
<1>4. Calls(MarkWaited(c, q)) = [i \in 1..Len(q) |-> CallOf(MarkWaited(c, q)[i])]
  BY <1>1 DEF Calls
<1> QED
  BY <1>2, <1>3, <1>4

-----------------------------------------------------------------------------
(* What each step of the program does to the line and to the worker. *)

(* Every step is one of these six, seen from the line. *)
LineStep ==
  \/ UNCHANGED <<Line, Serving>>
  \/ \E c \in Clients, sync \in BOOLEAN, id \in Int :
       /\ Line' = Append(Line, [id |-> id, client |-> c, sync |-> sync, waited |-> FALSE])
       /\ Serving' = Serving
  \/ \E c \in Clients : Line' = MarkWaited(c, Line) /\ Serving' = Serving
  \/ Line # <<>> /\ ~Serving /\ ~Head(Line).waited /\ Serving' /\ Line' = Line
  \/ Line # <<>> /\ Serving /\ ~Serving' /\ Line' = Tail(Line)
  \/ Line # <<>> /\ ~Serving /\ Head(Line).waited /\ ~Serving' /\ Line' = Tail(Line)
  \/ Serving /\ Line' = <<>> /\ ~Serving'

LEMMA PosterLineStep ==
  ASSUME IndInv, NEW c \in Clients, PosterStep(c)
  PROVE  LineStep
<1>1. TypeOK /\ IdsConsistent
  BY DEF IndInv
<1>2. ASSUME NEW sync \in BOOLEAN, PushTask(c, sync), batch' = batch, worker' = worker
      PROVE  LineStep
  <2>1. \E id \in Int :
           Line' = Append(Line, [id |-> id, client |-> c, sync |-> sync, waited |-> FALSE])
    BY <1>1, <1>2, PushExtendsLine
  <2>2. Serving' = Serving
    BY <1>2 DEF Serving
  <2> QED BY <2>1, <2>2, Zenon DEF LineStep
<1>3. ASSUME tasks' = tasks, batch' = batch, worker' = worker
      PROVE  LineStep
  BY <1>3 DEF LineStep, Line, Serving
<1>4. CASE PostSyncTask(c)
  BY <1>2, <1>3, <1>4 DEF PostSyncTask, RefusePipe, RefuseFull, workerVars, queueVars
<1>5. CASE PostAsyncTask(c)
  BY <1>2, <1>3, <1>5 DEF PostAsyncTask, RefusePipe, RefuseFull, workerVars, queueVars
<1>6. CASE WaitReady(c) \/ WaitTimeout(c)
  BY <1>3, <1>6 DEF WaitReady, WaitTimeout, workerVars, queueVars
<1>7. CASE Leave(c)
  <2>1. Line' = MarkWaited(c, Line)
    BY <1>1, <1>7, LeaveMarksLine
  <2>2. Serving' = Serving
    BY <1>7 DEF Leave, Serving
  <2> QED BY <2>1, <2>2, Zenon DEF LineStep
<1> QED
  BY <1>4, <1>5, <1>6, <1>7 DEF PosterStep

LEMMA WorkerLineStep ==
  ASSUME IndInv, WorkerStep \/ StopThread
  PROVE  LineStep
<1>1. TypeOK /\ WorkerHoldsBatch
  BY DEF IndInv
<1>2. batch # <<>> => Line # <<>> /\ Head(Line) = Head(batch)
  BY <1>1, LineType
<1>3. ASSUME NextTask, tasks' = tasks, batch # <<>>
      PROVE  Line' = Tail(Line) /\ ~Serving'
  <2>1. Line' = Tail(Line)
    BY <1>1, <1>3, NextTaskShortensLine
  <2>2. worker' \in {"epoll", "check"}
    BY <1>1, <1>3, NextTaskKeeps
  <2> QED BY <2>1, <2>2 DEF Serving
<1>4. CASE StartThread \/ ReadRecord \/ StopThread
  BY <1>4 DEF StartThread, ReadRecord, StopThread, LineStep, Line, Serving, queueVars
<1>5. CASE PopPendingTaskList
  <2>1. batch = <<>>
    BY <1>1, <1>5 DEF PopPendingTaskList, WorkerHoldsBatch
  <2>2. Line' = Line
    BY <1>1, <1>5, <2>1, PopKeepsLine
  <2>3. Serving' = Serving
    BY <1>5 DEF PopPendingTaskList, Serving
  <2> QED BY <2>2, <2>3, Zenon DEF LineStep
<1>6. CASE DiscardExpired
  <2>1. batch # <<>> /\ ~Serving /\ Head(batch).waited /\ NextTask /\ tasks' = tasks
    BY <1>1, <1>6 DEF DiscardExpired, WorkerHoldsBatch, Serving, queueVars
  <2> QED BY <1>2, <1>3, <2>1, Zenon DEF LineStep
<1>7. CASE StartCallback
  <2>1. batch # <<>> /\ ~Serving /\ ~Head(batch).waited /\ Serving' /\ Line' = Line
    BY <1>1, <1>7 DEF StartCallback, WorkerHoldsBatch, Serving, Line, queueVars
  <2> QED BY <1>2, <2>1, Zenon DEF LineStep
<1>8. CASE FinishCallback
  <2>1. Serving /\ Serving' /\ batch' = batch /\ tasks' = tasks
    BY <1>8 DEF FinishCallback, Serving, queueVars
  <2> QED BY <2>1 DEF LineStep, Line, Serving
<1>9. CASE DecideAnswer
  <2>1. batch # <<>> /\ Serving /\ tasks' = tasks
        /\ ((worker' = "set" /\ batch' = batch) \/ NextTask)
    BY <1>1, <1>9 DEF DecideAnswer, WorkerHoldsBatch, Serving, queueVars
  <2>2. CASE NextTask
    BY <1>2, <1>3, <2>1, <2>2, Zenon DEF LineStep
  <2>3. CASE worker' = "set" /\ batch' = batch
    BY <2>1, <2>3 DEF LineStep, Line, Serving
  <2> QED BY <2>1, <2>2, <2>3
<1>10. CASE SetValue \/ SetValueDangling
  <2>1. batch # <<>> /\ Serving /\ NextTask /\ tasks' = tasks
    BY <1>1, <1>10 DEF SetValue, SetValueDangling, WorkerHoldsBatch, Serving, queueVars
  <2> QED BY <1>2, <1>3, <2>1, Zenon DEF LineStep
<1>11. CASE Abort
  <2>1. Serving /\ ~Serving' /\ batch' = <<>> /\ tasks' = <<>>
    BY <1>11 DEF Abort, Serving
  <2>2. Line' = <<>>
    BY <2>1, ConcatEmptySeq, EmptySeq DEF Line
  <2> QED BY <2>1, <2>2, Zenon DEF LineStep
<1> QED
  BY <1>4, <1>5, <1>6, <1>7, <1>8, <1>9, <1>10, <1>11 DEF WorkerStep

LEMMA EveryStepIsALineStep ==
  ASSUME IndInv, [Next]_vars
  PROVE  LineStep
<1>1. CASE UNCHANGED vars
  BY <1>1 DEF vars, queueVars, workerVars, LineStep, Line, Serving
<1> QED
  BY <1>1, PosterLineStep, WorkerLineStep DEF Next

-----------------------------------------------------------------------------
(* Batching, the pipe, the ids and the time limits are invisible: seen from
   its line of calls, every step of the program is a step of the abstract
   queue of CallQueue or none. *)
LEMMA StepIsAbstractStep ==
  ASSUME TypeOK, LineStep
  PROVE  [CQ!Next]_(CQ!cqVars)
<1>1. Line \in Seq(Task)
  BY LineType
<1>2. CASE UNCHANGED <<Line, Serving>>
  BY <1>2, PendingIsLine, Zenon
<1>3. CASE \E c \in Clients, sync \in BOOLEAN, id \in Int :
             /\ Line' = Append(Line, [id |-> id, client |-> c, sync |-> sync, waited |-> FALSE])
             /\ Serving' = Serving
  <2>1. PICK c \in Clients, sync \in BOOLEAN, id \in Int :
             /\ Line' = Append(Line, [id |-> id, client |-> c, sync |-> sync, waited |-> FALSE])
             /\ Serving' = Serving
    BY <1>3
  <2> DEFINE t == [id |-> id, client |-> c, sync |-> sync, waited |-> FALSE]
  <2>2. t \in Task /\ CallOf(t) = [client |-> c, sync |-> sync, expired |-> FALSE]
    BY DEF Task, CallOf
  <2>3. Calls(Line') = Append(Calls(Line), CallOf(t))
    <3> HIDE DEF t
    <3> QED BY <1>1, <2>1, <2>2, CallsOfAppend DEF t
  <2>4. CQ!Enqueue(c, sync)
    BY <2>1, <2>2, <2>3 DEF CQ!Enqueue, Calls, CallOf, Line, Serving
  <2> QED BY <2>4 DEF CQ!Next
<1>4. CASE \E c \in Clients : Line' = MarkWaited(c, Line) /\ Serving' = Serving
  <2>1. PICK c \in Clients : Line' = MarkWaited(c, Line) /\ Serving' = Serving
    BY <1>4
  <2>2. Calls(Line') =
           [i \in DOMAIN Calls(Line) |->
              IF Calls(Line)[i].client = c /\ Calls(Line)[i].sync
              THEN [Calls(Line)[i] EXCEPT !.expired = TRUE]
              ELSE Calls(Line)[i]]
    BY <1>1, <2>1, CallsOfMarked
  <2>3. CQ!Expire(c)
    BY <2>1, <2>2 DEF CQ!Expire, Calls, CallOf, Line, Serving
  <2> QED BY <2>3 DEF CQ!Next
<1>5. CASE Line # <<>> /\ ~Serving /\ ~Head(Line).waited /\ Serving' /\ Line' = Line
  <2>1. Calls(Line) # <<>> /\ Head(Calls(Line)).expired = Head(Line).waited
    BY <1>1, <1>5, CallsOf
  <2>2. Calls(Line') = Calls(Line)
    BY <1>5
  <2>3. CQ!Start
    BY <1>5, <2>1, <2>2 DEF CQ!Start, Calls, CallOf, Line, Serving
  <2> QED BY <2>3 DEF CQ!Next
<1>6. CASE Line # <<>> /\ Serving /\ ~Serving' /\ Line' = Tail(Line)
  <2>1. Calls(Line') = Tail(Calls(Line))
    BY <1>1, <1>6, CallsOfTail
  <2>2. CQ!Finish
    BY <1>6, <2>1 DEF CQ!Finish, Calls, CallOf, Line, Serving
  <2> QED BY <2>2 DEF CQ!Next
<1>7. CASE Line # <<>> /\ ~Serving /\ Head(Line).waited /\ ~Serving' /\ Line' = Tail(Line)
  <2>1. Calls(Line) # <<>> /\ Head(Calls(Line)).expired = Head(Line).waited
    BY <1>1, <1>7, CallsOf
  <2>2. Calls(Line') = Tail(Calls(Line))
    BY <1>1, <1>7, CallsOfTail
  <2>3. Serving' = Serving
    BY <1>7 DEF Serving
  <2>4. CQ!Drop
    BY <1>7, <2>1, <2>2, <2>3 DEF CQ!Drop, Calls, CallOf, Line, Serving
  <2> QED BY <2>4 DEF CQ!Next
<1>8. CASE Serving /\ Line' = <<>> /\ ~Serving'
  <2>1. Calls(Line') = <<>>
    BY <1>8, CallsOf, EmptySeq
  <2>2. CQ!Respawn
    BY <1>8, <2>1 DEF CQ!Respawn, Calls, CallOf, Line, Serving
  <2> QED BY <2>2 DEF CQ!Next
<1> QED
  BY <1>2, <1>3, <1>4, <1>5, <1>6, <1>7, <1>8 DEF LineStep

(* The program, with any number of binder threads and any limits, implements
   the abstract queue: calls are served one at a time, in the order in which
   they were posted, each at most once, and none is started whose poster has
   given up before. *)
THEOREM ServesCallsInOrder == Spec => ImplementsCallQueue
<1>1. Init => CQ!Init
  <2> SUFFICES ASSUME Init PROVE CQ!Init
    OBVIOUS
  <2>1. Line = <<>> /\ ~Serving
    BY ConcatEmptySeq, EmptySeq DEF Init, Line, Serving
  <2>2. Calls(Line) = <<>>
    BY <2>1, CallsOf, EmptySeq
  <2> QED BY <2>1, <2>2 DEF CQ!Init, Calls, CallOf, Line, Serving
<1>2. IndInv /\ [Next]_vars => [CQ!Next]_(CQ!cqVars)
  BY EveryStepIsALineStep, StepIsAbstractStep DEF IndInv
<1> QED
  BY <1>1, <1>2, InductiveInvariant, PTL DEF Spec, CQ!Spec, ImplementsCallQueue

-----------------------------------------------------------------------------
(* The answer of a call. *)

(* A call whose poster still waits for it: the promise it will satisfy is
   the one on the poster's stack. *)
Open(t) == t.sync /\ ~t.waited

(* Why a value can only be the one of the own call, as long as no dangling
   frame has been used: a thread has at most one open call in the line, its
   promise is unset as long as that call is there, and the worker has run
   the callback of the open call it is about to answer. *)
OneOpenCall ==
  \A i, j \in DOMAIN Line :
    Open(Line[i]) /\ Open(Line[j]) /\ Line[i].client = Line[j].client => i = j

OpenCallsWait ==
  \A i \in DOMAIN Line : Open(Line[i]) =>
    /\ poster[Line[i].client] \in {"waiting", "timedOut"}
    /\ promise[Line[i].client] = "unset"

WorkerHasRun ==
  /\ worker = "set" => Head(batch).sync
  /\ worker \in {"ran", "set"} /\ Open(Head(batch)) => ran[Head(batch).client]

SetMeansRan ==
  \A c \in Clients :
    /\ promise[c] = "set" => ran[c]
    /\ poster[c] = "ready" => promise[c] = "set"

AnswerInv ==
  undefined \/ (OneOpenCall /\ OpenCallsWait /\ WorkerHasRun /\ SetMeansRan)

LEMMA HeadIsFirst ==
  ASSUME TypeOK, batch # <<>>
  PROVE  1 \in DOMAIN Line /\ Line[1] = Head(batch) /\ Head(batch) \in Task
<1>1. Line \in Seq(Task) /\ Line # <<>> /\ Head(Line) = Head(batch) /\ DOMAIN Line = 1..Len(Line)
  BY LineType
<1>2. Len(Line) \in Nat \ {0}
  BY <1>1, EmptySeq, LenProperties
<1> QED
  BY <1>1, <1>2, HeadTailProperties

(* A step that changes neither the line nor the posters: only what the
   worker claims has to be shown again. *)
LEMMA SameLineKeepsAnswer ==
  ASSUME AnswerInv, Line' = Line, UNCHANGED posterVars, undefined' = undefined,
         ~undefined /\ WorkerHasRun => WorkerHasRun'
  PROVE  AnswerInv'
<1>1. poster' = poster /\ promise' = promise /\ ran' = ran
  BY DEF posterVars
<1> QED
  BY <1>1 DEF AnswerInv, OneOpenCall, OpenCallsWait, SetMeansRan, Open

(* A task that leaves the line takes no open call of another with it. *)
LEMMA TailKeepsOpenCalls ==
  ASSUME TypeOK, Line # <<>>, Line' = Tail(Line), OneOpenCall
  PROVE  /\ OneOpenCall'
         /\ \A i \in DOMAIN Line' : i + 1 \in DOMAIN Line /\ Line'[i] = Line[i + 1]
         /\ \A i \in DOMAIN Line' :
              Open(Line[1]) /\ Open(Line'[i]) => Line'[i].client # Line[1].client
<1>1. Line \in Seq(Task) /\ DOMAIN Line = 1..Len(Line) /\ Len(Line) \in Nat \ {0}
  BY LineType, LenProperties, EmptySeq
<1>2. /\ Line' \in Seq(Task) /\ Len(Line') = Len(Line) - 1
      /\ \A i \in 1..Len(Line') : Line'[i] = Line[i + 1]
  BY <1>1, HeadTailProperties
<1>3. DOMAIN Line' = 1..(Len(Line) - 1)
  BY <1>2, LenProperties
<1>4. \A i \in DOMAIN Line' : i \in Nat /\ i + 1 \in DOMAIN Line /\ i + 1 # 1 /\ Line'[i] = Line[i + 1]
  BY <1>1, <1>2, <1>3
<1>5. 1 \in DOMAIN Line
  BY <1>1
<1>6. OneOpenCall'
  <2> SUFFICES ASSUME NEW i \in DOMAIN Line', NEW j \in DOMAIN Line',
                      Open(Line'[i]), Open(Line'[j]), Line'[i].client = Line'[j].client
               PROVE  i = j
    BY DEF OneOpenCall, Open
  <2>1. i + 1 = j + 1
    BY <1>4 DEF OneOpenCall
  <2> QED BY <1>4, <2>1
<1> QED
  BY <1>4, <1>5, <1>6 DEF OneOpenCall

LEMMA NextTaskKeepsAnswer ==
  ASSUME IndInv, batch # <<>>, NextTask, tasks' = tasks, UNCHANGED <<poster, ran>>,
         OneOpenCall, OpenCallsWait, SetMeansRan,
         \A c \in Clients : promise'[c] # promise[c] =>
           Open(Head(batch)) /\ c = Head(batch).client /\ ran[c] /\ promise'[c] = "set"
  PROVE  AnswerInv'
<1>1. TypeOK
  BY DEF IndInv
<1>2. Line' = Tail(Line) /\ Line # <<>>
  BY <1>1, NextTaskShortensLine, LineType
<1>3. 1 \in DOMAIN Line /\ Line[1] = Head(batch) /\ Head(batch) \in Task
  BY <1>1, HeadIsFirst
<1>4. /\ OneOpenCall'
      /\ \A i \in DOMAIN Line' : i + 1 \in DOMAIN Line /\ Line'[i] = Line[i + 1]
      /\ \A i \in DOMAIN Line' :
           Open(Line[1]) /\ Open(Line'[i]) => Line'[i].client # Line[1].client
  BY <1>1, <1>2, TailKeepsOpenCalls
<1>5. OpenCallsWait'
  <2> SUFFICES ASSUME NEW i \in DOMAIN Line', Open(Line'[i])
               PROVE  /\ poster'[Line'[i].client] \in {"waiting", "timedOut"}
                      /\ promise'[Line'[i].client] = "unset"
    BY DEF OpenCallsWait, Open
  <2>1. Line \in Seq(Task) /\ DOMAIN Line = 1..Len(Line)
    BY <1>1, LineType
  <2>2. Line'[i] = Line[i + 1] /\ Line[i + 1].client \in Clients
    <3>1. Line'[i] = Line[i + 1] /\ Line[i + 1] \in Task
      BY <1>4, <2>1, ElementOfSeq
    <3> QED BY <3>1 DEF Task
  <2>3. promise[Line'[i].client] = "unset" /\ poster[Line'[i].client] \in {"waiting", "timedOut"}
    BY <1>4, <2>2 DEF OpenCallsWait
  <2>4. promise'[Line'[i].client] = promise[Line'[i].client]
    BY <1>3, <1>4, <2>2
  <2> QED BY <2>3, <2>4
<1>6. WorkerHasRun'
  <2>1. worker' \in {"epoll", "check"}
    BY <1>1, NextTaskKeeps
  <2> QED BY <2>1 DEF WorkerHasRun
<1>7. SetMeansRan'
  BY DEF SetMeansRan
<1> QED
  BY <1>4, <1>5, <1>6, <1>7 DEF AnswerInv

LEMMA LeaveKeepsAnswer ==
  ASSUME IndInv, NEW c \in Clients, Leave(c), OneOpenCall, OpenCallsWait, WorkerHasRun, SetMeansRan
  PROVE  AnswerInv'
<1>1. TypeOK /\ WorkerHoldsBatch
  BY DEF IndInv
<1>2. Line \in Seq(Task) /\ DOMAIN Line = 1..Len(Line)
  BY <1>1, LineType
<1>3. Line' = MarkWaited(c, Line)
  BY <1>1, LeaveMarksLine
<1>4. /\ DOMAIN Line' = DOMAIN Line
      /\ \A i \in DOMAIN Line' : Open(Line'[i]) => Line'[i] = Line[i] /\ Line[i].client # c
  <2> SUFFICES ASSUME NEW i \in DOMAIN Line, Open(MarkWaited(c, Line)[i])
               PROVE  MarkWaited(c, Line)[i] = Line[i] /\ Line[i].client # c
    BY <1>2, <1>3, MarkWaitedKeeps
  <2>1. Line[i] \in Task
    BY <1>2
  <2>2. MarkWaited(c, Line)[i] = IF Line[i].client = c /\ Line[i].sync
                                 THEN [Line[i] EXCEPT !.waited = TRUE] ELSE Line[i]
    BY DEF MarkWaited
  <2>3. [Line[i] EXCEPT !.waited = TRUE].waited = TRUE
    BY <2>1 DEF Task
  <2> QED BY <2>1, <2>2, <2>3 DEF Open, Task
<1>5. /\ \A d \in Clients : d # c => poster'[d] = poster[d] /\ promise'[d] = promise[d]
      /\ poster'[c] = "idle" /\ promise'[c] = "none" /\ ran' = ran /\ worker' = worker
  BY <1>1 DEF Leave, TypeOK
<1>6. OneOpenCall'
  BY <1>4 DEF OneOpenCall, Open
<1>7. OpenCallsWait'
  <2> SUFFICES ASSUME NEW i \in DOMAIN Line', Open(Line'[i])
               PROVE  /\ poster'[Line'[i].client] \in {"waiting", "timedOut"}
                      /\ promise'[Line'[i].client] = "unset"
    BY DEF OpenCallsWait, Open
  <2>1. Line'[i] = Line[i] /\ Line[i].client # c /\ Line[i].client \in Clients
    <3>1. Line'[i] = Line[i] /\ Line[i].client # c /\ Line[i] \in Task
      BY <1>2, <1>4, ElementOfSeq
    <3> QED BY <3>1 DEF Task
  <2> QED BY <1>4, <1>5, <2>1 DEF OpenCallsWait
<1>8. WorkerHasRun'
  <2>1. CASE batch = <<>>
    BY <1>1, <1>5, <2>1 DEF WorkerHasRun, WorkerHoldsBatch
  <2>2. CASE batch # <<>>
    <3>1. batch \in Seq(Task) /\ batch' = MarkWaited(c, batch) /\ 1 \in DOMAIN batch
          /\ Head(batch) = batch[1] /\ batch[1] \in Task
      BY <1>1, <2>2, HeadTailProperties, EmptySeq, LenProperties DEF Leave, TypeOK
    <3>2. batch' \in Seq(Task) /\ batch' # <<>> /\ DOMAIN batch' = DOMAIN batch
      BY <2>2, <3>1, MarkWaitedKeeps
    <3>3. Head(batch') = batch'[1]
      BY <3>2, HeadTailProperties
    <3>4. batch'[1] = IF batch[1].client = c /\ batch[1].sync
                      THEN [batch[1] EXCEPT !.waited = TRUE] ELSE batch[1]
      BY <3>1 DEF MarkWaited
    <3>5. /\ [batch[1] EXCEPT !.waited = TRUE].waited = TRUE
          /\ [batch[1] EXCEPT !.waited = TRUE].sync = batch[1].sync
      BY <3>1 DEF Task
    <3>6. /\ Head(batch').sync = Head(batch).sync
          /\ Open(Head(batch')) => Head(batch') = Head(batch)
      BY <3>1, <3>3, <3>4, <3>5, Zenon DEF Open
    <3> QED BY <1>5, <3>6 DEF WorkerHasRun, Open
  <2> QED BY <2>1, <2>2
<1>9. SetMeansRan'
  BY <1>5 DEF SetMeansRan
<1> QED
  BY <1>6, <1>7, <1>8, <1>9 DEF AnswerInv

(* A synchronous call is posted by a thread that has no open call, and its
   promise is new. *)
LEMMA PushKeepsAnswer ==
  ASSUME IndInv, NEW c \in Clients, NEW sync \in BOOLEAN, PushTask(c, sync),
         UNCHANGED workerVars, poster[c] = "idle",
         OneOpenCall, OpenCallsWait, WorkerHasRun, SetMeansRan,
         \A d \in Clients : d # c \/ ~sync =>
           poster'[d] = poster[d] /\ promise'[d] = promise[d] /\ ran'[d] = ran[d],
         sync => poster'[c] = "waiting" /\ promise'[c] = "unset"
  PROVE  AnswerInv'
<1>1. TypeOK /\ WorkerHoldsBatch /\ IdsConsistent /\ batch' = batch /\ worker' = worker
  BY DEF IndInv, workerVars
<1> DEFINE n == Len(Line)
<1>2. Line \in Seq(Task) /\ DOMAIN Line = 1..n /\ n \in Nat
  BY <1>1, LineType, LenProperties
<1>3. PICK id \in Int :
        Line' = Append(Line, [id |-> id, client |-> c, sync |-> sync, waited |-> FALSE])
  BY <1>1, PushExtendsLine
<1> DEFINE t == [id |-> id, client |-> c, sync |-> sync, waited |-> FALSE]
<1>4. t \in Task /\ t.client = c /\ (Open(t) <=> sync)
  BY DEF Task, Open
<1> HIDE DEF t
<1>5. /\ Line' \in Seq(Task) /\ Len(Line') = n + 1
      /\ \A i \in 1..n : Line'[i] = Line[i]
      /\ Line'[n + 1] = t
  BY <1>2, <1>3, <1>4, AppendProperties DEF t
<1>6. DOMAIN Line' = 1..(n + 1)
  BY <1>2, <1>5, LenProperties
<1>7. \A i \in DOMAIN Line' : (i \in DOMAIN Line /\ Line'[i] = Line[i]) \/ (i = n + 1 /\ Line'[i] = t)
  <2> SUFFICES ASSUME NEW i \in DOMAIN Line'
               PROVE  (i \in DOMAIN Line /\ Line'[i] = Line[i]) \/ (i = n + 1 /\ Line'[i] = t)
    OBVIOUS
  <2> HIDE DEF n
  <2>1. i \in 1..n \/ i = n + 1
    BY <1>2, <1>6
  <2> QED BY <1>2, <1>5, <2>1
<1>8. \A i \in DOMAIN Line : Line[i] \in Task /\ Line[i].client \in Clients
  <2>1. \A i \in DOMAIN Line : Line[i] \in Task
    BY <1>2, ElementOfSeq
  <2> QED BY <2>1 DEF Task
<1>9. \A i \in DOMAIN Line : Open(Line[i]) => Line[i].client # c
  BY <1>8 DEF OpenCallsWait
<1> HIDE DEF n
<1>10. OneOpenCall'
  <2> SUFFICES ASSUME NEW i \in DOMAIN Line', NEW j \in DOMAIN Line',
                      Open(Line'[i]), Open(Line'[j]), Line'[i].client = Line'[j].client
               PROVE  i = j
    BY DEF OneOpenCall, Open
  <2> QED BY <1>4, <1>7, <1>9, Zenon DEF OneOpenCall
<1>11. OpenCallsWait'
  <2> SUFFICES ASSUME NEW i \in DOMAIN Line', Open(Line'[i])
               PROVE  /\ poster'[Line'[i].client] \in {"waiting", "timedOut"}
                      /\ promise'[Line'[i].client] = "unset"
    BY DEF OpenCallsWait, Open
  <2>1. CASE i \in DOMAIN Line /\ Line'[i] = Line[i]
    BY <1>8, <1>9, <2>1 DEF OpenCallsWait
  <2>2. CASE i = n + 1 /\ Line'[i] = t
    BY <1>4, <2>2
  <2> QED BY <1>7, <2>1, <2>2
<1>12. WorkerHasRun'
  <2>1. CASE batch = <<>>
    BY <1>1, <2>1 DEF WorkerHasRun, WorkerHoldsBatch
  <2>2. CASE batch # <<>>
    <3>1. 1 \in DOMAIN Line /\ Line[1] = Head(batch)
      BY <1>1, <2>2, HeadIsFirst
    <3>2. Open(Head(batch)) => ran'[Head(batch).client] = ran[Head(batch).client]
      BY <1>8, <1>9, <3>1
    <3> QED BY <1>1, <3>2 DEF WorkerHasRun, Open
  <2> QED BY <2>1, <2>2
<1>13. SetMeansRan'
  BY DEF SetMeansRan
<1> QED
  BY <1>10, <1>11, <1>12, <1>13 DEF AnswerInv

LEMMA PosterStepKeepsAnswer ==
  ASSUME IndInv, AnswerInv, NEW c \in Clients, PosterStep(c)
  PROVE  AnswerInv'
<1>1. TypeOK
  BY DEF IndInv
<1>2. undefined' = undefined
  BY DEF PosterStep, PostSyncTask, PostAsyncTask, WaitReady, WaitTimeout, Leave
<1>3. CASE undefined
  BY <1>2, <1>3 DEF AnswerInv
<1>4. CASE ~undefined
  <2>1. OneOpenCall /\ OpenCallsWait /\ WorkerHasRun /\ SetMeansRan
    BY <1>4 DEF AnswerInv
  <2>2. ASSUME RefusePipe \/ RefuseFull, UNCHANGED <<workerVars, posterVars, undefined>>
        PROVE  AnswerInv'
    <3>1. Line' = Line /\ batch' = batch /\ worker' = worker /\ ran' = ran
      BY <2>2 DEF Line, RefusePipe, RefuseFull, workerVars, queueVars, posterVars
    <3>2. WorkerHasRun => WorkerHasRun'
      BY <3>1 DEF WorkerHasRun, Open
    <3> QED BY <2>2, <3>1, <3>2, SameLineKeepsAnswer
  <2>3. CASE PostSyncTask(c)
    <3>1. CASE /\ PushTask(c, TRUE)
               /\ poster' = [poster EXCEPT ![c] = "waiting"]
               /\ promise' = [promise EXCEPT ![c] = "unset"]
               /\ ran' = [ran EXCEPT ![c] = FALSE]
      <4>1. /\ \A d \in Clients : d # c =>
                 poster'[d] = poster[d] /\ promise'[d] = promise[d] /\ ran'[d] = ran[d]
            /\ poster'[c] = "waiting" /\ promise'[c] = "unset"
        BY <1>1, <3>1 DEF TypeOK
      <4>2. poster[c] = "idle" /\ UNCHANGED workerVars
        BY <2>3 DEF PostSyncTask
      <4> QED BY <2>1, <3>1, <4>1, <4>2, PushKeepsAnswer
    <3>2. CASE (RefusePipe \/ RefuseFull) /\ UNCHANGED posterVars
      BY <2>2, <2>3, <3>2 DEF PostSyncTask
    <3> QED BY <2>3, <3>1, <3>2 DEF PostSyncTask
  <2>4. CASE PostAsyncTask(c)
    <3>1. CASE PushTask(c, FALSE)
      <4>1. poster[c] = "idle" /\ UNCHANGED workerVars /\ poster' = poster /\ promise' = promise
            /\ ran' = ran
        BY <2>4 DEF PostAsyncTask, posterVars
      <4> QED BY <2>1, <3>1, <4>1, PushKeepsAnswer
    <3>2. CASE RefusePipe \/ RefuseFull
      BY <2>2, <2>4, <3>2 DEF PostAsyncTask
    <3> QED BY <2>4, <3>1, <3>2 DEF PostAsyncTask
  <2>5. CASE WaitReady(c) \/ WaitTimeout(c)
    <3>1. /\ UNCHANGED <<Line, batch, worker, promise, ran>>
          /\ \A d \in Clients : d # c => poster'[d] = poster[d]
          /\ \/ promise[c] = "set" /\ poster'[c] = "ready"
             \/ promise[c] = "unset" /\ poster'[c] = "timedOut"
      BY <1>1, <2>5 DEF WaitReady, WaitTimeout, TypeOK, Line, queueVars, workerVars
    <3>2. OneOpenCall' /\ WorkerHasRun'
      BY <2>1, <3>1 DEF OneOpenCall, WorkerHasRun, Open
    <3>3. OpenCallsWait'
      <4>1. Line \in Seq(Task)
        BY <1>1, LineType
      <4>2. \A i \in DOMAIN Line : Line[i] \in Task /\ Line[i].client \in Clients
        <5>1. \A i \in DOMAIN Line : Line[i] \in Task
          BY <4>1, ElementOfSeq
        <5> QED BY <5>1 DEF Task
      <4> QED BY <2>1, <3>1, <4>2 DEF OpenCallsWait, Open
    <3>4. SetMeansRan'
      BY <2>1, <3>1 DEF SetMeansRan
    <3> QED BY <3>2, <3>3, <3>4 DEF AnswerInv
  <2>6. CASE Leave(c)
    BY <2>1, <2>6, LeaveKeepsAnswer
  <2> QED BY <2>3, <2>4, <2>5, <2>6 DEF PosterStep
<1> QED
  BY <1>1, <1>3, <1>4 DEF TypeOK

LEMMA InitAnswerInv == Init => AnswerInv
<1> SUFFICES ASSUME Init PROVE AnswerInv
  OBVIOUS
<1>1. Line = <<>>
  BY ConcatEmptySeq, EmptySeq DEF Init, Line
<1>2. DOMAIN Line = {}
  BY <1>1
<1>3. OneOpenCall /\ OpenCallsWait
  BY <1>2 DEF OneOpenCall, OpenCallsWait
<1>4. WorkerHasRun /\ SetMeansRan
  BY DEF Init, WorkerHasRun, SetMeansRan
<1> QED
  BY <1>3, <1>4 DEF AnswerInv

LEMMA WorkerStepKeepsAnswer ==
  ASSUME IndInv, AnswerInv, WorkerStep \/ StopThread
  PROVE  AnswerInv'
<1>1. TypeOK /\ WorkerHoldsBatch
  BY DEF IndInv
<1>2. CASE Abort
  <2>1. Init'
    BY <1>2 DEF Abort, Init
  <2> QED BY <2>1, InitAnswerInv, PTL
<1>3. CASE undefined /\ ~Abort
  <2>1. undefined'
    BY <1>3 DEF WorkerStep, StartThread, ReadRecord, PopPendingTaskList, DiscardExpired,
                StartCallback, FinishCallback, DecideAnswer, SetValue, SetValueDangling, StopThread
  <2> QED BY <2>1 DEF AnswerInv
<1>4. CASE ~undefined /\ ~Abort
  <2>1. OneOpenCall /\ OpenCallsWait /\ WorkerHasRun /\ SetMeansRan
    BY <1>4 DEF AnswerInv
  <2>2. CASE StartThread \/ ReadRecord \/ StopThread \/ StartCallback
    <3>1. Line' = Line /\ UNCHANGED posterVars /\ undefined' = undefined
          /\ worker' \in {"epoll", "pop", "run", "stopped"}
      BY <2>2 DEF StartThread, ReadRecord, StopThread, StartCallback, Line, queueVars
    <3> QED BY <3>1, SameLineKeepsAnswer DEF WorkerHasRun
  <2>3. CASE PopPendingTaskList
    <3>1. Line' = Line
      BY <1>1, <2>3, PopKeepsLine DEF WorkerHoldsBatch, PopPendingTaskList
    <3>2. UNCHANGED posterVars /\ undefined' = undefined /\ worker' \in {"epoll", "check"}
      BY <2>3 DEF PopPendingTaskList
    <3> QED BY <3>1, <3>2, SameLineKeepsAnswer DEF WorkerHasRun
  <2>4. CASE DiscardExpired
    <3>1. batch # <<>> /\ NextTask /\ tasks' = tasks /\ UNCHANGED <<poster, ran, promise>>
      BY <1>1, <2>4 DEF DiscardExpired, WorkerHoldsBatch, queueVars, posterVars
    <3> QED BY <2>1, <3>1, NextTaskKeepsAnswer
  <2>5. CASE FinishCallback
    <3>1. batch # <<>> /\ UNCHANGED <<tasks, batch, poster, promise>> /\ worker' = "ran"
          /\ ran' = (IF Head(batch).sync /\ ~Head(batch).waited
                     THEN [ran EXCEPT ![Head(batch).client] = TRUE] ELSE ran)
      BY <1>1, <2>5 DEF FinishCallback, WorkerHoldsBatch, queueVars
    <3>2. Head(batch) \in Task /\ Head(batch).client \in Clients
      BY <1>1, <3>1, HeadIsFirst DEF Task
    <3>3. /\ \A c \in Clients : ran[c] => ran'[c]
          /\ Open(Head(batch)) => ran'[Head(batch).client]
      BY <1>1, <3>1, <3>2 DEF Open, TypeOK
    <3>4. OneOpenCall' /\ OpenCallsWait'
      BY <2>1, <3>1 DEF OneOpenCall, OpenCallsWait, Open, Line
    <3>5. WorkerHasRun'
      BY <3>1, <3>3 DEF WorkerHasRun, Open
    <3>6. SetMeansRan'
      BY <2>1, <3>1, <3>3 DEF SetMeansRan
    <3> QED BY <3>4, <3>5, <3>6 DEF AnswerInv
  <2>6. CASE DecideAnswer
    <3>1. batch # <<>> /\ tasks' = tasks /\ UNCHANGED posterVars /\ undefined' = undefined
          /\ worker = "ran"
          /\ \/ worker' = "set" /\ batch' = batch /\ Head(batch).sync /\ ~Head(batch).waited
             \/ NextTask
      BY <1>1, <2>6 DEF DecideAnswer, WorkerHoldsBatch, queueVars
    <3>2. CASE NextTask
      BY <2>1, <3>1, <3>2, NextTaskKeepsAnswer DEF posterVars
    <3>3. CASE worker' = "set" /\ batch' = batch /\ Head(batch).sync /\ ~Head(batch).waited
      <4>1. Line' = Line /\ ran' = ran
        BY <3>1, <3>3 DEF Line, posterVars
      <4>2. WorkerHasRun'
        BY <2>1, <3>1, <3>3, <4>1 DEF WorkerHasRun, Open
      <4> QED BY <3>1, <4>1, <4>2, SameLineKeepsAnswer
    <3> QED BY <3>1, <3>2, <3>3
  <2>7. CASE SetValue
    <3>1. batch # <<>> /\ NextTask /\ tasks' = tasks /\ UNCHANGED <<poster, ran>>
          /\ worker = "set" /\ ~Head(batch).waited
          /\ promise' = [promise EXCEPT ![Head(batch).client] = "set"]
      BY <1>1, <2>7 DEF SetValue, WorkerHoldsBatch, queueVars
    <3>2. Open(Head(batch)) /\ ran[Head(batch).client]
      BY <2>1, <3>1 DEF WorkerHasRun, Open
    <3>3. \A c \in Clients : promise'[c] # promise[c] =>
            c = Head(batch).client /\ promise'[c] = "set"
      BY <1>1, <3>1 DEF TypeOK
    <3> QED BY <2>1, <3>1, <3>2, <3>3, NextTaskKeepsAnswer
  <2>8. CASE SetValueDangling
    BY <2>8 DEF SetValueDangling, AnswerInv
  <2> QED BY <1>4, <2>2, <2>3, <2>4, <2>5, <2>6, <2>7, <2>8 DEF WorkerStep
<1> QED
  BY <1>1, <1>2, <1>3, <1>4 DEF TypeOK

(* A binder thread that returns with a value returns with the one of this
   call: no value of an earlier call that timed out, and no value before the
   callback has run, can reach it, unless the worker has already used a
   stack frame that is gone. *)
THEOREM AnswersAreOwn == Spec => []AnswerIsOwn
<1>1. Init => AnswerInv
  BY InitAnswerInv
<1>2. IndInv /\ AnswerInv /\ [Next]_vars => AnswerInv'
  <2> SUFFICES ASSUME IndInv, AnswerInv, [Next]_vars PROVE AnswerInv'
    OBVIOUS
  <2>1. CASE UNCHANGED vars
    <3>1. /\ Line' = Line /\ batch' = batch /\ worker' = worker /\ poster' = poster
          /\ promise' = promise /\ ran' = ran /\ undefined' = undefined
      BY <2>1 DEF vars, queueVars, workerVars, posterVars, Line
    <3>2. (OneOpenCall => OneOpenCall') /\ (OpenCallsWait => OpenCallsWait')
      BY <3>1 DEF OneOpenCall, OpenCallsWait, Open
    <3>3. (WorkerHasRun => WorkerHasRun') /\ (SetMeansRan => SetMeansRan')
      BY <3>1 DEF WorkerHasRun, SetMeansRan, Open
    <3> QED BY <3>1, <3>2, <3>3 DEF AnswerInv
  <2> QED BY <2>1, PosterStepKeepsAnswer, WorkerStepKeepsAnswer DEF Next
<1>3. AnswerInv => AnswerIsOwn
  BY DEF AnswerInv, SetMeansRan, AnswerIsOwn
<1> QED
  BY <1>1, <1>2, <1>3, InductiveInvariant, PTL DEF Spec

-----------------------------------------------------------------------------
(* The timers.  What InsertAt and RemoveAt of the community modules return. *)
LEMMA InsertAtElements ==
  ASSUME NEW S, NEW s \in Seq(S), NEW e \in S, NEW k \in 1..(Len(s) + 1)
  PROVE  /\ InsertAt(s, k, e) \in Seq(S)
         /\ Len(InsertAt(s, k, e)) = Len(s) + 1
         /\ \A i \in 1..(k - 1) : InsertAt(s, k, e)[i] = s[i]
         /\ InsertAt(s, k, e)[k] = e
         /\ \A i \in (k + 1)..(Len(s) + 1) : InsertAt(s, k, e)[i] = s[i - 1]
<1> DEFINE a == SubSeq(s, 1, k - 1)
           b == SubSeq(s, k, Len(s))
           m == a \o <<e>>
<1>1. Len(s) \in Nat /\ \A i \in 1..Len(s) : s[i] \in S
  BY LenProperties, ElementOfSeq
<1>2. a \in Seq(S) /\ Len(a) = k - 1 /\ \A i \in 1..(k - 1) : a[i] = s[i]
  BY <1>1, SubSeqProperties
<1>3. b \in Seq(S) /\ Len(b) = Len(s) - k + 1 /\ \A i \in 1..(Len(s) - k + 1) : b[i] = s[k + i - 1]
  BY <1>1, SubSeqProperties
<1>4. <<e>> \in Seq(S) /\ Len(<<e>>) = 1 /\ <<e>>[1] = e
  OBVIOUS
<1> HIDE DEF a, b
<1>0. \A x, y \in Seq(S) :
        /\ x \o y \in Seq(S) /\ Len(x \o y) = Len(x) + Len(y)
        /\ \A i \in 1..(Len(x) + Len(y)) : (x \o y)[i] = IF i <= Len(x) THEN x[i] ELSE y[i - Len(x)]
  BY ConcatProperties
<1>5. /\ m \in Seq(S) /\ Len(m) = k
      /\ \A i \in 1..(k - 1) : m[i] = a[i]
      /\ m[k] = e
  <2>1. m \in Seq(S) /\ Len(m) = Len(a) + Len(<<e>>)
    BY <1>0, <1>2, <1>4
  <2>2. \A i \in 1..(Len(a) + Len(<<e>>)) : m[i] = IF i <= Len(a) THEN a[i] ELSE <<e>>[i - Len(a)]
    BY <1>0, <1>2, <1>4
  <2>3. Len(a) + Len(<<e>>) = k /\ k - Len(a) = 1 /\ ~(k <= Len(a)) /\ k \in 1..k
    BY <1>1, <1>2, <1>4
  <2>4. \A i \in 1..(k - 1) : i \in 1..k /\ i <= Len(a)
    BY <1>1, <1>2
  <2> HIDE DEF m
  <2> QED BY <1>4, <2>1, <2>2, <2>3, <2>4
<1> HIDE DEF m
<1>6. /\ m \o b \in Seq(S) /\ Len(m \o b) = k + (Len(s) - k + 1)
      /\ \A i \in 1..(k + (Len(s) - k + 1)) : (m \o b)[i] = IF i <= k THEN m[i] ELSE b[i - k]
  <2>1. m \o b \in Seq(S) /\ Len(m \o b) = Len(m) + Len(b)
    BY <1>0, <1>3, <1>5
  <2>2. \A i \in 1..(Len(m) + Len(b)) : (m \o b)[i] = IF i <= Len(m) THEN m[i] ELSE b[i - Len(m)]
    BY <1>0, <1>3, <1>5
  <2>3. Len(m) = k /\ Len(b) = Len(s) - k + 1
    BY <1>3, <1>5
  <2> QED BY <2>1, <2>2, <2>3
<1>7. InsertAt(s, k, e) = m \o b
  BY DEF InsertAt, m, a, b
<1>8. Len(m \o b) = Len(s) + 1
  BY <1>1, <1>6
<1>9. \A i \in 1..(k - 1) : (m \o b)[i] = s[i]
  BY <1>1, <1>2, <1>5, <1>6
<1>10. (m \o b)[k] = e
  BY <1>1, <1>4, <1>5, <1>6
<1>11. \A i \in (k + 1)..(Len(s) + 1) : (m \o b)[i] = s[i - 1]
  BY <1>1, <1>3, <1>6
<1> QED
  BY <1>6, <1>7, <1>8, <1>9, <1>10, <1>11

LEMMA RemoveAtElements ==
  ASSUME NEW S, NEW s \in Seq(S), NEW k \in 1..Len(s)
  PROVE  /\ RemoveAt(s, k) \in Seq(S)
         /\ Len(RemoveAt(s, k)) = Len(s) - 1
         /\ \A i \in 1..(Len(s) - 1) : RemoveAt(s, k)[i] = s[IF i < k THEN i ELSE i + 1]
<1> DEFINE a == SubSeq(s, 1, k - 1)
           b == SubSeq(s, k + 1, Len(s))
<1>1. Len(s) \in Nat /\ \A i \in 1..Len(s) : s[i] \in S
  BY LenProperties, ElementOfSeq
<1>2. a \in Seq(S) /\ Len(a) = k - 1 /\ \A i \in 1..(k - 1) : a[i] = s[i]
  BY <1>1, SubSeqProperties
<1>3. b \in Seq(S) /\ Len(b) = Len(s) - k /\ \A i \in 1..(Len(s) - k) : b[i] = s[k + i]
  BY <1>1, SubSeqProperties
<1> HIDE DEF a, b
<1>4. /\ a \o b \in Seq(S) /\ Len(a \o b) = (k - 1) + (Len(s) - k)
      /\ \A i \in 1..((k - 1) + (Len(s) - k)) :
           (a \o b)[i] = IF i <= k - 1 THEN a[i] ELSE b[i - (k - 1)]
  <2>1. \A x, y \in Seq(S) :
          /\ x \o y \in Seq(S) /\ Len(x \o y) = Len(x) + Len(y)
          /\ \A i \in 1..(Len(x) + Len(y)) : (x \o y)[i] = IF i <= Len(x) THEN x[i] ELSE y[i - Len(x)]
    BY ConcatProperties
  <2>2. a \o b \in Seq(S) /\ Len(a \o b) = Len(a) + Len(b)
    BY <1>2, <1>3, <2>1
  <2>3. \A i \in 1..(Len(a) + Len(b)) : (a \o b)[i] = IF i <= Len(a) THEN a[i] ELSE b[i - Len(a)]
    BY <1>2, <1>3, <2>1
  <2>4. Len(a) = k - 1 /\ Len(b) = Len(s) - k
    BY <1>2, <1>3
  <2> QED BY <2>2, <2>3, <2>4
<1>5. RemoveAt(s, k) = a \o b
  BY DEF RemoveAt, a, b
<1>6. \A i \in 1..(Len(s) - 1) : (a \o b)[i] = s[IF i < k THEN i ELSE i + 1]
  BY <1>1, <1>2, <1>3, <1>4
<1>7. Len(a \o b) = Len(s) - 1
  BY <1>1, <1>4
<1> QED
  BY <1>4, <1>5, <1>6, <1>7

-----------------------------------------------------------------------------
(* A list of timers that is in order and has no id twice. *)
TableOK(s) == s \in Seq(Timer) /\ OrderedByNextCall(s) /\ DistinctIds(s)

(* r is s with t before the element at k. *)
Inserted(r, s, k, t) ==
  /\ r \in Seq(Timer) /\ Len(r) = Len(s) + 1
  /\ \A i \in 1..(k - 1) : r[i] = s[i]
  /\ r[k] = t
  /\ \A i \in (k + 1)..(Len(s) + 1) : r[i] = s[i - 1]

LEMMA InsertTimerElements ==
  ASSUME NEW s \in Seq(Timer), NEW t \in Timer, NEW k \in 1..(Len(s) + 1)
  PROVE  Inserted(InsertAt(s, k, t), s, k, t)
BY InsertAtElements DEF Inserted

(* InsertTimerInternal keeps the list in order, whatever the time of the new
   timer, and its ids distinct, when the id is a free one. *)
LEMMA InsertKeepsTable ==
  ASSUME NEW s, TableOK(s), NEW t \in Timer, t.id \notin UsedIds(s),
         NEW k \in InsertPositions(s, t.next)
  PROVE  TableOK(InsertAt(s, k, t))
<1> DEFINE r == InsertAt(s, k, t)
           n == Len(s)
<1>1. s \in Seq(Timer) /\ n \in Nat /\ DOMAIN s = 1..n /\ \A i \in 1..n : s[i] \in Timer
  BY LenProperties, ElementOfSeq DEF TableOK
<1>2. k \in 1..(n + 1) /\ (\A i \in 1..(k - 1) : s[i].next <= t.next)
      /\ (k <= n => s[k].next > t.next)
  BY DEF InsertPositions
<1> HIDE DEF r, n
<1>3. /\ r \in Seq(Timer) /\ Len(r) = n + 1
      /\ \A i \in 1..(k - 1) : r[i] = s[i]
      /\ r[k] = t
      /\ \A i \in (k + 1)..(n + 1) : r[i] = s[i - 1]
  <2>0. s \in Seq(Timer)
    BY <1>1
  <2>1. k \in 1..(Len(s) + 1)
    BY <1>2 DEF n
  <2>2. Inserted(InsertAt(s, k, t), s, k, t)
    BY <2>0, <2>1, InsertTimerElements
  <2> QED BY <2>2 DEF r, n, Inserted
<1>4. DOMAIN r = 1..(n + 1)
  BY <1>3, LenProperties
<1>5. \A i \in 1..n : s[i].next \in Int /\ s[i].id # t.id
  BY <1>1 DEF Timer, UsedIds
<1>6. t.next \in Int
  BY DEF Timer
<1>7. \A i, j \in 1..n : i < j => s[i].next <= s[j].next
  BY <1>1 DEF TableOK, OrderedByNextCall
<1>8. \A j \in k..n : t.next <= s[j].next
  <2> SUFFICES ASSUME NEW j \in k..n PROVE t.next <= s[j].next
    OBVIOUS
  <2>1. k \in 1..n /\ j \in 1..n /\ (k = j \/ k < j)
    BY <1>1, <1>2
  <2>2. s[k].next <= s[j].next
    BY <1>5, <1>7, <2>1
  <2> QED BY <1>2, <1>5, <1>6, <2>1, <2>2
<1>9. OrderedByNextCall(r)
  <2> SUFFICES ASSUME NEW i \in 1..(n + 1), NEW j \in 1..(n + 1), i < j
               PROVE  r[i].next <= r[j].next
    BY <1>4 DEF OrderedByNextCall
  <2>1. CASE j < k
    <3>1. i \in 1..(k - 1) /\ j \in 1..(k - 1) /\ i \in 1..n /\ j \in 1..n
      BY <1>1, <1>2, <2>1
    <3> QED BY <1>3, <1>7, <3>1
  <2>2. CASE j = k
    <3>1. i \in 1..(k - 1)
      BY <1>1, <1>2, <2>2
    <3> QED BY <1>2, <1>3, <2>2, <3>1
  <2>3. CASE k < j /\ i < k
    <3>1. i \in 1..(k - 1) /\ j \in (k + 1)..(n + 1) /\ i \in 1..n /\ j - 1 \in 1..n /\ i < j - 1
      BY <1>1, <1>2, <2>3
    <3> QED BY <1>3, <1>7, <3>1
  <2>4. CASE k < j /\ i = k
    <3>1. j \in (k + 1)..(n + 1) /\ j - 1 \in k..n
      BY <1>1, <1>2, <2>4
    <3> QED BY <1>3, <1>8, <2>4, <3>1
  <2>5. CASE k < i
    <3>1. i \in (k + 1)..(n + 1) /\ j \in (k + 1)..(n + 1)
          /\ i - 1 \in 1..n /\ j - 1 \in 1..n /\ i - 1 < j - 1
      BY <1>1, <1>2, <2>5
    <3> QED BY <1>3, <1>7, <3>1
  <2> QED BY <1>1, <1>2, <2>1, <2>2, <2>3, <2>4, <2>5
<1>10. DistinctIds(r)
  <2>1. \A i, j \in 1..n : i # j => s[i].id # s[j].id
    BY <1>1 DEF TableOK, DistinctIds
  <2>2. \A i \in 1..(n + 1) :
          \/ i = k /\ r[i] = t
          \/ i < k /\ i \in 1..n /\ r[i] = s[i]
          \/ i > k /\ i - 1 \in 1..n /\ r[i] = s[i - 1]
    BY <1>1, <1>2, <1>3
  <2> SUFFICES ASSUME NEW i \in 1..(n + 1), NEW j \in 1..(n + 1), i # j
               PROVE  r[i].id # r[j].id
    BY <1>4 DEF DistinctIds
  <2>3. CASE i = k \/ j = k
    BY <1>2, <1>5, <2>2, <2>3
  <2>4. CASE i # k /\ j # k
    <3>1. PICK p \in 1..n : r[i] = s[p] /\ ((i < k /\ p = i) \/ (i > k /\ p = i - 1))
      BY <1>2, <2>2, <2>4
    <3>2. PICK q \in 1..n : r[j] = s[q] /\ ((j < k /\ q = j) \/ (j > k /\ q = j - 1))
      BY <1>2, <2>2, <2>4
    <3>3. p # q
      BY <1>2, <3>1, <3>2
    <3> QED BY <2>1, <3>1, <3>2, <3>3
  <2> QED BY <2>3, <2>4
<1> QED
  BY <1>3, <1>9, <1>10 DEF TableOK, r

(* Taking a timer out keeps the rest in order, and frees the timer's id. *)
LEMMA RemoveKeepsTable ==
  ASSUME NEW s, TableOK(s), NEW k \in DOMAIN s
  PROVE  TableOK(RemoveAt(s, k)) /\ s[k].id \notin UsedIds(RemoveAt(s, k))
<1> DEFINE r == RemoveAt(s, k)
           n == Len(s)
           src(i) == IF i < k THEN i ELSE i + 1
<1>1. s \in Seq(Timer) /\ n \in Nat /\ DOMAIN s = 1..n /\ k \in 1..n
  BY LenProperties DEF TableOK
<1> HIDE DEF r, n
<1>2. r \in Seq(Timer) /\ Len(r) = n - 1 /\ \A i \in 1..(n - 1) : r[i] = s[src(i)]
  BY <1>1, RemoveAtElements DEF r, n
<1>3. DOMAIN r = 1..(n - 1)
  BY <1>2, LenProperties
<1>4. \A i \in 1..(n - 1) : src(i) \in 1..n /\ src(i) # k
  BY <1>1
<1>5. \A i, j \in 1..(n - 1) : (i < j => src(i) < src(j)) /\ (i # j => src(i) # src(j))
  BY <1>1
<1> HIDE DEF src
<1>6. OrderedByNextCall(r)
  BY <1>1, <1>2, <1>3, <1>4, <1>5 DEF OrderedByNextCall, TableOK
<1>7. DistinctIds(r)
  BY <1>1, <1>2, <1>3, <1>4, <1>5 DEF DistinctIds, TableOK
<1>8. s[k].id \notin UsedIds(r)
  BY <1>1, <1>2, <1>3, <1>4 DEF UsedIds, DistinctIds, TableOK
<1> QED
  BY <1>2, <1>6, <1>7, <1>8 DEF TableOK, r

(* erase(begin()) is a removal at the first position. *)
LEMMA TailIsRemoveAt ==
  ASSUME NEW s \in Seq(Timer), s # <<>>
  PROVE  Tail(s) = RemoveAt(s, 1) /\ 1 \in DOMAIN s /\ Head(s) = s[1]
<1>1. Len(s) \in Nat \ {0} /\ DOMAIN s = 1..Len(s)
  BY EmptySeq, LenProperties
<1>2. Tail(s) \in Seq(Timer) /\ Len(Tail(s)) = Len(s) - 1
      /\ \A i \in 1..(Len(s) - 1) : Tail(s)[i] = s[i + 1]
  BY HeadTailProperties
<1>3. RemoveAt(s, 1) \in Seq(Timer) /\ Len(RemoveAt(s, 1)) = Len(s) - 1
      /\ \A i \in 1..(Len(s) - 1) : RemoveAt(s, 1)[i] = s[i + 1]
  <2>1. 1 \in 1..Len(s)
    BY <1>1
  <2>2. \A i \in 1..(Len(s) - 1) : (IF i < 1 THEN i ELSE i + 1) = i + 1
    BY <1>1
  <2>3. RemoveAt(s, 1) \in Seq(Timer) /\ Len(RemoveAt(s, 1)) = Len(s) - 1
        /\ \A i \in 1..(Len(s) - 1) : RemoveAt(s, 1)[i] = s[IF i < 1 THEN i ELSE i + 1]
    BY <2>1, RemoveAtElements
  <2> QED BY <2>2, <2>3
<1>4. Tail(s) = RemoveAt(s, 1)
  BY <1>1, <1>2, <1>3, SeqEqual
<1> QED
  BY <1>1, <1>4

-----------------------------------------------------------------------------
TableInv == TimerTypeOK /\ TableConsistent

LEMMA ClampedInterval ==
  ASSUME NEW ms \in Intervals
  PROVE  ClampInterval(ms) \in MinInterval..MaxInterval
BY TimerAssumption, UsersAssumption DEF ClampInterval

LEMMA UserStepKeeps ==
  ASSUME TableInv, UserStep
  PROVE  TableInv'
<1> USE TimerAssumption, UsersAssumption
<1>0. TableOK(timers)
  BY DEF TableInv, TimerTypeOK, TableConsistent, TableOK
<1>1. ASSUME TableOK(timers'), UNCHANGED <<now, phase, passNow, sleepLeft, lag, fired>>
      PROVE  TableInv'
  BY <1>1 DEF TableInv, TimerTypeOK, TableConsistent, TableOK
<1>2. ASSUME NEW ms \in Intervals, NEW r \in Repeats, AddTimer(ms, r)
      PROVE  TableInv'
  <2> DEFINE c == ClampInterval(ms)
             t(id) == [id |-> id, interval |-> c, repeat |-> r, count |-> 0, next |-> now + c]
  <2>1. c \in MinInterval..MaxInterval
    BY ClampedInterval
  <2> HIDE DEF c
  <2>2. PICK id \in NextTimerIds(timers), k \in InsertPositions(timers, now + c) :
          timers' = InsertAt(timers, k, t(id))
    BY <1>2 DEF AddTimer, c
  <2>3. t(id) \in Timer /\ t(id).id \notin UsedIds(timers) /\ t(id).next = now + c
    BY <2>1, <2>2 DEF Timer, NextTimerIds, TableInv, TimerTypeOK
  <2> HIDE DEF t
  <2>4. TableOK(timers')
    BY <1>0, <2>2, <2>3, InsertKeepsTable
  <2> QED BY <1>1, <1>2, <2>4 DEF AddTimer
<1>3. ASSUME NEW id \in TimerId, RemoveTimer(id)
      PROVE  TableInv'
  <2>1. PICK i \in PositionsOf(timers, id) : timers' = RemoveAt(timers, i)
    BY <1>3 DEF RemoveTimer
  <2>2. TableOK(timers')
    BY <1>0, <2>1, RemoveKeepsTable DEF PositionsOf
  <2> QED BY <1>1, <1>3, <2>2 DEF RemoveTimer
<1>4. ASSUME NEW id \in TimerId, ResetTimer(id)
      PROVE  TableInv'
  <2> DEFINE rest(i) == RemoveAt(timers, i)
             next(i) == now + timers[i].interval
             t(i) == [timers[i] EXCEPT !.next = next(i), !.count = 0]
  <2>1. PICK i \in PositionsOf(timers, id) :
          \E k \in InsertPositions(rest(i), next(i)) : timers' = InsertAt(rest(i), k, t(i))
    BY <1>4 DEF ResetTimer
  <2>2. i \in DOMAIN timers
    BY DEF PositionsOf
  <2>3. TableOK(rest(i)) /\ timers[i].id \notin UsedIds(rest(i))
    BY <1>0, <2>2, RemoveKeepsTable
  <2>4. t(i) \in Timer /\ t(i).id = timers[i].id /\ t(i).next = next(i)
    <3>1. timers[i] \in Timer /\ now \in Int
      BY <2>2, LenProperties, ElementOfSeq DEF TableInv, TimerTypeOK
    <3>2. next(i) \in Int
      BY <3>1 DEF Timer
    <3>3. PICK n \in Int, x \in Timer : n = next(i) /\ x = timers[i]
      BY <3>1, <3>2
    <3>4. t(i) = [x EXCEPT !.next = n, !.count = 0]
      BY <3>3
    <3>5. PICK y : y = [x EXCEPT !.next = n, !.count = 0]
      OBVIOUS
    <3>6. y \in Timer /\ y.id = x.id /\ y.next = n
      BY <3>5 DEF Timer
    <3>7. t(i) = y
      BY <3>4, <3>5
    <3> HIDE DEF t, next
    <3> QED BY <3>3, <3>6, <3>7
  <2> HIDE DEF rest, next, t
  <2>5. TableOK(timers')
    BY <2>1, <2>3, <2>4, InsertKeepsTable
  <2> QED BY <1>1, <1>4, <2>5 DEF ResetTimer
<1> QED
  BY <1>2, <1>3, <1>4 DEF UserStep

LEMMA FireKeeps ==
  ASSUME TableInv, FireLast \/ FireAgain
  PROVE  TableInv'
<1> USE TimerAssumption, UsersAssumption
<1>1. TableOK(timers) /\ timers # <<>> /\ timers \in Seq(Timer)
  BY DEF TableInv, TimerTypeOK, TableConsistent, TableOK, FireLast, FireAgain, HeadIsDue
<1>2. Tail(timers) = RemoveAt(timers, 1) /\ 1 \in DOMAIN timers /\ Head(timers) = timers[1]
  BY <1>1, TailIsRemoveAt
<1>3. TableOK(Tail(timers)) /\ Head(timers).id \notin UsedIds(Tail(timers))
  BY <1>1, <1>2, RemoveKeepsTable
<1>4. Head(timers) \in Timer
  BY <1>1, HeadTailProperties
<1>5. ASSUME TableOK(timers'), UNCHANGED <<now, passNow, sleepLeft, lag>>, phase' = "callback",
             fired' = fired \cup {Head(timers).id}
      PROVE  TableInv'
  <2>1. Head(timers).id \in TimerId
    BY <1>4 DEF Timer
  <2> QED BY <1>5, <2>1 DEF TableInv, TimerTypeOK, TableConsistent, TableOK
<1>6. CASE FireLast
  BY <1>3, <1>5, <1>6 DEF FireLast
<1>7. CASE FireAgain
  <2> DEFINE t == Head(timers)
             u == [t EXCEPT !.next = NextCall(t),
                            !.count = IF t.repeat >= 1 THEN t.count + 1 ELSE t.count]
  <2>1. PICK k \in InsertPositions(Tail(timers), NextCall(t)) :
          timers' = InsertAt(Tail(timers), k, u)
    BY <1>7 DEF FireAgain
  <2>2. u \in Timer /\ u.id = t.id /\ u.next = NextCall(t)
    <3>1. t \in Timer /\ passNow \in Int
      BY <1>4 DEF TableInv, TimerTypeOK
    <3> HIDE DEF t
    <3>2. NextCall(t) \in Int
      BY <3>1 DEF NextCall, Timer
    <3>3. (IF t.repeat >= 1 THEN t.count + 1 ELSE t.count) \in Nat
      BY <3>1 DEF Timer
    <3> QED BY <3>1, <3>2, <3>3 DEF Timer
  <2>3. u.id \notin UsedIds(Tail(timers))
    BY <1>3, <2>2
  <2> HIDE DEF u
  <2>4. TableOK(timers')
    BY <1>3, <2>1, <2>2, <2>3, InsertKeepsTable
  <2> QED BY <1>5, <1>7, <2>4 DEF FireAgain
<1> QED
  BY <1>6, <1>7

LEMMA OtherStepKeeps ==
  ASSUME TableInv,
         \/ TakeDelay \/ EpollWait \/ WakeForTimers \/ StartPass \/ CallbackReturns \/ EndPass
         \/ WakeForEvent \/ Tick \/ SetClock \/ UNCHANGED timerVars
  PROVE  TableInv'
<1> USE TimerAssumption, UsersAssumption
<1>1. timers' = timers
  BY DEF TakeDelay, EpollWait, WakeForTimers, StartPass, CallbackReturns, EndPass, WakeForEvent, Tick,
         SetClock, timerVars
<1>2. TableConsistent'
  BY <1>1 DEF TableInv, TableConsistent
<1>3. now' \in 0..MaxTime /\ passNow' \in 0..MaxTime /\ fired' \subseteq TimerId
      /\ phase' \in {"top", "poll", "asleep", "events", "pass", "callback"}
  BY DEF TableInv, TimerTypeOK, TakeDelay, EpollWait, WakeForTimers, StartPass, CallbackReturns, EndPass,
         WakeForEvent, Tick, SetClock, timerVars
<1>4. sleepLeft' \in Nat \cup {NoTimeout}
  <2>1. CASE TakeDelay
    <3>1. CASE timers = <<>>
      BY <2>1, <3>1 DEF TakeDelay, CalcNextDelay, NoTimeout
    <3>2. CASE timers # <<>>
      <4>0. Head(timers) \in Timer
        BY <3>2, HeadTailProperties DEF TableInv, TimerTypeOK
      <4>1. Head(timers).next \in Int /\ now \in Int
        BY <4>0 DEF TableInv, TimerTypeOK, Timer
      <4>2. CalcNextDelay \in Int
        BY <3>2, <4>1 DEF CalcNextDelay, ToInt32
      <4> QED BY <2>1, <4>2 DEF TakeDelay, NoTimeout
    <3> QED BY <3>1, <3>2
  <2>2. CASE ~TakeDelay
    BY <2>2 DEF TableInv, TimerTypeOK, NoTimeout, EpollWait, WakeForTimers, StartPass, CallbackReturns, EndPass,
                WakeForEvent, Tick, SetClock, timerVars
  <2> QED BY <2>1, <2>2
<1>5. lag' \in Nat
  BY DEF TableInv, TimerTypeOK, TakeDelay, EpollWait, WakeForTimers, StartPass, CallbackReturns, EndPass,
         WakeForEvent, Tick, SetClock, timerVars
<1> QED
  BY <1>1, <1>2, <1>3, <1>4, <1>5 DEF TableInv, TimerTypeOK

THEOREM TableInvariant == TimerSpec => []TableInv
<1>1. TimerInit => TableInv
  BY TimerAssumption, UsersAssumption, EmptySeq
     DEF TimerInit, TableInv, TimerTypeOK, TableConsistent, OrderedByNextCall, DistinctIds, NoTimeout
<1>2. TableInv /\ [TimerNext]_timerVars => TableInv'
  BY UserStepKeeps, FireKeeps, OtherStepKeeps DEF TimerNext, LoopStep
<1> QED
  BY <1>1, <1>2, PTL DEF TimerSpec

(* The timer list, the clock and the loop of OnThread keep their types. *)
THEOREM TimersAreTyped == TimerSpec => []TimerTypeOK
BY TableInvariant, PTL DEF TableInv

(* However callbacks and handlers add, remove and reset timers while
   ProcessTimers walks the list, and however the wall clock is set, the list
   is ordered by next call and no two timers share a slot. *)
THEOREM TableAlwaysConsistent == TimerSpec => []TableConsistent
BY TableInvariant, PTL DEF TableInv

(* ProcessTimers looks no further than the first timer that is not due; as
   the list is in order, none behind it is due either, whatever the
   callbacks of this pass have added, reset or removed and however the wall
   clock was set. *)
THEOREM PassLeavesNoDueTimer == TimerSpec => NoDueTimerLeft
<1>1. ASSUME TableInv, [TimerNext]_timerVars, phase = "pass", phase' = "top"
      PROVE  \A i \in DOMAIN timers : timers[i].next > passNow
  <2>1. ~HeadIsDue
    BY <1>1 DEF TimerNext, UserStep, LoopStep, AddTimer, RemoveTimer, ResetTimer, MayUseTimers, TakeDelay,
                EpollWait, WakeForTimers, WakeForEvent, StartPass, FireLast, FireAgain, CallbackReturns,
                EndPass, Tick, SetClock, timerVars
  <2>2. timers \in Seq(Timer) /\ passNow \in Int /\ OrderedByNextCall(timers)
    BY <1>1 DEF TableInv, TimerTypeOK, TableConsistent
  <2> SUFFICES ASSUME NEW i \in DOMAIN timers PROVE timers[i].next > passNow
    OBVIOUS
  <2>3. timers # <<>>
    OBVIOUS
  <2>4. 1 \in DOMAIN timers /\ Head(timers) = timers[1] /\ DOMAIN timers = 1..Len(timers)
    BY <2>2, <2>3, TailIsRemoveAt, LenProperties
  <2>5. timers[1].next > passNow
    <3>1. timers[1].next \in Int
      <4>1. timers[1] \in Timer
        BY <2>2, <2>4, ElementOfSeq
      <4> QED BY <4>1 DEF Timer
    <3> QED BY <2>1, <2>2, <2>3, <2>4, <3>1 DEF HeadIsDue
  <2>6. timers[1].next <= timers[i].next
    <3>1. CASE i = 1
      <4>1. timers[i] \in Timer
        BY <2>2, <2>4, ElementOfSeq
      <4> QED BY <3>1, <4>1 DEF Timer
    <3>2. CASE i # 1
      <4>1. 1 < i
        BY <2>2, <2>4, <3>2, LenProperties
      <4> QED BY <2>2, <2>4, <4>1 DEF OrderedByNextCall
    <3> QED BY <3>1, <3>2
  <2>7. timers[1] \in Timer /\ timers[i] \in Timer
    BY <2>2, <2>4, ElementOfSeq
  <2> QED BY <2>2, <2>5, <2>6, <2>7 DEF Timer
<1> QED
  BY <1>1, TableInvariant, PTL DEF TimerSpec, NoDueTimerLeft

-----------------------------------------------------------------------------
(* While the wall clock only goes forward. *)

(* Every timer in s is one of r's, or is due strictly after lo and not after
   hi. *)
ComesFrom(s, r, lo, hi) ==
  \A i \in DOMAIN s :
    \/ \E j \in DOMAIN r : s[i] = r[j]
    \/ s[i].next > lo /\ s[i].next <= hi

LEMMA InsertComesFrom ==
  ASSUME NEW s \in Seq(Timer), NEW t \in Timer, NEW k \in InsertPositions(s, t.next)
  PROVE  \A i \in DOMAIN InsertAt(s, k, t) :
           InsertAt(s, k, t)[i] = t \/ \E j \in DOMAIN s : InsertAt(s, k, t)[i] = s[j]
<1> DEFINE r == InsertAt(s, k, t)
           n == Len(s)
<1>1. n \in Nat /\ DOMAIN s = 1..n /\ k \in 1..(n + 1)
  BY LenProperties DEF InsertPositions
<1>2. /\ r \in Seq(Timer) /\ Len(r) = n + 1
      /\ \A i \in 1..(k - 1) : r[i] = s[i]
      /\ r[k] = t
      /\ \A i \in (k + 1)..(n + 1) : r[i] = s[i - 1]
  <2>1. k \in 1..(Len(s) + 1)
    BY <1>1
  <2>2. Inserted(InsertAt(s, k, t), s, k, t)
    BY <2>1, InsertTimerElements
  <2> QED BY <2>2 DEF Inserted
<1> HIDE DEF r, n
<1>3. DOMAIN r = 1..(n + 1)
  BY <1>2, LenProperties
<1>4. ASSUME NEW i \in DOMAIN r PROVE r[i] = t \/ \E j \in DOMAIN s : r[i] = s[j]
  <2>1. CASE i < k
    <3>1. i \in 1..(k - 1) /\ i \in DOMAIN s
      BY <1>1, <1>3, <2>1
    <3> QED BY <1>2, <3>1
  <2>2. CASE i = k
    BY <1>2, <2>2
  <2>3. CASE i > k
    <3>1. i \in (k + 1)..(n + 1) /\ i - 1 \in DOMAIN s
      BY <1>1, <1>3, <2>3
    <3> QED BY <1>2, <3>1
  <2> QED BY <1>1, <1>3, <2>1, <2>2, <2>3
<1> QED
  BY <1>4 DEF r

LEMMA RemoveComesFrom ==
  ASSUME NEW s \in Seq(Timer), NEW k \in DOMAIN s
  PROVE  \A i \in DOMAIN RemoveAt(s, k) : \E j \in DOMAIN s : RemoveAt(s, k)[i] = s[j]
<1> DEFINE r == RemoveAt(s, k)
           n == Len(s)
<1>1. n \in Nat /\ DOMAIN s = 1..n /\ k \in 1..n
  BY LenProperties
<1>2. r \in Seq(Timer) /\ Len(r) = n - 1 /\ \A i \in 1..(n - 1) : r[i] = s[IF i < k THEN i ELSE i + 1]
  BY <1>1, RemoveAtElements
<1> HIDE DEF r, n
<1>3. DOMAIN r = 1..(n - 1)
  BY <1>2, LenProperties
<1>4. ASSUME NEW i \in DOMAIN r PROVE \E j \in DOMAIN s : r[i] = s[j]
  <2>1. (IF i < k THEN i ELSE i + 1) \in DOMAIN s
    BY <1>1, <1>3
  <2> QED BY <1>2, <1>3, <2>1
<1> QED
  BY <1>4 DEF r

(* What a handler or a callback puts into the list is due after the present
   moment, and at most MAX_INTERVAL after it. *)
LEMMA UserStepComesFrom ==
  ASSUME TableInv, UserStep
  PROVE  ComesFrom(timers', timers, now, now + MaxInterval)
<1> USE TimerAssumption, UsersAssumption
<1>1. timers \in Seq(Timer) /\ now \in Int /\ TableOK(timers)
  BY DEF TableInv, TimerTypeOK, TableConsistent, TableOK
<1>2. ASSUME NEW ms \in Intervals, NEW r \in Repeats, AddTimer(ms, r)
      PROVE  ComesFrom(timers', timers, now, now + MaxInterval)
  <2> DEFINE c == ClampInterval(ms)
             t(id) == [id |-> id, interval |-> c, repeat |-> r, count |-> 0, next |-> now + c]
  <2>1. c \in MinInterval..MaxInterval
    BY ClampedInterval
  <2> HIDE DEF c
  <2>2. PICK id \in NextTimerIds(timers), k \in InsertPositions(timers, now + c) :
          timers' = InsertAt(timers, k, t(id))
    BY <1>2 DEF AddTimer, c
  <2>3. t(id) \in Timer /\ t(id).next = now + c
    BY <1>1, <2>1, <2>2 DEF Timer, NextTimerIds
  <2> HIDE DEF t
  <2>4. \A i \in DOMAIN timers' : timers'[i] = t(id) \/ \E j \in DOMAIN timers : timers'[i] = timers[j]
    BY <1>1, <2>2, <2>3, InsertComesFrom
  <2>5. now + c > now /\ now + c <= now + MaxInterval
    BY <1>1, <2>1
  <2> QED BY <2>3, <2>4, <2>5 DEF ComesFrom
<1>3. ASSUME NEW id \in TimerId, RemoveTimer(id)
      PROVE  ComesFrom(timers', timers, now, now + MaxInterval)
  <2>1. PICK i \in PositionsOf(timers, id) : timers' = RemoveAt(timers, i)
    BY <1>3 DEF RemoveTimer
  <2> QED BY <1>1, <2>1, RemoveComesFrom DEF PositionsOf, ComesFrom
<1>4. ASSUME NEW id \in TimerId, ResetTimer(id)
      PROVE  ComesFrom(timers', timers, now, now + MaxInterval)
  <2>1. PICK i \in PositionsOf(timers, id) :
          \E k \in InsertPositions(RemoveAt(timers, i), now + timers[i].interval) :
            timers' = InsertAt(RemoveAt(timers, i), k,
                        [timers[i] EXCEPT !.next = now + timers[i].interval, !.count = 0])
    BY <1>4 DEF ResetTimer
  <2>2. i \in DOMAIN timers
    BY DEF PositionsOf
  <2>3. TableOK(RemoveAt(timers, i))
    BY <1>1, <2>2, RemoveKeepsTable
  <2>4. PICK x \in Timer : x = timers[i]
    BY <1>1, <2>2, LenProperties, ElementOfSeq
  <2>5. PICK n \in Int : n = now + x.interval /\ n > now /\ n <= now + MaxInterval
    <3>1. x.interval \in MinInterval..MaxInterval
      BY DEF Timer
    <3>2. now + x.interval \in Int /\ now + x.interval > now /\ now + x.interval <= now + MaxInterval
      BY <1>1, <3>1
    <3> QED BY <3>2
  <2>6. PICK y : y = [x EXCEPT !.next = n, !.count = 0]
    OBVIOUS
  <2>7. y \in Timer /\ y.next = n
    BY <2>6 DEF Timer
  <2>8. PICK k \in InsertPositions(RemoveAt(timers, i), y.next) :
          timers' = InsertAt(RemoveAt(timers, i), k, y)
    BY <2>1, <2>4, <2>5, <2>6, <2>7
  <2>9. \A m \in DOMAIN timers' :
          timers'[m] = y \/ \E j \in DOMAIN RemoveAt(timers, i) : timers'[m] = RemoveAt(timers, i)[j]
    BY <2>3, <2>7, <2>8, InsertComesFrom DEF TableOK
  <2>10. \A j \in DOMAIN RemoveAt(timers, i) :
           \E l \in DOMAIN timers : RemoveAt(timers, i)[j] = timers[l]
    BY <1>1, <2>2, RemoveComesFrom
  <2> QED BY <2>5, <2>7, <2>9, <2>10 DEF ComesFrom
<1> QED
  BY <1>2, <1>3, <1>4 DEF UserStep

(* A timer that has run is not left in the list as it was: it is gone, or
   due after the time the pass goes by. *)
LEMMA FireComesFrom ==
  ASSUME TableInv, FireLast \/ FireAgain
  PROVE  \A i \in DOMAIN timers' :
           \/ \E j \in DOMAIN timers : timers'[i] = timers[j] /\ timers[j].id # Head(timers).id
           \/ timers'[i].next > passNow /\ timers'[i].next <= passNow + MaxInterval
<1> USE TimerAssumption, UsersAssumption
<1>1. TableOK(timers) /\ timers # <<>> /\ timers \in Seq(Timer) /\ passNow \in Int
  BY DEF TableInv, TimerTypeOK, TableConsistent, TableOK, FireLast, FireAgain, HeadIsDue
<1>2. Tail(timers) = RemoveAt(timers, 1) /\ 1 \in DOMAIN timers /\ Head(timers) = timers[1]
  BY <1>1, TailIsRemoveAt
<1>3. TableOK(Tail(timers)) /\ Head(timers).id \notin UsedIds(Tail(timers))
  BY <1>1, <1>2, RemoveKeepsTable
<1>4. \A i \in DOMAIN Tail(timers) :
        \E j \in DOMAIN timers : Tail(timers)[i] = timers[j] /\ timers[j].id # Head(timers).id
  <2>1. \A i \in DOMAIN Tail(timers) : \E j \in DOMAIN timers : Tail(timers)[i] = timers[j]
    BY <1>1, <1>2, RemoveComesFrom
  <2>2. \A i \in DOMAIN Tail(timers) : Tail(timers)[i].id # Head(timers).id
    BY <1>3 DEF UsedIds
  <2> QED BY <2>1, <2>2
<1>5. CASE FireLast
  BY <1>4, <1>5 DEF FireLast
<1>6. CASE FireAgain
  <2>1. PICK t \in Timer : t = Head(timers)
    BY <1>1, HeadTailProperties
  <2>2. PICK k \in InsertPositions(Tail(timers), NextCall(t)) :
          timers' = InsertAt(Tail(timers), k,
                      [t EXCEPT !.next = NextCall(t),
                                !.count = IF t.repeat >= 1 THEN t.count + 1 ELSE t.count])
    BY <1>6, <2>1 DEF FireAgain
  <2>3. PICK n \in Int : n = NextCall(t) /\ n > passNow /\ n <= passNow + MaxInterval
    <3>1. t.interval \in MinInterval..MaxInterval
      BY DEF Timer
    <3>2. passNow + t.interval \in Int /\ passNow + t.interval > passNow
          /\ passNow + t.interval <= passNow + MaxInterval
      BY <1>1, <3>1
    <3> QED BY <3>2 DEF NextCall
  <2>4. PICK m \in Nat : m = IF t.repeat >= 1 THEN t.count + 1 ELSE t.count
    BY DEF Timer
  <2>5. PICK y : y = [t EXCEPT !.next = n, !.count = m]
    OBVIOUS
  <2>6. y \in Timer /\ y.next = n
    BY <2>5 DEF Timer
  <2>7. timers' = InsertAt(Tail(timers), k, y) /\ k \in InsertPositions(Tail(timers), y.next)
    BY <2>2, <2>3, <2>4, <2>5, <2>6
  <2>8. \A i \in DOMAIN timers' :
          timers'[i] = y \/ \E j \in DOMAIN Tail(timers) : timers'[i] = Tail(timers)[j]
    <3>1. Tail(timers) \in Seq(Timer) /\ y \in Timer
      BY <1>3, <2>6 DEF TableOK
    <3>2. PICK rest : rest = Tail(timers)
      OBVIOUS
    <3>3. rest \in Seq(Timer) /\ y \in Timer /\ k \in InsertPositions(rest, y.next)
      BY <2>7, <3>1, <3>2
    <3>4. \A i \in DOMAIN InsertAt(rest, k, y) :
            InsertAt(rest, k, y)[i] = y \/ \E j \in DOMAIN rest : InsertAt(rest, k, y)[i] = rest[j]
      BY <3>3, InsertComesFrom
    <3>5. timers' = InsertAt(rest, k, y)
      BY <2>7, <3>2
    <3> QED BY <3>2, <3>4, <3>5
  <2> QED BY <1>4, <2>3, <2>6, <2>8
<1> QED
  BY <1>5, <1>6

(* While the clock goes forward, the time a pass goes by is not ahead of it,
   no timer lies further ahead than the longest interval, and a slot that has
   run in this pass holds only a timer that is due after it. *)
PassInv ==
  /\ \A i \in DOMAIN timers : timers[i].next <= now + MaxInterval
  /\ phase \in {"pass", "callback"} =>
       /\ passNow <= now
       /\ \A i \in DOMAIN timers : timers[i].id \in fired => timers[i].next > passNow

LEMMA PassInvIsInductive ==
  ASSUME ~ClockIsSet, TableInv, PassInv, [TimerNext]_timerVars
  PROVE  PassInv'
<1> USE TimerAssumption, UsersAssumption
<1>1. /\ timers \in Seq(Timer) /\ now \in Int /\ passNow \in Int
      /\ \A i \in DOMAIN timers : timers[i] \in Timer /\ timers[i].next \in Int
  <2>1. timers \in Seq(Timer) /\ now \in Int /\ passNow \in Int
    BY DEF TableInv, TimerTypeOK
  <2>2. \A i \in DOMAIN timers : timers[i] \in Timer
    BY <2>1, LenProperties, ElementOfSeq
  <2> QED BY <2>1, <2>2 DEF Timer
<1>2. timers' \in Seq(Timer) /\ \A i \in DOMAIN timers' : timers'[i].next \in Int
  <2>1. timers' \in Seq(Timer)
    BY UserStepKeeps, FireKeeps, OtherStepKeeps DEF TimerNext, LoopStep, TableInv, TimerTypeOK
  <2>2. \A i \in DOMAIN timers' : timers'[i] \in Timer
    BY <2>1, LenProperties, ElementOfSeq
  <2> QED BY <2>1, <2>2 DEF Timer
<1>3. CASE UserStep
  <2>1. ComesFrom(timers', timers, now, now + MaxInterval)
    BY <1>3, UserStepComesFrom
  <2>2. UNCHANGED <<now, phase, passNow, fired>>
    BY <1>3 DEF UserStep, AddTimer, RemoveTimer, ResetTimer
  <2>3. \A i \in DOMAIN timers' : timers'[i].next <= now' + MaxInterval
    BY <2>1, <2>2 DEF ComesFrom, PassInv
  <2>4. ASSUME phase' \in {"pass", "callback"}
        PROVE  /\ passNow' <= now'
               /\ \A i \in DOMAIN timers' : timers'[i].id \in fired' => timers'[i].next > passNow'
    <3>1. passNow <= now
      BY <2>2, <2>4 DEF PassInv
    <3>2. ASSUME NEW i \in DOMAIN timers', timers'[i].id \in fired
          PROVE  timers'[i].next > passNow
      <4>1. CASE \E j \in DOMAIN timers : timers'[i] = timers[j]
        BY <2>2, <2>4, <3>2, <4>1 DEF PassInv
      <4>2. CASE timers'[i].next > now
        BY <1>1, <1>2, <3>1, <4>2
      <4> QED BY <2>1, <4>1, <4>2 DEF ComesFrom
    <3> QED BY <2>2, <3>1, <3>2
  <2> QED BY <2>3, <2>4 DEF PassInv
<1>4. CASE FireLast \/ FireAgain
  <2>1. /\ phase = "pass" /\ UNCHANGED <<now, passNow>> /\ fired' = fired \cup {Head(timers).id}
    BY <1>4 DEF FireLast, FireAgain
  <2>2. passNow <= now /\ \A i \in DOMAIN timers : timers[i].id \in fired => timers[i].next > passNow
    BY <2>1 DEF PassInv
  <2>3. \A i \in DOMAIN timers' :
           \/ \E j \in DOMAIN timers : timers'[i] = timers[j] /\ timers[j].id # Head(timers).id
           \/ timers'[i].next > passNow /\ timers'[i].next <= passNow + MaxInterval
    BY <1>4, FireComesFrom
  <2>4. ASSUME NEW i \in DOMAIN timers'
        PROVE  /\ timers'[i].next <= now + MaxInterval
               /\ timers'[i].id \in fired' => timers'[i].next > passNow
    <3>1. CASE \E j \in DOMAIN timers : timers'[i] = timers[j] /\ timers[j].id # Head(timers).id
      BY <2>1, <2>2, <3>1 DEF PassInv
    <3>2. CASE timers'[i].next > passNow /\ timers'[i].next <= passNow + MaxInterval
      BY <1>1, <1>2, <2>2, <3>2
    <3> QED BY <2>3, <3>1, <3>2
  <2> QED BY <2>1, <2>2, <2>4 DEF PassInv
<1>5. CASE StartPass
  BY <1>1, <1>5 DEF StartPass, PassInv
<1>6. CASE Tick
  <2>1. UNCHANGED <<timers, phase, passNow, fired>> /\ now' \in {now, now + 1}
    BY <1>6 DEF Tick
  <2>2. \A i \in DOMAIN timers : timers[i].next <= now' + MaxInterval
    BY <1>1, <2>1 DEF PassInv
  <2> QED BY <1>1, <2>1, <2>2 DEF PassInv
<1>7. CASE \/ TakeDelay \/ EpollWait \/ WakeForTimers \/ WakeForEvent \/ CallbackReturns \/ EndPass
          \/ UNCHANGED timerVars
  <2>1. /\ UNCHANGED <<timers, now, passNow, fired>>
        /\ phase' \in {"pass", "callback"} => phase \in {"pass", "callback"}
    BY <1>7 DEF TakeDelay, EpollWait, WakeForTimers, WakeForEvent, CallbackReturns, EndPass, timerVars
  <2> QED BY <2>1 DEF PassInv
<1>8. ~SetClock
  BY DEF SetClock
<1> QED
  BY <1>3, <1>4, <1>5, <1>6, <1>7, <1>8 DEF TimerNext, LoopStep

LEMMA InitPassInv == TimerInit => PassInv
BY DEF TimerInit, PassInv

(* However late the worker thread is and whatever its callbacks put into the
   list, a slot runs at most once on one look at the clock, so ProcessTimers
   ends, as long as the wall clock is not set back meanwhile. *)
THEOREM SlotsRunOnceAPass ==
  ASSUME ~ClockIsSet
  PROVE  TimerSpec => NoSlotRunsTwice
<1>1. ASSUME TableInv, PassInv, [TimerNext]_timerVars, phase = "pass", phase' = "callback"
      PROVE  Head(timers).id \notin fired
  <2>1. HeadIsDue
    BY <1>1 DEF TimerNext, UserStep, LoopStep, AddTimer, RemoveTimer, ResetTimer, MayUseTimers, TakeDelay,
                EpollWait, WakeForTimers, WakeForEvent, StartPass, FireLast, FireAgain, CallbackReturns,
                EndPass, Tick, SetClock, timerVars
  <2>2. timers \in Seq(Timer) /\ timers # <<>> /\ Head(timers).next <= passNow /\ passNow \in Int
    BY <1>1, <2>1 DEF HeadIsDue, TableInv, TimerTypeOK
  <2>3. 1 \in DOMAIN timers /\ Head(timers) = timers[1] /\ Head(timers).next \in Int
    <3>1. 1 \in DOMAIN timers /\ Head(timers) = timers[1] /\ Head(timers) \in Timer
      BY <2>2, TailIsRemoveAt, HeadTailProperties
    <3> QED BY <3>1 DEF Timer
  <2> QED BY <1>1, <2>2, <2>3 DEF PassInv
<1>2. TableInv /\ PassInv /\ [TimerNext]_timerVars => PassInv'
  BY PassInvIsInductive
<1> QED
  BY <1>1, <1>2, InitPassInv, TableInvariant, PTL DEF TimerSpec, NoSlotRunsTwice

(* epoll's time-out never outlasts the earliest deadline by more than the time
   the thread lost between the look at the clock and epoll_wait; in particular
   the conversion of CalcNextDelay's result to int32_t does not turn it into a
   sleep without end: the list holds nothing further ahead than MAX_INTERVAL,
   which an int32_t holds. *)
THEOREM SleepIsShortEnough ==
  ASSUME ~ClockIsSet, MaxInterval < DelayRange
  PROVE  TimerSpec => []SleepCoversHead
<1> USE TimerAssumption, UsersAssumption
<1>1. ASSUME TableInv, PassInv, SleepCoversHead, [TimerNext]_timerVars
      PROVE  SleepCoversHead'
  <2>1. timers \in Seq(Timer) /\ now \in Int /\ sleepLeft \in Nat \cup {NoTimeout} /\ lag \in Nat
    BY <1>1 DEF TableInv, TimerTypeOK
  <2>2. CASE TakeDelay
    <3> SUFFICES ASSUME timers # <<>>
                 PROVE  /\ sleepLeft' # NoTimeout
                        /\ sleepLeft' = 0 \/ now + sleepLeft' <= Head(timers).next + lag'
      BY <2>2 DEF TakeDelay, SleepCoversHead
    <3> DEFINE h == Head(timers).next
    <3>1. h \in Int /\ h <= now + MaxInterval
      <4>1. 1 \in DOMAIN timers /\ Head(timers) = timers[1] /\ Head(timers) \in Timer
        BY <2>1, TailIsRemoveAt, HeadTailProperties
      <4> QED BY <1>1, <4>1 DEF PassInv, Timer
    <3>2. CalcNextDelay = IF now >= h THEN 0 ELSE ToInt32(h - now)
      BY DEF CalcNextDelay
    <3> HIDE DEF h
    <3>3. ASSUME ~(now >= h) PROVE ToInt32(h - now) = h - now
      <4>1. h - now + DelayRange \in 0..(2 * DelayRange - 1)
        BY <2>1, <3>1, <3>3
      <4>2. (h - now + DelayRange) % (2 * DelayRange) = h - now + DelayRange
        BY <4>1
      <4> QED BY <2>1, <3>1, <4>2 DEF ToInt32
    <3>4. sleepLeft' = IF now >= h THEN 0 ELSE h - now
      BY <2>1, <2>2, <3>1, <3>2, <3>3 DEF TakeDelay
    <3>5. lag' = 0
      BY <2>2 DEF TakeDelay
    <3> QED BY <2>1, <3>1, <3>4, <3>5 DEF NoTimeout, h
  <2>3. CASE Tick
    <3> SUFFICES ASSUME phase \in {"poll", "asleep"}, timers # <<>>
                 PROVE  /\ sleepLeft' # NoTimeout
                        /\ sleepLeft' = 0 \/ now' + sleepLeft' <= Head(timers).next + lag'
      BY <2>3 DEF Tick, SleepCoversHead
    <3>1. sleepLeft # NoTimeout /\ (sleepLeft = 0 \/ now + sleepLeft <= Head(timers).next + lag)
      BY <1>1 DEF SleepCoversHead
    <3>2. PICK h \in Int : h = Head(timers).next
      <4>1. Head(timers) \in Timer
        BY <2>1, HeadTailProperties
      <4> QED BY <4>1 DEF Timer
    <3>3. CASE phase = "poll"
      <4>1. /\ sleepLeft' = sleepLeft
            /\ (now' = now /\ lag' \in {lag, lag + 1}) \/ (now' = now + 1 /\ lag' = lag + 1)
        BY <2>3, <3>3 DEF Tick
      <4>2. CASE sleepLeft = 0
        BY <3>1, <4>1, <4>2
      <4>3. CASE sleepLeft # 0
        <5>1. sleepLeft \in Nat /\ now + sleepLeft <= h + lag
          BY <2>1, <3>1, <3>2, <4>3
        <5>2. now' + sleepLeft <= h + lag'
          BY <2>1, <4>1, <5>1
        <5> QED BY <3>1, <3>2, <4>1, <5>2
      <4> QED BY <4>2, <4>3
    <3>4. CASE phase = "asleep"
      <4>1. lag' = lag /\ (now' = now \/ now' = now + 1)
        BY <2>3, <3>4 DEF Tick
      <4>2. CASE sleepLeft = 0
        <5>1. sleepLeft' = 0
          BY <2>3, <4>2 DEF Tick
        <5> QED BY <5>1 DEF NoTimeout
      <4>3. CASE sleepLeft # 0
        <5>1. sleepLeft \in Nat /\ sleepLeft > 0 /\ now + sleepLeft <= h + lag
          BY <2>1, <3>1, <3>2, <4>3
        <5>2. PICK left \in Nat : left = sleepLeft - 1 /\ sleepLeft' = left
          BY <2>3, <3>4, <5>1 DEF Tick
        <5>3. now + 1 + left <= h + lag /\ now + left <= h + lag
          BY <2>1, <5>1, <5>2
        <5>4. now' + left <= h + lag'
          BY <4>1, <5>3
        <5> QED BY <3>2, <5>2, <5>4 DEF NoTimeout
      <4> QED BY <4>2, <4>3
    <3> QED BY <3>3, <3>4
  <2>4. CASE EpollWait \/ UNCHANGED timerVars
    BY <1>1, <2>4 DEF EpollWait, timerVars, SleepCoversHead
  <2>5. CASE UserStep \/ WakeForTimers \/ WakeForEvent \/ StartPass \/ FireLast \/ FireAgain
             \/ CallbackReturns \/ EndPass
    <3>1. phase' \notin {"poll", "asleep"}
      BY <2>5 DEF UserStep, AddTimer, RemoveTimer, ResetTimer, MayUseTimers, WakeForTimers,
                  WakeForEvent, StartPass, FireLast, FireAgain, CallbackReturns, EndPass
    <3> QED BY <3>1 DEF SleepCoversHead
  <2>6. ~SetClock
    BY DEF SetClock
  <2> QED BY <1>1, <2>2, <2>3, <2>4, <2>5, <2>6 DEF TimerNext, LoopStep
<1>2. TimerInit => SleepCoversHead
  BY DEF TimerInit, SleepCoversHead
<1>3. TableInv /\ PassInv /\ [TimerNext]_timerVars => PassInv'
  BY PassInvIsInductive
<1> QED
  BY <1>1, <1>2, <1>3, InitPassInv, TableInvariant, PTL DEF TimerSpec
=============================================================================

--------------------------- MODULE DelegateTasks ---------------------------
(***************************************************************************)
(* The hand-over of calls from the binder threads of the input service to  *)
(* its one worker thread: class DelegateTasks, the id factory it extends   *)
(* and the part of MMIService that serves its pipe.                        *)
(*                                                                         *)
(* A poster appends a task to a queue under a mutex and writes one record  *)
(* to a non-blocking pipe; the worker, woken by epoll on the pipe, reads   *)
(* ONE record and pops UP TO BatchLimit tasks.  The poster of a            *)
(* synchronous task waits on a promise that lives on its own stack, with a *)
(* time limit after which it marks the task and leaves.                    *)
(***************************************************************************)
EXTENDS Integers, Sequences, FiniteSets

CONSTANTS
  Clients,        \* binder threads that call the service
  QueueLimit,     \* maxTasksLimit of PostTask
  BatchLimit,     \* onceProcessTaskLimit of PopPendingTaskList
  PipeCapacity,   \* records the pipe holds before write() returns EAGAIN
  MaxId           \* numeric_limits<int32_t>::max(), where the factory stops

ASSUME ClientsAssumption == Clients # {}
ASSUME LimitsAssumption ==
  /\ QueueLimit \in Nat
  /\ BatchLimit \in Nat \ {0}
  /\ PipeCapacity \in Nat \ {0}
  /\ MaxId \in Nat
  /\ QueueLimit + 2 < MaxId

VARIABLES
  tasks,      \* tasks_: queued tasks, oldest first
  seed,       \* IdFactory::seed_
  freeIds,    \* IdFactory::ids_
  pipe,       \* records written to the pipe and not yet read
  batch,      \* the worker's popped vector, from the task it is at onwards
  worker,     \* where the worker thread is
  poster,     \* where each binder thread is inside PostSyncTask
  promise,    \* the promise on each binder thread's stack
  ran,        \* the callback of the thread's current synchronous call has run
  undefined   \* the worker has used a stack frame or promise that is gone

queueVars  == <<tasks, seed, freeIds, pipe>>
workerVars == <<batch, worker>>
posterVars == <<poster, promise, ran>>
vars == <<queueVars, workerVars, posterVars, undefined>>

(* A Task object.  waited is hasWaited_, set by the poster when it leaves. *)
Task == [id : Int, client : Clients, sync : BOOLEAN, waited : BOOLEAN]

WorkerAt == {"notStarted", "epoll", "pop", "check", "run", "ran", "set", "stopped"}
PosterAt == {"idle", "waiting", "ready", "timedOut"}

TypeOK ==
  /\ tasks \in Seq(Task)
  /\ seed \in Nat \ {0}
  /\ freeIds \in SUBSET Int
  /\ pipe \in 0..PipeCapacity
  /\ batch \in Seq(Task)
  /\ worker \in WorkerAt
  /\ poster \in [Clients -> PosterAt]
  /\ promise \in [Clients -> {"none", "unset", "set"}]
  /\ ran \in [Clients -> BOOLEAN]
  /\ undefined \in BOOLEAN

Init ==
  /\ tasks = <<>>
  /\ seed = 1
  /\ freeIds = {}
  /\ pipe = 0
  /\ batch = <<>>
  /\ worker = "notStarted"
  /\ poster = [c \in Clients |-> "idle"]
  /\ promise = [c \in Clients |-> "none"]
  /\ ran = [c \in Clients |-> FALSE]
  /\ undefined = FALSE

-----------------------------------------------------------------------------
(* IdFactory *)

(* GenerateId: the smallest recovered id if there is one, else the seed,
   and 0 once the seed has reached the largest value of the type. *)
GeneratedIds ==
  IF freeIds = {} THEN {IF seed = MaxId THEN 0 ELSE seed}
                  ELSE {i \in freeIds : \A j \in freeIds : i <= j}

SeedNotAdvanced == seed   \* mutant: the seed is returned but not incremented

SeedAfter == IF freeIds = {} /\ seed # MaxId THEN seed + 1 ELSE seed

(* RecoveryId of every id of a set, with the seed as it then is. *)
Recover(free, ids, sd) == free \cup {i \in ids : i <= sd}

-----------------------------------------------------------------------------
(* Posting, under mux_ *)

HasRoom == Len(tasks) <= QueueLimit

(* Mutant: the result of write() is not looked at. *)
PushUnchecked(c, sync) ==
  /\ HasRoom
  /\ \E id \in GeneratedIds :
       /\ tasks' = Append(tasks, [id |-> id, client |-> c, sync |-> sync, waited |-> FALSE])
       /\ freeIds' = freeIds \ {id}
  /\ seed' = SeedAfter
  /\ pipe' = pipe + 1

PushTask(c, sync) ==
  /\ HasRoom
  /\ pipe < PipeCapacity
  /\ \E id \in GeneratedIds :
       /\ tasks' = Append(tasks, [id |-> id, client |-> c, sync |-> sync, waited |-> FALSE])
       /\ freeIds' = freeIds \ {id}
  /\ seed' = SeedAfter
  /\ pipe' = pipe + 1

(* The write fails: the id goes back to the factory and no task is queued. *)
RefusePipe ==
  /\ HasRoom
  /\ pipe = PipeCapacity
  /\ \E id \in GeneratedIds : freeIds' = Recover(freeIds \ {id}, {id}, SeedAfter)
  /\ seed' = SeedAfter
  /\ UNCHANGED <<tasks, pipe>>

RefuseFull == ~HasRoom /\ UNCHANGED queueVars

PostSyncTask(c) ==
  /\ poster[c] = "idle"
  /\ \/ /\ PushTask(c, TRUE)
        /\ poster' = [poster EXCEPT ![c] = "waiting"]
        /\ promise' = [promise EXCEPT ![c] = "unset"]
        /\ ran' = [ran EXCEPT ![c] = FALSE]
     \/ /\ RefusePipe \/ RefuseFull
        /\ UNCHANGED posterVars
  /\ UNCHANGED <<workerVars, undefined>>

PostAsyncTask(c) ==
  /\ poster[c] = "idle"
  /\ PushTask(c, FALSE) \/ RefusePipe \/ RefuseFull
  /\ UNCHANGED <<workerVars, posterVars, undefined>>

(* future.wait_for returns: with the value, or after its 3 seconds. *)
WaitReady(c) ==
  /\ poster[c] = "waiting"
  /\ promise[c] = "set"
  /\ poster' = [poster EXCEPT ![c] = "ready"]
  /\ UNCHANGED <<queueVars, workerVars, promise, ran, undefined>>

WaitForever(c) == FALSE /\ UNCHANGED vars   \* mutant: future.wait() without a limit

WaitTimeout(c) ==
  /\ poster[c] = "waiting"
  /\ promise[c] = "unset"
  /\ poster' = [poster EXCEPT ![c] = "timedOut"]
  /\ UNCHANGED <<queueVars, workerVars, promise, ran, undefined>>

MarkNothing(c, q) == q   \* mutant: SetWaited is forgotten

MarkWaited(c, q) ==
  [i \in DOMAIN q |-> IF q[i].client = c /\ q[i].sync THEN [q[i] EXCEPT !.waited = TRUE]
                                                      ELSE q[i]]

(* SetWaited, then PostSyncTask returns and its promise is destroyed. *)
Leave(c) ==
  /\ poster[c] \in {"ready", "timedOut"}
  /\ tasks' = MarkWaited(c, tasks)
  /\ batch' = MarkWaited(c, batch)
  /\ poster' = [poster EXCEPT ![c] = "idle"]
  /\ promise' = [promise EXCEPT ![c] = "none"]
  /\ UNCHANGED <<seed, freeIds, pipe, worker, ran, undefined>>

-----------------------------------------------------------------------------
(* The worker thread *)

StartThread ==
  /\ worker = "notStarted"
  /\ worker' = "epoll"
  /\ UNCHANGED <<queueVars, batch, posterVars, undefined>>

(* Mutant: the pipe is emptied, one ProcessTasks for all the records. *)
DrainRecords ==
  /\ worker = "epoll"
  /\ pipe > 0
  /\ pipe' = 0
  /\ worker' = "pop"
  /\ UNCHANGED <<tasks, seed, freeIds, batch, posterVars, undefined>>

(* OnDelegateTask, woken because the pipe is readable: one record is read. *)
ReadRecord ==
  /\ worker = "epoll"
  /\ pipe > 0
  /\ pipe' = pipe - 1
  /\ worker' = "pop"
  /\ UNCHANGED <<tasks, seed, freeIds, batch, posterVars, undefined>>

PopCount == IF Len(tasks) < BatchLimit THEN Len(tasks) ELSE BatchLimit

PopPendingTaskList ==
  /\ worker = "pop"
  /\ batch' = SubSeq(tasks, 1, PopCount)
  /\ tasks' = SubSeq(tasks, PopCount + 1, Len(tasks))
  /\ freeIds' = Recover(freeIds, {tasks[i].id : i \in 1..PopCount}, seed)
  /\ worker' = IF PopCount = 0 THEN "epoll" ELSE "check"
  /\ UNCHANGED <<seed, pipe, posterVars, undefined>>

(* On to the next task of the batch, or back to epoll. *)
NextTask ==
  /\ batch' = Tail(batch)
  /\ worker' = IF Len(batch) = 1 THEN "epoll" ELSE "check"

DiscardExpired ==
  /\ worker = "check"
  /\ Head(batch).waited
  /\ NextTask
  /\ UNCHANGED <<queueVars, posterVars, undefined>>

(* Mutant: ProcessTask without its first test of hasWaited_. *)
StartAnyCallback ==
  /\ worker = "check"
  /\ worker' = "run"
  /\ UNCHANGED <<queueVars, batch, posterVars, undefined>>

StartCallback ==
  /\ worker = "check"
  /\ ~Head(batch).waited
  /\ worker' = "run"
  /\ UNCHANGED <<queueVars, batch, posterVars, undefined>>

(* fun_ returns.  What it wrote through references bound to the poster's
   stack is undefined when the poster has left meanwhile. *)
FinishCallback ==
  /\ worker = "run"
  /\ worker' = "ran"
  /\ LET t == Head(batch) IN
       /\ ran' = IF t.sync /\ ~t.waited THEN [ran EXCEPT ![t.client] = TRUE] ELSE ran
       /\ undefined' = (undefined \/ (t.sync /\ t.waited))
  /\ UNCHANGED <<queueVars, batch, poster, promise>>

(* The second test of hasWaited_, and promise_ != nullptr. *)
DecideAnswer ==
  /\ worker = "ran"
  /\ IF Head(batch).sync /\ ~Head(batch).waited
     THEN worker' = "set" /\ UNCHANGED batch
     ELSE NextTask
  /\ UNCHANGED <<queueVars, posterVars, undefined>>

(* promise_->set_value on a promise that is still there. *)
SetValue ==
  /\ worker = "set"
  /\ LET t == Head(batch) IN
       /\ ~t.waited
       /\ promise[t.client] # "set"
       /\ promise' = [promise EXCEPT ![t.client] = "set"]
  /\ NextTask
  /\ UNCHANGED <<queueVars, poster, ran, undefined>>

(* promise_->set_value after the poster has left.  The build can do nothing
   visible, or satisfy the promise of a later call of the same thread, whose
   frame is at the same place. *)
SetValueDangling ==
  /\ worker = "set"
  /\ LET c == Head(batch).client IN
       /\ Head(batch).waited
       /\ promise' \in {promise} \cup
            (IF promise[c] = "unset" THEN {[promise EXCEPT ![c] = "set"]} ELSE {})
  /\ undefined' = TRUE
  /\ NextTask
  /\ UNCHANGED <<queueVars, poster, ran>>

(* set_value throws, on a promise that is gone or already satisfied: the
   process ends and init starts it anew. *)
Abort ==
  /\ worker = "set"
  /\ Head(batch).waited \/ promise[Head(batch).client] = "set"
  /\ tasks' = <<>> /\ seed' = 1 /\ freeIds' = {} /\ pipe' = 0
  /\ batch' = <<>> /\ worker' = "notStarted"
  /\ poster' = [c \in Clients |-> "idle"]
  /\ promise' = [c \in Clients |-> "none"]
  /\ ran' = [c \in Clients |-> FALSE]
  /\ undefined' = FALSE

(* A termination signal ends the loop of OnThread; binder threads go on. *)
StopThread ==
  /\ worker = "epoll"
  /\ worker' = "stopped"
  /\ UNCHANGED <<queueVars, batch, posterVars, undefined>>

WorkerStep ==
  \/ StartThread \/ ReadRecord \/ PopPendingTaskList
  \/ DiscardExpired \/ StartCallback \/ FinishCallback \/ DecideAnswer
  \/ SetValue \/ SetValueDangling \/ Abort

PosterStep(c) ==
  \/ PostSyncTask(c) \/ PostAsyncTask(c)
  \/ WaitReady(c) \/ WaitTimeout(c) \/ Leave(c)

Next ==
  \/ WorkerStep
  \/ StopThread
  \/ \E c \in Clients : PosterStep(c)

Spec == Init /\ [][Next]_vars

(***************************************************************************)
(* Fairness: the worker thread is scheduled, callbacks return, and a wait  *)
(* returns at its deadline.  Nobody has to post, and no signal has to come.*)
(***************************************************************************)
Fairness ==
  /\ WF_vars(WorkerStep)
  /\ \A c \in Clients : WF_vars(WaitReady(c) \/ WaitTimeout(c) \/ Leave(c))

FairSpec == Spec /\ Fairness

-----------------------------------------------------------------------------
(* No wakeup is lost.  The worker reads one record per wakeup and may pop
   many tasks, so records outnumber tasks; a queued task without a record
   behind it would wait until somebody else posts. *)
NoLostWakeup ==
  Len(tasks) <= pipe + (IF worker = "pop" THEN 1 ELSE 0)

(* The ids that stand for queued tasks in the log and in the pipe: no two
   queued tasks share one, every other id handed out so far is in the
   recovered pool, and recycling bounds the seed, so the factory never runs
   out and returns 0. *)
QueuedIds == {tasks[i].id : i \in DOMAIN tasks}

IdsDistinct == \A i, j \in DOMAIN tasks : i # j => tasks[i].id # tasks[j].id

IdsConsistent ==
  /\ IdsDistinct
  /\ QueuedIds \cap freeIds = {}
  /\ QueuedIds \cup freeIds = 1..(seed - 1)
  /\ seed <= QueueLimit + 2

(* A synchronous caller that is handed a value is handed the one of its own
   call: the callback of this call, not of an earlier one that timed out,
   has run.  Nothing is promised once a dangling frame has been used. *)
AnswerIsOwn ==
  undefined \/ \A c \in Clients : poster[c] = "ready" => ran[c]

(* Whatever the interleaving of posting, batching and time limits, the pair
   of queue and popped batch behaves as one FIFO of calls of which each is
   started at most once and none after its poster has given up. *)
CQ == INSTANCE CallQueue WITH
        pending <- [i \in DOMAIN (batch \o tasks) |->
                      LET t == (batch \o tasks)[i]
                      IN  [client |-> t.client, sync |-> t.sync, expired |-> t.waited]],
        serving <- worker \in {"run", "ran", "set"}

ImplementsCallQueue == CQ!Spec

(* No binder thread is held for ever by a synchronous call, not even by one
   posted before the worker starts or after it has stopped. *)
SyncCallReturns ==
  \A c \in Clients : poster[c] # "idle" ~> poster[c] = "idle"

(* While the worker runs, a queued task is popped: it cannot sit in the
   queue until another post wakes the worker.  And SyncCallReturns. *)
QueuedTasksAreTaken ==
  /\ SyncCallReturns
  /\ tasks # <<>> ~> (tasks = <<>> \/ batch # <<>> \/ worker = "stopped")
=============================================================================

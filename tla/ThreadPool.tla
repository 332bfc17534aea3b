----------------------------- MODULE ThreadPool -----------------------------
(***************************************************************************)
(* The thread pool of include/async/Loop.hpp at the granularity of its     *)
(* locks.  Each worker thread owns one queue of coroutine handles; addTask *)
(* binds a handle to one queue for the life of the frame; runTasks pops    *)
(* and resumes; cleanTasks, run by the thread that calls enter(), destroys *)
(* the frames that are done.                                               *)
(*                                                                         *)
(* std::shared_mutex is the platform's default pthread_rwlock: a reader is *)
(* blocked only by an active writer, so a thread that already owns the     *)
(* lock in shared mode (every resumed task does) may take it again.        *)
(***************************************************************************)
EXTENDS Integers, Sequences, FiniteSets

CONSTANTS
  Workers,         \* the pool's threads; also names the queue each one owns
  Main,            \* the thread that builds the pool and then calls enter()
  Tasks,           \* addresses of coroutine frames, reused after destroy()
  None,            \* no thread, no queue, no task
  End,             \* the iterator queueList.end()
  CleanThreshold,  \* bindings below which cleanTasks skips a round (10000)
  MaxAdds,         \* bound: addTask calls other than rescheduling oneself
  BeginSeesQueue   \* scheduling assumption: some worker has registered its
                   \* queue when the constructor reads queueList.begin()

Threads == Workers \cup {Main}

ASSUME ConstantsAssumption ==
  /\ IsFiniteSet(Tasks)
  /\ Workers # {}
  /\ Main \notin Workers
  /\ None \notin Threads \cup Tasks \cup {End}
  /\ End \notin Threads \cup Tasks
  /\ CleanThreshold \in Nat
  /\ MaxAdds \in Nat
  /\ BeginSeesQueue \in BOOLEAN

VARIABLES
  pc,            \* where each thread is
  ret,           \* where a thread continues after addTask
  task,          \* the handle a thread passes to addTask
  targetQueue,   \* the queue iterator held by addTask and by cleanTasks
  cur,           \* the handle a worker has popped
  sharedCnt,     \* cleanWorkMutex: shared ownerships per thread
  exclusive,     \* cleanWorkMutex: exclusive owner (only ever cleanTasks)
  bindingMutex,  \* its owner
  queueMutex,    \* the owner of each queue's mutex
  queueList,     \* the queues in the order in which they were registered
  currentQueue,  \* iterator: the queue for the next unbound handle
  taskBinding,   \* handle -> queue, or None
  queue,         \* the deque of handles of each worker
  frame,         \* state of the coroutine frame at each address
  doneTasks,     \* local of cleanTasks: handles to erase, per queue
  adds           \* addTask calls made so far, for MaxAdds

lockVars == <<sharedCnt, exclusive, bindingMutex, queueMutex>>
bindVars == <<queueList, currentQueue, taskBinding>>
callVars == <<ret, task, targetQueue>>
vars == <<pc, callVars, cur, lockVars, bindVars, queue, frame, doneTasks, adds>>

Goto(x, label) == pc' = [pc EXCEPT ![x] = label]

(* Mutants, here and below: the definition that follows with a fault.      *)
LockSharedUnchecked(x) == sharedCnt' = [sharedCnt EXCEPT ![x] = @ + 1]

(* cleanWorkMutex.  Acquiring shared ownership looks at the writer only.   *)
LockShared(x) ==
  /\ exclusive = None
  /\ sharedCnt' = [sharedCnt EXCEPT ![x] = @ + 1]

UnlockSharedTwice(x) == sharedCnt' = [sharedCnt EXCEPT ![x] = @ - 2]

UnlockShared(x) == sharedCnt' = [sharedCnt EXCEPT ![x] = @ - 1]

(* queueList.begin(); on an empty list this is end().                      *)
Begin == IF queueList = <<>> THEN End ELSE queueList[1]

(* currentQueue++ followed by the wrap-around of addTask.  libstdc++'s     *)
(* list is circular, so incrementing end() gives the first node.           *)
Advance(it) ==
  LET after == {j \in 2..Len(queueList) : queueList[j - 1] = it}
  IN  IF after = {} THEN Begin ELSE queueList[CHOOSE j \in after : TRUE]

(* A deque without its i-th entry.                                         *)
EraseAt(s, i) ==
  [j \in 1..(Len(s) - 1) |-> IF j < i THEN s[j] ELSE s[j + 1]]

BoundNever(t) == t \notin Tasks
Bound(t) == taskBinding[t] # None

(* The predicate of cv.wait, and of the test that precedes it.             *)
HasTask(w) == queue[w] # <<>>

(* notify_all on the queue's condition variable reaches a waiting worker.  *)
NotifiesNever(x, y) == x \notin Threads /\ y \notin Threads
Notifies(x, y) == y = targetQueue[x] /\ pc[y] = "r_wait"

(* handle.done() as the cleaner and the workers see it.                    *)
DoneIfIdle(t) == frame[t] \in {"suspended", "done"}
Done(t) == frame[t] = "done"

(* The entries that erase_if removes from a queue.                         *)
ErasableNone(w) == {i \in 1..Len(queue[w]) : FALSE}
Erasable(w) == {i \in 1..Len(queue[w]) : queue[w][i] \in doneTasks[w]}

Init ==
  /\ pc = [x \in Threads |-> IF x = Main THEN "ctor" ELSE "start"]
  /\ ret = [x \in Threads |-> "main"]
  /\ task = [x \in Threads |-> None]
  /\ targetQueue = [x \in Threads |-> None]
  /\ cur = [w \in Workers |-> None]
  /\ sharedCnt = [x \in Threads |-> 0]
  /\ exclusive = None
  /\ bindingMutex = None
  /\ queueMutex = [w \in Workers |-> None]
  /\ queueList = <<>>
  /\ currentQueue = End
  /\ taskBinding = [t \in Tasks |-> None]
  /\ queue = [w \in Workers |-> <<>>]
  /\ frame = [t \in Tasks |-> "free"]
  /\ doneTasks = [w \in Workers |-> {}]
  /\ adds = 0

-----------------------------------------------------------------------------
(* Construction.  The locks that threadTask nests are released before the  *)
(* latch and never waited for in another order, so one step takes them all.*)

Register(w) ==
  /\ pc[w] = "start"
  /\ exclusive = None
  /\ bindingMutex = None
  /\ queueList' = Append(queueList, w)
  /\ Goto(w, "latch")
  /\ UNCHANGED <<callVars, cur, lockVars, currentQueue, taskBinding, queue,
                 frame, doneTasks, adds>>

PassLatch(w) ==
  /\ pc[w] = "latch"
  /\ \A v \in Workers : pc[v] # "start"
  /\ Goto(w, "r_clean")
  /\ UNCHANGED <<callVars, cur, lockVars, bindVars, queue, frame, doneTasks, adds>>

(* The constructor reads queueList.begin() without queueListMutex and      *)
(* without waiting for the latch.                                          *)
Construct ==
  /\ pc[Main] = "ctor"
  /\ BeginSeesQueue => queueList # <<>>
  /\ currentQueue' = Begin
  /\ Goto(Main, "main")
  /\ UNCHANGED <<callVars, cur, lockVars, queueList, taskBinding, queue, frame,
                 doneTasks, adds>>

-----------------------------------------------------------------------------
(* addTask(t) called by thread x, which continues at label l.              *)

CallAddTask(x, t, l) ==
  /\ task' = [task EXCEPT ![x] = t]
  /\ ret' = [ret EXCEPT ![x] = l]
  /\ Goto(x, "a_clean")
  /\ UNCHANGED targetQueue

AddLockClean(x) ==
  /\ pc[x] = "a_clean"
  /\ LockShared(x)
  /\ Goto(x, "a_bind")
  /\ UNCHANGED <<callVars, cur, exclusive, bindingMutex, queueMutex, bindVars,
                 queue, frame, doneTasks, adds>>

AddLockBinding(x) ==
  /\ pc[x] = "a_bind"
  /\ bindingMutex = None
  /\ bindingMutex' = x
  /\ Goto(x, "a_look")
  /\ UNCHANGED <<callVars, cur, sharedCnt, exclusive, queueMutex, bindVars,
                 queue, frame, doneTasks, adds>>

(* A bound handle goes to its queue again; bindingLock.unlock().           *)
AddFound(x) ==
  /\ pc[x] = "a_look"
  /\ Bound(task[x])
  /\ targetQueue' = [targetQueue EXCEPT ![x] = taskBinding[task[x]]]
  /\ bindingMutex' = None
  /\ Goto(x, "a_queue")
  /\ UNCHANGED <<ret, task, cur, sharedCnt, exclusive, queueMutex, bindVars,
                 queue, frame, doneTasks, adds>>

(* An unbound handle takes currentQueue, which moves on.                   *)
AddBind(x) ==
  /\ pc[x] = "a_look"
  /\ ~Bound(task[x])
  /\ targetQueue' = [targetQueue EXCEPT ![x] = currentQueue]
  /\ currentQueue' = Advance(currentQueue)
  /\ taskBinding' = [taskBinding EXCEPT ![task[x]] = currentQueue]
  /\ bindingMutex' = None
  /\ Goto(x, "a_queue")
  /\ UNCHANGED <<ret, task, cur, sharedCnt, exclusive, queueMutex, queueList,
                 queue, frame, doneTasks, adds>>

(* Dereferencing end() is undefined behaviour: the thread goes no further. *)
AddDerefEnd(x) ==
  /\ pc[x] = "a_queue"
  /\ targetQueue[x] = End
  /\ Goto(x, "ub")
  /\ UNCHANGED <<callVars, cur, lockVars, bindVars, queue, frame, doneTasks, adds>>

AddLockQueue(x) ==
  /\ pc[x] = "a_queue"
  /\ targetQueue[x] # End
  /\ queueMutex[targetQueue[x]] = None
  /\ queueMutex' = [queueMutex EXCEPT ![targetQueue[x]] = x]
  /\ Goto(x, "a_push")
  /\ UNCHANGED <<callVars, cur, sharedCnt, exclusive, bindingMutex, bindVars,
                 queue, frame, doneTasks, adds>>

AddPush(x) ==
  /\ pc[x] = "a_push"
  /\ queue' = [queue EXCEPT ![targetQueue[x]] = Append(@, task[x])]
  /\ queueMutex' = [queueMutex EXCEPT ![targetQueue[x]] = None]
  /\ Goto(x, "a_notify")
  /\ UNCHANGED <<callVars, cur, sharedCnt, exclusive, bindingMutex, bindVars,
                 frame, doneTasks, adds>>

(* cv.notify_all() wakes the queue's worker if it waits; then the shared   *)
(* lock goes out of scope.                                                 *)
AddNotify(x) ==
  /\ pc[x] = "a_notify"
  /\ pc' = [y \in Threads |->
              IF y = x THEN ret[x] ELSE IF Notifies(x, y) THEN "r_wake" ELSE pc[y]]
  /\ UnlockShared(x)
  /\ UNCHANGED <<callVars, cur, exclusive, bindingMutex, queueMutex, bindVars,
                 queue, frame, doneTasks, adds>>

addTask(x) ==
  \/ AddLockClean(x) \/ AddLockBinding(x) \/ AddFound(x) \/ AddBind(x)
  \/ AddDerefEnd(x) \/ AddLockQueue(x) \/ AddPush(x) \/ AddNotify(x)

-----------------------------------------------------------------------------
(* runTasks, one iteration of a worker's loop.                             *)

RunLockClean(w) ==
  /\ pc[w] = "r_clean"
  /\ LockShared(w)
  /\ Goto(w, "r_lock")
  /\ UNCHANGED <<callVars, cur, exclusive, bindingMutex, queueMutex, bindVars,
                 queue, frame, doneTasks, adds>>

(* With an empty queue the worker gives up the shared lock and waits; the  *)
(* wait releases the queue's mutex it has just taken.                      *)
RunEmpty(w) ==
  /\ pc[w] = "r_lock"
  /\ queueMutex[w] = None
  /\ ~HasTask(w)
  /\ UnlockShared(w)
  /\ Goto(w, "r_wait")
  /\ UNCHANGED <<callVars, cur, exclusive, bindingMutex, queueMutex, bindVars,
                 queue, frame, doneTasks, adds>>

RunLockQueue(w) ==
  /\ pc[w] = "r_lock"
  /\ queueMutex[w] = None
  /\ HasTask(w)
  /\ queueMutex' = [queueMutex EXCEPT ![w] = w]
  /\ Goto(w, "r_pop")
  /\ UNCHANGED <<callVars, cur, sharedCnt, exclusive, bindingMutex, bindVars,
                 queue, frame, doneTasks, adds>>

SpuriousWake(w) ==
  /\ pc[w] = "r_wait"
  /\ Goto(w, "r_wake")
  /\ UNCHANGED <<callVars, cur, lockVars, bindVars, queue, frame, doneTasks, adds>>

(* cv.wait returns, owning the mutex, only if its predicate holds.         *)
RunWaitAgain(w) ==
  /\ pc[w] = "r_wake"
  /\ queueMutex[w] = None
  /\ ~HasTask(w)
  /\ Goto(w, "r_wait")
  /\ UNCHANGED <<callVars, cur, lockVars, bindVars, queue, frame, doneTasks, adds>>

RunWake(w) ==
  /\ pc[w] = "r_wake"
  /\ queueMutex[w] = None
  /\ HasTask(w)
  /\ queueMutex' = [queueMutex EXCEPT ![w] = w]
  /\ Goto(w, "r_try")
  /\ UNCHANGED <<callVars, cur, sharedCnt, exclusive, bindingMutex, bindVars,
                 queue, frame, doneTasks, adds>>

RunTrySpin(w) ==
  /\ pc[w] = "r_try"
  /\ exclusive # None
  /\ UNCHANGED vars

(* lock() in its place: wait, and keep the queue's mutex.                  *)
RunTryBlocks(w) ==
  /\ pc[w] = "r_try"
  /\ exclusive # None
  /\ Goto(w, "r_clean")
  /\ UNCHANGED <<callVars, cur, lockVars, bindVars, queue, frame, doneTasks, adds>>

(* cleanLock.try_lock(): while the cleaner runs, back out of runTasks.     *)
RunTryFail(w) ==
  /\ pc[w] = "r_try"
  /\ exclusive # None
  /\ queueMutex' = [queueMutex EXCEPT ![w] = None]
  /\ Goto(w, "r_clean")
  /\ UNCHANGED <<callVars, cur, sharedCnt, exclusive, bindingMutex, bindVars,
                 queue, frame, doneTasks, adds>>

RunTryLock(w) ==
  /\ pc[w] = "r_try"
  /\ LockShared(w)
  /\ Goto(w, "r_pop")
  /\ UNCHANGED <<callVars, cur, exclusive, bindingMutex, queueMutex, bindVars,
                 queue, frame, doneTasks, adds>>

RunPop(w) ==
  /\ pc[w] = "r_pop"
  /\ cur' = [cur EXCEPT ![w] = Head(queue[w])]
  /\ queue' = [queue EXCEPT ![w] = Tail(@)]
  /\ queueMutex' = [queueMutex EXCEPT ![w] = None]
  /\ Goto(w, "r_run")
  /\ UNCHANGED <<callVars, sharedCnt, exclusive, bindingMutex, bindVars, frame,
                 doneTasks, adds>>

(* A handle that is done is skipped, any other is resumed.                 *)
RunSkip(w) ==
  /\ pc[w] = "r_run"
  /\ Done(cur[w])
  /\ Goto(w, "r_end")
  /\ UNCHANGED <<callVars, cur, lockVars, bindVars, queue, frame, doneTasks, adds>>

RunResume(w) ==
  /\ pc[w] = "r_run"
  /\ ~Done(cur[w])
  /\ frame' = [frame EXCEPT ![cur[w]] = "running"]
  /\ Goto(w, "body")
  /\ UNCHANGED <<callVars, cur, lockVars, bindVars, queue, doneTasks, adds>>

RunEnd(w) ==
  /\ pc[w] = "r_end"
  /\ UnlockShared(w)
  /\ cur' = [cur EXCEPT ![w] = None]
  /\ Goto(w, "r_clean")
  /\ UNCHANGED <<callVars, exclusive, bindingMutex, queueMutex, bindVars, queue,
                 frame, doneTasks, adds>>

runTasks(w) ==
  \/ RunLockClean(w) \/ RunEmpty(w) \/ RunLockQueue(w) \/ RunWaitAgain(w)
  \/ RunWake(w) \/ RunTryFail(w) \/ RunTryLock(w) \/ RunPop(w) \/ RunSkip(w)
  \/ RunResume(w) \/ RunEnd(w)

-----------------------------------------------------------------------------
(* The resumed coroutine.  What it computes is left open; it may finish,   *)
(* suspend for an event, reschedule itself (co_await pool.scheduler), run  *)
(* another coroutine to its end, or hand any handle to addTask: that of a  *)
(* coroutine it has just created and detached or of a frame that exists,   *)
(* even one queued, running or done, as the I/O loops do.                  *)

BodyFinish(w) ==
  /\ pc[w] = "body"
  /\ frame' = [frame EXCEPT ![cur[w]] = "done"]
  /\ Goto(w, "r_end")
  /\ UNCHANGED <<callVars, cur, lockVars, bindVars, queue, doneTasks, adds>>

(* resume() returns; the frame may be done since, see BodyComplete.        *)
BodySuspend(w) ==
  /\ pc[w] = "body"
  /\ frame' = [frame EXCEPT ![cur[w]] = IF @ = "done" THEN @ ELSE "suspended"]
  /\ Goto(w, "r_end")
  /\ UNCHANGED <<callVars, cur, lockVars, bindVars, queue, doneTasks, adds>>

(* scheduleAwaiter::await_suspend: the frame is suspended already when     *)
(* addTask runs.                                                           *)
BodySchedule(w) ==
  /\ pc[w] = "body"
  /\ ~Done(cur[w])
  /\ frame' = [frame EXCEPT ![cur[w]] = "suspended"]
  /\ CallAddTask(w, cur[w], "r_end")
  /\ UNCHANGED <<cur, lockVars, bindVars, queue, doneTasks, adds>>

(* Symmetric transfer: a coroutine that ends resumes the one that awaits   *)
(* it, on this worker and without passing through a queue.  So a worker    *)
(* may end any frame that has started, also the one it popped before going *)
(* on with the caller, or one whose own worker has not yet returned from   *)
(* resume().                                                               *)
BodyComplete(w, t) ==
  /\ pc[w] = "body"
  /\ frame[t] \in {"suspended", "running"}
  /\ frame' = [frame EXCEPT ![t] = "done"]
  /\ UNCHANGED <<pc, callVars, cur, lockVars, bindVars, queue, doneTasks, adds>>

BodyAdd(w, t) ==
  /\ pc[w] = "body"
  /\ t # cur[w]
  /\ adds < MaxAdds
  /\ adds' = adds + 1
  /\ frame' = [frame EXCEPT ![t] = IF @ = "free" THEN "suspended" ELSE @]
  /\ CallAddTask(w, t, "body")
  /\ UNCHANGED <<cur, lockVars, bindVars, queue, doneTasks>>

Body(w) ==
  \/ BodyFinish(w) \/ BodySuspend(w) \/ BodySchedule(w)
  \/ \E t \in Tasks : BodyComplete(w, t) \/ BodyAdd(w, t)

-----------------------------------------------------------------------------
(* The thread that built the pool: it adds the first tasks, then cleans.   *)

MainAdd(t) ==
  /\ pc[Main] = "main"
  /\ frame[t] = "free"
  /\ adds < MaxAdds
  /\ adds' = adds + 1
  /\ frame' = [frame EXCEPT ![t] = "suspended"]
  /\ CallAddTask(Main, t, "main")
  /\ UNCHANGED <<cur, lockVars, bindVars, queue, doneTasks>>

Enter ==
  /\ pc[Main] = "main"
  /\ Goto(Main, "c_lock")
  /\ UNCHANGED <<callVars, cur, lockVars, bindVars, queue, frame, doneTasks, adds>>

CleanLock ==
  /\ pc[Main] = "c_lock"
  /\ \A x \in Threads : sharedCnt[x] = 0
  /\ exclusive' = Main
  /\ Goto(Main, "c_check")
  /\ UNCHANGED <<callVars, cur, sharedCnt, bindingMutex, queueMutex, bindVars,
                 queue, frame, doneTasks, adds>>

CleanSkip ==
  /\ pc[Main] = "c_check"
  /\ Cardinality({t \in Tasks : Bound(t)}) < CleanThreshold
  /\ exclusive' = None
  /\ Goto(Main, "c_sleep")
  /\ UNCHANGED <<callVars, cur, sharedCnt, bindingMutex, queueMutex, bindVars,
                 queue, frame, doneTasks, adds>>

(* Done handles leave taskBinding and are grouped by queue.                *)
CleanScan ==
  /\ pc[Main] = "c_check"
  /\ Cardinality({t \in Tasks : Bound(t)}) >= CleanThreshold
  /\ doneTasks' = [w \in Workers |->
                     {t \in Tasks : taskBinding[t] = w /\ Done(t)}]
  /\ taskBinding' = [t \in Tasks |->
                       IF Done(t) THEN None ELSE taskBinding[t]]
  /\ Goto(Main, "c_next")
  /\ UNCHANGED <<callVars, cur, lockVars, queueList, currentQueue, queue, frame,
                 adds>>

CleanLockQueue(w) ==
  /\ pc[Main] = "c_next"
  /\ doneTasks[w] # {}
  /\ queueMutex[w] = None
  /\ queueMutex' = [queueMutex EXCEPT ![w] = Main]
  /\ targetQueue' = [targetQueue EXCEPT ![Main] = w]
  /\ Goto(Main, "c_erase")
  /\ UNCHANGED <<ret, task, cur, sharedCnt, exclusive, bindingMutex, bindVars,
                 queue, frame, doneTasks, adds>>

(* std::erase_if over the deque, one matching entry at a time.             *)
CleanErase ==
  /\ pc[Main] = "c_erase"
  /\ LET w == targetQueue[Main] IN
       \E i \in Erasable(w) :
         queue' = [queue EXCEPT ![w] = EraseAt(@, i)]
  /\ UNCHANGED <<pc, callVars, cur, lockVars, bindVars, frame, doneTasks, adds>>

CleanDestroy ==
  /\ pc[Main] = "c_erase"
  /\ LET w == targetQueue[Main] IN
       /\ Erasable(w) = {}
       /\ frame' = [t \in Tasks |-> IF t \in doneTasks[w] THEN "free" ELSE frame[t]]
       /\ doneTasks' = [doneTasks EXCEPT ![w] = {}]
       /\ queueMutex' = [queueMutex EXCEPT ![w] = None]
  /\ Goto(Main, "c_next")
  /\ UNCHANGED <<callVars, cur, sharedCnt, exclusive, bindingMutex, bindVars,
                 queue, adds>>

CleanUnlock ==
  /\ pc[Main] = "c_next"
  /\ \A w \in Workers : doneTasks[w] = {}
  /\ exclusive' = None
  /\ Goto(Main, "c_sleep")
  /\ UNCHANGED <<callVars, cur, sharedCnt, bindingMutex, queueMutex, bindVars,
                 queue, frame, doneTasks, adds>>

CleanSleep ==
  /\ pc[Main] = "c_sleep"
  /\ Goto(Main, "c_lock")
  /\ UNCHANGED <<callVars, cur, lockVars, bindVars, queue, frame, doneTasks, adds>>

cleanTasks ==
  \/ CleanLock \/ CleanSkip \/ CleanScan \/ (\E w \in Workers : CleanLockQueue(w))
  \/ CleanErase \/ CleanDestroy \/ CleanUnlock \/ CleanSleep

-----------------------------------------------------------------------------
WorkerStep(w) ==
  Register(w) \/ PassLatch(w) \/ runTasks(w) \/ Body(w) \/ addTask(w)

MainStep ==
  \/ Construct \/ (\E t \in Tasks : MainAdd(t)) \/ Enter \/ cleanTasks
  \/ addTask(Main)

Next ==
  \/ \E w \in Workers : WorkerStep(w) \/ SpuriousWake(w)
  \/ MainStep

Spec == Init /\ [][Next]_vars

(* Every runnable worker keeps running and is not starved at a mutex; a    *)
(* resumed task returns to its worker; the main thread keeps running but   *)
(* may starve at the write lock, which prefers readers.                    *)
Fairness == (\A w \in Workers : SF_vars(WorkerStep(w))) /\ WF_vars(MainStep)

FairSpec == Spec /\ Fairness

-----------------------------------------------------------------------------
(* Properties.                                                             *)

AddPCs == {"a_clean", "a_bind", "a_look", "a_queue", "a_push", "a_notify"}
WorkerPCs == AddPCs \cup {"start", "latch", "r_clean", "r_lock", "r_wait",
               "r_wake", "r_try", "r_pop", "r_run", "body", "r_end", "ub"}
MainPCs == AddPCs \cup {"ctor", "main", "c_lock", "c_check", "c_next",
             "c_erase", "c_sleep", "ub"}

(* Type invariant.  Shared ownerships nest at most twice: the one runTasks *)
(* holds while a task runs and the one of an addTask that task calls.      *)
TypeOK ==
  /\ pc \in [Threads -> WorkerPCs \cup MainPCs]
  /\ \A w \in Workers : pc[w] \in WorkerPCs
  /\ pc[Main] \in MainPCs
  /\ ret \in [Threads -> {"main", "body", "r_end"}]
  /\ task \in [Threads -> Tasks \cup {None}]
  /\ targetQueue \in [Threads -> Workers \cup {End, None}]
  /\ cur \in [Workers -> Tasks \cup {None}]
  /\ sharedCnt \in [Threads -> 0..2]
  /\ exclusive \in {Main, None}
  /\ bindingMutex \in Threads \cup {None}
  /\ queueMutex \in [Workers -> Threads \cup {None}]
  /\ queueList \in Seq(Workers)
  /\ currentQueue \in Workers \cup {End}
  /\ taskBinding \in [Tasks -> Workers \cup {End, None}]
  /\ queue \in [Workers -> Seq(Tasks)]
  /\ frame \in [Tasks -> {"free", "suspended", "running", "done"}]
  /\ doneTasks \in [Workers -> SUBSET Tasks]
  /\ adds \in 0..MaxAdds

(* A worker is inside task.resume() (Loop.hpp:203): in the coroutine, or   *)
(* in an addTask the coroutine called.                                     *)
Resuming(w) == pc[w] \in AddPCs \cup {"body", "ub"}

(* A handle waits only in the queue it is bound to (addTask's taskBinding  *)
(* lookup), apart from the ones the cleaner is about to erase.             *)
QueueAffinity ==
  \A w \in Workers : \A i \in 1..Len(queue[w]) :
    taskBinding[queue[w][i]] = w \/ queue[w][i] \in doneTasks[w]

(* No coroutine is resumed by two threads at once, whoever adds it and     *)
(* however often: two workers never hold the same popped handle.           *)
ResumeExclusive ==
  \A v, w \in Workers : v # w /\ cur[v] # None => cur[v] # cur[w]

(* A frame counts as running only while some worker is inside its resume() *)
(* and the frame is bound to that worker, so the cleaner's done() test and *)
(* a second resume() never see a frame in mid-flight.                      *)
RunningIsHeld ==
  \A t \in Tasks : frame[t] = "running" =>
    \E w \in Workers : taskBinding[t] = w /\ cur[w] = t /\ Resuming(w)

(* "when the clean thread is running, no task will run" (Loop.hpp:168).    *)
CleanExcludesResume ==
  pc[Main] \in {"c_check", "c_next", "c_erase"} =>
    \A w \in Workers : ~Resuming(w)

(* No queue, binding, popped handle or addTask argument refers to a frame  *)
(* that cleanTasks has destroyed.                                          *)
NoDanglingHandle ==
  /\ \A w \in Workers : \A i \in 1..Len(queue[w]) : frame[queue[w][i]] # "free"
  /\ \A t \in Tasks : Bound(t) => frame[t] # "free"
  /\ \A w \in Workers : cur[w] # None => frame[cur[w]] # "free"
  /\ \A x \in Threads : pc[x] \in AddPCs => frame[task[x]] # "free"

(* tasks.front() and pop_front() (Loop.hpp:195) never meet an empty deque. *)
PopNonEmpty == \A w \in Workers : pc[w] = "r_pop" => queue[w] # <<>>

(* No lost wake-up: while a worker sleeps on a queue that has a task, some *)
(* addTask is still about to notify it.                                    *)
NoLostWakeup ==
  \A w \in Workers : pc[w] = "r_wait" /\ queue[w] # <<>> =>
    \E x \in Threads : pc[x] = "a_notify" /\ targetQueue[x] = w

(* Thread x cannot go on before y has given up a lock.  try_lock (r_try)   *)
(* and a wait on the condition variable wait for no lock.                  *)
WaitsFor(x, y) ==
  \/ pc[x] \in {"start", "a_clean", "r_clean"} /\ exclusive = y
  \/ pc[x] \in {"start", "a_bind"} /\ bindingMutex = y
  \/ pc[x] = "a_queue" /\ targetQueue[x] # End /\ queueMutex[targetQueue[x]] = y
  \/ pc[x] \in {"r_lock", "r_wake"} /\ queueMutex[x] = y
  \/ pc[x] = "c_lock" /\ sharedCnt[y] > 0
  \/ pc[x] = "c_next" /\ \E w \in Workers : doneTasks[w] # {} /\ queueMutex[w] = y

(* "avoid dead lock ... A addTask add a task to the queue and wake up this *)
(* thread ... now A cleanWork is waken" (Loop.hpp:177-187): workers, tasks *)
(* that call addTask and the cleaner never wait for each other in a circle *)
(* of locks: of any threads one waits for none of the others.              *)
NoCircularWait ==
  \A S \in SUBSET Threads : S # {} => \E x \in S : \A y \in S : ~WaitsFor(x, y)

(* A binding is never moved to another queue, and is removed only for a    *)
(* coroutine that has finished.                                            *)
BindingStable ==
  [][\A t \in Tasks : taskBinding[t] # None /\ taskBinding'[t] # taskBinding[t]
        => taskBinding'[t] = None /\ frame[t] = "done"]_vars

(* Every queued handle is eventually popped by its worker, or destroyed.   *)
TaskServed ==
  \A w \in Workers, t \in Tasks :
    (\E i \in 1..Len(queue[w]) : queue[w][i] = t)
      ~> (cur[w] = t \/ frame[t] = "free")

(* Once it owns the write lock the cleaner gives it back: it does not      *)
(* deadlock with a woken worker over the queue's mutex (Loop.hpp:177-187). *)
CleanerReleases == exclusive = Main ~> exclusive = None

(* "the adder will check if its already bound ... will try to get a queue  *)
(* Counter mutex and add it to next and then add the task to the prev      *)
(* queue" (Loop.hpp:66-69): addTask always has a queue to add to.          *)
AddFindsQueue == \A x \in Threads : pc[x] # "ub"

-----------------------------------------------------------------------------
(* The pool implements PoolSpec.  A handle the cleaner has unbound but not *)
(* yet destroyed still counts as bound; end() is not a queue.              *)
absBinding ==
  [t \in Tasks |->
     IF \E w \in Workers : t \in doneTasks[w]
       THEN CHOOSE w \in Workers : t \in doneTasks[w]
       ELSE IF taskBinding[t] = End THEN None ELSE taskBinding[t]]

Abs == INSTANCE PoolSpec WITH binding <- absBinding, holder <- cur

(* The lock-level pool is a correct implementation of the abstract one.    *)
ImplementsPoolSpec == Abs!Spec
=============================================================================

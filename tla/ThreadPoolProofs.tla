-------------------------- MODULE ThreadPoolProofs --------------------------
(***************************************************************************)
(* Proofs about ThreadPool, for any number of workers, frames and calls.   *)
(***************************************************************************)
EXTENDS ThreadPool, TLAPS

(* Inside addTask, or stopped in it.                                       *)
InAdd(x) == pc[x] \in AddPCs \cup {"ub"}

(* A worker that has popped a handle and not yet finished with it.         *)
Holding(w) == InAdd(w) \/ pc[w] \in {"r_run", "body", "r_end"}

(* A worker whose coroutine is in execution, not suspended.                *)
Executing(w) == pc[w] = "body" \/ (InAdd(w) /\ ret[w] = "body")

(* Shared ownerships of cleanWorkMutex according to the thread's position. *)
Owned(x) ==
  (IF x \in Workers /\ (Holding(x) \/ pc[x] \in {"r_lock", "r_pop"}) THEN 1 ELSE 0)
    + (IF InAdd(x) /\ pc[x] # "a_clean" THEN 1 ELSE 0)

HoldsQueue(x, w) ==
  \/ x = w /\ pc[x] \in {"r_try", "r_pop"}
  \/ targetQueue[x] = w /\ (pc[x] = "a_push" \/ (x = Main /\ pc[x] = "c_erase"))

(* The locks are owned exactly by the threads whose position says so.      *)
LockInv ==
  /\ \A x \in Threads : sharedCnt[x] = Owned(x)
  /\ exclusive = Main <=> pc[Main] \in {"c_check", "c_next", "c_erase"}
  /\ exclusive = Main => \A x \in Threads : sharedCnt[x] = 0
  /\ \A x \in Threads : pc[x] = "a_look" => bindingMutex = x
  /\ \A x \in Threads, w \in Workers : HoldsQueue(x, w) => queueMutex[w] = x

(* A call of addTask has a live handle and, once it has looked it up, the  *)
(* queue the handle is bound to.                                           *)
CallInv ==
  /\ \A x \in Threads : InAdd(x) =>
       /\ ret[x] \in (IF x = Main THEN {"main"} ELSE {"body", "r_end"})
       /\ task[x] \in Tasks
       /\ frame[task[x]] # "free"
       /\ pc[x] \in {"a_queue", "a_push"} =>
            targetQueue[x] = taskBinding[task[x]] /\ targetQueue[x] # None
       /\ pc[x] \in {"a_push", "a_notify"} => targetQueue[x] \in Workers
  /\ pc[Main] = "c_erase" => targetQueue[Main] \in Workers

(* A popped handle is live and bound to its worker, and is marked running  *)
(* exactly while it executes.                                              *)
HeldInv ==
  /\ \A w \in Workers : cur[w] # None <=> Holding(w)
  /\ \A w \in Workers : Holding(w) =>
       taskBinding[cur[w]] = w /\ frame[cur[w]] # "free"
  /\ \A w \in Workers : Executing(w) => frame[cur[w]] \in {"running", "done"}
  /\ \A t \in Tasks : frame[t] = "running" =>
       \E w \in Workers : cur[w] = t /\ Executing(w)

(* Queued handles are live and where they are bound.                       *)
QueueInv ==
  /\ QueueAffinity
  /\ \A w \in Workers : \A i \in 1..Len(queue[w]) : frame[queue[w][i]] # "free"
  /\ \A t \in Tasks : taskBinding[t] # None => frame[t] # "free"
  /\ \A w \in Workers : pc[w] \in {"r_try", "r_pop"} => queue[w] # <<>>

(* What the cleaner has set aside is done, unbound and in one set only.    *)
DoneInv ==
  /\ \A w \in Workers : \A t \in doneTasks[w] :
       /\ frame[t] = "done"
       /\ taskBinding[t] = None
       /\ pc[Main] \in {"c_next", "c_erase"}
  /\ \A v, w \in Workers : v # w => doneTasks[v] \cap doneTasks[w] = {}

(* While the pool is being constructed there are no coroutines; afterwards *)
(* end() is not used if the constructor saw a queue.                       *)
StartInv ==
  /\ pc[Main] = "ctor" => \A t \in Tasks : frame[t] = "free"
  /\ BeginSeesQueue =>
       /\ \A t \in Tasks : taskBinding[t] # End
       /\ pc[Main] # "ctor" => queueList # <<>> /\ currentQueue # End
       /\ \A x \in Threads : pc[x] # "ub"

IInv ==
  /\ TypeOK /\ LockInv /\ CallInv /\ HeldInv /\ QueueInv /\ DoneInv
  /\ NoLostWakeup /\ StartInv

(* What cv.notify_all() does to the positions of the threads.             *)
NotifyPC(x) ==
  /\ pc' \in [Threads -> WorkerPCs \cup MainPCs]
  /\ pc[x] = "a_notify"
  /\ pc'[x] = ret[x]
  /\ ret[x] \in (IF x = Main THEN {"main"} ELSE {"body", "r_end"})
  /\ targetQueue[x] \in Workers
  /\ \A y \in Threads \ {x} :
       \/ pc'[y] = pc[y] /\ ~(y = targetQueue[x] /\ pc[y] = "r_wait")
       \/ y = targetQueue[x] /\ pc[y] = "r_wait" /\ pc'[y] = "r_wake"

(* notify_all moves a sleeping worker of the queue, and only that one.     *)
LEMMA AddNotifyPC ==
  ASSUME NEW x \in Threads, IInv, AddNotify(x)
  PROVE  NotifyPC(x)
<1>1. pc[x] = "a_notify"
  BY DEF AddNotify
<1>2. /\ ret[x] \in (IF x = Main THEN {"main"} ELSE {"body", "r_end"})
      /\ targetQueue[x] \in Workers
  BY <1>1 DEF IInv, CallInv, InAdd, AddPCs
<1>3. \A y \in Threads : pc'[y] = IF y = x THEN ret[x]
                                  ELSE IF Notifies(x, y) THEN "r_wake" ELSE pc[y]
  BY DEF AddNotify
<1>4. \A y \in Threads \ {x} :
        \/ pc'[y] = pc[y] /\ ~(y = targetQueue[x] /\ pc[y] = "r_wait")
        \/ /\ y = targetQueue[x]
           /\ pc[y] = "r_wait"
           /\ pc'[y] = "r_wake"
  BY <1>3 DEF Notifies
<1>5. pc'[x] = ret[x]
  BY <1>3
<1>6. \A y \in Threads : pc'[y] \in WorkerPCs \cup MainPCs
  BY <1>2, <1>4, <1>5 DEF IInv, TypeOK, WorkerPCs, MainPCs
<1>7. pc' \in [Threads -> WorkerPCs \cup MainPCs]
  BY <1>6 DEF AddNotify
<1> QED
  BY <1>1, <1>2, <1>4, <1>5, <1>7 DEF NotifyPC

(* std::erase removes one entry and keeps the others.                      *)
LEMMA EraseAtEntries ==
  ASSUME NEW s \in Seq(Tasks), NEW i \in 1..Len(s)
  PROVE  /\ EraseAt(s, i) \in Seq(Tasks)
         /\ Len(EraseAt(s, i)) = Len(s) - 1
         /\ \A j \in 1..Len(EraseAt(s, i)) : \E k \in 1..Len(s) : EraseAt(s, i)[j] = s[k]
<1>1. Len(s) - 1 \in Nat
  OBVIOUS
<1>2. \A j \in 1..(Len(s) - 1) : EraseAt(s, i)[j] = IF j < i THEN s[j] ELSE s[j + 1]
  BY DEF EraseAt
<1>3. \A j \in 1..(Len(s) - 1) : \E k \in 1..Len(s) : EraseAt(s, i)[j] = s[k]
  <2> SUFFICES ASSUME NEW j \in 1..(Len(s) - 1)
               PROVE \E k \in 1..Len(s) : EraseAt(s, i)[j] = s[k]
    OBVIOUS
  <2>1. CASE j < i
    BY <1>2, <2>1
  <2>2. CASE ~(j < i)
    <3>1. j + 1 \in 1..Len(s)
      OBVIOUS
    <3> QED
      BY <1>2, <2>2, <3>1
  <2> QED
    BY <2>1, <2>2
<1>4. EraseAt(s, i) \in Seq(Tasks)
  BY DEF EraseAt
<1>5. DOMAIN EraseAt(s, i) = 1..(Len(s) - 1)
  BY DEF EraseAt
<1>6. Len(EraseAt(s, i)) = Len(s) - 1
  BY <1>1, <1>4, <1>5
<1> QED
  BY <1>3, <1>4, <1>6

(* Steps whose effect the provers need in pieces: types.                   *)
LEMMA AddNotifyType ==
  ASSUME NEW x \in Threads, IInv, AddNotify(x)
  PROVE  TypeOK'
<1>1. NotifyPC(x)
  BY AddNotifyPC
<1>2. sharedCnt[x] \in 1..2
  <2>1. Owned(x) # 0
    BY <1>1 DEF NotifyPC, Owned, InAdd, AddPCs
  <2> QED
    BY <2>1 DEF IInv, TypeOK, LockInv
<1>3. sharedCnt' \in [Threads -> 0..2]
  BY <1>2 DEF IInv, TypeOK, AddNotify, UnlockShared
<1>4. ASSUME NEW w \in Workers PROVE pc'[w] \in WorkerPCs
  <2>1. CASE w = x
    BY <1>1, <2>1, ConstantsAssumption DEF NotifyPC, WorkerPCs
  <2>2. CASE w # x
    BY <1>1, <2>2 DEF NotifyPC, IInv, TypeOK, Threads, WorkerPCs
  <2> QED
    BY <2>1, <2>2
<1>5. pc'[Main] \in MainPCs
  BY <1>1, ConstantsAssumption DEF NotifyPC, IInv, TypeOK, Threads, MainPCs
<1> QED
  BY <1>1, <1>3, <1>4, <1>5 DEF NotifyPC, IInv, TypeOK, AddNotify, callVars,
       bindVars

(* A worker owns nothing when it starts an iteration of runTasks.          *)
LEMMA RunLockCleanType ==
  ASSUME NEW w \in Workers, IInv, RunLockClean(w)
  PROVE  TypeOK'
<1>1. sharedCnt[w] = 0
  BY ConstantsAssumption DEF IInv, LockInv, Owned, InAdd, Holding, AddPCs,
       Threads, RunLockClean
<1>2. sharedCnt' \in [Threads -> 0..2]
  BY <1>1 DEF IInv, TypeOK, RunLockClean, LockShared, Threads
<1> QED
  BY <1>2, ConstantsAssumption DEF IInv, TypeOK, RunLockClean, Goto, callVars,
       bindVars, WorkerPCs, MainPCs, AddPCs, Threads

(* A woken worker owns nothing before its try_lock.                        *)
LEMMA RunTryLockType ==
  ASSUME NEW w \in Workers, IInv, RunTryLock(w)
  PROVE  TypeOK'
<1>1. sharedCnt[w] = 0
  BY ConstantsAssumption DEF IInv, LockInv, Owned, InAdd, Holding, AddPCs,
       Threads, RunTryLock
<1>2. sharedCnt' \in [Threads -> 0..2]
  BY <1>1 DEF IInv, TypeOK, RunTryLock, LockShared, Threads
<1> QED
  BY <1>2, ConstantsAssumption DEF IInv, TypeOK, RunTryLock, Goto, callVars,
       bindVars, WorkerPCs, MainPCs, AddPCs, Threads

(* The end of addTask gives back one shared ownership.                     *)
LEMMA AddNotifyLock ==
  ASSUME NEW x \in Threads, IInv, AddNotify(x)
  PROVE  LockInv'
<1> USE DEF IInv
<1>1. NotifyPC(x)
  BY AddNotifyPC
<1>2. \A y \in Threads :
        sharedCnt'[y] = IF y = x THEN sharedCnt[x] - 1 ELSE sharedCnt[y]
  BY DEF AddNotify, UnlockShared, TypeOK
<1>3. sharedCnt[x] = Owned(x) /\ Owned(x)' = Owned(x) - 1
  BY <1>1, ConstantsAssumption DEF NotifyPC, LockInv, Owned, InAdd, Holding,
       AddPCs, Threads
<1>4. \A y \in Threads \ {x} : sharedCnt[y] = Owned(y) /\ Owned(y)' = Owned(y)
  BY <1>1, ConstantsAssumption DEF NotifyPC, LockInv, Owned, InAdd, Holding,
       AddPCs, Threads
<1>5. \A y \in Threads : sharedCnt'[y] = Owned(y)'
  BY <1>2, <1>3, <1>4 
<1>6. pc'[Main] \in {"c_check", "c_next", "c_erase"}
        <=> pc[Main] \in {"c_check", "c_next", "c_erase"}
  BY <1>1, ConstantsAssumption DEF NotifyPC, Threads
<1>7. exclusive # Main
  BY <1>3, <1>1, ConstantsAssumption DEF LockInv, NotifyPC, Owned, InAdd,
       Holding, AddPCs, Threads
<1>8. \A y \in Threads : pc'[y] = "a_look" => pc[y] = "a_look"
  BY <1>1, ConstantsAssumption DEF NotifyPC, Threads
<1>9. \A y \in Threads, w \in Workers : HoldsQueue(y, w)' => HoldsQueue(y, w)
  BY <1>1, ConstantsAssumption DEF NotifyPC, Threads, HoldsQueue, AddNotify,
       callVars
<1> QED
  BY <1>5, <1>6, <1>7, <1>8, <1>9 DEF LockInv, AddNotify

(* The end of runTasks gives back the worker's shared ownership.           *)
LEMMA RunEndLock ==
  ASSUME NEW w \in Workers, IInv, RunEnd(w)
  PROVE  LockInv'
<1> USE ConstantsAssumption DEF IInv, Threads
<1>1. /\ sharedCnt' = [sharedCnt EXCEPT ![w] = sharedCnt[w] - 1]
      /\ pc' = [pc EXCEPT ![w] = "r_clean"]
      /\ pc[w] = "r_end"
  BY DEF RunEnd, UnlockShared, Goto
<1>2. Owned(w) = 1 /\ Owned(w)' = 0
  BY <1>1 DEF Owned, InAdd, Holding, AddPCs, TypeOK
<1>3. \A y \in Threads \ {w} : Owned(y)' = Owned(y)
  BY <1>1 DEF Owned, InAdd, Holding, AddPCs, TypeOK
<1>4. \A y \in Threads : sharedCnt'[y] = Owned(y)'
  BY <1>1, <1>2, <1>3 DEF LockInv, TypeOK
<1>5. \A y \in Threads, v \in Workers : HoldsQueue(y, v)' => HoldsQueue(y, v)
  BY <1>1 DEF HoldsQueue, RunEnd, callVars, TypeOK
<1>6. exclusive # Main
  BY <1>2 DEF LockInv
<1> QED
  BY <1>1, <1>4, <1>5, <1>6 DEF LockInv, RunEnd, TypeOK

(* A notified worker neither holds nor executes a handle.                  *)
LEMMA AddNotifyHeld ==
  ASSUME NEW x \in Threads, IInv, AddNotify(x)
  PROVE  HeldInv'
<1> USE DEF IInv
<1>1. NotifyPC(x)
  BY AddNotifyPC
<1>2. \A w \in Workers : Holding(w)' <=> Holding(w)
  BY <1>1, ConstantsAssumption DEF NotifyPC, Holding, InAdd, AddPCs, Threads
<1>3. \A w \in Workers : Executing(w)' <=> Executing(w)
  BY <1>1, ConstantsAssumption DEF NotifyPC, Executing, InAdd, AddPCs,
       Threads, AddNotify, callVars
<1> QED
  BY <1>2, <1>3 DEF HeldInv, AddNotify, bindVars

(* What a worker pops is bound to it and live.                             *)
LEMMA RunPopHeld ==
  ASSUME NEW w \in Workers, IInv, RunPop(w)
  PROVE  HeldInv'
<1> USE ConstantsAssumption DEF IInv, Threads
<1> DEFINE t == Head(queue[w])
<1>1. /\ pc[w] = "r_pop"
      /\ pc' = [pc EXCEPT ![w] = "r_run"]
      /\ cur' = [cur EXCEPT ![w] = t]
      /\ UNCHANGED <<frame, taskBinding, ret>>
  BY DEF RunPop, Goto, callVars, bindVars
<1>2. /\ t \in Tasks
      /\ t = queue[w][1]
      /\ 1 \in 1..Len(queue[w])
  BY <1>1 DEF QueueInv, TypeOK
<1>3. exclusive # Main
  BY <1>1 DEF LockInv, Owned, InAdd, Holding, AddPCs
<1>4. doneTasks[w] = {}
  BY <1>3 DEF DoneInv, LockInv, TypeOK
<1>5. taskBinding[t] = w /\ frame[t] # "free"
  BY <1>2, <1>4 DEF QueueInv, QueueAffinity
<1>6. \A v \in Workers : v # w => (Holding(v)' <=> Holding(v)) /\ cur'[v] = cur[v]
  BY <1>1 DEF Holding, InAdd, TypeOK
<1>7. Holding(w)' /\ cur'[w] = t /\ ~Holding(w) /\ t # None
  BY <1>1, <1>2 DEF Holding, InAdd, AddPCs, TypeOK
<1>8. \A v \in Workers : Executing(v)' <=> Executing(v)
  BY <1>1 DEF Executing, InAdd, AddPCs, TypeOK
<1>9. ~Executing(w)
  BY <1>1 DEF Executing, InAdd, AddPCs
<1> QED
  BY <1>1, <1>5, <1>6, <1>7, <1>8, <1>9 DEF HeldInv

(* A worker lets its handle go when it has left resume().                  *)
LEMMA RunEndHeld ==
  ASSUME NEW w \in Workers, IInv, RunEnd(w)
  PROVE  HeldInv'
<1> USE ConstantsAssumption DEF IInv, Threads
<1>1. /\ pc[w] = "r_end"
      /\ pc' = [pc EXCEPT ![w] = "r_clean"]
      /\ cur' = [cur EXCEPT ![w] = None]
      /\ UNCHANGED <<frame, taskBinding, ret>>
  BY DEF RunEnd, Goto, callVars, bindVars
<1>2. \A v \in Workers : v # w => (Holding(v)' <=> Holding(v)) /\ cur'[v] = cur[v]
  BY <1>1 DEF Holding, InAdd, TypeOK
<1>3. ~Holding(w)' /\ cur'[w] = None
  BY <1>1 DEF Holding, InAdd, AddPCs, TypeOK
<1>4. \A v \in Workers : Executing(v)' <=> Executing(v)
  BY <1>1 DEF Executing, InAdd, AddPCs, TypeOK
<1>5. ~Executing(w)
  BY <1>1 DEF Executing, InAdd, AddPCs
<1> QED
  BY <1>1, <1>2, <1>3, <1>4, <1>5 DEF HeldInv

(* Only its worker executes the frame that ends.                           *)
LEMMA BodyFinishHeld ==
  ASSUME NEW w \in Workers, IInv, BodyFinish(w)
  PROVE  HeldInv'
<1> USE ConstantsAssumption DEF IInv, Threads
<1>1. /\ pc[w] = "body"
      /\ pc' = [pc EXCEPT ![w] = "r_end"]
      /\ frame' = [frame EXCEPT ![cur[w]] = "done"]
      /\ UNCHANGED <<cur, taskBinding, ret>>
  BY DEF BodyFinish, Goto, callVars, bindVars
<1>2. \A v \in Workers : Holding(v)' <=> Holding(v)
  BY <1>1 DEF Holding, InAdd, TypeOK
<1>3. Executing(w) /\ ~Executing(w)'
  BY <1>1 DEF Executing, InAdd, AddPCs, TypeOK
<1>4. \A v \in Workers : v # w => (Executing(v)' <=> Executing(v))
  BY <1>1 DEF Executing, InAdd, TypeOK
<1>5. \A v \in Workers : Executing(v) => Holding(v)
  BY DEF Executing, Holding
<1>6. \A v \in Workers : v # w /\ Holding(v) => cur[v] # cur[w] /\ cur[v] \in Tasks
  BY <1>3, <1>5 DEF HeldInv, TypeOK
<1>7. cur[w] \in Tasks
  BY <1>3, <1>5 DEF HeldInv, TypeOK
<1> QED
  BY <1>1, <1>2, <1>3, <1>4, <1>5, <1>6, <1>7 DEF HeldInv, TypeOK

(* Only its worker executes the frame that suspends.                       *)
LEMMA BodySuspendHeld ==
  ASSUME NEW w \in Workers, IInv, BodySuspend(w)
  PROVE  HeldInv'
<1> USE ConstantsAssumption DEF IInv, Threads
<1>1. /\ pc[w] = "body"
      /\ pc' = [pc EXCEPT ![w] = "r_end"]
      /\ frame' = [frame EXCEPT ![cur[w]] = IF @ = "done" THEN @ ELSE "suspended"]
      /\ UNCHANGED <<cur, taskBinding, ret>>
  BY DEF BodySuspend, Goto, callVars, bindVars
<1>2. \A v \in Workers : Holding(v)' <=> Holding(v)
  BY <1>1 DEF Holding, InAdd, TypeOK
<1>3. Executing(w) /\ ~Executing(w)'
  BY <1>1 DEF Executing, InAdd, AddPCs, TypeOK
<1>4. \A v \in Workers : v # w => (Executing(v)' <=> Executing(v))
  BY <1>1 DEF Executing, InAdd, TypeOK
<1>5. \A v \in Workers : Executing(v) => Holding(v)
  BY DEF Executing, Holding
<1>6. \A v \in Workers : v # w /\ Holding(v) => cur[v] # cur[w] /\ cur[v] \in Tasks
  BY <1>3, <1>5 DEF HeldInv, TypeOK
<1>7. cur[w] \in Tasks
  BY <1>3, <1>5 DEF HeldInv, TypeOK
<1> QED
  BY <1>1, <1>2, <1>3, <1>4, <1>5, <1>6, <1>7 DEF HeldInv, TypeOK

(* A coroutine that reschedules itself is no longer in execution.          *)
LEMMA BodyScheduleHeld ==
  ASSUME NEW w \in Workers, IInv, BodySchedule(w)
  PROVE  HeldInv'
<1> USE ConstantsAssumption DEF IInv, Threads
<1>1. /\ pc[w] = "body"
      /\ pc' = [pc EXCEPT ![w] = "a_clean"]
      /\ ret' = [ret EXCEPT ![w] = "r_end"]
      /\ frame' = [frame EXCEPT ![cur[w]] = "suspended"]
      /\ UNCHANGED <<cur, taskBinding>>
  BY DEF BodySchedule, CallAddTask, Goto, callVars, bindVars
<1>2. \A v \in Workers : Holding(v)' <=> Holding(v)
  BY <1>1 DEF Holding, InAdd, AddPCs, TypeOK
<1>3. Executing(w) /\ ~Executing(w)'
  BY <1>1 DEF Executing, InAdd, AddPCs, TypeOK
<1>4. \A v \in Workers : v # w => (Executing(v)' <=> Executing(v))
  BY <1>1 DEF Executing, InAdd, TypeOK
<1>5. \A v \in Workers : Executing(v) => Holding(v)
  BY DEF Executing, Holding
<1>6. \A v \in Workers : v # w /\ Holding(v) => cur[v] # cur[w] /\ cur[v] \in Tasks
  BY <1>3, <1>5 DEF HeldInv, TypeOK
<1>7. cur[w] \in Tasks
  BY <1>3, <1>5 DEF HeldInv, TypeOK
<1> QED
  BY <1>1, <1>2, <1>3, <1>4, <1>5, <1>6, <1>7 DEF HeldInv, TypeOK

(* Nobody holds a handle while the cleaner scans.                          *)
LEMMA CleanScanHeld ==
  ASSUME IInv, CleanScan
  PROVE  HeldInv'
<1> USE ConstantsAssumption DEF IInv, Threads
<1>1. exclusive = Main
  BY DEF CleanScan, LockInv
<1>2. \A w \in Workers : ~Holding(w)
  BY <1>1 DEF LockInv, Owned
<1>3. \A w \in Workers : ~Holding(w)'
  BY <1>2 DEF CleanScan, Goto, Holding, InAdd, TypeOK
<1>4. \A w \in Workers : ~Executing(w) /\ ~Executing(w)'
  BY <1>2, <1>3 DEF Executing, Holding
<1> QED
  BY <1>2, <1>3, <1>4 DEF HeldInv, CleanScan

(* Notifying leaves the queues alone.                                      *)
LEMMA AddNotifyQueue ==
  ASSUME NEW x \in Threads, IInv, AddNotify(x)
  PROVE  QueueInv'
<1>1. NotifyPC(x)
  BY AddNotifyPC
<1>2. \A w \in Workers : pc'[w] \in {"r_try", "r_pop"} => pc[w] \in {"r_try", "r_pop"}
  BY <1>1, ConstantsAssumption DEF NotifyPC, Threads
<1> QED
  BY <1>2 DEF IInv, QueueInv, QueueAffinity, AddNotify, bindVars

(* What loses its binding is set aside for the queue it waits in.          *)
LEMMA CleanScanQueue ==
  ASSUME IInv, CleanScan
  PROVE  QueueInv'
<1> USE ConstantsAssumption DEF IInv, Threads
<1>1. \A w \in Workers : doneTasks[w] = {}
  BY DEF CleanScan, DoneInv, TypeOK
<1>2. QueueAffinity'
  BY <1>1 DEF CleanScan, QueueInv, QueueAffinity, Done, TypeOK
<1>3. \A w \in Workers : pc'[w] = pc[w]
  BY DEF CleanScan, Goto, TypeOK
<1> QED
  BY <1>2, <1>3 DEF QueueInv, CleanScan, TypeOK

(* Erasing an entry leaves no entry out of place.                          *)
LEMMA CleanEraseQueue ==
  ASSUME IInv, CleanErase
  PROVE  QueueInv'
<1> USE ConstantsAssumption DEF IInv, Threads
<1> DEFINE w == targetQueue[Main]
<1>1. w \in Workers
  BY DEF CleanErase, CallInv
<1>2. PICK i \in Erasable(w) : queue' = [queue EXCEPT ![w] = EraseAt(queue[w], i)]
  BY DEF CleanErase
<1>3. i \in 1..Len(queue[w]) /\ queue[w] \in Seq(Tasks)
  BY <1>1, <1>2 DEF Erasable, TypeOK
<1>4. queue'[w] = EraseAt(queue[w], i)
  BY <1>1, <1>2 DEF TypeOK
<1>5. \A j \in 1..Len(queue'[w]) : \E k \in 1..Len(queue[w]) : queue'[w][j] = queue[w][k]
  BY <1>3, <1>4, EraseAtEntries
<1>6. \A v \in Workers : v # w => queue'[v] = queue[v]
  BY <1>2 DEF TypeOK
<1>7. \A v \in Workers : \A j \in 1..Len(queue'[v]) :
         \E k \in 1..Len(queue[v]) : queue'[v][j] = queue[v][k]
  BY <1>5, <1>6
<1>8. UNCHANGED <<pc, taskBinding, doneTasks, frame>>
  BY DEF CleanErase, bindVars
<1>9. \A v \in Workers : pc[v] \in {"r_try", "r_pop"} => v # w
  BY <1>1 DEF LockInv, HoldsQueue, CleanErase
<1>10. QueueAffinity'
  <2> SUFFICES ASSUME NEW v \in Workers, NEW j \in 1..Len(queue'[v])
               PROVE  taskBinding[queue'[v][j]] = v \/ queue'[v][j] \in doneTasks[v]
    BY <1>8 DEF QueueAffinity
  <2> QED
    BY <1>7 DEF QueueInv, QueueAffinity
<1>11. \A v \in Workers : \A j \in 1..Len(queue'[v]) : frame[queue'[v][j]] # "free"
  BY <1>7 DEF QueueInv
<1> QED
  BY <1>6, <1>8, <1>9, <1>10, <1>11 DEF QueueInv

(* A destroyed frame is in no queue and has no binding.                    *)
LEMMA CleanDestroyQueue ==
  ASSUME IInv, CleanDestroy
  PROVE  QueueInv'
<1> USE ConstantsAssumption DEF IInv, Threads
<1> DEFINE w == targetQueue[Main]
<1>1. w \in Workers
  BY DEF CleanDestroy, CallInv
<1>2. /\ Erasable(w) = {}
      /\ frame' = [t \in Tasks |-> IF t \in doneTasks[w] THEN "free" ELSE frame[t]]
      /\ doneTasks' = [doneTasks EXCEPT ![w] = {}]
      /\ pc' = [pc EXCEPT ![Main] = "c_next"]
      /\ UNCHANGED <<queue, taskBinding>>
  BY DEF CleanDestroy, Goto, bindVars
<1>3. \A i \in 1..Len(queue[w]) : queue[w][i] \notin doneTasks[w]
  BY <1>2 DEF Erasable
<1>4. \A v \in Workers : \A i \in 1..Len(queue[v]) : queue[v][i] \in Tasks
  BY DEF TypeOK
<1>5. \A v \in Workers : \A i \in 1..Len(queue[v]) : queue[v][i] \notin doneTasks[w]
  BY <1>1, <1>3, <1>4 DEF DoneInv, QueueInv, QueueAffinity
<1>6. \A t \in doneTasks[w] : taskBinding[t] = None
  BY <1>1 DEF DoneInv
<1>7. \A v \in Workers : pc'[v] = pc[v]
  BY <1>2 DEF TypeOK
<1>8. QueueAffinity'
  BY <1>1, <1>2, <1>5 DEF QueueInv, QueueAffinity, TypeOK
<1>9. \A v \in Workers : \A i \in 1..Len(queue[v]) : frame'[queue[v][i]] # "free"
  BY <1>2, <1>4, <1>5 DEF QueueInv
<1>10. \A t \in Tasks : taskBinding[t] # None => frame'[t] # "free"
  BY <1>2, <1>6 DEF QueueInv
<1> QED
  BY <1>2, <1>7, <1>8, <1>9, <1>10 DEF QueueInv

(* After a push the pusher still has to notify.                            *)
LEMMA AddPushWakeup ==
  ASSUME NEW x \in Threads, IInv, AddPush(x)
  PROVE  NoLostWakeup'
<1> USE ConstantsAssumption DEF IInv, Threads
<1>1. /\ pc[x] = "a_push"
      /\ pc' = [pc EXCEPT ![x] = "a_notify"]
      /\ queue' = [queue EXCEPT ![targetQueue[x]] =
                     Append(queue[targetQueue[x]], task[x])]
      /\ UNCHANGED targetQueue
  BY DEF AddPush, Goto, callVars
<1>2. SUFFICES ASSUME NEW w \in Workers, pc'[w] = "r_wait", queue'[w] # <<>>
               PROVE  \E y \in Threads : pc'[y] = "a_notify" /\ targetQueue[y] = w
  BY <1>1 DEF NoLostWakeup
<1>3. CASE w = targetQueue[x]
  BY <1>1, <1>3 DEF TypeOK
<1>4. CASE w # targetQueue[x]
  <2>1. pc[w] = "r_wait" /\ queue[w] # <<>>
    BY <1>1, <1>2, <1>4 DEF TypeOK
  <2>2. PICK y \in Threads : pc[y] = "a_notify" /\ targetQueue[y] = w
    BY <2>1 DEF NoLostWakeup
  <2> QED
    BY <1>1, <2>2 DEF TypeOK
<1> QED
  BY <1>3, <1>4

(* Notifying one queue keeps the duty to notify another.                   *)
LEMMA AddNotifyWakeup ==
  ASSUME NEW x \in Threads, IInv, AddNotify(x)
  PROVE  NoLostWakeup'
<1>1. NotifyPC(x)
  BY AddNotifyPC
<1>2. SUFFICES ASSUME NEW w \in Workers, pc'[w] = "r_wait", queue[w] # <<>>
               PROVE  \E y \in Threads : pc'[y] = "a_notify" /\ targetQueue[y] = w
  BY DEF NoLostWakeup, AddNotify, callVars
<1>3. pc[w] = "r_wait" /\ w # targetQueue[x]
  BY <1>1, <1>2, ConstantsAssumption DEF NotifyPC, Threads
<1>4. PICK y \in Threads : pc[y] = "a_notify" /\ targetQueue[y] = w
  BY <1>2, <1>3 DEF IInv, NoLostWakeup
<1>5. pc'[y] = "a_notify"
  BY <1>1, <1>3, <1>4 DEF NotifyPC
<1> QED
  BY <1>4, <1>5

(* Notifying leaves what the constructor established alone.                *)
LEMMA AddNotifyStart ==
  ASSUME NEW x \in Threads, IInv, AddNotify(x)
  PROVE  StartInv'
<1>1. NotifyPC(x)
  BY AddNotifyPC
<1> QED
  BY <1>1, ConstantsAssumption DEF NotifyPC, IInv, StartInv, AddNotify,
       bindVars, Threads

(* The deque stays a sequence of handles.                                  *)
LEMMA CleanEraseType ==
  ASSUME IInv, CleanErase
  PROVE  TypeOK'
<1> USE ConstantsAssumption DEF IInv, Threads
<1> DEFINE w == targetQueue[Main]
<1>1. w \in Workers
  BY DEF CleanErase, CallInv
<1>2. PICK i \in Erasable(w) : queue' = [queue EXCEPT ![w] = EraseAt(queue[w], i)]
  BY DEF CleanErase
<1>3. i \in 1..Len(queue[w]) /\ queue[w] \in Seq(Tasks)
  BY <1>1, <1>2 DEF Erasable, TypeOK
<1>4. queue'[w] = EraseAt(queue[w], i)
  BY <1>1, <1>2 DEF TypeOK
<1>5. queue' \in [Workers -> Seq(Tasks)]
  BY <1>1, <1>2, <1>3, EraseAtEntries DEF TypeOK
<1> QED
  BY <1>5 DEF TypeOK, CleanErase, callVars, lockVars, bindVars

(* A worker that finds its queue empty gives back its shared ownership.    *)
LEMMA RunEmptyLock ==
  ASSUME NEW w \in Workers, IInv, RunEmpty(w)
  PROVE  LockInv'
<1> USE ConstantsAssumption DEF IInv, Threads
<1>1. /\ sharedCnt' = [sharedCnt EXCEPT ![w] = sharedCnt[w] - 1]
      /\ pc' = [pc EXCEPT ![w] = "r_wait"]
      /\ pc[w] = "r_lock"
  BY DEF RunEmpty, UnlockShared, Goto
<1>2. Owned(w) = 1 /\ Owned(w)' = 0
  BY <1>1 DEF Owned, InAdd, Holding, AddPCs, TypeOK
<1>3. \A y \in Threads \ {w} : Owned(y)' = Owned(y)
  BY <1>1 DEF Owned, InAdd, Holding, AddPCs, TypeOK
<1>4. \A y \in Threads : sharedCnt'[y] = Owned(y)'
  BY <1>1, <1>2, <1>3 DEF LockInv, TypeOK
<1>5. \A y \in Threads, v \in Workers : HoldsQueue(y, v)' => HoldsQueue(y, v)
  BY <1>1 DEF HoldsQueue, RunEmpty, callVars, TypeOK
<1>6. exclusive # Main
  BY <1>2 DEF LockInv
<1> QED
  BY <1>1, <1>4, <1>5, <1>6 DEF LockInv, RunEmpty, TypeOK

(* A worker releases only the mutex of its own queue when it has popped.   *)
LEMMA RunPopLock ==
  ASSUME NEW w \in Workers, IInv, RunPop(w)
  PROVE  LockInv'
<1> USE ConstantsAssumption DEF IInv, Threads
<1>1. /\ queueMutex' = [queueMutex EXCEPT ![w] = None]
      /\ pc' = [pc EXCEPT ![w] = "r_run"]
      /\ pc[w] = "r_pop"
      /\ UNCHANGED <<sharedCnt, exclusive, bindingMutex, targetQueue>>
  BY DEF RunPop, Goto, callVars
<1>2. \A y \in Threads : Owned(y)' = Owned(y)
  BY <1>1 DEF Owned, InAdd, Holding, AddPCs, TypeOK
<1>3. queueMutex[w] = w
  BY <1>1 DEF LockInv, HoldsQueue
<1>4. \A y \in Threads, v \in Workers : HoldsQueue(y, v)' => HoldsQueue(y, v) /\ y # w
  BY <1>1 DEF HoldsQueue, TypeOK
<1>5. \A y \in Threads, v \in Workers : HoldsQueue(y, v)' => queueMutex'[v] = y
  BY <1>1, <1>3, <1>4 DEF LockInv, TypeOK
<1> QED
  BY <1>1, <1>2, <1>5 DEF LockInv, TypeOK

(* Nobody holds a handle while the cleaner destroys frames.                *)
LEMMA CleanDestroyHeld ==
  ASSUME IInv, CleanDestroy
  PROVE  HeldInv'
<1> USE ConstantsAssumption DEF IInv, Threads
<1>1. exclusive = Main
  BY DEF CleanDestroy, LockInv
<1>2. \A w \in Workers : ~Holding(w)
  BY <1>1 DEF LockInv, Owned
<1>3. \A w \in Workers : ~Holding(w)'
  BY <1>2 DEF CleanDestroy, Goto, Holding, InAdd, TypeOK
<1>4. \A w \in Workers : ~Executing(w) /\ ~Executing(w)'
  BY <1>2, <1>3 DEF Executing, Holding
<1>5. \A t \in Tasks : frame'[t] # "running"
  BY <1>4 DEF HeldInv, CleanDestroy
<1> QED
  BY <1>2, <1>3, <1>4, <1>5 DEF HeldInv, CleanDestroy

(* The iterator after currentQueue is a queue, if there is any.            *)
LEMMA AdvanceQueue ==
  ASSUME queueList \in Seq(Workers), NEW it
  PROVE  /\ Advance(it) \in Workers \cup {End}
         /\ queueList # <<>> => Advance(it) \in Workers
<1> DEFINE after == {j \in 2..Len(queueList) : queueList[j - 1] = it}
<1>1. CASE after = {}
  BY <1>1 DEF Advance, Begin
<1>2. CASE after # {}
  <2>1. (CHOOSE j \in after : TRUE) \in after
    BY <1>2
  <2>2. \A j \in after : queueList[j] \in Workers
    OBVIOUS
  <2>3. Advance(it) = queueList[CHOOSE j \in after : TRUE]
    BY <1>2 DEF Advance
  <2> QED
    BY <2>1, <2>2, <2>3
<1> QED
  BY <1>1, <1>2

(* Binding a handle gives it an iterator of the list.                      *)
LEMMA AddBindType ==
  ASSUME NEW x \in Threads, IInv, AddBind(x)
  PROVE  TypeOK'
<1> USE DEF IInv
<1>1. currentQueue' \in Workers \cup {End}
  BY AdvanceQueue DEF AddBind, TypeOK
<1>2. taskBinding' \in [Tasks -> Workers \cup {End, None}]
  BY DEF AddBind, TypeOK
<1>3. targetQueue' \in [Threads -> Workers \cup {End, None}]
  BY DEF AddBind, TypeOK
<1>4. /\ pc' \in [Threads -> WorkerPCs \cup MainPCs]
      /\ \A w \in Workers : pc'[w] \in WorkerPCs
      /\ pc'[Main] \in MainPCs
  BY DEF AddBind, TypeOK, Goto, WorkerPCs, MainPCs, AddPCs
<1> QED
  BY <1>1, <1>2, <1>3, <1>4, ConstantsAssumption DEF AddBind, TypeOK

(* Binding a handle never gives it end() if the constructor saw a queue.   *)
LEMMA AddBindStart ==
  ASSUME NEW x \in Threads, IInv, AddBind(x)
  PROVE  StartInv'
<1> USE ConstantsAssumption DEF IInv, Threads
<1>1. pc[Main] # "ctor"
  BY DEF AddBind, StartInv, CallInv, InAdd, AddPCs
<1>2. pc'[Main] # "ctor" /\ \A y \in Threads : pc'[y] = "ub" => pc[y] = "ub"
  BY <1>1 DEF AddBind, Goto, TypeOK
<1>3. ASSUME BeginSeesQueue
      PROVE  /\ queueList' # <<>> /\ currentQueue' # End
             /\ \A t \in Tasks : taskBinding'[t] # End
  <2>1. queueList # <<>> /\ currentQueue # End
    BY <1>1, <1>3 DEF StartInv
  <2>2. currentQueue' \in Workers
    BY <2>1, AdvanceQueue DEF AddBind, TypeOK
  <2>3. \A t \in Tasks : taskBinding'[t] # End
    BY <1>3, <2>1 DEF AddBind, StartInv, TypeOK
  <2> QED
    BY <2>1, <2>2, <2>3 DEF AddBind
<1> QED
  BY <1>2, <1>3 DEF StartInv

(* addTask appends a live handle to the queue it is bound to.              *)
LEMMA AddPushQueue ==
  ASSUME NEW x \in Threads, IInv, AddPush(x)
  PROVE  QueueInv'
<1> USE ConstantsAssumption DEF IInv, Threads
<1> DEFINE q == targetQueue[x]
<1>1. /\ q \in Workers
      /\ task[x] \in Tasks
      /\ taskBinding[task[x]] = q
      /\ frame[task[x]] # "free"
  BY DEF AddPush, CallInv, InAdd, AddPCs
<1>2. /\ queue'[q] = Append(queue[q], task[x])
      /\ \A v \in Workers : v # q => queue'[v] = queue[v]
  BY <1>1 DEF AddPush, TypeOK
<1>3. ASSUME NEW v \in Workers, NEW i \in 1..Len(queue'[v])
      PROVE  \/ i \in 1..Len(queue[v]) /\ queue'[v][i] = queue[v][i]
             \/ v = q /\ queue'[v][i] = task[x]
  <2>1. CASE v # q
    BY <1>2, <2>1
  <2>2. CASE v = q
    <3>1. queue[q] \in Seq(Tasks)
      BY <1>1 DEF TypeOK
    <3>2. \A j \in 1..Len(Append(queue[q], task[x])) :
            \/ j \in 1..Len(queue[q]) /\ Append(queue[q], task[x])[j] = queue[q][j]
            \/ Append(queue[q], task[x])[j] = task[x]
      BY <1>1, <3>1
    <3> QED
      BY <1>2, <2>2, <3>2
  <2> QED
    BY <2>1, <2>2
<1>4. QueueAffinity'
  BY <1>1, <1>3 DEF AddPush, QueueInv, QueueAffinity, bindVars
<1>5. \A v \in Workers : \A i \in 1..Len(queue'[v]) : frame[queue'[v][i]] # "free"
  BY <1>1, <1>3 DEF QueueInv
<1>6. \A v \in Workers : pc'[v] \in {"r_try", "r_pop"} => pc[v] \in {"r_try", "r_pop"}
  BY DEF AddPush, Goto, TypeOK
<1>7. \A v \in Workers : queue[v] # <<>> => queue'[v] # <<>>
  BY <1>1, <1>2 DEF TypeOK
<1> QED
  BY <1>4, <1>5, <1>6, <1>7 DEF QueueInv, AddPush, bindVars

(* Type correctness is preserved by every step.                            *)
LEMMA TypeStep ==
  ASSUME IInv, Next
  PROVE  TypeOK'
<1> USE ConstantsAssumption DEF IInv, Threads, Goto, callVars, lockVars,
     bindVars, TypeOK, AddPCs, WorkerPCs, MainPCs
<1>1. ASSUME NEW w \in Workers, Register(w) PROVE TypeOK'
  BY <1>1 DEF Register
<1>2. ASSUME NEW w \in Workers, PassLatch(w) PROVE TypeOK'
  BY <1>2 DEF PassLatch
<1>3. ASSUME Construct PROVE TypeOK'
  BY <1>3 DEF Construct, Begin
<1>4. ASSUME NEW x \in Threads, AddLockClean(x) PROVE TypeOK'
  BY <1>4 DEF AddLockClean, LockShared, LockInv, Owned, InAdd, Holding,
       HoldsQueue
<1>5. ASSUME NEW x \in Threads, AddLockBinding(x) PROVE TypeOK'
  BY <1>5 DEF AddLockBinding
<1>6. ASSUME NEW x \in Threads, AddFound(x) PROVE TypeOK'
  BY <1>6 DEF AddFound, Bound, CallInv, InAdd
<1>7. ASSUME NEW x \in Threads, AddBind(x) PROVE TypeOK'
  BY <1>7, AddBindType
<1>8. ASSUME NEW x \in Threads, AddDerefEnd(x) PROVE TypeOK'
  BY <1>8 DEF AddDerefEnd
<1>9. ASSUME NEW x \in Threads, AddLockQueue(x) PROVE TypeOK'
  BY <1>9 DEF AddLockQueue, CallInv, InAdd
<1>10. ASSUME NEW x \in Threads, AddPush(x) PROVE TypeOK'
  BY <1>10 DEF AddPush, CallInv, InAdd
<1>11. ASSUME NEW x \in Threads, AddNotify(x) PROVE TypeOK'
  BY <1>11, AddNotifyType
<1>12. ASSUME NEW w \in Workers, RunLockClean(w) PROVE TypeOK'
  BY <1>12, RunLockCleanType
<1>13. ASSUME NEW w \in Workers, RunEmpty(w) PROVE TypeOK'
  BY <1>13 DEF RunEmpty, UnlockShared, LockInv, Owned, InAdd, Holding,
       HoldsQueue
<1>14. ASSUME NEW w \in Workers, RunLockQueue(w) PROVE TypeOK'
  BY <1>14 DEF RunLockQueue
<1>15. ASSUME NEW w \in Workers, SpuriousWake(w) PROVE TypeOK'
  BY <1>15 DEF SpuriousWake
<1>16. ASSUME NEW w \in Workers, RunWaitAgain(w) PROVE TypeOK'
  BY <1>16 DEF RunWaitAgain
<1>17. ASSUME NEW w \in Workers, RunWake(w) PROVE TypeOK'
  BY <1>17 DEF RunWake
<1>18. ASSUME NEW w \in Workers, RunTryFail(w) PROVE TypeOK'
  BY <1>18 DEF RunTryFail
<1>19. ASSUME NEW w \in Workers, RunTryLock(w) PROVE TypeOK'
  BY <1>19, RunTryLockType
<1>20. ASSUME NEW w \in Workers, RunPop(w) PROVE TypeOK'
  BY <1>20 DEF RunPop, QueueInv, QueueAffinity
<1>21. ASSUME NEW w \in Workers, RunSkip(w) PROVE TypeOK'
  BY <1>21 DEF RunSkip, Done
<1>22. ASSUME NEW w \in Workers, RunResume(w) PROVE TypeOK'
  BY <1>22 DEF RunResume, Done, HeldInv, InAdd, Holding, Executing
<1>23. ASSUME NEW w \in Workers, RunEnd(w) PROVE TypeOK'
  BY <1>23 DEF RunEnd, UnlockShared, CallInv, InAdd, LockInv, Owned, Holding,
       HoldsQueue
<1>24. ASSUME NEW w \in Workers, BodyFinish(w) PROVE TypeOK'
  BY <1>24 DEF BodyFinish, HeldInv, InAdd, Holding, Executing
<1>25. ASSUME NEW w \in Workers, BodySuspend(w) PROVE TypeOK'
  BY <1>25 DEF BodySuspend, HeldInv, InAdd, Holding, Executing
<1>26. ASSUME NEW w \in Workers, BodySchedule(w) PROVE TypeOK'
  BY <1>26 DEF BodySchedule, CallAddTask, HeldInv, InAdd, Holding, Executing
<1>27. ASSUME NEW w \in Workers, NEW t \in Tasks, BodyComplete(w, t) PROVE TypeOK'
  BY <1>27 DEF BodyComplete
<1>28. ASSUME NEW w \in Workers, NEW t \in Tasks, BodyAdd(w, t) PROVE TypeOK'
  BY <1>28 DEF BodyAdd, CallAddTask
<1>29. ASSUME NEW t \in Tasks, MainAdd(t) PROVE TypeOK'
  BY <1>29 DEF MainAdd, CallAddTask
<1>30. ASSUME Enter PROVE TypeOK'
  BY <1>30 DEF Enter
<1>31. ASSUME CleanLock PROVE TypeOK'
  BY <1>31 DEF CleanLock
<1>32. ASSUME CleanSkip PROVE TypeOK'
  BY <1>32 DEF CleanSkip, Bound
<1>33. ASSUME CleanScan PROVE TypeOK'
  BY <1>33 DEF CleanScan, Bound, Done
<1>34. ASSUME NEW w \in Workers, CleanLockQueue(w) PROVE TypeOK'
  BY <1>34 DEF CleanLockQueue
<1>35. ASSUME CleanErase PROVE TypeOK'
  BY <1>35, CleanEraseType
<1>36. ASSUME CleanDestroy PROVE TypeOK'
  BY <1>36 DEF CleanDestroy, CallInv, InAdd
<1>37. ASSUME CleanUnlock PROVE TypeOK'
  BY <1>37 DEF CleanUnlock
<1>38. ASSUME CleanSleep PROVE TypeOK'
  BY <1>38 DEF CleanSleep
<1> QED
  BY <1>1, <1>2, <1>3, <1>4, <1>5, <1>6, <1>7, <1>8, <1>9, <1>10, <1>11,
       <1>12, <1>13, <1>14, <1>15, <1>16, <1>17, <1>18, <1>19, <1>20, <1>21,
       <1>22, <1>23, <1>24, <1>25, <1>26, <1>27, <1>28, <1>29, <1>30, <1>31,
       <1>32, <1>33, <1>34, <1>35, <1>36, <1>37, <1>38
     DEF Next, WorkerStep, MainStep, addTask, runTasks, Body, cleanTasks

(* The locks stay with the threads whose position says so.                 *)
LEMMA LockStep ==
  ASSUME IInv, Next
  PROVE  LockInv'
<1> USE ConstantsAssumption DEF IInv, Threads, Goto, callVars, lockVars,
     bindVars, LockInv, AddPCs, Owned, InAdd, Holding, HoldsQueue
<1>1. ASSUME NEW w \in Workers, Register(w) PROVE LockInv'
  BY <1>1 DEF Register
<1>2. ASSUME NEW w \in Workers, PassLatch(w) PROVE LockInv'
  BY <1>2 DEF PassLatch
<1>3. ASSUME Construct PROVE LockInv'
  BY <1>3 DEF Construct
<1>4. ASSUME NEW x \in Threads, AddLockClean(x) PROVE LockInv'
  BY <1>4 DEF AddLockClean, LockShared, TypeOK
<1>5. ASSUME NEW x \in Threads, AddLockBinding(x) PROVE LockInv'
  BY <1>5 DEF AddLockBinding
<1>6. ASSUME NEW x \in Threads, AddFound(x) PROVE LockInv'
  BY <1>6 DEF AddFound, Bound, TypeOK
<1>7. ASSUME NEW x \in Threads, AddBind(x) PROVE LockInv'
  BY <1>7 DEF AddBind, Bound, TypeOK, HeldInv, Executing
<1>8. ASSUME NEW x \in Threads, AddDerefEnd(x) PROVE LockInv'
  BY <1>8 DEF AddDerefEnd
<1>9. ASSUME NEW x \in Threads, AddLockQueue(x) PROVE LockInv'
  BY <1>9, SMTT(20) DEF AddLockQueue, TypeOK
<1>10. ASSUME NEW x \in Threads, AddPush(x) PROVE LockInv'
  BY <1>10, SMTT(20) DEF AddPush, TypeOK, HeldInv, Executing
<1>11. ASSUME NEW x \in Threads, AddNotify(x) PROVE LockInv'
  BY <1>11, AddNotifyLock
<1>12. ASSUME NEW w \in Workers, RunLockClean(w) PROVE LockInv'
  BY <1>12 DEF RunLockClean, LockShared, TypeOK
<1>13. ASSUME NEW w \in Workers, RunEmpty(w) PROVE LockInv'
  BY <1>13, RunEmptyLock
<1>14. ASSUME NEW w \in Workers, RunLockQueue(w) PROVE LockInv'
  BY <1>14, SMTT(20) DEF RunLockQueue, TypeOK
<1>15. ASSUME NEW w \in Workers, SpuriousWake(w) PROVE LockInv'
  BY <1>15 DEF SpuriousWake
<1>16. ASSUME NEW w \in Workers, RunWaitAgain(w) PROVE LockInv'
  BY <1>16 DEF RunWaitAgain
<1>17. ASSUME NEW w \in Workers, RunWake(w) PROVE LockInv'
  BY <1>17, SMTT(20) DEF RunWake, TypeOK
<1>18. ASSUME NEW w \in Workers, RunTryFail(w) PROVE LockInv'
  BY <1>18, SMTT(20) DEF RunTryFail, TypeOK
<1>19. ASSUME NEW w \in Workers, RunTryLock(w) PROVE LockInv'
  BY <1>19, SMTT(20) DEF RunTryLock, LockShared, TypeOK
<1>20. ASSUME NEW w \in Workers, RunPop(w) PROVE LockInv'
  BY <1>20, RunPopLock
<1>21. ASSUME NEW w \in Workers, RunSkip(w) PROVE LockInv'
  BY <1>21 DEF RunSkip, Done
<1>22. ASSUME NEW w \in Workers, RunResume(w) PROVE LockInv'
  BY <1>22 DEF RunResume, Done
<1>23. ASSUME NEW w \in Workers, RunEnd(w) PROVE LockInv'
  BY <1>23, RunEndLock
<1>24. ASSUME NEW w \in Workers, BodyFinish(w) PROVE LockInv'
  BY <1>24 DEF BodyFinish
<1>25. ASSUME NEW w \in Workers, BodySuspend(w) PROVE LockInv'
  BY <1>25 DEF BodySuspend
<1>26. ASSUME NEW w \in Workers, BodySchedule(w) PROVE LockInv'
  BY <1>26 DEF BodySchedule, CallAddTask
<1>27. ASSUME NEW w \in Workers, NEW t \in Tasks, BodyComplete(w, t) PROVE LockInv'
  BY <1>27 DEF BodyComplete
<1>28. ASSUME NEW w \in Workers, NEW t \in Tasks, BodyAdd(w, t) PROVE LockInv'
  BY <1>28 DEF BodyAdd, CallAddTask
<1>29. ASSUME NEW t \in Tasks, MainAdd(t) PROVE LockInv'
  BY <1>29 DEF MainAdd, CallAddTask
<1>30. ASSUME Enter PROVE LockInv'
  BY <1>30 DEF Enter
<1>31. ASSUME CleanLock PROVE LockInv'
  BY <1>31 DEF CleanLock, TypeOK
<1>32. ASSUME CleanSkip PROVE LockInv'
  BY <1>32 DEF CleanSkip, Bound, TypeOK
<1>33. ASSUME CleanScan PROVE LockInv'
  BY <1>33 DEF CleanScan, Bound, Done
<1>34. ASSUME NEW w \in Workers, CleanLockQueue(w) PROVE LockInv'
  BY <1>34, SMTT(20) DEF CleanLockQueue, TypeOK
<1>35. ASSUME CleanErase PROVE LockInv'
  BY <1>35 DEF CleanErase
<1>36. ASSUME CleanDestroy PROVE LockInv'
  BY <1>36, SMTT(20) DEF CleanDestroy, TypeOK
<1>37. ASSUME CleanUnlock PROVE LockInv'
  BY <1>37 DEF CleanUnlock, TypeOK
<1>38. ASSUME CleanSleep PROVE LockInv'
  BY <1>38 DEF CleanSleep
<1> QED
  BY <1>1, <1>2, <1>3, <1>4, <1>5, <1>6, <1>7, <1>8, <1>9, <1>10, <1>11,
       <1>12, <1>13, <1>14, <1>15, <1>16, <1>17, <1>18, <1>19, <1>20, <1>21,
       <1>22, <1>23, <1>24, <1>25, <1>26, <1>27, <1>28, <1>29, <1>30, <1>31,
       <1>32, <1>33, <1>34, <1>35, <1>36, <1>37, <1>38
     DEF Next, WorkerStep, MainStep, addTask, runTasks, Body, cleanTasks

(* A call of addTask keeps a live handle and the queue it is bound to.     *)
LEMMA CallStep ==
  ASSUME IInv, Next
  PROVE  CallInv'
<1> USE ConstantsAssumption DEF IInv, Threads, Goto, callVars, lockVars,
     bindVars, CallInv, AddPCs, InAdd
<1>1. ASSUME NEW w \in Workers, Register(w) PROVE CallInv'
  BY <1>1 DEF Register
<1>2. ASSUME NEW w \in Workers, PassLatch(w) PROVE CallInv'
  BY <1>2 DEF PassLatch
<1>3. ASSUME Construct PROVE CallInv'
  BY <1>3 DEF Construct
<1>4. ASSUME NEW x \in Threads, AddLockClean(x) PROVE CallInv'
  BY <1>4 DEF AddLockClean
<1>5. ASSUME NEW x \in Threads, AddLockBinding(x) PROVE CallInv'
  BY <1>5 DEF AddLockBinding
<1>6. ASSUME NEW x \in Threads, AddFound(x) PROVE CallInv'
  BY <1>6 DEF AddFound, Bound, TypeOK
<1>7. ASSUME NEW x \in Threads, AddBind(x) PROVE CallInv'
  BY <1>7 DEF AddBind, Bound, TypeOK
<1>8. ASSUME NEW x \in Threads, AddDerefEnd(x) PROVE CallInv'
  BY <1>8 DEF AddDerefEnd
<1>9. ASSUME NEW x \in Threads, AddLockQueue(x) PROVE CallInv'
  BY <1>9 DEF AddLockQueue, TypeOK
<1>10. ASSUME NEW x \in Threads, AddPush(x) PROVE CallInv'
  BY <1>10 DEF AddPush
<1>11. ASSUME NEW x \in Threads, AddNotify(x) PROVE CallInv'
  BY <1>11 DEF AddNotify, Notifies
<1>12. ASSUME NEW w \in Workers, RunLockClean(w) PROVE CallInv'
  BY <1>12 DEF RunLockClean
<1>13. ASSUME NEW w \in Workers, RunEmpty(w) PROVE CallInv'
  BY <1>13 DEF RunEmpty
<1>14. ASSUME NEW w \in Workers, RunLockQueue(w) PROVE CallInv'
  BY <1>14 DEF RunLockQueue
<1>15. ASSUME NEW w \in Workers, SpuriousWake(w) PROVE CallInv'
  BY <1>15 DEF SpuriousWake
<1>16. ASSUME NEW w \in Workers, RunWaitAgain(w) PROVE CallInv'
  BY <1>16 DEF RunWaitAgain
<1>17. ASSUME NEW w \in Workers, RunWake(w) PROVE CallInv'
  BY <1>17 DEF RunWake
<1>18. ASSUME NEW w \in Workers, RunTryFail(w) PROVE CallInv'
  BY <1>18 DEF RunTryFail
<1>19. ASSUME NEW w \in Workers, RunTryLock(w) PROVE CallInv'
  BY <1>19 DEF RunTryLock
<1>20. ASSUME NEW w \in Workers, RunPop(w) PROVE CallInv'
  BY <1>20 DEF RunPop
<1>21. ASSUME NEW w \in Workers, RunSkip(w) PROVE CallInv'
  BY <1>21 DEF RunSkip, Done
<1>22. ASSUME NEW w \in Workers, RunResume(w) PROVE CallInv'
  BY <1>22 DEF RunResume, Done
<1>23. ASSUME NEW w \in Workers, RunEnd(w) PROVE CallInv'
  BY <1>23 DEF RunEnd
<1>24. ASSUME NEW w \in Workers, BodyFinish(w) PROVE CallInv'
  BY <1>24 DEF BodyFinish
<1>25. ASSUME NEW w \in Workers, BodySuspend(w) PROVE CallInv'
  BY <1>25 DEF BodySuspend
<1>26. ASSUME NEW w \in Workers, BodySchedule(w) PROVE CallInv'
  BY <1>26 DEF BodySchedule, CallAddTask, TypeOK, HeldInv, Holding, Executing
<1>27. ASSUME NEW w \in Workers, NEW t \in Tasks, BodyComplete(w, t) PROVE CallInv'
  BY <1>27 DEF BodyComplete
<1>28. ASSUME NEW w \in Workers, NEW t \in Tasks, BodyAdd(w, t) PROVE CallInv'
  BY <1>28 DEF BodyAdd, CallAddTask, TypeOK
<1>29. ASSUME NEW t \in Tasks, MainAdd(t) PROVE CallInv'
  BY <1>29 DEF MainAdd, CallAddTask, TypeOK
<1>30. ASSUME Enter PROVE CallInv'
  BY <1>30 DEF Enter
<1>31. ASSUME CleanLock PROVE CallInv'
  BY <1>31 DEF CleanLock
<1>32. ASSUME CleanSkip PROVE CallInv'
  BY <1>32 DEF CleanSkip, Bound
<1>33. ASSUME CleanScan PROVE CallInv'
  BY <1>33 DEF CleanScan, Bound, Done, TypeOK, LockInv, Owned, Holding,
       HoldsQueue
<1>34. ASSUME NEW w \in Workers, CleanLockQueue(w) PROVE CallInv'
  BY <1>34 DEF CleanLockQueue, TypeOK
<1>35. ASSUME CleanErase PROVE CallInv'
  BY <1>35 DEF CleanErase
<1>36. ASSUME CleanDestroy PROVE CallInv'
  BY <1>36 DEF CleanDestroy, TypeOK, LockInv, Owned, Holding, HoldsQueue
<1>37. ASSUME CleanUnlock PROVE CallInv'
  BY <1>37 DEF CleanUnlock
<1>38. ASSUME CleanSleep PROVE CallInv'
  BY <1>38 DEF CleanSleep
<1> QED
  BY <1>1, <1>2, <1>3, <1>4, <1>5, <1>6, <1>7, <1>8, <1>9, <1>10, <1>11,
       <1>12, <1>13, <1>14, <1>15, <1>16, <1>17, <1>18, <1>19, <1>20, <1>21,
       <1>22, <1>23, <1>24, <1>25, <1>26, <1>27, <1>28, <1>29, <1>30, <1>31,
       <1>32, <1>33, <1>34, <1>35, <1>36, <1>37, <1>38
     DEF Next, WorkerStep, MainStep, addTask, runTasks, Body, cleanTasks

(* A popped handle stays live and bound to its worker.                     *)
LEMMA HeldStep ==
  ASSUME IInv, Next
  PROVE  HeldInv'
<1> USE ConstantsAssumption DEF IInv, Threads, Goto, callVars, lockVars,
     bindVars, HeldInv, AddPCs, InAdd, Holding, Executing
<1>1. ASSUME NEW w \in Workers, Register(w) PROVE HeldInv'
  BY <1>1 DEF Register
<1>2. ASSUME NEW w \in Workers, PassLatch(w) PROVE HeldInv'
  BY <1>2 DEF PassLatch
<1>3. ASSUME Construct PROVE HeldInv'
  BY <1>3 DEF Construct
<1>4. ASSUME NEW x \in Threads, AddLockClean(x) PROVE HeldInv'
  BY <1>4 DEF AddLockClean
<1>5. ASSUME NEW x \in Threads, AddLockBinding(x) PROVE HeldInv'
  BY <1>5 DEF AddLockBinding
<1>6. ASSUME NEW x \in Threads, AddFound(x) PROVE HeldInv'
  BY <1>6 DEF AddFound, Bound
<1>7. ASSUME NEW x \in Threads, AddBind(x) PROVE HeldInv'
  BY <1>7 DEF AddBind, Bound
<1>8. ASSUME NEW x \in Threads, AddDerefEnd(x) PROVE HeldInv'
  BY <1>8 DEF AddDerefEnd
<1>9. ASSUME NEW x \in Threads, AddLockQueue(x) PROVE HeldInv'
  BY <1>9 DEF AddLockQueue
<1>10. ASSUME NEW x \in Threads, AddPush(x) PROVE HeldInv'
  BY <1>10 DEF AddPush
<1>11. ASSUME NEW x \in Threads, AddNotify(x) PROVE HeldInv'
  BY <1>11, AddNotifyHeld
<1>12. ASSUME NEW w \in Workers, RunLockClean(w) PROVE HeldInv'
  BY <1>12 DEF RunLockClean
<1>13. ASSUME NEW w \in Workers, RunEmpty(w) PROVE HeldInv'
  BY <1>13 DEF RunEmpty, HasTask
<1>14. ASSUME NEW w \in Workers, RunLockQueue(w) PROVE HeldInv'
  BY <1>14 DEF RunLockQueue, HasTask
<1>15. ASSUME NEW w \in Workers, SpuriousWake(w) PROVE HeldInv'
  BY <1>15 DEF SpuriousWake
<1>16. ASSUME NEW w \in Workers, RunWaitAgain(w) PROVE HeldInv'
  BY <1>16 DEF RunWaitAgain, HasTask
<1>17. ASSUME NEW w \in Workers, RunWake(w) PROVE HeldInv'
  BY <1>17 DEF RunWake, HasTask
<1>18. ASSUME NEW w \in Workers, RunTryFail(w) PROVE HeldInv'
  BY <1>18 DEF RunTryFail
<1>19. ASSUME NEW w \in Workers, RunTryLock(w) PROVE HeldInv'
  BY <1>19 DEF RunTryLock
<1>20. ASSUME NEW w \in Workers, RunPop(w) PROVE HeldInv'
  BY <1>20, RunPopHeld
<1>21. ASSUME NEW w \in Workers, RunSkip(w) PROVE HeldInv'
  BY <1>21 DEF RunSkip, Done
<1>22. ASSUME NEW w \in Workers, RunResume(w) PROVE HeldInv'
  BY <1>22 DEF RunResume, Done, TypeOK
<1>23. ASSUME NEW w \in Workers, RunEnd(w) PROVE HeldInv'
  BY <1>23, RunEndHeld
<1>24. ASSUME NEW w \in Workers, BodyFinish(w) PROVE HeldInv'
  BY <1>24, BodyFinishHeld
<1>25. ASSUME NEW w \in Workers, BodySuspend(w) PROVE HeldInv'
  BY <1>25, BodySuspendHeld
<1>26. ASSUME NEW w \in Workers, BodySchedule(w) PROVE HeldInv'
  BY <1>26, BodyScheduleHeld
<1>27. ASSUME NEW w \in Workers, NEW t \in Tasks, BodyComplete(w, t) PROVE HeldInv'
  BY <1>27 DEF BodyComplete
<1>28. ASSUME NEW w \in Workers, NEW t \in Tasks, BodyAdd(w, t) PROVE HeldInv'
  BY <1>28 DEF BodyAdd, CallAddTask, TypeOK
<1>29. ASSUME NEW t \in Tasks, MainAdd(t) PROVE HeldInv'
  BY <1>29 DEF MainAdd, CallAddTask
<1>30. ASSUME Enter PROVE HeldInv'
  BY <1>30 DEF Enter
<1>31. ASSUME CleanLock PROVE HeldInv'
  BY <1>31 DEF CleanLock
<1>32. ASSUME CleanSkip PROVE HeldInv'
  BY <1>32 DEF CleanSkip, Bound
<1>33. ASSUME CleanScan PROVE HeldInv'
  BY <1>33, CleanScanHeld
<1>34. ASSUME NEW w \in Workers, CleanLockQueue(w) PROVE HeldInv'
  BY <1>34 DEF CleanLockQueue
<1>35. ASSUME CleanErase PROVE HeldInv'
  BY <1>35 DEF CleanErase
<1>36. ASSUME CleanDestroy PROVE HeldInv'
  BY <1>36, CleanDestroyHeld
<1>37. ASSUME CleanUnlock PROVE HeldInv'
  BY <1>37 DEF CleanUnlock
<1>38. ASSUME CleanSleep PROVE HeldInv'
  BY <1>38 DEF CleanSleep
<1> QED
  BY <1>1, <1>2, <1>3, <1>4, <1>5, <1>6, <1>7, <1>8, <1>9, <1>10, <1>11,
       <1>12, <1>13, <1>14, <1>15, <1>16, <1>17, <1>18, <1>19, <1>20, <1>21,
       <1>22, <1>23, <1>24, <1>25, <1>26, <1>27, <1>28, <1>29, <1>30, <1>31,
       <1>32, <1>33, <1>34, <1>35, <1>36, <1>37, <1>38
     DEF Next, WorkerStep, MainStep, addTask, runTasks, Body, cleanTasks

(* Queued handles stay live and where they are bound.                      *)
LEMMA QueueStep ==
  ASSUME IInv, Next
  PROVE  QueueInv'
<1> USE ConstantsAssumption DEF IInv, Threads, Goto, callVars, lockVars,
     bindVars, QueueInv, QueueAffinity
<1>1. ASSUME NEW w \in Workers, Register(w) PROVE QueueInv'
  BY <1>1 DEF Register
<1>2. ASSUME NEW w \in Workers, PassLatch(w) PROVE QueueInv'
  BY <1>2 DEF PassLatch
<1>3. ASSUME Construct PROVE QueueInv'
  BY <1>3 DEF Construct
<1>4. ASSUME NEW x \in Threads, AddLockClean(x) PROVE QueueInv'
  BY <1>4 DEF AddLockClean
<1>5. ASSUME NEW x \in Threads, AddLockBinding(x) PROVE QueueInv'
  BY <1>5 DEF AddLockBinding
<1>6. ASSUME NEW x \in Threads, AddFound(x) PROVE QueueInv'
  BY <1>6 DEF AddFound, Bound
<1>7. ASSUME NEW x \in Threads, AddBind(x) PROVE QueueInv'
  BY <1>7 DEF AddBind, Bound, TypeOK, AddPCs, CallInv, InAdd
<1>8. ASSUME NEW x \in Threads, AddDerefEnd(x) PROVE QueueInv'
  BY <1>8 DEF AddDerefEnd
<1>9. ASSUME NEW x \in Threads, AddLockQueue(x) PROVE QueueInv'
  BY <1>9 DEF AddLockQueue
<1>10. ASSUME NEW x \in Threads, AddPush(x) PROVE QueueInv'
  BY <1>10, AddPushQueue
<1>11. ASSUME NEW x \in Threads, AddNotify(x) PROVE QueueInv'
  BY <1>11, AddNotifyQueue
<1>12. ASSUME NEW w \in Workers, RunLockClean(w) PROVE QueueInv'
  BY <1>12 DEF RunLockClean
<1>13. ASSUME NEW w \in Workers, RunEmpty(w) PROVE QueueInv'
  BY <1>13 DEF RunEmpty, HasTask
<1>14. ASSUME NEW w \in Workers, RunLockQueue(w) PROVE QueueInv'
  BY <1>14 DEF RunLockQueue, HasTask
<1>15. ASSUME NEW w \in Workers, SpuriousWake(w) PROVE QueueInv'
  BY <1>15 DEF SpuriousWake
<1>16. ASSUME NEW w \in Workers, RunWaitAgain(w) PROVE QueueInv'
  BY <1>16 DEF RunWaitAgain, HasTask
<1>17. ASSUME NEW w \in Workers, RunWake(w) PROVE QueueInv'
  BY <1>17 DEF RunWake, HasTask
<1>18. ASSUME NEW w \in Workers, RunTryFail(w) PROVE QueueInv'
  BY <1>18 DEF RunTryFail
<1>19. ASSUME NEW w \in Workers, RunTryLock(w) PROVE QueueInv'
  BY <1>19 DEF RunTryLock
<1>20. ASSUME NEW w \in Workers, RunPop(w) PROVE QueueInv'
  BY <1>20 DEF RunPop, TypeOK, AddPCs
<1>21. ASSUME NEW w \in Workers, RunSkip(w) PROVE QueueInv'
  BY <1>21 DEF RunSkip, Done
<1>22. ASSUME NEW w \in Workers, RunResume(w) PROVE QueueInv'
  BY <1>22 DEF RunResume, Done
<1>23. ASSUME NEW w \in Workers, RunEnd(w) PROVE QueueInv'
  BY <1>23 DEF RunEnd
<1>24. ASSUME NEW w \in Workers, BodyFinish(w) PROVE QueueInv'
  BY <1>24 DEF BodyFinish
<1>25. ASSUME NEW w \in Workers, BodySuspend(w) PROVE QueueInv'
  BY <1>25 DEF BodySuspend
<1>26. ASSUME NEW w \in Workers, BodySchedule(w) PROVE QueueInv'
  BY <1>26 DEF BodySchedule, CallAddTask
<1>27. ASSUME NEW w \in Workers, NEW t \in Tasks, BodyComplete(w, t) PROVE QueueInv'
  BY <1>27 DEF BodyComplete
<1>28. ASSUME NEW w \in Workers, NEW t \in Tasks, BodyAdd(w, t) PROVE QueueInv'
  BY <1>28 DEF BodyAdd, CallAddTask
<1>29. ASSUME NEW t \in Tasks, MainAdd(t) PROVE QueueInv'
  BY <1>29 DEF MainAdd, CallAddTask
<1>30. ASSUME Enter PROVE QueueInv'
  BY <1>30 DEF Enter
<1>31. ASSUME CleanLock PROVE QueueInv'
  BY <1>31 DEF CleanLock
<1>32. ASSUME CleanSkip PROVE QueueInv'
  BY <1>32 DEF CleanSkip, Bound
<1>33. ASSUME CleanScan PROVE QueueInv'
  BY <1>33, CleanScanQueue
<1>34. ASSUME NEW w \in Workers, CleanLockQueue(w) PROVE QueueInv'
  BY <1>34 DEF CleanLockQueue
<1>35. ASSUME CleanErase PROVE QueueInv'
  BY <1>35, CleanEraseQueue
<1>36. ASSUME CleanDestroy PROVE QueueInv'
  BY <1>36, CleanDestroyQueue
<1>37. ASSUME CleanUnlock PROVE QueueInv'
  BY <1>37 DEF CleanUnlock
<1>38. ASSUME CleanSleep PROVE QueueInv'
  BY <1>38 DEF CleanSleep
<1> QED
  BY <1>1, <1>2, <1>3, <1>4, <1>5, <1>6, <1>7, <1>8, <1>9, <1>10, <1>11,
       <1>12, <1>13, <1>14, <1>15, <1>16, <1>17, <1>18, <1>19, <1>20, <1>21,
       <1>22, <1>23, <1>24, <1>25, <1>26, <1>27, <1>28, <1>29, <1>30, <1>31,
       <1>32, <1>33, <1>34, <1>35, <1>36, <1>37, <1>38
     DEF Next, WorkerStep, MainStep, addTask, runTasks, Body, cleanTasks

(* What the cleaner has set aside stays done and unbound.                  *)
LEMMA DoneSetsStep ==
  ASSUME IInv, Next
  PROVE  DoneInv'
<1> USE ConstantsAssumption DEF IInv, Threads, Goto, callVars, lockVars,
     bindVars, DoneInv
<1>1. ASSUME NEW w \in Workers, Register(w) PROVE DoneInv'
  BY <1>1 DEF Register
<1>2. ASSUME NEW w \in Workers, PassLatch(w) PROVE DoneInv'
  BY <1>2 DEF PassLatch
<1>3. ASSUME Construct PROVE DoneInv'
  BY <1>3 DEF Construct
<1>4. ASSUME NEW x \in Threads, AddLockClean(x) PROVE DoneInv'
  BY <1>4 DEF AddLockClean
<1>5. ASSUME NEW x \in Threads, AddLockBinding(x) PROVE DoneInv'
  BY <1>5 DEF AddLockBinding
<1>6. ASSUME NEW x \in Threads, AddFound(x) PROVE DoneInv'
  BY <1>6 DEF AddFound, Bound
<1>7. ASSUME NEW x \in Threads, AddBind(x) PROVE DoneInv'
  BY <1>7 DEF AddBind, Bound, TypeOK, LockInv, Owned, InAdd, AddPCs
<1>8. ASSUME NEW x \in Threads, AddDerefEnd(x) PROVE DoneInv'
  BY <1>8 DEF AddDerefEnd
<1>9. ASSUME NEW x \in Threads, AddLockQueue(x) PROVE DoneInv'
  BY <1>9 DEF AddLockQueue
<1>10. ASSUME NEW x \in Threads, AddPush(x) PROVE DoneInv'
  BY <1>10 DEF AddPush
<1>11. ASSUME NEW x \in Threads, AddNotify(x) PROVE DoneInv'
  BY <1>11 DEF AddNotify, Notifies
<1>12. ASSUME NEW w \in Workers, RunLockClean(w) PROVE DoneInv'
  BY <1>12 DEF RunLockClean
<1>13. ASSUME NEW w \in Workers, RunEmpty(w) PROVE DoneInv'
  BY <1>13 DEF RunEmpty, HasTask
<1>14. ASSUME NEW w \in Workers, RunLockQueue(w) PROVE DoneInv'
  BY <1>14 DEF RunLockQueue, HasTask
<1>15. ASSUME NEW w \in Workers, SpuriousWake(w) PROVE DoneInv'
  BY <1>15 DEF SpuriousWake
<1>16. ASSUME NEW w \in Workers, RunWaitAgain(w) PROVE DoneInv'
  BY <1>16 DEF RunWaitAgain, HasTask
<1>17. ASSUME NEW w \in Workers, RunWake(w) PROVE DoneInv'
  BY <1>17 DEF RunWake, HasTask
<1>18. ASSUME NEW w \in Workers, RunTryFail(w) PROVE DoneInv'
  BY <1>18 DEF RunTryFail
<1>19. ASSUME NEW w \in Workers, RunTryLock(w) PROVE DoneInv'
  BY <1>19 DEF RunTryLock
<1>20. ASSUME NEW w \in Workers, RunPop(w) PROVE DoneInv'
  BY <1>20 DEF RunPop
<1>21. ASSUME NEW w \in Workers, RunSkip(w) PROVE DoneInv'
  BY <1>21 DEF RunSkip, Done
<1>22. ASSUME NEW w \in Workers, RunResume(w) PROVE DoneInv'
  BY <1>22 DEF RunResume, Done
<1>23. ASSUME NEW w \in Workers, RunEnd(w) PROVE DoneInv'
  BY <1>23 DEF RunEnd
<1>24. ASSUME NEW w \in Workers, BodyFinish(w) PROVE DoneInv'
  BY <1>24 DEF BodyFinish
<1>25. ASSUME NEW w \in Workers, BodySuspend(w) PROVE DoneInv'
  BY <1>25 DEF BodySuspend, TypeOK, AddPCs, HeldInv, InAdd, Holding, Executing
<1>26. ASSUME NEW w \in Workers, BodySchedule(w) PROVE DoneInv'
  BY <1>26 DEF BodySchedule, CallAddTask, TypeOK, AddPCs, HeldInv, InAdd,
       Holding, Executing
<1>27. ASSUME NEW w \in Workers, NEW t \in Tasks, BodyComplete(w, t) PROVE DoneInv'
  BY <1>27 DEF BodyComplete
<1>28. ASSUME NEW w \in Workers, NEW t \in Tasks, BodyAdd(w, t) PROVE DoneInv'
  BY <1>28 DEF BodyAdd, CallAddTask
<1>29. ASSUME NEW t \in Tasks, MainAdd(t) PROVE DoneInv'
  BY <1>29 DEF MainAdd, CallAddTask
<1>30. ASSUME Enter PROVE DoneInv'
  BY <1>30 DEF Enter
<1>31. ASSUME CleanLock PROVE DoneInv'
  BY <1>31 DEF CleanLock
<1>32. ASSUME CleanSkip PROVE DoneInv'
  BY <1>32 DEF CleanSkip, Bound
<1>33. ASSUME CleanScan PROVE DoneInv'
  BY <1>33 DEF CleanScan, Bound, Done, TypeOK, AddPCs
<1>34. ASSUME NEW w \in Workers, CleanLockQueue(w) PROVE DoneInv'
  BY <1>34 DEF CleanLockQueue
<1>35. ASSUME CleanErase PROVE DoneInv'
  BY <1>35 DEF CleanErase
<1>36. ASSUME CleanDestroy PROVE DoneInv'
  BY <1>36 DEF CleanDestroy, TypeOK, AddPCs, CallInv, InAdd
<1>37. ASSUME CleanUnlock PROVE DoneInv'
  BY <1>37 DEF CleanUnlock
<1>38. ASSUME CleanSleep PROVE DoneInv'
  BY <1>38 DEF CleanSleep
<1> QED
  BY <1>1, <1>2, <1>3, <1>4, <1>5, <1>6, <1>7, <1>8, <1>9, <1>10, <1>11,
       <1>12, <1>13, <1>14, <1>15, <1>16, <1>17, <1>18, <1>19, <1>20, <1>21,
       <1>22, <1>23, <1>24, <1>25, <1>26, <1>27, <1>28, <1>29, <1>30, <1>31,
       <1>32, <1>33, <1>34, <1>35, <1>36, <1>37, <1>38
     DEF Next, WorkerStep, MainStep, addTask, runTasks, Body, cleanTasks

(* No step loses a wake-up.                                                *)
LEMMA WakeupStep ==
  ASSUME IInv, Next
  PROVE  NoLostWakeup'
<1> USE ConstantsAssumption DEF IInv, Threads, Goto, callVars, lockVars,
     bindVars, NoLostWakeup
<1>1. ASSUME NEW w \in Workers, Register(w) PROVE NoLostWakeup'
  BY <1>1 DEF Register
<1>2. ASSUME NEW w \in Workers, PassLatch(w) PROVE NoLostWakeup'
  BY <1>2 DEF PassLatch
<1>3. ASSUME Construct PROVE NoLostWakeup'
  BY <1>3 DEF Construct
<1>4. ASSUME NEW x \in Threads, AddLockClean(x) PROVE NoLostWakeup'
  BY <1>4 DEF AddLockClean
<1>5. ASSUME NEW x \in Threads, AddLockBinding(x) PROVE NoLostWakeup'
  BY <1>5 DEF AddLockBinding
<1>6. ASSUME NEW x \in Threads, AddFound(x) PROVE NoLostWakeup'
  BY <1>6 DEF AddFound, Bound
<1>7. ASSUME NEW x \in Threads, AddBind(x) PROVE NoLostWakeup'
  BY <1>7 DEF AddBind, Bound
<1>8. ASSUME NEW x \in Threads, AddDerefEnd(x) PROVE NoLostWakeup'
  BY <1>8 DEF AddDerefEnd
<1>9. ASSUME NEW x \in Threads, AddLockQueue(x) PROVE NoLostWakeup'
  BY <1>9 DEF AddLockQueue
<1>10. ASSUME NEW x \in Threads, AddPush(x) PROVE NoLostWakeup'
  BY <1>10, AddPushWakeup
<1>11. ASSUME NEW x \in Threads, AddNotify(x) PROVE NoLostWakeup'
  BY <1>11, AddNotifyWakeup
<1>12. ASSUME NEW w \in Workers, RunLockClean(w) PROVE NoLostWakeup'
  BY <1>12 DEF RunLockClean
<1>13. ASSUME NEW w \in Workers, RunEmpty(w) PROVE NoLostWakeup'
  BY <1>13 DEF RunEmpty, HasTask
<1>14. ASSUME NEW w \in Workers, RunLockQueue(w) PROVE NoLostWakeup'
  BY <1>14 DEF RunLockQueue, HasTask
<1>15. ASSUME NEW w \in Workers, SpuriousWake(w) PROVE NoLostWakeup'
  BY <1>15 DEF SpuriousWake
<1>16. ASSUME NEW w \in Workers, RunWaitAgain(w) PROVE NoLostWakeup'
  BY <1>16 DEF RunWaitAgain, HasTask
<1>17. ASSUME NEW w \in Workers, RunWake(w) PROVE NoLostWakeup'
  BY <1>17 DEF RunWake, HasTask
<1>18. ASSUME NEW w \in Workers, RunTryFail(w) PROVE NoLostWakeup'
  BY <1>18 DEF RunTryFail
<1>19. ASSUME NEW w \in Workers, RunTryLock(w) PROVE NoLostWakeup'
  BY <1>19 DEF RunTryLock
<1>20. ASSUME NEW w \in Workers, RunPop(w) PROVE NoLostWakeup'
  BY <1>20 DEF RunPop
<1>21. ASSUME NEW w \in Workers, RunSkip(w) PROVE NoLostWakeup'
  BY <1>21 DEF RunSkip, Done
<1>22. ASSUME NEW w \in Workers, RunResume(w) PROVE NoLostWakeup'
  BY <1>22 DEF RunResume, Done
<1>23. ASSUME NEW w \in Workers, RunEnd(w) PROVE NoLostWakeup'
  BY <1>23 DEF RunEnd
<1>24. ASSUME NEW w \in Workers, BodyFinish(w) PROVE NoLostWakeup'
  BY <1>24 DEF BodyFinish
<1>25. ASSUME NEW w \in Workers, BodySuspend(w) PROVE NoLostWakeup'
  BY <1>25 DEF BodySuspend
<1>26. ASSUME NEW w \in Workers, BodySchedule(w) PROVE NoLostWakeup'
  BY <1>26 DEF BodySchedule, CallAddTask
<1>27. ASSUME NEW w \in Workers, NEW t \in Tasks, BodyComplete(w, t) PROVE NoLostWakeup'
  BY <1>27 DEF BodyComplete
<1>28. ASSUME NEW w \in Workers, NEW t \in Tasks, BodyAdd(w, t) PROVE NoLostWakeup'
  BY <1>28 DEF BodyAdd, CallAddTask
<1>29. ASSUME NEW t \in Tasks, MainAdd(t) PROVE NoLostWakeup'
  BY <1>29 DEF MainAdd, CallAddTask
<1>30. ASSUME Enter PROVE NoLostWakeup'
  BY <1>30 DEF Enter
<1>31. ASSUME CleanLock PROVE NoLostWakeup'
  BY <1>31 DEF CleanLock
<1>32. ASSUME CleanSkip PROVE NoLostWakeup'
  BY <1>32 DEF CleanSkip, Bound
<1>33. ASSUME CleanScan PROVE NoLostWakeup'
  BY <1>33 DEF CleanScan, Bound, Done
<1>34. ASSUME NEW w \in Workers, CleanLockQueue(w) PROVE NoLostWakeup'
  BY <1>34 DEF CleanLockQueue
<1>35. ASSUME CleanErase PROVE NoLostWakeup'
  BY <1>35 DEF CleanErase, Erasable, EraseAt
<1>36. ASSUME CleanDestroy PROVE NoLostWakeup'
  BY <1>36 DEF CleanDestroy, Erasable
<1>37. ASSUME CleanUnlock PROVE NoLostWakeup'
  BY <1>37 DEF CleanUnlock
<1>38. ASSUME CleanSleep PROVE NoLostWakeup'
  BY <1>38 DEF CleanSleep
<1> QED
  BY <1>1, <1>2, <1>3, <1>4, <1>5, <1>6, <1>7, <1>8, <1>9, <1>10, <1>11,
       <1>12, <1>13, <1>14, <1>15, <1>16, <1>17, <1>18, <1>19, <1>20, <1>21,
       <1>22, <1>23, <1>24, <1>25, <1>26, <1>27, <1>28, <1>29, <1>30, <1>31,
       <1>32, <1>33, <1>34, <1>35, <1>36, <1>37, <1>38
     DEF Next, WorkerStep, MainStep, addTask, runTasks, Body, cleanTasks

(* What the constructor establishes is kept.                               *)
LEMMA StartStep ==
  ASSUME IInv, Next
  PROVE  StartInv'
<1> USE ConstantsAssumption DEF IInv, Threads, Goto, callVars, lockVars,
     bindVars, StartInv
<1>1. ASSUME NEW w \in Workers, Register(w) PROVE StartInv'
  BY <1>1 DEF Register
<1>2. ASSUME NEW w \in Workers, PassLatch(w) PROVE StartInv'
  BY <1>2 DEF PassLatch
<1>3. ASSUME Construct PROVE StartInv'
  BY <1>3 DEF Construct, Begin, TypeOK, AddPCs
<1>4. ASSUME NEW x \in Threads, AddLockClean(x) PROVE StartInv'
  BY <1>4 DEF AddLockClean
<1>5. ASSUME NEW x \in Threads, AddLockBinding(x) PROVE StartInv'
  BY <1>5 DEF AddLockBinding
<1>6. ASSUME NEW x \in Threads, AddFound(x) PROVE StartInv'
  BY <1>6 DEF AddFound, Bound
<1>7. ASSUME NEW x \in Threads, AddBind(x) PROVE StartInv'
  BY <1>7, AddBindStart
<1>8. ASSUME NEW x \in Threads, AddDerefEnd(x) PROVE StartInv'
  BY <1>8 DEF AddDerefEnd, TypeOK, AddPCs, CallInv, InAdd
<1>9. ASSUME NEW x \in Threads, AddLockQueue(x) PROVE StartInv'
  BY <1>9 DEF AddLockQueue
<1>10. ASSUME NEW x \in Threads, AddPush(x) PROVE StartInv'
  BY <1>10 DEF AddPush
<1>11. ASSUME NEW x \in Threads, AddNotify(x) PROVE StartInv'
  BY <1>11, AddNotifyStart
<1>12. ASSUME NEW w \in Workers, RunLockClean(w) PROVE StartInv'
  BY <1>12 DEF RunLockClean
<1>13. ASSUME NEW w \in Workers, RunEmpty(w) PROVE StartInv'
  BY <1>13 DEF RunEmpty
<1>14. ASSUME NEW w \in Workers, RunLockQueue(w) PROVE StartInv'
  BY <1>14 DEF RunLockQueue
<1>15. ASSUME NEW w \in Workers, SpuriousWake(w) PROVE StartInv'
  BY <1>15 DEF SpuriousWake
<1>16. ASSUME NEW w \in Workers, RunWaitAgain(w) PROVE StartInv'
  BY <1>16 DEF RunWaitAgain
<1>17. ASSUME NEW w \in Workers, RunWake(w) PROVE StartInv'
  BY <1>17 DEF RunWake
<1>18. ASSUME NEW w \in Workers, RunTryFail(w) PROVE StartInv'
  BY <1>18 DEF RunTryFail
<1>19. ASSUME NEW w \in Workers, RunTryLock(w) PROVE StartInv'
  BY <1>19 DEF RunTryLock
<1>20. ASSUME NEW w \in Workers, RunPop(w) PROVE StartInv'
  BY <1>20 DEF RunPop
<1>21. ASSUME NEW w \in Workers, RunSkip(w) PROVE StartInv'
  BY <1>21 DEF RunSkip, Done
<1>22. ASSUME NEW w \in Workers, RunResume(w) PROVE StartInv'
  BY <1>22 DEF RunResume, Done, TypeOK, AddPCs, HeldInv, InAdd, Holding,
       Executing
<1>23. ASSUME NEW w \in Workers, RunEnd(w) PROVE StartInv'
  BY <1>23 DEF RunEnd
<1>24. ASSUME NEW w \in Workers, BodyFinish(w) PROVE StartInv'
  BY <1>24 DEF BodyFinish, TypeOK, AddPCs, HeldInv, InAdd, Holding, Executing
<1>25. ASSUME NEW w \in Workers, BodySuspend(w) PROVE StartInv'
  BY <1>25 DEF BodySuspend, TypeOK, AddPCs, HeldInv, InAdd, Holding, Executing
<1>26. ASSUME NEW w \in Workers, BodySchedule(w) PROVE StartInv'
  BY <1>26 DEF BodySchedule, CallAddTask, TypeOK, AddPCs, HeldInv, InAdd,
       Holding, Executing
<1>27. ASSUME NEW w \in Workers, NEW t \in Tasks, BodyComplete(w, t) PROVE StartInv'
  BY <1>27 DEF BodyComplete
<1>28. ASSUME NEW w \in Workers, NEW t \in Tasks, BodyAdd(w, t) PROVE StartInv'
  BY <1>28 DEF BodyAdd, CallAddTask, TypeOK, AddPCs, HeldInv, InAdd, Holding,
       Executing
<1>29. ASSUME NEW t \in Tasks, MainAdd(t) PROVE StartInv'
  BY <1>29 DEF MainAdd, CallAddTask
<1>30. ASSUME Enter PROVE StartInv'
  BY <1>30 DEF Enter
<1>31. ASSUME CleanLock PROVE StartInv'
  BY <1>31 DEF CleanLock
<1>32. ASSUME CleanSkip PROVE StartInv'
  BY <1>32 DEF CleanSkip, Bound
<1>33. ASSUME CleanScan PROVE StartInv'
  BY <1>33 DEF CleanScan, Bound, Done
<1>34. ASSUME NEW w \in Workers, CleanLockQueue(w) PROVE StartInv'
  BY <1>34 DEF CleanLockQueue
<1>35. ASSUME CleanErase PROVE StartInv'
  BY <1>35 DEF CleanErase
<1>36. ASSUME CleanDestroy PROVE StartInv'
  BY <1>36 DEF CleanDestroy
<1>37. ASSUME CleanUnlock PROVE StartInv'
  BY <1>37 DEF CleanUnlock
<1>38. ASSUME CleanSleep PROVE StartInv'
  BY <1>38 DEF CleanSleep
<1> QED
  BY <1>1, <1>2, <1>3, <1>4, <1>5, <1>6, <1>7, <1>8, <1>9, <1>10, <1>11,
       <1>12, <1>13, <1>14, <1>15, <1>16, <1>17, <1>18, <1>19, <1>20, <1>21,
       <1>22, <1>23, <1>24, <1>25, <1>26, <1>27, <1>28, <1>29, <1>30, <1>31,
       <1>32, <1>33, <1>34, <1>35, <1>36, <1>37, <1>38
     DEF Next, WorkerStep, MainStep, addTask, runTasks, Body, cleanTasks


(* The invariant holds initially: no coroutine exists and no lock is held. *)
LEMMA InitInv == Init => IInv
<1> SUFFICES ASSUME Init PROVE IInv
  OBVIOUS
<1> USE ConstantsAssumption DEF Init, Threads
<1>1. TypeOK
  BY DEF TypeOK, WorkerPCs, MainPCs
<1>2. LockInv
  BY DEF LockInv, Owned, Holding, InAdd, AddPCs, HoldsQueue
<1>3. CallInv
  BY DEF CallInv, InAdd, AddPCs
<1>4. HeldInv
  BY DEF HeldInv, Holding, Executing, InAdd, AddPCs
<1>5. QueueInv
  BY DEF QueueInv, QueueAffinity
<1>6. DoneInv
  BY DEF DoneInv
<1>7. NoLostWakeup
  BY DEF NoLostWakeup
<1>8. StartInv
  BY DEF StartInv
<1> QED
  BY <1>1, <1>2, <1>3, <1>4, <1>5, <1>6, <1>7, <1>8 DEF IInv

(* No step of any thread, and no stuttering step, breaks the invariant.    *)
LEMMA StepInv == IInv /\ [Next]_vars => IInv'
<1> SUFFICES ASSUME IInv, [Next]_vars PROVE IInv'
  OBVIOUS
<1>1. CASE Next
  BY <1>1, TypeStep, LockStep, CallStep, HeldStep, QueueStep, DoneSetsStep,
     WakeupStep, StartStep DEF IInv
<1>2. CASE UNCHANGED vars
  <2> USE <1>2 DEF IInv, vars, callVars, lockVars, bindVars
  <2>1. TypeOK'
    BY DEF TypeOK
  <2>2. LockInv'
    BY DEF LockInv, Owned, Holding, InAdd, HoldsQueue
  <2>3. CallInv'
    BY DEF CallInv, InAdd
  <2>4. HeldInv'
    BY DEF HeldInv, Holding, Executing, InAdd
  <2>5. QueueInv' /\ DoneInv' /\ NoLostWakeup' /\ StartInv'
    BY DEF QueueInv, QueueAffinity, DoneInv, NoLostWakeup, StartInv
  <2> QED
    BY <2>1, <2>2, <2>3, <2>4, <2>5
<1> QED
  BY <1>1, <1>2

(* The inductive invariant holds in every reachable state of the pool, for *)
(* any number of workers, frames and addTask calls.                        *)
THEOREM Invariance == Spec => []IInv
  BY InitInv, StepInv, PTL DEF Spec

(* Every variable of the pool keeps its type; in particular a thread never *)
(* nests more than two shared ownerships of cleanWorkMutex.                *)
THEOREM TypeCorrect == Spec => []TypeOK
<1>1. IInv => TypeOK
  BY DEF IInv
<1> QED
  BY <1>1, Invariance, PTL

(* A handle waits only in the queue addTask bound it to.                   *)
THEOREM AffinityHolds == Spec => []QueueAffinity
<1>1. IInv => QueueAffinity
  BY DEF IInv, QueueInv
<1> QED
  BY <1>1, Invariance, PTL

(* No coroutine handle is resumed by two threads at once, however often it *)
(* is handed to addTask: what a worker holds is bound to that worker.      *)
THEOREM ResumeIsExclusive == Spec => []ResumeExclusive
<1>1. IInv => ResumeExclusive
  BY DEF IInv, HeldInv, ResumeExclusive
<1> QED
  BY <1>1, Invariance, PTL

(* A frame that is running is held by the worker it is bound to, which is  *)
(* inside its resume().                                                    *)
THEOREM RunningHeld == Spec => []RunningIsHeld
<1>1. IInv => RunningIsHeld
  <2> SUFFICES ASSUME IInv, NEW t \in Tasks, frame[t] = "running"
               PROVE  \E w \in Workers : taskBinding[t] = w /\ cur[w] = t /\ Resuming(w)
    BY DEF RunningIsHeld
  <2>1. PICK w \in Workers : cur[w] = t /\ Executing(w)
    BY DEF IInv, HeldInv
  <2>2. Holding(w) /\ Resuming(w)
    BY <2>1 DEF Executing, Holding, Resuming, InAdd
  <2> QED
    BY <2>1, <2>2 DEF IInv, HeldInv
<1> QED
  BY <1>1, Invariance, PTL

(* "when the clean thread is running, no task will run" (Loop.hpp:168).    *)
THEOREM CleanerRunsAlone == Spec => []CleanExcludesResume
<1>1. IInv => CleanExcludesResume
  <2> SUFFICES ASSUME IInv, pc[Main] \in {"c_check", "c_next", "c_erase"},
                      NEW w \in Workers, Resuming(w)
               PROVE  FALSE
    BY DEF CleanExcludesResume
  <2>1. sharedCnt[w] = 0
    BY DEF IInv, LockInv, Threads
  <2>2. Holding(w)
    BY DEF Resuming, Holding, InAdd
  <2> QED
    BY <2>1, <2>2 DEF IInv, LockInv, Owned, Threads
<1> QED
  BY <1>1, Invariance, PTL

(* Nothing refers to a frame that cleanTasks has destroyed.                *)
THEOREM HandlesLive == Spec => []NoDanglingHandle
<1>1. IInv => NoDanglingHandle
  BY DEF IInv, QueueInv, HeldInv, CallInv, InAdd, NoDanglingHandle, Bound
<1> QED
  BY <1>1, Invariance, PTL

(* runTasks never pops from an empty deque.                                *)
THEOREM PopsNonEmpty == Spec => []PopNonEmpty
<1>1. IInv => PopNonEmpty
  BY DEF IInv, QueueInv, PopNonEmpty
<1> QED
  BY <1>1, Invariance, PTL

(* A worker never sleeps on a task that nobody is about to announce.       *)
THEOREM WakeupNotLost == Spec => []NoLostWakeup
<1>1. IInv => NoLostWakeup
  BY DEF IInv
<1> QED
  BY <1>1, Invariance, PTL

(* If some worker has registered its queue when the constructor reads      *)
(* queueList.begin(), addTask never dereferences end().                    *)
THEOREM QueueFound ==
  ASSUME BeginSeesQueue = TRUE
  PROVE  Spec => []AddFindsQueue
<1>1. IInv => AddFindsQueue
  BY DEF IInv, StartInv, AddFindsQueue
<1> QED
  BY <1>1, Invariance, PTL

(* A binding is never moved, and is dropped only when the frame is done.   *)
THEOREM BindingsStable == Spec => BindingStable
<1> DEFINE Kept == \A t \in Tasks :
              taskBinding[t] # None /\ taskBinding'[t] # taskBinding[t]
                => taskBinding'[t] = None /\ frame[t] = "done"
<1>1. IInv /\ [Next]_vars => [Kept]_vars
  <2> SUFFICES ASSUME IInv, Next PROVE Kept
    OBVIOUS
  <2>1. ASSUME NEW x \in Threads, AddBind(x) PROVE Kept
    BY <2>1 DEF IInv, TypeOK, AddBind, Bound
  <2>2. CASE CleanScan
    BY <2>2 DEF CleanScan, Done
  <2>3. CASE UNCHANGED taskBinding
    BY <2>3
  <2>4. ASSUME NEW x \in Threads, addTask(x)
        PROVE  AddBind(x) \/ UNCHANGED taskBinding
    BY <2>4 DEF addTask, AddLockClean, AddLockBinding, AddFound, AddDerefEnd,
         AddLockQueue, AddPush, AddNotify, bindVars
  <2>5. ASSUME NEW w \in Workers, runTasks(w) \/ SpuriousWake(w)
        PROVE  UNCHANGED taskBinding
    BY <2>5 DEF runTasks, SpuriousWake, RunLockClean, RunEmpty, RunLockQueue,
         RunWaitAgain, RunWake, RunTryFail, RunTryLock, RunPop, RunSkip,
         RunResume, RunEnd, bindVars
  <2>6. ASSUME NEW w \in Workers, Body(w)
        PROVE  UNCHANGED taskBinding
    BY <2>6 DEF Body, BodyFinish, BodySuspend, BodySchedule, BodyComplete,
         BodyAdd,
         bindVars
  <2>7. CASE cleanTasks
    <3>1. CleanScan \/ UNCHANGED taskBinding
      BY <2>7 DEF cleanTasks, CleanLock, CleanSkip, CleanLockQueue, CleanErase,
           CleanDestroy, CleanUnlock, CleanSleep, bindVars
    <3> QED
      BY <2>2, <2>3, <3>1
  <2>8. ASSUME NEW w \in Workers, Register(w) \/ PassLatch(w)
        PROVE  UNCHANGED taskBinding
    BY <2>8 DEF Register, PassLatch, bindVars
  <2>9. CASE Construct \/ Enter \/ \E t \in Tasks : MainAdd(t)
    BY <2>3, <2>9 DEF Construct, Enter, MainAdd, bindVars
  <2> QED
    BY <2>1, <2>3, <2>4, <2>5, <2>6, <2>7, <2>8, <2>9
       DEF Next, WorkerStep, MainStep, Threads
<1> QED
  BY <1>1, Invariance, PTL DEF Spec, BindingStable
-----------------------------------------------------------------------------
(* Locks and those who wait for them.                                      *)

(* The converse of LockInv: a mutex that is owned is owned by a thread     *)
(* whose position says so.                                                 *)
OwnerInv ==
  /\ bindingMutex # None => pc[bindingMutex] = "a_look"
  /\ \A w \in Workers : queueMutex[w] # None => HoldsQueue(queueMutex[w], w)

(* No thread that owns a mutex moves, and no mutex changes hands.          *)
NoOwnerMoves ==
  /\ UNCHANGED <<bindingMutex, queueMutex, targetQueue>>
  /\ \A x \in Threads :
       pc[x] \in {"a_look", "a_push", "r_try", "r_pop", "c_erase"} => pc'[x] = pc[x]

LEMMA OwnersStay ==
  ASSUME IInv, OwnerInv, NoOwnerMoves
  PROVE  OwnerInv'
<1>1. /\ bindingMutex # None => bindingMutex \in Threads
      /\ \A w \in Workers : queueMutex[w] # None => queueMutex[w] \in Threads
  BY DEF IInv, TypeOK
<1>2. bindingMutex' # None => pc'[bindingMutex'] = "a_look"
  BY <1>1 DEF OwnerInv, NoOwnerMoves
<1>3. ASSUME NEW w \in Workers, queueMutex'[w] # None
      PROVE  HoldsQueue(queueMutex[w], w)'
  BY <1>1, <1>3 DEF OwnerInv, NoOwnerMoves, HoldsQueue
<1> QED
  BY <1>2, <1>3 DEF OwnerInv, NoOwnerMoves

LEMMA OwnerStep ==
  ASSUME IInv, OwnerInv, Next
  PROVE  OwnerInv'
<1> USE ConstantsAssumption DEF Threads, Goto, callVars, lockVars
<1>0. TypeOK /\ LockInv
  BY DEF IInv
<1>1. ASSUME NEW x \in Threads,
             AddLockClean(x) \/ AddDerefEnd(x) \/ AddNotify(x)
      PROVE  OwnerInv'
  <2>1. NoOwnerMoves
    BY <1>0, <1>1
       DEF NoOwnerMoves, AddLockClean, AddDerefEnd, AddNotify, Notifies, TypeOK
  <2> QED
    BY <2>1, OwnersStay
<1>2. ASSUME NEW w \in Workers,
             \/ Register(w) \/ PassLatch(w) \/ RunLockClean(w) \/ RunEmpty(w)
             \/ RunWaitAgain(w) \/ SpuriousWake(w)
             \/ RunSkip(w) \/ RunResume(w) \/ RunEnd(w)
      PROVE  OwnerInv'
  <2>1. NoOwnerMoves
    BY <1>0, <1>2
       DEF NoOwnerMoves, Register, PassLatch, RunLockClean, RunEmpty, RunWaitAgain,
           SpuriousWake, RunSkip, RunResume, RunEnd, TypeOK
  <2> QED
    BY <2>1, OwnersStay
<1>3. ASSUME NEW w \in Workers, Body(w)
      PROVE  OwnerInv'
  <2>1. NoOwnerMoves
    BY <1>0, <1>3
       DEF NoOwnerMoves, Body, BodyFinish, BodySuspend, BodySchedule, BodyComplete,
           BodyAdd, CallAddTask, TypeOK
  <2> QED
    BY <2>1, OwnersStay
<1>4. ASSUME \/ Construct \/ Enter \/ CleanLock \/ CleanSkip \/ CleanScan \/ CleanErase
             \/ CleanUnlock \/ CleanSleep \/ \E t \in Tasks : MainAdd(t)
      PROVE  OwnerInv'
  <2>1. NoOwnerMoves
    BY <1>0, <1>4
       DEF NoOwnerMoves, Construct, Enter, CleanLock, CleanSkip, CleanScan, CleanErase,
           CleanUnlock, CleanSleep, MainAdd, CallAddTask, TypeOK
  <2> QED
    BY <2>1, OwnersStay
<1>5. ASSUME NEW x \in Threads, AddLockBinding(x)
      PROVE  OwnerInv'
  BY <1>0, <1>5 DEF AddLockBinding, OwnerInv, HoldsQueue, TypeOK
<1>6. ASSUME NEW x \in Threads, AddFound(x) \/ AddBind(x)
      PROVE  OwnerInv'
  <2>1. /\ pc[x] = "a_look" /\ pc' = [pc EXCEPT ![x] = "a_queue"]
        /\ bindingMutex' = None /\ queueMutex' = queueMutex
        /\ \A y \in Threads \ {x} : targetQueue'[y] = targetQueue[y]
    BY <1>0, <1>6 DEF AddFound, AddBind, TypeOK
  <2>2. ASSUME NEW w \in Workers, queueMutex[w] # None
        PROVE  HoldsQueue(queueMutex[w], w)'
    <3>1. queueMutex[w] \in Threads /\ HoldsQueue(queueMutex[w], w)
      BY <1>0, <2>2 DEF OwnerInv, TypeOK
    <3>2. queueMutex[w] # x
      BY <2>1, <3>1 DEF HoldsQueue
    <3> QED
      BY <1>0, <2>1, <3>1, <3>2 DEF HoldsQueue, TypeOK
  <2> QED
    BY <2>1, <2>2 DEF OwnerInv
<1>7. ASSUME NEW x \in Threads, NEW v \in Workers, NEW l,
             queueMutex[v] = None, queueMutex' = [queueMutex EXCEPT ![v] = x],
             pc' = [pc EXCEPT ![x] = l], bindingMutex' = bindingMutex,
             HoldsQueue(x, v)', pc[x] \notin {"a_look", "a_push", "r_try", "r_pop", "c_erase"},
             \A y \in Threads \ {x} : targetQueue'[y] = targetQueue[y]
      PROVE  OwnerInv'
  <2>1. ASSUME NEW w \in Workers, queueMutex'[w] # None
        PROVE  HoldsQueue(queueMutex[w], w)'
    <3>1. CASE w = v
      BY <1>0, <1>7, <3>1 DEF TypeOK, HoldsQueue
    <3>2. CASE w # v
      <4>1. queueMutex'[w] = queueMutex[w] /\ queueMutex[w] \in Threads
        BY <1>0, <1>7, <2>1, <3>2 DEF TypeOK
      <4>2. HoldsQueue(queueMutex[w], w)
        BY <2>1, <4>1 DEF OwnerInv
      <4>3. queueMutex[w] # x
        BY <1>7, <4>2 DEF HoldsQueue
      <4> QED
        BY <1>0, <1>7, <4>1, <4>2, <4>3 DEF HoldsQueue, TypeOK
    <3> QED
      BY <3>1, <3>2
  <2>2. bindingMutex' # None => pc'[bindingMutex'] = "a_look"
    BY <1>0, <1>7 DEF OwnerInv, TypeOK
  <2> QED
    BY <2>1, <2>2 DEF OwnerInv
<1>8. ASSUME NEW x \in Threads, AddLockQueue(x)
      PROVE  OwnerInv'
  <2>1. targetQueue[x] \in Workers
    BY <1>0, <1>8 DEF AddLockQueue, IInv, CallInv, InAdd, AddPCs, TypeOK
  <2>2. HoldsQueue(x, targetQueue[x])'
    BY <1>0, <1>8 DEF AddLockQueue, HoldsQueue, TypeOK
  <2> QED
    BY <1>7, <1>8, <2>1, <2>2 DEF AddLockQueue
<1>9. ASSUME NEW w \in Workers, RunLockQueue(w) \/ RunWake(w)
      PROVE  OwnerInv'
  <2>1. HoldsQueue(w, w)'
    BY <1>0, <1>9 DEF RunLockQueue, RunWake, HoldsQueue, TypeOK
  <2> QED
    BY <1>7, <1>9, <2>1 DEF RunLockQueue, RunWake
<1>10. ASSUME NEW w \in Workers, CleanLockQueue(w)
      PROVE  OwnerInv'
  <2>1. HoldsQueue(Main, w)' /\ \A y \in Threads \ {Main} : targetQueue'[y] = targetQueue[y]
    BY <1>0, <1>10 DEF CleanLockQueue, HoldsQueue, TypeOK
  <2> QED
    BY <1>7, <1>10, <2>1 DEF CleanLockQueue
<1>11. ASSUME NEW x \in Threads, NEW v \in Workers, NEW l,
             HoldsQueue(x, v), queueMutex' = [queueMutex EXCEPT ![v] = None],
             pc' = [pc EXCEPT ![x] = l], UNCHANGED <<bindingMutex, targetQueue>>
      PROVE  OwnerInv'
  <2>1. pc[x] \in {"a_push", "r_try", "r_pop", "c_erase"}
    BY <1>11 DEF HoldsQueue
  <2>2. \A w \in Workers : HoldsQueue(x, w) => w = v
    BY <1>0, <1>11, <2>1 DEF HoldsQueue, TypeOK, WorkerPCs, MainPCs, AddPCs
  <2>3. ASSUME NEW w \in Workers, queueMutex'[w] # None
        PROVE  HoldsQueue(queueMutex[w], w)'
    <3>1. w # v /\ queueMutex'[w] = queueMutex[w] /\ queueMutex[w] \in Threads
      BY <1>0, <1>11, <2>3 DEF TypeOK
    <3>2. HoldsQueue(queueMutex[w], w) /\ queueMutex[w] # x
      BY <2>2, <2>3, <3>1 DEF OwnerInv
    <3> QED
      BY <1>0, <1>11, <3>1, <3>2 DEF HoldsQueue, TypeOK
  <2>4. bindingMutex' # None => pc'[bindingMutex'] = "a_look"
    BY <1>0, <1>11, <2>1 DEF OwnerInv, TypeOK
  <2> QED
    BY <2>3, <2>4 DEF OwnerInv
<1>12. ASSUME NEW x \in Threads, AddPush(x)
      PROVE  OwnerInv'
  <2>1. targetQueue[x] \in Workers
    BY <1>12 DEF AddPush, IInv, CallInv, InAdd, AddPCs
  <2> QED
    BY <1>11, <1>12, <2>1 DEF AddPush, HoldsQueue
<1>13. ASSUME NEW w \in Workers, RunTryFail(w) \/ RunPop(w)
      PROVE  OwnerInv'
  BY <1>11, <1>13 DEF RunTryFail, RunPop, HoldsQueue
<1>14. ASSUME CleanDestroy
      PROVE  OwnerInv'
  <2>1. targetQueue[Main] \in Workers
    BY <1>14 DEF CleanDestroy, IInv, CallInv
  <2> QED
    BY <1>11, <1>14, <2>1 DEF CleanDestroy, HoldsQueue
<1>15. ASSUME NEW w \in Workers, RunTryLock(w)
      PROVE  OwnerInv'
  BY <1>0, <1>15 DEF RunTryLock, OwnerInv, HoldsQueue, TypeOK
<1> QED
  BY <1>1, <1>2, <1>3, <1>4, <1>5, <1>6, <1>8, <1>9, <1>10, <1>12, <1>13, <1>14, <1>15
     DEF Next, WorkerStep, MainStep, addTask, runTasks, cleanTasks

(* Whoever waits for a lock waits for a thread that comes later in this    *)
(* order: the cleaner before its write lock, those who want to read, those *)
(* who want a mutex, and those who wait for nobody.                        *)
Rank(x) ==
  CASE pc[x] = "c_lock" -> 3
    [] pc[x] \in {"start", "a_clean", "r_clean"} -> 2
    [] pc[x] \in {"a_bind", "a_queue", "r_lock", "r_wake", "c_next"} -> 1
    [] OTHER -> 0

LEMMA WaitsDown ==
  ASSUME IInv, OwnerInv, NEW x \in Threads, NEW y \in Threads, WaitsFor(x, y)
  PROVE  Rank(y) < Rank(x)
<1> USE ConstantsAssumption DEF Threads
<1>0. TypeOK /\ LockInv /\ None \notin Threads /\ x # None /\ y # None
  BY DEF IInv
<1>1. CASE pc[x] \in {"start", "a_clean", "r_clean"} /\ exclusive = y
  <2>1. y = Main /\ pc[y] \in {"c_check", "c_next", "c_erase"}
    BY <1>0, <1>1 DEF LockInv, TypeOK
  <2> QED
    BY <1>1, <2>1 DEF Rank
<1>2. CASE pc[x] \in {"start", "a_bind"} /\ bindingMutex = y
  <2>1. pc[y] = "a_look"
    BY <1>0, <1>2 DEF OwnerInv
  <2> QED
    BY <1>2, <2>1 DEF Rank
<1>3. ASSUME NEW w \in Workers, queueMutex[w] = y
      PROVE  Rank(y) = 0
  <2>1. pc[y] \in {"a_push", "r_try", "r_pop", "c_erase"}
    BY <1>0, <1>3 DEF OwnerInv, HoldsQueue
  <2> QED
    BY <2>1 DEF Rank
<1>4. CASE pc[x] = "a_queue" /\ targetQueue[x] # End /\ queueMutex[targetQueue[x]] = y
  <2>1. targetQueue[x] \in Workers
    BY <1>0, <1>4 DEF IInv, CallInv, InAdd, AddPCs, TypeOK
  <2> QED
    BY <1>3, <1>4, <2>1 DEF Rank
<1>5. CASE pc[x] \in {"r_lock", "r_wake"} /\ queueMutex[x] = y
  <2>1. x \in Workers
    BY <1>0, <1>5 DEF TypeOK, MainPCs, AddPCs
  <2> QED
    BY <1>3, <1>5, <2>1 DEF Rank
<1>6. CASE pc[x] = "c_lock" /\ sharedCnt[y] > 0
  <2>1. pc[y] # "c_lock"
    BY <1>0, <1>6 DEF LockInv, Owned, InAdd, Holding, AddPCs
  <2> QED
    BY <1>6, <2>1 DEF Rank
<1>7. CASE pc[x] = "c_next" /\ \E w \in Workers : doneTasks[w] # {} /\ queueMutex[w] = y
  BY <1>3, <1>7 DEF Rank
<1> QED
  BY <1>1, <1>2, <1>4, <1>5, <1>6, <1>7 DEF WaitsFor

(* Workers, tasks that call addTask and the cleaner never wait for each    *)
(* other in a circle of locks.                                             *)
THEOREM NoDeadlockOverLocks == Spec => []NoCircularWait
<1>1. Init => OwnerInv
  BY DEF Init, OwnerInv
<1>2. IInv /\ OwnerInv /\ [Next]_vars => OwnerInv'
  <2> SUFFICES ASSUME IInv, OwnerInv, [Next]_vars PROVE OwnerInv'
    OBVIOUS
  <2>1. CASE UNCHANGED vars
    <3>1. NoOwnerMoves
      BY <2>1 DEF vars, lockVars, callVars, NoOwnerMoves
    <3> QED
      BY <3>1, OwnersStay
  <2> QED
    BY <2>1, OwnerStep
<1>3. IInv /\ OwnerInv => NoCircularWait
  <2> SUFFICES ASSUME IInv, OwnerInv, NEW S \in SUBSET Threads, S # {}
               PROVE  \E x \in S : \A y \in S : ~WaitsFor(x, y)
    BY DEF NoCircularWait
  <2>1. \A x \in S : Rank(x) \in 0..3
    BY DEF Rank
  <2>2. PICK x \in S : \A y \in S : Rank(x) <= Rank(y)
    <3>1. CASE \E x \in S : Rank(x) = 0
      BY <2>1, <3>1
    <3>2. CASE (\A x \in S : Rank(x) # 0) /\ \E x \in S : Rank(x) = 1
      BY <2>1, <3>2
    <3>3. CASE (\A x \in S : Rank(x) \notin {0, 1}) /\ \E x \in S : Rank(x) = 2
      BY <2>1, <3>3
    <3>4. CASE \A x \in S : Rank(x) = 3
      BY <3>4
    <3> QED
      BY <2>1, <3>1, <3>2, <3>3, <3>4
  <2>3. ASSUME NEW y \in S, WaitsFor(x, y) PROVE FALSE
    BY <2>1, <2>2, <2>3, WaitsDown
  <2> QED
    BY <2>3
<1> QED
  BY <1>1, <1>2, <1>3, Invariance, PTL DEF Spec

-----------------------------------------------------------------------------
(***************************************************************************)
(* The lock-level pool implements the abstract pool of PoolSpec, for any   *)
(* number of workers, frames and addTask calls.                            *)
(***************************************************************************)

(* What absBinding is in a state of the invariant, without CHOOSE.         *)
AbsBindingIs ==
  /\ absBinding = [t \in Tasks |-> absBinding[t]]
  /\ \A t \in Tasks, w \in Workers : t \in doneTasks[w] => absBinding[t] = w
  /\ \A t \in Tasks : (\A w \in Workers : t \notin doneTasks[w]) =>
       absBinding[t] = IF taskBinding[t] = End THEN None ELSE taskBinding[t]

(* The invariant makes the CHOOSE of absBinding unique.                    *)
LEMMA AbsBindingFacts == IInv => AbsBindingIs
<1> SUFFICES ASSUME IInv PROVE AbsBindingIs
  OBVIOUS
<1>1. absBinding = [t \in Tasks |-> absBinding[t]]
  BY DEF absBinding
<1>2. ASSUME NEW t \in Tasks, NEW w \in Workers, t \in doneTasks[w]
      PROVE  absBinding[t] = w
  <2>1. \A v \in Workers : t \in doneTasks[v] => v = w
    BY <1>2 DEF IInv, DoneInv
  <2> QED
    BY <1>2, <2>1 DEF absBinding
<1>3. ASSUME NEW t \in Tasks, \A w \in Workers : t \notin doneTasks[w]
      PROVE  absBinding[t] = IF taskBinding[t] = End THEN None ELSE taskBinding[t]
  BY <1>3 DEF absBinding
<1> QED
  BY <1>1, <1>2, <1>3 DEF AbsBindingIs

(* The invariant, and with it these facts, also hold after a step.         *)
LEMMA AbsBindingNext == IInv /\ Next => AbsBindingIs /\ AbsBindingIs'
  BY AbsBindingFacts, StepInv, PTL

(* Outside the cleaner's critical section nothing is set aside.            *)
LEMMA NothingSetAside ==
  ASSUME IInv, pc[Main] \notin {"c_next", "c_erase"}
  PROVE  \A w \in Workers : doneTasks[w] = {}
BY DEF IInv, DoneInv, TypeOK

(* While a thread owns the lock in shared mode nothing is set aside.       *)
LEMMA SharedExcludesClean ==
  ASSUME IInv, NEW x \in Threads, sharedCnt[x] # 0
  PROVE  \A w \in Workers : doneTasks[w] = {}
<1>1. pc[Main] \notin {"c_next", "c_erase"}
  BY DEF IInv, LockInv
<1> QED
  BY <1>1, NothingSetAside

(* A step that leaves bindings, queues, popped handles and frames alone is *)
(* a stuttering step of the abstract pool.                                 *)
LEMMA Stutters ==
  ASSUME UNCHANGED <<taskBinding, doneTasks, queue, cur, frame>>
  PROVE  UNCHANGED Abs!vars
BY DEF Abs!vars, absBinding

(* addTask binds.                                                          *)
LEMMA AddBindRefines ==
  ASSUME IInv, Next, NEW x \in Threads, AddBind(x)
  PROVE  [Abs!Next]_(Abs!vars)
<1> USE ConstantsAssumption DEF IInv, Threads
<1>1. /\ task[x] \in Tasks
      /\ frame[task[x]] # "free"
      /\ taskBinding[task[x]] = None
      /\ taskBinding' = [taskBinding EXCEPT ![task[x]] = currentQueue]
      /\ UNCHANGED <<queue, cur, frame, doneTasks>>
  BY DEF AddBind, Bound, CallInv, InAdd, AddPCs
<1>2. \A w \in Workers : doneTasks[w] = {}
  <2>1. sharedCnt[x] # 0
    BY DEF AddBind, LockInv, Owned, InAdd, AddPCs
  <2> QED
    BY <2>1, SharedExcludesClean
<1>3. AbsBindingIs /\ AbsBindingIs'
  BY AbsBindingNext
<1>4. \A t \in Tasks :
        absBinding[t] = IF taskBinding[t] = End THEN None ELSE taskBinding[t]
  BY <1>2, <1>3 DEF AbsBindingIs
<1>5. \A t \in Tasks :
        absBinding'[t] = IF taskBinding'[t] = End THEN None ELSE taskBinding'[t]
  BY <1>1, <1>2, <1>3 DEF AbsBindingIs
<1>6. /\ absBinding = [t \in Tasks |-> absBinding[t]]
      /\ absBinding' = [t \in Tasks |-> absBinding'[t]]
  BY <1>3 DEF AbsBindingIs
<1>7. CASE currentQueue = End
  <2>1. \A t \in Tasks : absBinding'[t] = absBinding[t]
    BY <1>1, <1>4, <1>5, <1>7 DEF TypeOK
  <2>2. absBinding' = absBinding
    BY <1>6, <2>1
  <2> QED
    BY <1>1, <2>2 DEF Abs!vars
<1>8. CASE currentQueue # End
  <2>1. currentQueue \in Workers
    BY <1>8 DEF TypeOK
  <2>2. \A t \in Tasks :
          absBinding'[t] = IF t = task[x] THEN currentQueue ELSE absBinding[t]
    BY <1>1, <1>4, <1>5, <1>8 DEF TypeOK
  <2>3. absBinding' = [absBinding EXCEPT ![task[x]] = currentQueue]
    BY <1>1, <1>6, <2>2
  <2>4. Abs!Bind(task[x], currentQueue)
    BY <1>1, <1>4, <2>3 DEF Abs!Bind
  <2> QED
    BY <1>1, <2>1, <2>4 DEF Abs!Next
<1> QED
  BY <1>7, <1>8

(* addTask pushes.                                                         *)
LEMMA AddPushRefines ==
  ASSUME IInv, Next, NEW x \in Threads, AddPush(x)
  PROVE  [Abs!Next]_(Abs!vars)
<1> USE ConstantsAssumption DEF IInv, Threads
<1>1. /\ task[x] \in Tasks
      /\ frame[task[x]] # "free"
      /\ taskBinding[task[x]] = targetQueue[x]
      /\ targetQueue[x] \in Workers
      /\ queue' = [queue EXCEPT ![targetQueue[x]] = Append(@, task[x])]
      /\ UNCHANGED <<cur, frame, taskBinding, doneTasks>>
  BY DEF AddPush, CallInv, InAdd, AddPCs, bindVars
<1>2. \A w \in Workers : doneTasks[w] = {}
  <2>1. sharedCnt[x] # 0
    BY DEF AddPush, LockInv, Owned, InAdd, AddPCs
  <2> QED
    BY <2>1, SharedExcludesClean
<1>3. absBinding[task[x]] = targetQueue[x]
  BY <1>1, <1>2, AbsBindingFacts DEF AbsBindingIs
<1>4. absBinding' = absBinding
  BY <1>1 DEF absBinding
<1>5. Abs!Push(task[x], targetQueue[x])
  BY <1>1, <1>3, <1>4 DEF Abs!Push
<1> QED
  BY <1>1, <1>5 DEF Abs!Next

(* runTasks takes the first handle of its queue.                           *)
LEMMA RunPopRefines ==
  ASSUME IInv, NEW w \in Workers, RunPop(w)
  PROVE  [Abs!Next]_(Abs!vars)
<1>1. /\ cur[w] = None
      /\ queue[w] # <<>>
  BY DEF IInv, HeldInv, Holding, InAdd, AddPCs, QueueInv, RunPop
<1>2. absBinding' = absBinding
  BY DEF absBinding, RunPop, bindVars
<1>3. Abs!Take(w)
  BY <1>1, <1>2 DEF Abs!Take, RunPop
<1> QED
  BY <1>3 DEF Abs!Next

(* A popped handle that is not done is suspended, and is resumed.          *)
LEMMA RunResumeRefines ==
  ASSUME IInv, NEW w \in Workers, RunResume(w)
  PROVE  [Abs!Next]_(Abs!vars)
<1> USE ConstantsAssumption DEF IInv
<1>1. Holding(w) /\ ~Executing(w)
  BY DEF RunResume, Holding, Executing, InAdd, AddPCs
<1>2. /\ cur[w] \in Tasks
      /\ cur[w] # None
      /\ taskBinding[cur[w]] = w
      /\ frame[cur[w]] # "free"
  BY <1>1 DEF HeldInv, TypeOK
<1>3. frame[cur[w]] # "running"
  <2> SUFFICES ASSUME frame[cur[w]] = "running" PROVE FALSE
    OBVIOUS
  <2>1. PICK v \in Workers : cur[v] = cur[w] /\ Executing(v)
    BY <1>2 DEF HeldInv
  <2>2. taskBinding[cur[v]] = v
    BY <2>1 DEF HeldInv, Executing, Holding
  <2> QED
    BY <1>1, <1>2, <2>1, <2>2
<1>4. frame[cur[w]] = "suspended"
  BY <1>2, <1>3 DEF RunResume, Done, TypeOK
<1>5. absBinding' = absBinding
  BY DEF absBinding, RunResume, bindVars
<1>6. Abs!Resume(w)
  BY <1>2, <1>4, <1>5 DEF Abs!Resume, RunResume
<1> QED
  BY <1>6 DEF Abs!Next

(* A worker lets go of a handle that is no longer running.                 *)
LEMMA RunEndRefines ==
  ASSUME IInv, NEW w \in Workers, RunEnd(w)
  PROVE  [Abs!Next]_(Abs!vars)
<1> USE ConstantsAssumption DEF IInv
<1>1. Holding(w) /\ ~Executing(w)
  BY DEF RunEnd, Holding, Executing, InAdd, AddPCs
<1>2. cur[w] \in Tasks /\ cur[w] # None /\ taskBinding[cur[w]] = w
  BY <1>1 DEF HeldInv, TypeOK
<1>3. frame[cur[w]] # "running"
  <2> SUFFICES ASSUME frame[cur[w]] = "running" PROVE FALSE
    OBVIOUS
  <2>1. PICK v \in Workers : cur[v] = cur[w] /\ Executing(v)
    BY <1>2 DEF HeldInv
  <2>2. taskBinding[cur[v]] = v
    BY <2>1 DEF HeldInv, Executing, Holding
  <2> QED
    BY <1>1, <1>2, <2>1, <2>2
<1>4. absBinding' = absBinding
  BY DEF absBinding, RunEnd, bindVars
<1>5. Abs!Release(w)
  BY <1>2, <1>3, <1>4 DEF Abs!Release, RunEnd
<1> QED
  BY <1>5 DEF Abs!Next

(* A coroutine gives the control back, finished or suspended; if its frame *)
(* was done already this is not a step of the abstract pool.               *)
LEMMA YieldRefines ==
  ASSUME IInv, NEW w \in Workers, pc[w] = "body",
         NEW s \in {"suspended", "done"},
         frame[cur[w]] = "done" => s = "done",
         frame' = [frame EXCEPT ![cur[w]] = s],
         UNCHANGED <<cur, taskBinding, doneTasks, queue>>
  PROVE  [Abs!Next]_(Abs!vars)
<1>1. cur[w] # None /\ frame[cur[w]] \in {"running", "done"}
  BY DEF IInv, HeldInv, Holding, Executing
<1>2. absBinding' = absBinding
  BY DEF absBinding
<1>3. CASE frame[cur[w]] = "running"
  <2>1. Abs!Yield(w, s)
    BY <1>1, <1>2, <1>3 DEF Abs!Yield
  <2>2. s \in Abs!FrameStates
    BY DEF Abs!FrameStates
  <2> QED
    BY <2>1, <2>2 DEF Abs!Next
<1>4. CASE frame[cur[w]] = "done"
  <2>1. frame' = frame
    BY <1>1, <1>4 DEF IInv, TypeOK
  <2> QED
    BY <2>1, Stutters
<1> QED
  BY <1>1, <1>3, <1>4

(* A coroutine reached by symmetric transfer ends.                         *)
LEMMA BodyCompleteRefines ==
  ASSUME IInv, NEW w \in Workers, NEW t \in Tasks, BodyComplete(w, t)
  PROVE  [Abs!Next]_(Abs!vars)
<1>1. absBinding' = absBinding
  BY DEF absBinding, BodyComplete, bindVars
<1>2. Abs!Complete(t)
  BY <1>1 DEF Abs!Complete, BodyComplete
<1> QED
  BY <1>2 DEF Abs!Next

(* Handing over a coroutine creates its frame if there was none.           *)
LEMMA CreateRefines ==
  ASSUME IInv, NEW t \in Tasks,
         frame' = [frame EXCEPT
                     ![t] = IF frame[t] = "free" THEN "suspended" ELSE frame[t]],
         UNCHANGED <<cur, taskBinding, doneTasks, queue>>
  PROVE  [Abs!Next]_(Abs!vars)
<1>1. absBinding' = absBinding
  BY DEF absBinding
<1>2. CASE frame[t] = "free"
  <2>1. Abs!Create(t)
    BY <1>1, <1>2 DEF Abs!Create
  <2> QED
    BY <2>1 DEF Abs!Next
<1>3. CASE frame[t] # "free"
  <2>1. frame' = frame
    BY <1>3 DEF IInv, TypeOK
  <2> QED
    BY <1>1, <2>1 DEF Abs!vars
<1> QED
  BY <1>2, <1>3

(* The cleaner's scan moves bindings to doneTasks, which absBinding joins. *)
LEMMA CleanScanRefines ==
  ASSUME IInv, Next, CleanScan
  PROVE  [Abs!Next]_(Abs!vars)
<1> USE ConstantsAssumption
<1>1. \A w \in Workers : doneTasks[w] = {}
  BY NothingSetAside DEF CleanScan
<1>2. AbsBindingIs /\ AbsBindingIs'
  BY AbsBindingNext
<1>3. ASSUME NEW t \in Tasks PROVE absBinding'[t] = absBinding[t]
  <2>1. absBinding[t] = IF taskBinding[t] = End THEN None ELSE taskBinding[t]
    BY <1>1, <1>2 DEF AbsBindingIs
  <2>2. CASE \E w \in Workers : t \in doneTasks'[w]
    <3>1. PICK w \in Workers : t \in doneTasks'[w]
      BY <2>2
    <3>2. absBinding'[t] = w
      BY <1>2, <3>1 DEF AbsBindingIs
    <3>3. taskBinding[t] = w
      BY <3>1 DEF CleanScan
    <3> QED
      BY <2>1, <3>2, <3>3 DEF Threads
  <2>3. CASE \A w \in Workers : t \notin doneTasks'[w]
    <3>1. absBinding'[t] = IF taskBinding'[t] = End THEN None ELSE taskBinding'[t]
      BY <1>2, <2>3 DEF AbsBindingIs
    <3>2. taskBinding[t] \in Workers => ~Done(t)
      BY <2>3 DEF CleanScan
    <3>3. taskBinding'[t] = IF Done(t) THEN None ELSE taskBinding[t]
      BY DEF CleanScan
    <3> QED
      BY <2>1, <3>1, <3>2, <3>3 DEF IInv, TypeOK
  <2> QED
    BY <2>2, <2>3
<1>4. absBinding' = absBinding
  BY <1>2, <1>3 DEF AbsBindingIs
<1> QED
  BY <1>4 DEF Abs!vars, CleanScan

(* Erasing an entry drops a handle that is done.                           *)
LEMMA CleanEraseRefines ==
  ASSUME IInv, CleanErase
  PROVE  [Abs!Next]_(Abs!vars)
<1> DEFINE w == targetQueue[Main]
<1>1. w \in Workers
  BY DEF IInv, CleanErase, CallInv
<1>2. PICK i \in Erasable(w) : queue' = [queue EXCEPT ![w] = EraseAt(queue[w], i)]
  BY DEF CleanErase
<1>3. i \in 1..Len(queue[w]) /\ frame[queue[w][i]] = "done"
  BY <1>1, <1>2 DEF Erasable, IInv, DoneInv
<1>4. absBinding' = absBinding
  BY DEF absBinding, CleanErase, bindVars
<1>5. UNCHANGED <<cur, frame>>
  BY DEF CleanErase
<1>6. Abs!Drop(w, i)
  BY <1>2, <1>3, <1>4, <1>5 DEF Abs!Drop, EraseAt
<1> QED
  BY <1>1, <1>3, <1>6 DEF Abs!Next

(* Destroying the frames of one queue collects them.                       *)
LEMMA CleanDestroyRefines ==
  ASSUME IInv, Next, CleanDestroy
  PROVE  [Abs!Next]_(Abs!vars)
<1> USE ConstantsAssumption DEF IInv
<1> DEFINE w == targetQueue[Main]
           D == doneTasks[w]
<1>1. w \in Workers
  BY DEF CleanDestroy, CallInv
<1>2. /\ Erasable(w) = {}
      /\ frame' = [t \in Tasks |-> IF t \in D THEN "free" ELSE frame[t]]
      /\ doneTasks' = [doneTasks EXCEPT ![w] = {}]
      /\ UNCHANGED <<queue, taskBinding, cur>>
  BY DEF CleanDestroy, bindVars
<1>3. AbsBindingIs /\ AbsBindingIs'
  BY AbsBindingNext
<1>4. D \in SUBSET Tasks
  BY <1>1 DEF TypeOK
<1>5. \A t \in D : absBinding[t] = w /\ frame[t] = "done" /\ taskBinding[t] = None
  BY <1>1, <1>3, <1>4 DEF AbsBindingIs, DoneInv
<1>6. \A v \in Workers : cur[v] = None
  <2>1. exclusive = Main
    BY DEF CleanDestroy, LockInv
  <2>2. \A v \in Workers : ~Holding(v)
    BY <2>1 DEF LockInv, Owned, Threads
  <2> QED
    BY <2>2 DEF HeldInv
<1>7. \A v \in Workers : cur[v] \notin D
  BY <1>4, <1>6
<1>8. \A v \in Workers : \A i \in 1..Len(queue[v]) : queue[v][i] \notin D
  <2>1. \A i \in 1..Len(queue[w]) : queue[w][i] \notin D
    BY <1>2 DEF Erasable
  <2>2. \A v \in Workers : \A i \in 1..Len(queue[v]) : queue[v][i] \in Tasks
    BY DEF TypeOK
  <2>3. ASSUME NEW v \in Workers, NEW i \in 1..Len(queue[v]),
               v # w, queue[v][i] \in D
        PROVE  FALSE
    <3>1. taskBinding[queue[v][i]] = None /\ queue[v][i] \notin doneTasks[v]
      BY <1>1, <1>5, <2>3 DEF DoneInv
    <3> QED
      BY <3>1 DEF QueueInv, QueueAffinity, Threads
  <2> QED
    BY <2>1, <2>3
<1>9. ASSUME NEW t \in Tasks
      PROVE  absBinding'[t] = IF t \in D THEN None ELSE absBinding[t]
  <2>1. CASE t \in D
    <3>1. \A v \in Workers : t \notin doneTasks'[v]
      BY <1>1, <1>2, <2>1 DEF DoneInv, TypeOK
    <3> QED
      BY <1>2, <1>3, <1>5, <2>1, <3>1 DEF AbsBindingIs
  <2>2. CASE t \notin D /\ \E v \in Workers : t \in doneTasks[v]
    <3>1. PICK v \in Workers : t \in doneTasks[v]
      BY <2>2
    <3>2. t \in doneTasks'[v]
      BY <1>2, <2>2, <3>1 DEF TypeOK
    <3> QED
      BY <1>3, <2>2, <3>1, <3>2 DEF AbsBindingIs
  <2>3. CASE \A v \in Workers : t \notin doneTasks[v]
    <3>1. \A v \in Workers : t \notin doneTasks'[v]
      BY <1>2, <2>3 DEF TypeOK
    <3> QED
      BY <1>1, <1>2, <1>3, <2>3, <3>1 DEF AbsBindingIs
  <2> QED
    BY <2>1, <2>2, <2>3
<1>10. absBinding' = [t \in Tasks |-> IF t \in D THEN None ELSE absBinding[t]]
  BY <1>3, <1>9 DEF AbsBindingIs
<1>11. Abs!Collect(w, D)
  BY <1>2, <1>5, <1>7, <1>8, <1>10 DEF Abs!Collect
<1> QED
  BY <1>1, <1>4, <1>11 DEF Abs!Next

(* Every step of the pool is a step of the abstract pool or stutters.      *)
LEMMA StepRefines == IInv /\ [Next]_vars => [Abs!Next]_(Abs!vars)
<1> SUFFICES ASSUME IInv, [Next]_vars PROVE [Abs!Next]_(Abs!vars)
  OBVIOUS
<1> USE DEF callVars, lockVars, bindVars
<1>1. CASE UNCHANGED vars
  BY <1>1, Stutters DEF vars
<1>2. CASE Next
  <2>1. ASSUME NEW x \in Threads, addTask(x) PROVE [Abs!Next]_(Abs!vars)
    <3>1. CASE AddBind(x)
      BY <1>2, <3>1, AddBindRefines
    <3>2. CASE AddPush(x)
      BY <1>2, <3>2, AddPushRefines
    <3>3. CASE \/ AddLockClean(x) \/ AddLockBinding(x) \/ AddFound(x)
               \/ AddDerefEnd(x) \/ AddLockQueue(x) \/ AddNotify(x)
      <4>1. UNCHANGED <<taskBinding, doneTasks, queue, cur, frame>>
        BY <3>3 DEF AddLockClean, AddLockBinding, AddFound, AddDerefEnd,
             AddLockQueue, AddNotify
      <4> QED
        BY <4>1, Stutters
    <3> QED
      BY <2>1, <3>1, <3>2, <3>3 DEF addTask
  <2>2. ASSUME NEW w \in Workers, runTasks(w) \/ SpuriousWake(w)
        PROVE  [Abs!Next]_(Abs!vars)
    <3>1. CASE RunPop(w)
      BY <3>1, RunPopRefines
    <3>2. CASE RunResume(w)
      BY <3>2, RunResumeRefines
    <3>3. CASE RunEnd(w)
      BY <3>3, RunEndRefines
    <3>4. CASE \/ RunLockClean(w) \/ RunEmpty(w) \/ RunLockQueue(w)
               \/ RunWaitAgain(w) \/ RunWake(w) \/ RunTryFail(w)
               \/ RunTryLock(w) \/ RunSkip(w) \/ SpuriousWake(w)
      <4>1. UNCHANGED <<taskBinding, doneTasks, queue, cur, frame>>
        BY <3>4 DEF RunLockClean, RunEmpty, RunLockQueue, RunWaitAgain, RunWake,
             RunTryFail, RunTryLock, RunSkip, SpuriousWake
      <4> QED
        BY <4>1, Stutters
    <3> QED
      BY <2>2, <3>1, <3>2, <3>3, <3>4 DEF runTasks
  <2>3. ASSUME NEW w \in Workers, Body(w) PROVE [Abs!Next]_(Abs!vars)
    <3>1. CASE BodyFinish(w)
      BY <3>1, YieldRefines DEF BodyFinish
    <3>2. CASE BodySuspend(w)
      <4>1. CASE frame[cur[w]] = "done"
        <5>1. frame' = [frame EXCEPT ![cur[w]] = "done"]
          BY <3>2, <4>1 DEF BodySuspend
        <5> QED
          BY <3>2, <4>1, <5>1, YieldRefines DEF BodySuspend
      <4>2. CASE frame[cur[w]] # "done"
        <5>1. frame' = [frame EXCEPT ![cur[w]] = "suspended"]
          BY <3>2, <4>2 DEF BodySuspend
        <5> QED
          BY <3>2, <4>2, <5>1, YieldRefines DEF BodySuspend
      <4> QED
        BY <4>1, <4>2
    <3>3. CASE BodySchedule(w)
      BY <3>3, YieldRefines DEF BodySchedule, Done
    <3>4. ASSUME NEW t \in Tasks, BodyComplete(w, t) PROVE [Abs!Next]_(Abs!vars)
      BY <3>4, BodyCompleteRefines
    <3>5. ASSUME NEW t \in Tasks, BodyAdd(w, t) PROVE [Abs!Next]_(Abs!vars)
      BY <3>5, CreateRefines DEF BodyAdd
    <3> QED
      BY <2>3, <3>1, <3>2, <3>3, <3>4, <3>5 DEF Body
  <2>4. ASSUME NEW t \in Tasks, MainAdd(t) PROVE [Abs!Next]_(Abs!vars)
    <3>1. frame' = [frame EXCEPT
                      ![t] = IF frame[t] = "free" THEN "suspended" ELSE frame[t]]
      BY <2>4 DEF MainAdd
    <3> QED
      BY <2>4, <3>1, CreateRefines DEF MainAdd
  <2>5. CASE cleanTasks
    <3>1. CASE CleanScan
      BY <1>2, <3>1, CleanScanRefines
    <3>2. CASE CleanErase
      BY <3>2, CleanEraseRefines
    <3>3. CASE CleanDestroy
      BY <1>2, <3>3, CleanDestroyRefines
    <3>4. CASE \/ CleanLock \/ CleanSkip \/ CleanUnlock \/ CleanSleep
               \/ \E w \in Workers : CleanLockQueue(w)
      <4>1. UNCHANGED <<taskBinding, doneTasks, queue, cur, frame>>
        BY <3>4 DEF CleanLock, CleanSkip, CleanUnlock, CleanSleep, CleanLockQueue
      <4> QED
        BY <4>1, Stutters
    <3> QED
      BY <2>5, <3>1, <3>2, <3>3, <3>4 DEF cleanTasks
  <2>6. CASE \/ Construct \/ Enter
             \/ \E w \in Workers : Register(w) \/ PassLatch(w)
    <3>1. UNCHANGED <<taskBinding, doneTasks, queue, cur, frame>>
      BY <2>6 DEF Construct, Enter, Register, PassLatch
    <3> QED
      BY <3>1, Stutters
  <2> QED
    BY <1>2, <2>1, <2>2, <2>3, <2>4, <2>5, <2>6
       DEF Next, WorkerStep, MainStep, Threads
<1> QED
  BY <1>1, <1>2

(* The pool of Loop.hpp keeps what PoolSpec promises: a handle is bound    *)
(* to one worker until its frame is freed, waits only there, is resumed    *)
(* only by it, and its frame is freed only when nothing refers to it.      *)
THEOREM Refinement == Spec => ImplementsPoolSpec
<1>1. Init => Abs!Init
  <2> SUFFICES ASSUME Init PROVE Abs!Init
    OBVIOUS
  <2>1. absBinding = [t \in Tasks |-> None]
    BY ConstantsAssumption DEF Init, absBinding
  <2> QED
    BY <2>1 DEF Init, Abs!Init
<1> QED
  BY <1>1, StepRefines, Invariance, PTL DEF Spec, Abs!Spec, ImplementsPoolSpec
=============================================================================

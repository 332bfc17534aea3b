---------------------------- MODULE UringServer -----------------------------
(***************************************************************************)
(* The io_uring HTTP server of demo/uringhttp.cpp with the task framework  *)
(* (include/async/Tasks.hpp), the ring (include/async/Uring.hpp) and its   *)
(* awaiters (include/uring/Socket.hpp).                                    *)
(*                                                                         *)
(* Five kinds of coroutine run here: reapIOs, asyncAccept, and for each    *)
(* connection clientHandle, one readRequest per request and one            *)
(* responseHandler per response.  A step takes a coroutine from one        *)
(* operation that others can see (addTask, a submission, its end) to the   *)
(* next.  Messages are abstracted to what the control flow looks at.       *)
(*                                                                         *)
(* Of the thread pool the model uses what PoolSpec promises: a handle is   *)
(* bound to one worker and runs from its queue only, and only a frame that *)
(* is done, unqueued and unheld is freed.                                  *)
(***************************************************************************)
EXTENDS Integers, Sequences, FiniteSets

CONSTANTS
  Workers,     \* the pool's threads
  Frames,      \* addresses for the frames of the connections' coroutines
  Reaper,      \* the frame of reapIOs
  Acceptor,    \* the frame of asyncAccept
  Conns,       \* connections that peers may open
  None,
  SqSize,      \* entries of the submission queue (MAX_ENTRIES, 1024)
  MaxReqs,     \* bound: requests of one peer
  BodyLen,     \* length of the file that follows the header of a response
  ShortSends,  \* whether the kernel may send less than it was given
  AcceptEnds   \* bound: whether a multishot accept may end

Loops == {Reaper, Acceptor}
Tasks == Frames \cup Loops

ASSUME ConstantsAssumption ==
  /\ IsFiniteSet(Tasks) /\ IsFiniteSet(Workers)
  /\ Workers # {}
  /\ Reaper # Acceptor
  /\ Frames \cap Loops = {}
  /\ None \notin Tasks \cup Workers \cup Conns
  /\ SqSize \in Nat \ {0}
  /\ MaxReqs \in Nat
  /\ BodyLen \in Nat
  /\ ShortSends \in BOOLEAN /\ AcceptEnds \in BOOLEAN

VARIABLES
  binding,  \* pool: handle -> worker, or None
  queue,    \* pool: handles waiting at each worker
  holder,   \* pool: the handle whose resume() each worker is in
  frame,    \* state of each frame: free, live or done
  exec,     \* the coroutine that executes on each worker
  code,     \* what is in each frame
  sq,       \* operations submitted and not yet taken by the kernel
  ops,      \* operations the kernel works on
  cq,       \* completions not yet seen, in order
  peer      \* each connection: its socket, what its peer has sent

poolVars == <<binding, queue, holder>>
kernelVars == <<sq, ops, cq, peer>>
vars == <<poolVars, frame, exec, code, kernelVars>>

(* What a frame holds: the kind of coroutine and its place in the code,    *)
(* its connection, the coroutine that awaits it (prevCoro), the result in  *)
(* its awaiter or promise (res and, for a send, n); in responseHandler the *)
(* part being sent, whether a body follows, and as history the units sent  *)
(* in order and whether some unit was sent again.                          *)
Blank == [kind |-> "none", at |-> "none", conn |-> None, prev |-> None,
          res |-> "none", n |-> 0, part |-> "head", body |-> FALSE,
          sent |-> 0, again |-> FALSE]

Coroutine(kind, at, conn, prev) ==
  [Blank EXCEPT !.kind = kind, !.at = at, !.conn = conn, !.prev = prev]

(* The units of a response: one for the header, BodyLen for the file.      *)
PartLen(p) == IF p = "head" THEN 1 ELSE BodyLen
PartStart(p) == IF p = "head" THEN 0 ELSE 1

(* main: the two loops are created, detached and added.                    *)
Init ==
  /\ binding \in [Tasks -> Workers \cup {None}]
  /\ \A t \in Tasks : binding[t] = None <=> t \in Frames
  /\ queue \in [Workers -> {<<>>, <<Reaper>>, <<Acceptor>>, <<Reaper, Acceptor>>}]
  /\ \A w \in Workers, t \in Loops :
       binding[t] = w <=> \E i \in 1..Len(queue[w]) : queue[w][i] = t
  /\ holder = [w \in Workers |-> None]
  /\ frame = [t \in Tasks |-> IF t \in Frames THEN "free" ELSE "live"]
  /\ exec = [w \in Workers |-> None]
  /\ code = [t \in Tasks |->
               CASE t = Reaper -> Coroutine("reap", "peek", None, None)
                 [] t = Acceptor -> Coroutine("accept", "submit", None, None)
                 [] OTHER -> Blank]
  /\ sq = <<>>
  /\ ops = {}
  /\ cq = <<>>
  /\ peer = [c \in Conns |-> [sock |-> "none", reqs |-> 0, begun |-> FALSE]]

-----------------------------------------------------------------------------
(* No exception has ended the process.  Every step requires this.          *)
Running == code[Acceptor].at # "thrown"

(* The frames that share the socket of c: clientHandle, whose local        *)
(* variable goes when it returns, and the responseHandlers, whose parameter*)
(* lives as long as the frame.                                             *)
OwnersClient(c) ==
  {t \in Frames : code[t].conn = c /\ code[t].kind = "client" /\ frame[t] = "live"}
Owners(c) ==
  {t \in Frames : /\ code[t].conn = c
                  /\ \/ code[t].kind = "client" /\ frame[t] = "live"
                     \/ code[t].kind = "respond" /\ frame[t] # "free"}

(* A faulty Disown: nobody closes the socket.                              *)
DisownOnly(t) == UNCHANGED peer

(* t gives up its share; ~socketBase closes with the last one.             *)
Disown(t) ==
  peer' = [c \in Conns |->
             IF Owners(c) = {t} THEN [peer[c] EXCEPT !.sock = "closed"] ELSE peer[c]]

-----------------------------------------------------------------------------
(* The pool.                                                               *)

(* Pop a handle and resume it unless it is done.                           *)
RunTask(w) ==
  /\ Running
  /\ holder[w] = None
  /\ queue[w] # <<>>
  /\ holder' = [holder EXCEPT ![w] = Head(queue[w])]
  /\ exec' = [exec EXCEPT ![w] = IF frame[Head(queue[w])] = "done" THEN None
                                 ELSE Head(queue[w])]
  /\ queue' = [queue EXCEPT ![w] = Tail(@)]
  /\ UNCHANGED <<binding, frame, code, kernelVars>>

(* Nothing executes on this worker any more: resume() returns.             *)
ReturnTask(w) ==
  /\ Running
  /\ holder[w] # None
  /\ exec[w] = None
  /\ holder' = [holder EXCEPT ![w] = None]
  /\ UNCHANGED <<binding, queue, frame, exec, code, kernelVars>>

(* addTask: a new handle is bound to some worker, a known one goes to its  *)
(* own.                                                                    *)
addTaskUnbound(t) ==
  /\ UNCHANGED binding
  /\ \E v \in Workers : queue' = [queue EXCEPT ![v] = Append(@, t)]

addTask(t) ==
  \E v \in Workers :
    /\ binding[t] \in {None, v}
    /\ binding' = [binding EXCEPT ![t] = v]
    /\ queue' = [queue EXCEPT ![v] = Append(@, t)]

(* The cleaner knows the frames that are bound.                            *)
CleanTask(t) ==
  /\ Running
  /\ frame[t] = "done"
  /\ binding[t] # None
  /\ \A w \in Workers :
       /\ holder[w] # t
       /\ \A i \in 1..Len(queue[w]) : queue[w][i] # t
  /\ frame' = [frame EXCEPT ![t] = "free"]
  /\ binding' = [binding EXCEPT ![t] = None]
  /\ code' = [code EXCEPT ![t] = Blank]
  /\ Disown(t)
  /\ UNCHANGED <<queue, holder, exec, sq, ops, cq>>

-----------------------------------------------------------------------------
(* Steps of coroutines.                                                    *)

(* The coroutine t of this kind, at this place, executes on worker w.      *)
At(w, t, kind, at) ==
  /\ Running
  /\ exec[w] = t
  /\ code[t].kind = kind
  /\ code[t].at = at

(* Where control goes when t has ended: to the coroutine that awaits it,   *)
(* or back to the pool if it is detached.                                  *)
ReturnToPool(t) == IF t \in Tasks THEN None ELSE code[t].prev
ReturnPrev(t) == code[t].prev

(* A frame for a new coroutine, which is suspended from the start.  Which  *)
(* of the free addresses the allocator returns makes no difference.        *)
FreeFrames == {f \in Frames : frame[f] = "free"}
NewFrame == CHOOSE f \in FreeFrames : TRUE

Create ==
  /\ FreeFrames # {}
  /\ frame' = [frame EXCEPT ![NewFrame] = "live"]

(* io_uring_get_sqe finds an entry that is free.                           *)
RoomForOneMore == Len(sq) <= SqSize
Room == Len(sq) < SqSize

(* The operation that t submits.                                           *)
Operation(t) ==
  [by |-> t, kind |-> code[t].kind, conn |-> code[t].conn, len |-> PartLen(code[t].part)]

SubmitAndGoOn(w, t) ==
  /\ Running
  /\ exec[w] = t
  /\ code[t].at = "submit"
  /\ Room
  /\ sq' = Append(sq, Operation(t))
  /\ code' = [code EXCEPT ![t].at = "wait", ![t].res = "none", ![t].n = 0]
  /\ UNCHANGED <<poolVars, frame, exec, ops, cq, peer>>

(* await_suspend of the awaiters: fill in an entry and submit it.  From    *)
(* here on the coroutine may be resumed elsewhere, although this worker    *)
(* has not returned from it.                                               *)
Submit(w, t) ==
  /\ Running
  /\ exec[w] = t
  /\ code[t].at = "submit"
  /\ Room
  /\ sq' = Append(sq, Operation(t))
  /\ code' = [code EXCEPT ![t].at = "wait", ![t].res = "none", ![t].n = 0]
  /\ exec' = [exec EXCEPT ![w] = None]
  /\ UNCHANGED <<poolVars, frame, ops, cq, peer>>

(* sqeBusy: readRequest and responseHandler go through the scheduler and   *)
(* try again; asyncAccept tries again at once, so it has no step here.     *)
SubmitBusy(w, t) ==
  /\ Running
  /\ exec[w] = t
  /\ code[t].at = "submit"
  /\ code[t].kind \in {"read", "respond"}
  /\ ~Room
  /\ exec' = [exec EXCEPT ![w] = None]
  /\ addTask(t)
  /\ UNCHANGED <<holder, frame, code, kernelVars>>

(* asyncAccept, after the last completion of a multishot accept: again,    *)
(* or an exception that nobody catches, which ends the process.            *)
AcceptAgain(w, t) ==
  /\ At(w, t, "accept", "wait")
  /\ code' = [code EXCEPT ![t].at = IF code[t].res = "fatal" THEN "thrown" ELSE "submit"]
  /\ UNCHANGED <<poolVars, frame, exec, kernelVars>>

(* clientHandle calls readRequest and transfers to it.                     *)
ClientRead(w, t) ==
  /\ At(w, t, "client", "read")
  /\ Create
  /\ code' = [code EXCEPT ![NewFrame] = Coroutine("read", "submit", code[t].conn, t),
                          ![t].at = "await"]
  /\ exec' = [exec EXCEPT ![w] = NewFrame]
  /\ UNCHANGED <<poolVars, kernelVars>>

(* readRequest: what it does with the result of a recv.                    *)
ReadMore(w, t) ==
  /\ At(w, t, "read", "wait")
  /\ code[t].res = "part"
  /\ code' = [code EXCEPT ![t].at = "submit"]
  /\ UNCHANGED <<poolVars, frame, exec, kernelVars>>

Outcome(res) ==
  CASE res = "full" -> "ok"
    [] res = "big" -> "bad"
    [] res = "eof" -> "closed"
    [] OTHER -> "error"

ReadEnd(w, t) ==
  /\ At(w, t, "read", "wait")
  /\ code[t].res # "part"
  /\ frame' = [frame EXCEPT ![t] = "done"]
  /\ exec' = [exec EXCEPT ![w] = ReturnPrev(t)]
  /\ code' = [code EXCEPT ![code[t].prev].at = "got",
                          ![code[t].prev].res = Outcome(code[t].res)]
  /\ UNCHANGED <<poolVars, kernelVars>>

(* clientHandle starts a responseHandler, also for a bad request and after *)
(* the peer has closed.  A file follows if the request was good and asks   *)
(* for one that exists; close: the request has "Connection:Close".         *)
ClientRespond(w, t, body, close) ==
  /\ At(w, t, "client", "got")
  /\ code[t].res # "error"
  /\ body \/ close => code[t].res = "ok"
  /\ Create
  /\ code' = [code EXCEPT
       ![NewFrame] = [Coroutine("respond", "submit", code[t].conn, None)
                         EXCEPT !.body = body],
       ![t].at = IF close \/ code[t].res = "closed" THEN "end" ELSE "read"]
  /\ addTask(NewFrame)
  /\ UNCHANGED <<holder, exec, kernelVars>>

ClientEnd(w, t) ==
  /\ \/ At(w, t, "client", "end")
     \/ At(w, t, "client", "got") /\ code[t].res = "error"
  /\ frame' = [frame EXCEPT ![t] = "done"]
  /\ exec' = [exec EXCEPT ![w] = ReturnPrev(t)]
  /\ Disown(t)
  /\ UNCHANGED <<poolVars, code, sq, ops, cq>>

(* responseHandler: the test that ends each of its two loops.              *)
MoreThanSent(t) == code[t].n > PartLen(code[t].part)
AllSent(t) == code[t].n = PartLen(code[t].part)

(* History: n units from the start of the part have been sent.             *)
Record(t) ==
  LET start == PartStart(code[t].part) IN
  [code[t] EXCEPT !.sent = start + code[t].n,
                  !.again = @ \/ code[t].sent # start]

(* EAGAIN and ENODATA: through the scheduler and again.                    *)
SendRetry(w, t) ==
  /\ At(w, t, "respond", "wait")
  /\ code[t].res = "again"
  /\ code' = [code EXCEPT ![t].at = "submit"]
  /\ exec' = [exec EXCEPT ![w] = None]
  /\ addTask(t)
  /\ UNCHANGED <<holder, frame, kernelVars>>

(* A short send: the loop starts again, with the whole part.               *)
SendRest(w, t) ==
  /\ At(w, t, "respond", "wait")
  /\ code[t].res = "ok"
  /\ ~AllSent(t)
  /\ code' = [code EXCEPT ![t] = [Record(t) EXCEPT !.at = "submit"]]
  /\ UNCHANGED <<poolVars, frame, exec, kernelVars>>

(* The header is out and the file follows.                                 *)
SendBody(w, t) ==
  /\ At(w, t, "respond", "wait")
  /\ code[t].res = "ok"
  /\ AllSent(t)
  /\ code[t].part = "head"
  /\ code[t].body
  /\ code' = [code EXCEPT ![t] = [Record(t) EXCEPT !.at = "submit", !.part = "body"]]
  /\ UNCHANGED <<poolVars, frame, exec, kernelVars>>

ResponseEnd(w, t) ==
  /\ At(w, t, "respond", "wait")
  /\ \/ code[t].res = "fail"
     \/ code[t].res = "ok" /\ AllSent(t) /\ (code[t].part = "head" => ~code[t].body)
  /\ code' = [code EXCEPT ![t] = IF @.res = "ok" THEN Record(t) ELSE @]
  /\ frame' = [frame EXCEPT ![t] = "done"]
  /\ exec' = [exec EXCEPT ![w] = ReturnPrev(t)]
  /\ UNCHANGED <<poolVars, kernelVars>>

-----------------------------------------------------------------------------
(* reapIOs.                                                                *)

(* No completion: through the scheduler.  (On a ring that is set up, peek  *)
(* reports no other error.)                                                *)
ReapNone(w) ==
  /\ At(w, Reaper, "reap", "peek")
  /\ cq = <<>>
  /\ exec' = [exec EXCEPT ![w] = None]
  /\ addTask(Reaper)
  /\ UNCHANGED <<holder, frame, code, kernelVars>>

(* The result is stored where the caller waits, then the caller is added.  *)
(* cqe_seen follows; it frees an entry that only reapIOs looks at, so it   *)
(* is part of the step.                                                    *)
ReapOne(w) ==
  /\ At(w, Reaper, "reap", "peek")
  /\ cq # <<>>
  /\ LET e == Head(cq) IN
       /\ e.kind # "accept"
       /\ code' = [code EXCEPT ![e.by].res = e.res, ![e.by].n = e.n]
       /\ addTask(e.by)
  /\ cq' = Tail(cq)
  /\ UNCHANGED <<holder, frame, exec, sq, ops, peer>>

(* cqe->res >= 0.                                                          *)
Accepted(e) == e.conn # None

(* A multishot accept: each connection gets a clientHandle ...             *)
ReapConn(w) ==
  /\ At(w, Reaper, "reap", "peek")
  /\ cq # <<>>
  /\ LET e == Head(cq) IN
       /\ e.kind = "accept"
       /\ Accepted(e)
       /\ Create
       /\ code' = [code EXCEPT ![e.by].res = e.res, ![Reaper].at = "more",
                               ![NewFrame] = Coroutine("client", "read", e.conn, None)]
       /\ addTask(NewFrame)
  /\ UNCHANGED <<holder, exec, kernelVars>>

ReapConnFails(w) ==
  /\ At(w, Reaper, "reap", "peek")
  /\ cq # <<>>
  /\ LET e == Head(cq) IN
       /\ e.kind = "accept"
       /\ ~Accepted(e)
       /\ code' = [code EXCEPT ![e.by].res = e.res, ![Reaper].at = "more"]
  /\ UNCHANGED <<poolVars, frame, exec, kernelVars>>

(* No IORING_CQE_F_MORE.                                                   *)
LastAlways(e) == e.more \in BOOLEAN
LastIfAccepted(e) == ~e.more /\ Accepted(e)
Last(e) == ~e.more

(* ... and the last completion resumes asyncAccept.                        *)
ReapMore(w) ==
  /\ At(w, Reaper, "reap", "more")
  /\ IF Last(Head(cq)) THEN addTask(Head(cq).by) ELSE UNCHANGED <<binding, queue>>
  /\ code' = [code EXCEPT ![Reaper].at = "peek"]
  /\ cq' = Tail(cq)
  /\ UNCHANGED <<holder, frame, exec, sq, ops, peer>>

reapIOs(w) ==
  \/ ReapNone(w) \/ ReapOne(w) \/ ReapConn(w)
  \/ ReapConnFails(w) \/ ReapMore(w)

-----------------------------------------------------------------------------
(* The kernel, as the code uses it: it takes submissions in order, and     *)
(* completes an operation with one entry, a multishot accept with several. *)

KernelTake ==
  /\ Running
  /\ sq # <<>>
  /\ sq' = Tail(sq)
  /\ ops' = ops \cup {Head(sq)}
  /\ UNCHANGED <<poolVars, frame, exec, code, cq, peer>>

Completion(o, res, n, conn, more) ==
  [by |-> o.by, kind |-> o.kind, res |-> res, n |-> n, conn |-> conn, more |-> more]

Post(o, e) ==
  /\ Running
  /\ cq' = Append(cq, e)
  /\ ops' = IF e.more THEN ops ELSE ops \ {o}
  /\ UNCHANGED <<poolVars, frame, exec, code, sq>>

KernelAccept(o, c, more) ==
  /\ o.kind = "accept"
  /\ more \/ AcceptEnds
  /\ peer[c].sock = "none"
  /\ peer' = [peer EXCEPT ![c].sock = "open"]
  /\ Post(o, Completion(o, "ok", 0, c, more))

KernelAcceptFails(o, res) ==
  /\ o.kind = "accept"
  /\ AcceptEnds
  /\ Post(o, Completion(o, res, 0, None, FALSE))
  /\ UNCHANGED peer

(* What recv brings: a part of a request (bound: one before its end); its  *)
(* end; more than 4096 bytes without an end; end of file or a reset;       *)
(* another error.                                                          *)
KernelRecv(o, res) ==
  /\ o.kind = "read"
  /\ \/ /\ res = "part"
        /\ peer[o.conn].reqs < MaxReqs
        /\ ~peer[o.conn].begun
        /\ peer' = [peer EXCEPT ![o.conn].begun = TRUE]
     \/ /\ res = "full" \/ (res = "big" /\ peer[o.conn].begun)
        /\ peer[o.conn].reqs < MaxReqs
        /\ peer' = [peer EXCEPT ![o.conn].reqs = @ + 1, ![o.conn].begun = FALSE]
     \/ /\ res \in {"eof", "fail"}
        /\ UNCHANGED peer
  /\ Post(o, Completion(o, res, 0, None, FALSE))

KernelSend(o, n) ==
  /\ o.kind = "respond"
  /\ n = o.len \/ (ShortSends /\ n > 0)
  /\ Post(o, Completion(o, "ok", n, None, FALSE))
  /\ UNCHANGED peer

KernelSendFails(o, res) ==
  /\ o.kind = "respond"
  /\ Post(o, Completion(o, res, 0, None, FALSE))
  /\ UNCHANGED peer

-----------------------------------------------------------------------------
PoolStep(w) == RunTask(w) \/ ReturnTask(w)

CoroutineStep(w, t) ==
  \/ SubmitBusy(w, t) \/ AcceptAgain(w, t)
  \/ ClientRead(w, t) \/ ReadMore(w, t) \/ ReadEnd(w, t)
  \/ (\E body, close \in BOOLEAN : ClientRespond(w, t, body, close))
  \/ ClientEnd(w, t)
  \/ SendRetry(w, t) \/ SendRest(w, t) \/ SendBody(w, t) \/ ResponseEnd(w, t)

WorkerStep(w) == PoolStep(w) \/ reapIOs(w) \/ \E t \in Tasks : CoroutineStep(w, t)

KernelStep ==
  \/ KernelTake
  \/ \E o \in ops :
       \/ \E c \in Conns, more \in BOOLEAN : KernelAccept(o, c, more)
       \/ \E res \in {"retry", "fatal"} : KernelAcceptFails(o, res)
       \/ \E res \in {"part", "full", "big", "eof", "fail"} : KernelRecv(o, res)
       \/ \E n \in 0..o.len : KernelSend(o, n)
       \/ \E res \in {"again", "fail"} : KernelSendFails(o, res)

Terminated == ~Running /\ UNCHANGED vars

Next ==
  \/ \E w \in Workers : WorkerStep(w) \/ \E t \in Tasks : Submit(w, t)
  \/ \E t \in Tasks : CleanTask(t)
  \/ KernelStep
  \/ Terminated

Spec == Init /\ [][Next]_vars

(* Workers keep running; an entry of the submission queue that is free     *)
(* again and again is got some time, by asyncAccept and by the others; the *)
(* kernel takes what is submitted; and of sends that are tried again and   *)
(* again (EAGAIN) some succeed.                                            *)
Fairness ==
  /\ \A w \in Workers : WF_vars(WorkerStep(w))
  /\ SF_vars(\E w \in Workers : Submit(w, Acceptor))
  /\ SF_vars(\E w \in Workers, t \in Frames : Submit(w, t))
  /\ WF_vars(KernelTake)
  /\ SF_vars(\E o \in ops : KernelSend(o, o.len))

FairSpec == Spec /\ Fairness

-----------------------------------------------------------------------------
(* Properties.                                                             *)

OpRecords ==
  [by : Tasks, kind : {"read", "respond", "accept"}, conn : Conns \cup {None}, len : Nat]

CodeRecords ==
  [kind : {"none", "reap", "accept", "client", "read", "respond"},
   at : {"none", "peek", "more", "submit", "wait", "read", "await", "got",
         "end", "thrown"},
   conn : Conns \cup {None}, prev : Tasks \cup {None},
   res : {"none", "ok", "bad", "closed", "error", "part", "full", "big", "eof",
          "fail", "again", "retry", "fatal"},
   n : Nat, part : {"head", "body"}, body : BOOLEAN, sent : Nat, again : BOOLEAN]

(* Type invariant; the ring holds at most SqSize submissions.              *)
TypeOK ==
  /\ binding \in [Tasks -> Workers \cup {None}]
  /\ queue \in [Workers -> Seq(Tasks)]
  /\ holder \in [Workers -> Tasks \cup {None}]
  /\ frame \in [Tasks -> {"free", "live", "done"}]
  /\ exec \in [Workers -> Tasks \cup {None}]
  /\ code \in [Tasks -> CodeRecords]
  /\ sq \in Seq(OpRecords) /\ Len(sq) <= SqSize
  /\ ops \subseteq OpRecords
  /\ \A i \in 1..Len(cq) : cq[i].by \in Tasks
  /\ \A c \in Conns : peer[c].sock \in {"none", "open", "closed"}

(* The operations submitted and not completed.                             *)
Pending == ops \cup {sq[i] : i \in 1..Len(sq)}

(* Everything that will resume t, or is running it.                        *)
Wakers(t) ==
  {<<"op", o>> : o \in {o \in Pending : o.by = t}}
    \cup {<<"cqe", i>> : i \in {i \in 1..Len(cq) : cq[i].by = t /\ ~cq[i].more}}
    \cup (UNION {{<<"queue", w, i>> : i \in {i \in 1..Len(queue[w]) : queue[w][i] = t}} :
                   w \in Workers})
    \cup {<<"exec", w>> : w \in {w \in Workers : exec[w] = t}}
    \cup {<<"callee", r>> : r \in {r \in Tasks : frame[r] = "live" /\ code[r].prev = t}}

(* A coroutine that has not ended is always about to be resumed by exactly *)
(* one party - the kernel, a completion, addTask, a queue, a callee - or   *)
(* is running, once: it is neither lost nor resumed twice, although a      *)
(* completion may overtake the return from await_suspend.                  *)
ResumedOnce ==
  \A t \in Tasks : Cardinality(Wakers(t)) = IF frame[t] = "live" THEN 1 ELSE 0

(* userData lies in the frame of the waiting coroutine: as long as the     *)
(* kernel or an unreaped completion points to it, the coroutine is         *)
(* suspended at that very co_await.                                        *)
CallerWaits ==
  \A t \in {o.by : o \in Pending} \cup {cq[i].by : i \in 1..Len(cq)} :
    /\ frame[t] = "live"
    /\ code[t].at = "wait"
    /\ \A w \in Workers : exec[w] # t

(* The kernel works on descriptors that are open: no clientHandle and no   *)
(* cleaner has closed the socket under an operation of another coroutine.  *)
OpsOnOpenSocket ==
  \A o \in Pending : o.conn # None => peer[o.conn].sock = "open"

(* Every accepted connection has an owner that will close it, or waits in  *)
(* the ring to be given one.                                               *)
SocketOwned ==
  \A c \in Conns : peer[c].sock = "open" =>
    \/ Owners(c) # {}
    \/ \E i \in 1..Len(cq) : cq[i].conn = c

(* ~Task destroys nothing: a coroutine that has ended is known to the      *)
(* pool, whose cleaner will destroy its frame, also when it was started by *)
(* co_await and not by addTask.                                            *)
EndedIsBound == \A t \in Tasks : frame[t] = "done" => binding[t] # None

(* "Content-Length" is file->size() (uringhttp.cpp:45): a response sends   *)
(* each of its units once.                                                 *)
ResponseWhole == \A t \in Frames : ~code[t].again

(* Every responseHandler ends: each of its sends is completed, and its     *)
(* loops over EAGAIN and sqeBusy come to an end.                           *)
ResponseEnds ==
  \A t \in Frames :
    (frame[t] = "live" /\ code[t].kind = "respond") ~> (frame[t] = "done" \/ ~Running)

(* The server never stops accepting: however often a multishot accept      *)
(* ends, with a connection or without, the next one is armed.              *)
AcceptRearmed == []<>(~Running \/ \E o \in ops : o.kind = "accept")

(* "when the operation is done, the coroutine will be add to scheduler and *)
(* resume when it's turn" (uring/Socket.hpp:6-7): a coroutine that         *)
(* addTask has put in a queue is resumed.                                  *)
ResumesInTurn ==
  \A w \in Workers, t \in Frames :
    (\E i \in 1..Len(queue[w]) : queue[w][i] = t) ~> (holder[w] = t \/ ~Running)
=============================================================================

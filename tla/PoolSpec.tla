------------------------------ MODULE PoolSpec ------------------------------
(***************************************************************************)
(* What the thread pool promises to the coroutines it runs, without locks: *)
(* a handle is bound to one worker, waits only in that worker's queue, is  *)
(* held by at most that worker, and its frame is freed only when it is     *)
(* done, is nowhere queued and is held by nobody.                          *)
(***************************************************************************)
EXTENDS Integers, Sequences

CONSTANTS Workers, Tasks, None

VARIABLES
  binding,  \* handle -> worker, or None
  queue,    \* handles waiting at each worker
  holder,   \* the handle each worker is dealing with, or None
  frame     \* state of the coroutine frame at each address

vars == <<binding, queue, holder, frame>>

FrameStates == {"free", "suspended", "running", "done"}

Init ==
  /\ binding = [t \in Tasks |-> None]
  /\ queue = [w \in Workers |-> <<>>]
  /\ holder = [w \in Workers |-> None]
  /\ frame = [t \in Tasks |-> "free"]

Create(t) ==
  /\ frame[t] = "free"
  /\ frame' = [frame EXCEPT ![t] = "suspended"]
  /\ UNCHANGED <<binding, queue, holder>>

Bind(t, w) ==
  /\ frame[t] # "free"
  /\ binding[t] = None
  /\ binding' = [binding EXCEPT ![t] = w]
  /\ UNCHANGED <<queue, holder, frame>>

Push(t, w) ==
  /\ frame[t] # "free"
  /\ binding[t] = w
  /\ queue' = [queue EXCEPT ![w] = Append(@, t)]
  /\ UNCHANGED <<binding, holder, frame>>

Take(w) ==
  /\ holder[w] = None
  /\ queue[w] # <<>>
  /\ holder' = [holder EXCEPT ![w] = Head(queue[w])]
  /\ queue' = [queue EXCEPT ![w] = Tail(@)]
  /\ UNCHANGED <<binding, frame>>

Resume(w) ==
  /\ holder[w] # None
  /\ frame[holder[w]] = "suspended"
  /\ frame' = [frame EXCEPT ![holder[w]] = "running"]
  /\ UNCHANGED <<binding, queue, holder>>

Yield(w, s) ==
  /\ holder[w] # None
  /\ frame[holder[w]] = "running"
  /\ s \in {"suspended", "done"}
  /\ frame' = [frame EXCEPT ![holder[w]] = s]
  /\ UNCHANGED <<binding, queue, holder>>

(* A coroutine may also end without being taken from a queue, when one it  *)
(* awaits returns to it.                                                   *)
Complete(t) ==
  /\ frame[t] \in {"suspended", "running"}
  /\ frame' = [frame EXCEPT ![t] = "done"]
  /\ UNCHANGED <<binding, queue, holder>>

Release(w) ==
  /\ holder[w] # None
  /\ frame[holder[w]] # "running"
  /\ holder' = [holder EXCEPT ![w] = None]
  /\ UNCHANGED <<binding, queue, frame>>

(* An entry of a frame that is done may be dropped.                        *)
Drop(w, i) ==
  /\ frame[queue[w][i]] = "done"
  /\ queue' = [queue EXCEPT ![w] =
                 [j \in 1..(Len(@) - 1) |-> IF j < i THEN @[j] ELSE @[j + 1]]]
  /\ UNCHANGED <<binding, holder, frame>>

(* Frames of one queue that are done, unqueued and unheld are freed.       *)
Collect(w, D) ==
  /\ \A t \in D : binding[t] = w /\ frame[t] = "done"
  /\ \A v \in Workers : holder[v] \notin D
  /\ \A v \in Workers : \A i \in 1..Len(queue[v]) : queue[v][i] \notin D
  /\ binding' = [t \in Tasks |-> IF t \in D THEN None ELSE binding[t]]
  /\ frame' = [t \in Tasks |-> IF t \in D THEN "free" ELSE frame[t]]
  /\ UNCHANGED <<queue, holder>>

Next ==
  \/ \E t \in Tasks : Create(t) \/ Complete(t)
  \/ \E t \in Tasks, w \in Workers : Bind(t, w) \/ Push(t, w)
  \/ \E w \in Workers :
       \/ Take(w) \/ Resume(w) \/ Release(w)
       \/ \E s \in FrameStates : Yield(w, s)
       \/ \E i \in 1..Len(queue[w]) : Drop(w, i)
       \/ \E D \in SUBSET Tasks : Collect(w, D)

Spec == Init /\ [][Next]_vars
=============================================================================

----------------------------- MODULE BufferPool -----------------------------
(***************************************************************************)
(* include/utils/BufferPool.hpp: N buffers with an atomic flag each, which *)
(* concurrent callers scan without a lock.  One step looks at one index.   *)
(* A buffer is named by its index; users return only what they were given. *)
(***************************************************************************)
EXTENDS Integers

CONSTANTS
  Users,  \* threads that call getBuffer and returnBuffer
  N,      \* the number of buffers
  None

Buffers == 0..(N - 1)

ASSUME PoolAssumption ==
  /\ N \in Nat \ {0}
  /\ None \notin Users \cup Buffers

VARIABLES
  used,  \* the flags
  pc,    \* where each user is: outside, after an exception, or in a call
  i,     \* the loop variable of its call
  span,  \* the argument of its returnBuffer
  held,  \* the buffers it was given and has not passed to returnBuffer
  full   \* history: all flags were set at some moment of its last getBuffer

vars == <<used, pc, i, span, held, full>>

(* The constructor.                                                        *)
Init ==
  /\ used = [b \in Buffers |-> FALSE]
  /\ pc = [u \in Users |-> "idle"]
  /\ i = [u \in Users |-> 0]
  /\ span = [u \in Users |-> None]
  /\ held = [u \in Users |-> {}]
  /\ full = [u \in Users |-> FALSE]

Outside(u) == pc[u] \in {"idle", "thrown"}
AllSet(flags) == \A b \in Buffers : flags[b]

-----------------------------------------------------------------------------
(* getBuffer.                                                              *)

getBuffer(u) ==
  /\ Outside(u)
  /\ pc' = [pc EXCEPT ![u] = "get"]
  /\ i' = [i EXCEPT ![u] = 0]
  /\ full' = [full EXCEPT ![u] = AllSet(used)]
  /\ UNCHANGED <<used, span, held>>

(* test_and_set: what it returns, and what it leaves in the flag.  Faulty: *)
(* the result is ignored; test() instead.                                  *)
TestIgnored(b) == b \notin Buffers
Test(b) == used[b]
FlagTested(b) == used[b]
FlagSet(b) == TRUE

(* test_and_set finds the flag clear: the buffer is given out.             *)
GetTake(u) ==
  /\ pc[u] = "get"
  /\ i[u] < N
  /\ ~Test(i[u])
  /\ used' = [used EXCEPT ![i[u]] = FlagSet(i[u])]
  /\ held' = [held EXCEPT ![u] = @ \cup {i[u]}]
  /\ pc' = [pc EXCEPT ![u] = "idle"]
  /\ full' = [v \in Users |-> full[v] \/ (pc[v] = "get" /\ AllSet(used'))]
  /\ UNCHANGED <<i, span>>

(* Or set: the next one.                                                   *)
Advance(k) == k + 1

GetNext(u) ==
  /\ pc[u] = "get"
  /\ i[u] < N
  /\ Test(i[u])
  /\ i' = [i EXCEPT ![u] = Advance(@)]
  /\ UNCHANGED <<used, pc, span, held, full>>

(* After the last one bufferRunOut is thrown.                              *)
GetThrow(u) ==
  /\ pc[u] = "get"
  /\ i[u] = N
  /\ pc' = [pc EXCEPT ![u] = "thrown"]
  /\ UNCHANGED <<used, i, span, held, full>>

-----------------------------------------------------------------------------
(* returnBuffer: from now on the caller does not use the buffer.           *)
returnBuffer(u, b) ==
  /\ Outside(u)
  /\ b \in held[u]
  /\ pc' = [pc EXCEPT ![u] = "return"]
  /\ i' = [i EXCEPT ![u] = 0]
  /\ span' = [span EXCEPT ![u] = b]
  /\ held' = [held EXCEPT ![u] = @ \ {b}]
  /\ UNCHANGED <<used, full>>

ReturnNext(u) ==
  /\ pc[u] = "return"
  /\ i[u] < N
  /\ i[u] # span[u]
  /\ i' = [i EXCEPT ![u] = Advance(@)]
  /\ UNCHANGED <<used, pc, span, held, full>>

(* The flag that clear() names, and a faulty one: i was advanced already.  *)
ClearedNext(u) == (i[u] + 1) % N
Cleared(u) == i[u]

ReturnClear(u) ==
  /\ pc[u] = "return"
  /\ i[u] < N
  /\ i[u] = span[u]
  /\ used' = [used EXCEPT ![Cleared(u)] = FALSE]
  /\ pc' = [pc EXCEPT ![u] = "idle"]
  /\ span' = [span EXCEPT ![u] = None]
  /\ UNCHANGED <<i, held, full>>

-----------------------------------------------------------------------------
(* One step inside a call.                                                 *)
Step(u) ==
  \/ GetTake(u) \/ GetNext(u) \/ GetThrow(u)
  \/ ReturnNext(u) \/ ReturnClear(u)

User(u) == getBuffer(u) \/ (\E b \in Buffers : returnBuffer(u, b)) \/ Step(u)

Next == \E u \in Users : User(u)

Spec == Init /\ [][Next]_vars

-----------------------------------------------------------------------------
TypeOK ==
  /\ used \in [Buffers -> BOOLEAN]
  /\ pc \in [Users -> {"idle", "thrown", "get", "return"}]
  /\ i \in [Users -> 0..N]
  /\ span \in [Users -> Buffers \cup {None}]
  /\ held \in [Users -> SUBSET Buffers]
  /\ full \in [Users -> BOOLEAN]

(* What a user has: what it was given, until clear().                      *)
Owned(u) == held[u] \cup {b \in Buffers : span[u] = b}

(* No buffer is given to a second user before the first has returned it,   *)
(* although nothing but the flags keeps their scans apart.                 *)
NoSharing == \A u, v \in Users : u # v => Owned(u) \cap Owned(v) = {}

(* No buffer is lost: a flag is set exactly as long as a user has the      *)
(* buffer, whatever calls overlap.                                         *)
FlagsExact == \A b \in Buffers : used[b] <=> \E u \in Users : b \in Owned(u)

(* The user a buffer belongs to.                                           *)
OwnersOf(b) == {u \in Users : b \in Owned(u)}
OwnerOf(b) == IF OwnersOf(b) = {} THEN None ELSE CHOOSE u \in OwnersOf(b) : TRUE

Owner == [b \in Buffers |-> OwnerOf(b)]

Abstract == INSTANCE BufferSpec WITH owner <- Owner

(* The scans of the flags implement an allocator whose calls are atomic.   *)
ImplementsBufferSpec == Abstract!Spec

(* bufferRunOut says that the buffers have run out: there was a moment of  *)
(* the call at which none was free.                                        *)
RunOutMeansNone == \A u \in Users : pc[u] = "thrown" => full[u]

=============================================================================

----------------------------- MODULE BufferSpec -----------------------------
(* What include/utils/BufferPool.hpp promises: each buffer has at most one *)
(* owner, and passes from one to the next only by being returned.          *)
CONSTANTS Users, Buffers, None

VARIABLE owner

Init == owner = [b \in Buffers |-> None]

Acquire(u, b) ==
  /\ owner[b] = None
  /\ owner' = [owner EXCEPT ![b] = u]

Release(u, b) ==
  /\ owner[b] = u
  /\ owner' = [owner EXCEPT ![b] = None]

Next == \E u \in Users, b \in Buffers : Acquire(u, b) \/ Release(u, b)

Spec == Init /\ [][Next]_owner
=============================================================================

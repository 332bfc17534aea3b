-------------------------- MODULE BufferPoolProofs --------------------------
(***************************************************************************)
(* The buffer pool is safe for every number of users and buffers, and      *)
(* implements the allocator of BufferSpec.                                 *)
(***************************************************************************)
EXTENDS BufferPool, TLAPS

(* The argument of a returnBuffer in progress is a buffer its user no      *)
(* longer uses; outside of returnBuffer there is none.                     *)
ReturnInv ==
  \A u \in Users :
    /\ pc[u] = "return" => span[u] \in Buffers
    /\ pc[u] # "return" => span[u] = None
    /\ span[u] \notin held[u]

IInv == TypeOK /\ FlagsExact /\ NoSharing /\ ReturnInv

LEMMA NoneIsNoBuffer == None \notin Buffers /\ None \notin Users /\ N \in Nat \ {0}
  BY PoolAssumption

(* In the initial state nobody has anything.                               *)
LEMMA InitInv == Init => IInv
  <1> SUFFICES ASSUME Init PROVE IInv
    OBVIOUS
  <1>1. TypeOK
    BY NoneIsNoBuffer DEF Init, TypeOK, Buffers
  <1>2. \A u \in Users : Owned(u) = {}
    BY NoneIsNoBuffer DEF Init, Owned
  <1>3. FlagsExact
    BY <1>2 DEF Init, FlagsExact
  <1>4. NoSharing
    BY <1>2 DEF NoSharing
  <1>5. ReturnInv
    BY DEF Init, ReturnInv
  <1> QED
    BY <1>1, <1>3, <1>4, <1>5 DEF IInv

(* What each of the three actions that move a buffer does to Owned.        *)
LEMMA TakeOwned ==
  ASSUME IInv, NEW u \in Users, GetTake(u)
  PROVE  /\ i[u] \in Buffers
         /\ Owned(u)' = Owned(u) \cup {i[u]}
         /\ \A v \in Users : v # u => Owned(v)' = Owned(v)
         /\ \A v \in Users : i[u] \notin Owned(v)
  <1>1. i[u] \in Buffers
    BY NoneIsNoBuffer DEF IInv, TypeOK, GetTake, Buffers
  <1>2. \A v \in Users : i[u] \notin Owned(v)
    BY <1>1 DEF IInv, FlagsExact, GetTake, Test
  <1>3. held' = [held EXCEPT ![u] = @ \cup {i[u]}] /\ span' = span
    BY DEF GetTake
  <1> QED
    BY <1>1, <1>2, <1>3 DEF Owned, IInv, TypeOK

LEMMA ReturnOwned ==
  ASSUME IInv, NEW u \in Users, NEW b \in Buffers, returnBuffer(u, b)
  PROVE  \A v \in Users : Owned(v)' = Owned(v)
  <1>1. span[u] = None /\ b \in held[u]
    BY DEF IInv, ReturnInv, returnBuffer, Outside
  <1>2. held' = [held EXCEPT ![u] = @ \ {b}] /\ span' = [span EXCEPT ![u] = b]
    BY DEF returnBuffer
  <1>3. held[u] \subseteq Buffers
    BY DEF IInv, TypeOK
  <1>4. Owned(u)' = Owned(u)
    <2>1. held'[u] = held[u] \ {b} /\ span'[u] = b
      BY <1>2 DEF IInv, TypeOK
    <2> QED
      BY <2>1, <1>1, NoneIsNoBuffer DEF Owned
  <1>5. ASSUME NEW v \in Users, v # u PROVE Owned(v)' = Owned(v)
    BY <1>2, <1>5 DEF Owned, IInv, TypeOK
  <1> QED
    BY <1>4, <1>5

LEMMA ClearOwned ==
  ASSUME IInv, NEW u \in Users, ReturnClear(u)
  PROVE  /\ i[u] \in Buffers
         /\ i[u] \in Owned(u)
         /\ Owned(u)' = Owned(u) \ {i[u]}
         /\ \A v \in Users : v # u => Owned(v)' = Owned(v)
         /\ \A v \in Users : v # u => i[u] \notin Owned(v)
  <1>1. span[u] = i[u] /\ i[u] \in Buffers /\ i[u] \notin held[u]
    BY DEF IInv, ReturnInv, ReturnClear
  <1>2. i[u] \in Owned(u)
    BY <1>1 DEF Owned
  <1>3. held' = held /\ span' = [span EXCEPT ![u] = None]
    BY DEF ReturnClear
  <1>4. Owned(u)' = Owned(u) \ {i[u]}
    <2>1. span'[u] = None
      BY <1>3 DEF IInv, TypeOK
    <2> QED
      BY <2>1, <1>1, <1>3, NoneIsNoBuffer DEF Owned
  <1>5. \A v \in Users : v # u => Owned(v)' = Owned(v)
    BY <1>3 DEF Owned, IInv, TypeOK
  <1>6. \A v \in Users : v # u => i[u] \notin Owned(v)
    BY <1>2 DEF IInv, NoSharing
  <1> QED
    BY <1>1, <1>2, <1>4, <1>5, <1>6

(* The other steps move none.                                              *)
LEMMA SameOwned ==
  ASSUME UNCHANGED <<held, span>>
  PROVE  \A v \in Users : Owned(v)' = Owned(v)
  BY DEF Owned

LEMMA TypeStep == IInv /\ [Next]_vars => TypeOK'
  <1> SUFFICES ASSUME IInv, [Next]_vars PROVE TypeOK'
    OBVIOUS
  <1> USE DEF IInv, TypeOK
  <1>1. ASSUME NEW u \in Users, getBuffer(u) PROVE TypeOK'
    BY <1>1, NoneIsNoBuffer DEF getBuffer, AllSet
  <1>2. ASSUME NEW u \in Users, GetTake(u) PROVE TypeOK'
    <2>1. used' \in [Buffers -> BOOLEAN]
      BY <1>2 DEF GetTake, FlagSet
    <2>2. held' \in [Users -> SUBSET Buffers]
      <3>1. i[u] \in Buffers
        BY <1>2, TakeOwned
      <3> QED
        BY <1>2, <3>1 DEF GetTake
    <2>3. full' \in [Users -> BOOLEAN]
      BY <1>2 DEF GetTake, AllSet
    <2> QED
      BY <1>2, <2>1, <2>2, <2>3 DEF GetTake
  <1>3. ASSUME NEW u \in Users, GetNext(u) PROVE TypeOK'
    <2>1. i[u] + 1 \in 0..N
      BY <1>3, NoneIsNoBuffer DEF GetNext, Advance
    <2> QED
      BY <1>3, <2>1 DEF GetNext, Advance
  <1>4. ASSUME NEW u \in Users, GetThrow(u) PROVE TypeOK'
    BY <1>4 DEF GetThrow
  <1>5. ASSUME NEW u \in Users, NEW b \in Buffers, returnBuffer(u, b) PROVE TypeOK'
    BY <1>5, NoneIsNoBuffer DEF returnBuffer
  <1>6. ASSUME NEW u \in Users, ReturnNext(u) PROVE TypeOK'
    <2>1. i[u] + 1 \in 0..N
      BY <1>6, NoneIsNoBuffer DEF ReturnNext, Advance
    <2> QED
      BY <1>6, <2>1 DEF ReturnNext, Advance
  <1>7. ASSUME NEW u \in Users, ReturnClear(u) PROVE TypeOK'
    BY <1>7 DEF ReturnClear, Cleared
  <1>8. CASE UNCHANGED vars
    BY <1>8 DEF vars
  <1> QED
    BY <1>1, <1>2, <1>3, <1>4, <1>5, <1>6, <1>7, <1>8 DEF Next, User, Step

(* A buffer changes hands in three actions: GetTake gives one that nobody  *)
(* has, because its flag was clear; returnBuffer moves it within its user; *)
(* ReturnClear takes it from the only user that has it.                    *)
LEMMA ExactStep == IInv /\ [Next]_vars => FlagsExact' /\ NoSharing'
  <1> SUFFICES ASSUME IInv, [Next]_vars PROVE FlagsExact' /\ NoSharing'
    OBVIOUS
  <1>1. ASSUME NEW u \in Users, GetTake(u) PROVE FlagsExact' /\ NoSharing'
    <2>1. NoSharing'
      BY <1>1, TakeOwned DEF IInv, NoSharing
    <2>2. ASSUME NEW b \in Buffers
          PROVE  used'[b] <=> \E v \in Users : b \in Owned(v)'
      <3>1. CASE b = i[u]
        BY <1>1, <3>1, TakeOwned DEF GetTake, FlagSet, IInv, TypeOK
      <3>2. CASE b # i[u]
        <4>1. used'[b] = used[b]
          BY <1>1, <3>2 DEF GetTake, IInv, TypeOK
        <4>2. \A v \in Users : b \in Owned(v)' <=> b \in Owned(v)
          BY <1>1, <3>2, TakeOwned
        <4> QED
          BY <4>1, <4>2 DEF IInv, FlagsExact
      <3> QED
        BY <3>1, <3>2
    <2> QED
      BY <2>1, <2>2 DEF FlagsExact
  <1>2. ASSUME NEW u \in Users, ReturnClear(u) PROVE FlagsExact' /\ NoSharing'
    <2>1. NoSharing'
      BY <1>2, ClearOwned DEF IInv, NoSharing
    <2>2. ASSUME NEW b \in Buffers
          PROVE  used'[b] <=> \E v \in Users : b \in Owned(v)'
      <3>1. CASE b = i[u]
        <4>1. ~used'[b]
          BY <1>2, <3>1 DEF ReturnClear, Cleared, IInv, TypeOK
        <4>2. \A v \in Users : b \notin Owned(v)'
          BY <1>2, <3>1, ClearOwned
        <4> QED
          BY <4>1, <4>2
      <3>2. CASE b # i[u]
        <4>1. used'[b] = used[b]
          BY <1>2, <3>2 DEF ReturnClear, Cleared, IInv, TypeOK
        <4>2. \A v \in Users : b \in Owned(v)' <=> b \in Owned(v)
          BY <1>2, <3>2, ClearOwned
        <4> QED
          BY <4>1, <4>2 DEF IInv, FlagsExact
      <3> QED
        BY <3>1, <3>2
    <2> QED
      BY <2>1, <2>2 DEF FlagsExact
  <1>3. ASSUME used' = used, \A v \in Users : Owned(v)' = Owned(v)
        PROVE  FlagsExact' /\ NoSharing'
    BY <1>3 DEF IInv, FlagsExact, NoSharing
  <1>4. ASSUME NEW u \in Users, NEW b \in Buffers, returnBuffer(u, b)
        PROVE  FlagsExact' /\ NoSharing'
    BY <1>3, <1>4, ReturnOwned DEF returnBuffer
  <1>5. ASSUME NEW u \in Users, getBuffer(u) \/ GetNext(u) \/ GetThrow(u) \/ ReturnNext(u)
        PROVE  FlagsExact' /\ NoSharing'
    BY <1>3, <1>5, SameOwned DEF getBuffer, GetNext, GetThrow, ReturnNext
  <1>6. CASE UNCHANGED vars
    BY <1>3, <1>6, SameOwned DEF vars
  <1> QED
    BY <1>1, <1>2, <1>4, <1>5, <1>6 DEF Next, User, Step

LEMMA ReturnStep == IInv /\ [Next]_vars => ReturnInv'
  <1> SUFFICES ASSUME IInv, [Next]_vars PROVE ReturnInv'
    OBVIOUS
  <1> USE DEF IInv, TypeOK, ReturnInv
  <1>1. ASSUME NEW u \in Users, getBuffer(u) PROVE ReturnInv'
    BY <1>1 DEF getBuffer, Outside
  <1>2. ASSUME NEW u \in Users, GetTake(u) PROVE ReturnInv'
    BY <1>2, TakeOwned, NoneIsNoBuffer DEF GetTake
  <1>3. ASSUME NEW u \in Users, GetNext(u) \/ ReturnNext(u) PROVE ReturnInv'
    BY <1>3 DEF GetNext, ReturnNext
  <1>4. ASSUME NEW u \in Users, GetThrow(u) PROVE ReturnInv'
    BY <1>4 DEF GetThrow
  <1>5. ASSUME NEW u \in Users, NEW b \in Buffers, returnBuffer(u, b) PROVE ReturnInv'
    BY <1>5 DEF returnBuffer
  <1>6. ASSUME NEW u \in Users, ReturnClear(u) PROVE ReturnInv'
    BY <1>6, NoneIsNoBuffer DEF ReturnClear
  <1>7. CASE UNCHANGED vars
    BY <1>7 DEF vars
  <1> QED
    BY <1>1, <1>2, <1>3, <1>4, <1>5, <1>6, <1>7 DEF Next, User, Step

(* The inductive invariant holds: the flags, the ownership they stand for  *)
(* and the calls in progress agree in every state of the pool.             *)
THEOREM Invariance == Spec => []IInv
  <1>1. IInv /\ [Next]_vars => IInv'
    BY TypeStep, ExactStep, ReturnStep DEF IInv
  <1> QED
    BY InitInv, <1>1, PTL DEF Spec

(* The variables of the pool keep their types.                             *)
THEOREM TypeCorrect == Spec => []TypeOK
  <1>1. IInv => TypeOK
    BY DEF IInv
  <1> QED
    BY Invariance, <1>1, PTL

(* No two users of getBuffer ever have the same buffer.                    *)
THEOREM BuffersNotShared == Spec => []NoSharing
  <1>1. IInv => NoSharing
    BY DEF IInv
  <1> QED
    BY Invariance, <1>1, PTL

(* A flag is set exactly while a user has the buffer: none is lost.        *)
THEOREM FlagsAreExact == Spec => []FlagsExact
  <1>1. IInv => FlagsExact
    BY DEF IInv
  <1> QED
    BY Invariance, <1>1, PTL

-----------------------------------------------------------------------------
(* The refinement.                                                         *)

(* Under NoSharing the owner of a buffer is well defined.                  *)
LEMMA OwnerIs ==
  ASSUME NEW u, NEW T, T = {u}
  PROVE  (IF T = {} THEN None ELSE CHOOSE v \in T : TRUE) = u
  OBVIOUS

(* What getBuffer gives out had no owner.                                  *)
LEMMA TakeRefines ==
  ASSUME IInv, IInv', NEW u \in Users, GetTake(u)
  PROVE  Abstract!Next
  <1>1. PICK k \in Buffers : k = i[u]
    BY TakeOwned
  <1>2. OwnerOf(k) = None
    BY <1>1, TakeOwned DEF OwnerOf, OwnersOf
  <1>3. OwnerOf(k)' = u
    <2>1. OwnersOf(k)' = {u}
      BY <1>1, TakeOwned DEF OwnersOf
    <2> QED
      BY <2>1, OwnerIs DEF OwnerOf
  <1>4. \A b \in Buffers : b # k => OwnerOf(b)' = OwnerOf(b)
    <2>1. \A b \in Buffers : b # k => OwnersOf(b)' = OwnersOf(b)
      BY <1>1, TakeOwned DEF OwnersOf
    <2>2. ASSUME NEW b \in Buffers, b # k PROVE OwnerOf(b)' = OwnerOf(b)
      <3>1. OwnersOf(b)' = OwnersOf(b)
        BY <2>1, <2>2
      <3> QED
        BY <3>1 DEF OwnerOf
    <2> QED
      BY <2>2
  <1>5. Owner' = [Owner EXCEPT ![k] = u]
    BY <1>1, <1>3, <1>4 DEF Owner
  <1>6. Abstract!Acquire(u, k)
    BY <1>1, <1>2, <1>5 DEF Abstract!Acquire, Owner
  <1> QED
    BY <1>1, <1>6 DEF Abstract!Next

(* clear() takes the buffer from the user that returns it.                 *)
LEMMA ClearRefines ==
  ASSUME IInv, IInv', NEW u \in Users, ReturnClear(u)
  PROVE  Abstract!Next
  <1>1. PICK k \in Buffers : k = i[u]
    BY ClearOwned
  <1>2. OwnerOf(k) = u
    <2>1. OwnersOf(k) = {u}
      BY <1>1, ClearOwned DEF OwnersOf
    <2> QED
      BY <2>1, OwnerIs DEF OwnerOf
  <1>3. OwnerOf(k)' = None
    BY <1>1, ClearOwned DEF OwnerOf, OwnersOf
  <1>4. \A b \in Buffers : b # k => OwnerOf(b)' = OwnerOf(b)
    <2>1. \A b \in Buffers : b # k => OwnersOf(b)' = OwnersOf(b)
      BY <1>1, ClearOwned DEF OwnersOf
    <2>2. ASSUME NEW b \in Buffers, b # k PROVE OwnerOf(b)' = OwnerOf(b)
      <3>1. OwnersOf(b)' = OwnersOf(b)
        BY <2>1, <2>2
      <3> QED
        BY <3>1 DEF OwnerOf
    <2> QED
      BY <2>2
  <1>5. Owner' = [Owner EXCEPT ![k] = None]
    BY <1>1, <1>3, <1>4 DEF Owner
  <1>6. Abstract!Release(u, k)
    BY <1>1, <1>2, <1>5 DEF Abstract!Release, Owner
  <1> QED
    BY <1>1, <1>6 DEF Abstract!Next

LEMMA InitRefines == Init => Abstract!Init
  <1> SUFFICES ASSUME Init PROVE Abstract!Init
    OBVIOUS
  <1>1. \A u \in Users : Owned(u) = {}
    BY NoneIsNoBuffer DEF Init, Owned
  <1>2. \A b \in Buffers : OwnerOf(b) = None
    BY <1>1 DEF OwnerOf, OwnersOf
  <1> QED
    BY <1>2 DEF Abstract!Init, Owner

LEMMA StepRefines ==
  IInv /\ IInv' /\ [Next]_vars => Abstract!Next \/ Owner' = Owner
  <1> SUFFICES ASSUME IInv, IInv', [Next]_vars
               PROVE  Abstract!Next \/ Owner' = Owner
    OBVIOUS
  <1>1. ASSUME \A v \in Users : Owned(v)' = Owned(v) PROVE Owner' = Owner
    <2>1. ASSUME NEW b \in Buffers PROVE OwnerOf(b)' = OwnerOf(b)
      <3>1. OwnersOf(b)' = OwnersOf(b)
        BY <1>1 DEF OwnersOf
      <3> QED
        BY <3>1 DEF OwnerOf
    <2> QED
      BY <2>1 DEF Owner
  <1>2. ASSUME NEW u \in Users, NEW b \in Buffers, returnBuffer(u, b)
        PROVE  Owner' = Owner
    BY <1>1, <1>2, ReturnOwned
  <1>3. ASSUME NEW u \in Users, getBuffer(u) \/ GetNext(u) \/ GetThrow(u) \/ ReturnNext(u)
        PROVE  Owner' = Owner
    BY <1>1, <1>3, SameOwned DEF getBuffer, GetNext, GetThrow, ReturnNext
  <1>4. CASE UNCHANGED vars
    BY <1>1, <1>4, SameOwned DEF vars
  <1> QED
    BY <1>2, <1>3, <1>4, TakeRefines, ClearRefines DEF Next, User, Step

(* The pool implements the allocator with atomic calls: a buffer passes    *)
(* from one user to the next only by being returned.                       *)
THEOREM Refinement == Spec => ImplementsBufferSpec
  <1>1. IInv /\ IInv' /\ [Next]_vars => [Abstract!Next]_Owner
    BY StepRefines
  <1> QED
    BY <1>1, Invariance, InitRefines, PTL DEF Spec, Abstract!Spec, ImplementsBufferSpec

=============================================================================

------------------------- MODULE EpollServerProofs --------------------------
(***************************************************************************)
(* What the two epoll servers have in common, for any number of workers,   *)
(* frames and connections: the invariant of the pool, the loop of epoll    *)
(* and the sockets, and that each step of EpollServer keeps it.  The       *)
(* handlers of a server take steps of two forms, Going and Spawning, for   *)
(* which this is shown here once.                                          *)
(***************************************************************************)
EXTENDS EpollServer, FiniteSetTheorems, FunctionTheorems,
        WellFoundedInduction, TLAPS

-----------------------------------------------------------------------------
(* Numbers and sequences.                                                  *)

(* A set of numbers has a least element.                                   *)
LEMMA LeastNumber ==
  ASSUME NEW T \in SUBSET Nat, T # {}
  PROVE  \E x \in T : \A y \in T : x <= y
  <1>1. PICK x \in T : \A y \in T : <<y, x>> \notin OpToRel(<, Nat)
    BY WFMin, NatLessThanWellFounded, Zenon
  <1>2. \A y \in T : ~(y < x)
    BY <1>1, Zenon DEF OpToRel
  <1> QED
    BY <1>2

(* Induction, for a set of numbers.                                        *)
LEMMA SetInduction ==
  ASSUME NEW n \in Nat, NEW T \in SUBSET (0..n),
         0 \in T, \A i \in 0..(n - 1) : i \in T => i + 1 \in T
  PROVE  T = 0..n
  <1> SUFFICES ASSUME (0..n) \ T # {} PROVE FALSE
    OBVIOUS
  <1>1. (0..n) \ T \in SUBSET Nat
    OBVIOUS
  <1>2. PICK x \in (0..n) \ T : \A y \in (0..n) \ T : x <= y
    BY <1>1, LeastNumber
  <1>3. x # 0 /\ x - 1 \in 0..(n - 1)
    OBVIOUS
  <1>4. x - 1 \in T
    BY <1>2, <1>3
  <1> QED
    BY <1>3, <1>4

(* How often e is in s.                                                    *)
Count(s, e) == Cardinality({i \in 1..Len(s) : s[i] = e})

LEMMA CountType ==
  ASSUME NEW S, NEW s \in Seq(S), NEW e
  PROVE  /\ Count(s, e) \in Nat
         /\ IsFiniteSet({i \in 1..Len(s) : s[i] = e})
         /\ Count(s, e) = 0 <=> \A i \in 1..Len(s) : s[i] # e
  <1> DEFINE I == {i \in 1..Len(s) : s[i] = e}
  <1>1. IsFiniteSet(1..Len(s)) /\ I \in SUBSET (1..Len(s))
    BY FS_Interval
  <1>2. IsFiniteSet(I)
    BY <1>1, FS_Subset
  <1>3. Cardinality(I) \in Nat
    BY <1>2, FS_CardinalityType
  <1>4. Cardinality(I) = 0 <=> I = {}
    BY <1>2, FS_EmptySet
  <1> QED
    BY <1>2, <1>3, <1>4 DEF Count

LEMMA CountAppend ==
  ASSUME NEW S, NEW s \in Seq(S), NEW d \in S, NEW e
  PROVE  Count(Append(s, d), e) = Count(s, e) + (IF d = e THEN 1 ELSE 0)
  <1> DEFINE I == {i \in 1..Len(s) : s[i] = e}
             J == {i \in 1..Len(Append(s, d)) : Append(s, d)[i] = e}
             n == Len(s) + 1
  <1>1. IsFiniteSet(I) /\ Cardinality(I) \in Nat /\ Cardinality(I) = Count(s, e)
    BY CountType DEF Count
  <1>2. n \notin I
    OBVIOUS
  <1>3. J = IF d = e THEN I \cup {n} ELSE I
    OBVIOUS
  <1>4. Cardinality(I \cup {n}) = Cardinality(I) + 1
    BY <1>1, <1>2, FS_AddElement
  <1>5. Cardinality(J) = Count(Append(s, d), e)
    BY DEF Count
  <1> HIDE DEF I, J
  <1>6. CASE d = e
    BY <1>1, <1>3, <1>4, <1>5, <1>6
  <1>7. CASE d # e
    BY <1>1, <1>3, <1>5, <1>7
  <1> QED
    BY <1>6, <1>7

LEMMA CountTail ==
  ASSUME NEW S, NEW s \in Seq(S), s # <<>>, NEW e
  PROVE  Count(s, e) = Count(Tail(s), e) + (IF Head(s) = e THEN 1 ELSE 0)
  <1> DEFINE I == {i \in 1..Len(s) : s[i] = e}
             J == {i \in 1..Len(Tail(s)) : Tail(s)[i] = e}
             f == [i \in J |-> i + 1]
  <1>0. Tail(s) \in Seq(S)
    OBVIOUS
  <1>1. /\ IsFiniteSet(I) /\ Cardinality(I) = Count(s, e)
        /\ IsFiniteSet(J) /\ Cardinality(J) = Count(Tail(s), e)
        /\ Cardinality(I) \in Nat /\ Cardinality(J) \in Nat
    BY <1>0, CountType DEF Count
  <1>2. \A i \in J : i \in Nat /\ i + 1 \in I \ {1}
    OBVIOUS
  <1>3. \A i \in I \ {1} : i - 1 \in J /\ i \in Nat
    OBVIOUS
  <1>4. (1 \in I) = (Head(s) = e)
    OBVIOUS
  <1> HIDE DEF I, J
  <1>5. f \in Bijection(J, I \ {1})
    <2>1. f \in [J -> I \ {1}]
      BY <1>2
    <2>2. \A i, j \in J : f[i] = f[j] => i = j
      BY <1>2
    <2>3. \A k \in I \ {1} : \E i \in J : f[i] = k
      <3> SUFFICES ASSUME NEW k \in I \ {1} PROVE \E i \in J : f[i] = k
        OBVIOUS
      <3>1. k - 1 \in J /\ f[k - 1] = k
        BY <1>3
      <3> QED
        BY <3>1
    <2> QED
      BY <2>1, <2>2, <2>3, Fun_IsBij
  <1> HIDE DEF f
  <1>6. Cardinality(I \ {1}) = Cardinality(J)
    BY <1>1, <1>5, FS_Bijection DEF ExistsBijection
  <1>7. Cardinality(I \ {1}) = IF 1 \in I THEN Cardinality(I) - 1 ELSE Cardinality(I)
    BY <1>1, FS_RemoveElement
  <1> QED
    BY <1>1, <1>4, <1>6, <1>7

(* The recursion in Without is well defined.                               *)
LEMMA WithoutDefined ==
  ASSUME NEW S, NEW s \in Seq(S), NEW gone
  PROVE  \E kept :
           /\ kept = [i \in 0..Len(s) |->
                        IF i = 0 THEN <<>>
                        ELSE IF s[i] \in gone THEN kept[i - 1] ELSE Append(kept[i - 1], s[i])]
           /\ Without(s, gone) = kept[Len(s)]
  <1> DEFINE Next1(k, i) == IF i = 0 THEN <<>>
                            ELSE IF s[i] \in gone THEN k[i - 1] ELSE Append(k[i - 1], s[i])
             T == {n \in 0..Len(s) : \E k : k = [i \in 0..n |-> Next1(k, i)]}
  <1>1. 0 \in T
    <2> DEFINE k == [i \in 0..0 |-> <<>>]
    <2>1. \A i \in 0..0 : <<>> = Next1(k, i)
      OBVIOUS
    <2>2. k = [i \in 0..0 |-> Next1(k, i)]
      BY <2>1
    <2> HIDE DEF k, Next1
    <2>3. 0 \in 0..Len(s)
      OBVIOUS
    <2> QED
      BY <2>2, <2>3
  <1>2. ASSUME NEW n \in 0..(Len(s) - 1), n \in T PROVE n + 1 \in T
    <2> HIDE DEF Next1
    <2>1. PICK k : k = [i \in 0..n |-> Next1(k, i)]
      BY <1>2
    <2>2. \A i \in 0..n : k[i] = Next1(k, i)
      BY <2>1
    <2> DEFINE m == [i \in 0..(n + 1) |-> IF i <= n THEN k[i] ELSE Next1(k, i)]
    <2>3. /\ \A i \in 0..n : m[i] = k[i]
          /\ m[n + 1] = Next1(k, n + 1)
          /\ DOMAIN m = 0..(n + 1)
          /\ m = [i \in 0..(n + 1) |-> m[i]]
      OBVIOUS
    <2> HIDE DEF m
    <2>4. ASSUME NEW i \in 0..(n + 1) PROVE m[i] = Next1(m, i)
      <3>0. i # 0 => i - 1 \in 0..n
        OBVIOUS
      <3>1. i # 0 => m[i - 1] = k[i - 1]
        BY <2>3, <3>0
      <3>2. Next1(m, i) = Next1(k, i)
        BY <3>1 DEF Next1
      <3>3. i \in 0..n \/ i = n + 1
        OBVIOUS
      <3> QED
        BY <2>2, <2>3, <3>2, <3>3
    <2>5. m = [i \in 0..(n + 1) |-> Next1(m, i)]
      BY <2>3, <2>4
    <2>6. n + 1 \in 0..Len(s)
      OBVIOUS
    <2> QED
      BY <2>5, <2>6
  <1>3. T = 0..Len(s)
    <2>1. T \in SUBSET (0..Len(s)) /\ Len(s) \in Nat
      OBVIOUS
    <2> HIDE DEF T
    <2> QED
      BY <1>1, <1>2, <2>1, SetInduction
  <1>4. Len(s) \in T
    BY <1>3
  <1>5. \E k : k = [i \in 0..Len(s) |-> Next1(k, i)]
    BY <1>4
  <1> DEFINE kept == CHOOSE k : k = [i \in 0..Len(s) |-> Next1(k, i)]
  <1>6. kept = [i \in 0..Len(s) |-> Next1(kept, i)]
    BY <1>5
  <1>7. Without(s, gone) = kept[Len(s)]
    BY DEF Without
  <1> QED
    BY <1>6, <1>7

(* What is left is in the sequence and not in gone, and as often as before.*)
LEMMA WithoutFacts ==
  ASSUME NEW S, NEW s \in Seq(S), NEW gone
  PROVE  /\ Without(s, gone) \in Seq(S)
         /\ \A j \in 1..Len(Without(s, gone)) :
              /\ Without(s, gone)[j] \notin gone
              /\ \E i \in 1..Len(s) : s[i] = Without(s, gone)[j]
         /\ \A e : e \notin gone => Count(Without(s, gone), e) = Count(s, e)
  <1>1. PICK kept :
          /\ kept = [i \in 0..Len(s) |->
                       IF i = 0 THEN <<>>
                       ELSE IF s[i] \in gone THEN kept[i - 1] ELSE Append(kept[i - 1], s[i])]
          /\ Without(s, gone) = kept[Len(s)]
    BY WithoutDefined
  <1>2. /\ kept[0] = <<>>
        /\ \A i \in 0..(Len(s) - 1) :
             kept[i + 1] = IF s[i + 1] \in gone THEN kept[i] ELSE Append(kept[i], s[i + 1])
    <2>1. ASSUME NEW i \in 0..(Len(s) - 1)
          PROVE  kept[i + 1] = IF s[i + 1] \in gone THEN kept[i] ELSE Append(kept[i], s[i + 1])
      <3>1. i + 1 \in 0..Len(s) /\ i + 1 # 0 /\ (i + 1) - 1 = i
        OBVIOUS
      <3> QED
        BY <1>1, <3>1
    <2>2. kept[0] = <<>>
      <3>1. 0 \in 0..Len(s)
        OBVIOUS
      <3> QED
        BY <1>1, <3>1
    <2> QED
      BY <2>1, <2>2
  <1> DEFINE From(k, n) ==
               /\ k \in Seq(S)
               /\ \A j \in 1..Len(k) : k[j] \notin gone /\ \E i \in 1..Len(s) : s[i] = k[j]
               /\ \A e : e \notin gone => Count(k, e) = Count(SubSeq(s, 1, n), e)
             T == {n \in 0..Len(s) : From(kept[n], n)}
  <1>3. 0 \in T
    <2>1. SubSeq(s, 1, 0) = <<>> /\ 0 \in 0..Len(s)
      OBVIOUS
    <2>2. kept[0] = SubSeq(s, 1, 0)
      BY <1>2, <2>1
    <2>3. kept[0] \in Seq(S) /\ Len(kept[0]) = 0
      BY <1>2
    <2>4. From(kept[0], 0)
      BY <2>2, <2>3
    <2> QED
      BY <2>1, <2>4
  <1>4. ASSUME NEW n \in 0..(Len(s) - 1), n \in T PROVE n + 1 \in T
    <2> DEFINE x == s[n + 1]
    <2>1. /\ x \in S /\ n + 1 \in 1..Len(s)
          /\ SubSeq(s, 1, n) \in Seq(S)
          /\ SubSeq(s, 1, n + 1) = Append(SubSeq(s, 1, n), x)
      OBVIOUS
    <2>2. From(kept[n], n)
      BY <1>4
    <2>3. \A e : Count(SubSeq(s, 1, n + 1), e)
                  = Count(SubSeq(s, 1, n), e) + (IF x = e THEN 1 ELSE 0)
      <3> SUFFICES ASSUME NEW e
                   PROVE  Count(SubSeq(s, 1, n + 1), e)
                            = Count(SubSeq(s, 1, n), e) + (IF x = e THEN 1 ELSE 0)
        OBVIOUS
      <3> HIDE DEF x
      <3> DEFINE r == SubSeq(s, 1, n)
      <3>0. r \in Seq(S) /\ x \in S
        BY <2>1
      <3> HIDE DEF r
      <3>1. Count(Append(r, x), e) = Count(r, e) + (IF x = e THEN 1 ELSE 0)
        BY <3>0, CountAppend
      <3> QED
        BY <2>1, <3>1 DEF r
    <2>4. \A e : Count(SubSeq(s, 1, n), e) \in Nat
      BY <2>1, CountType
    <2>5. CASE x \in gone
      <3>1. kept[n + 1] = kept[n]
        BY <1>2, <2>5
      <3>2. \A e : e \notin gone => Count(SubSeq(s, 1, n + 1), e) = Count(SubSeq(s, 1, n), e)
        BY <2>3, <2>4, <2>5
      <3>3. From(kept[n + 1], n + 1)
        BY <2>2, <3>1, <3>2
      <3> QED
        BY <3>3
    <2>6. CASE x \notin gone
      <3>1. kept[n + 1] = Append(kept[n], x)
        BY <1>2, <2>6
      <3>2. \A e : Count(Append(kept[n], x), e) = Count(kept[n], e) + (IF x = e THEN 1 ELSE 0)
        BY <2>1, <2>2, CountAppend
      <3>3. \A e : e \notin gone => Count(Append(kept[n], x), e) = Count(SubSeq(s, 1, n + 1), e)
        BY <2>2, <2>3, <3>2
      <3>4. Append(kept[n], x) \in Seq(S)
        BY <2>1, <2>2
      <3>5. \A j \in 1..Len(Append(kept[n], x)) :
              /\ Append(kept[n], x)[j] \notin gone
              /\ \E i \in 1..Len(s) : s[i] = Append(kept[n], x)[j]
        <4> SUFFICES ASSUME NEW j \in 1..Len(Append(kept[n], x))
                     PROVE  /\ Append(kept[n], x)[j] \notin gone
                            /\ \E i \in 1..Len(s) : s[i] = Append(kept[n], x)[j]
          OBVIOUS
        <4>1. CASE j = Len(kept[n]) + 1
          <5>1. Append(kept[n], x)[j] = x
            BY <2>2, <4>1
          <5> QED
            BY <2>1, <2>6, <5>1
        <4>2. CASE j # Len(kept[n]) + 1
          <5>1. j \in 1..Len(kept[n]) /\ Append(kept[n], x)[j] = kept[n][j]
            BY <2>2, <4>2
          <5> QED
            BY <2>2, <5>1
        <4> QED
          BY <4>1, <4>2
      <3>6. From(kept[n + 1], n + 1)
        BY <3>1, <3>3, <3>4, <3>5
      <3> QED
        BY <3>6
    <2> QED
      BY <2>5, <2>6
  <1>5. T = 0..Len(s)
    <2>1. T \in SUBSET (0..Len(s)) /\ Len(s) \in Nat
      OBVIOUS
    <2> HIDE DEF T
    <2> QED
      BY <1>3, <1>4, <2>1, SetInduction
  <1>6. From(kept[Len(s)], Len(s))
    <2>1. Len(s) \in T
      BY <1>5
    <2> QED
      BY <2>1
  <1>7. SubSeq(s, 1, Len(s)) = s
    OBVIOUS
  <1> QED
    BY <1>1, <1>6, <1>7

-----------------------------------------------------------------------------
(* The inductive invariant of the core.  D is what peers send.             *)

Coroutines(D) ==
  [kind : {"none", "wait", "accept", "handler", "writer", "respond"},
   at : {"none", "run", "yield", "dispatch", "respond"},
   conn : Conns \cup {None}, wakes : Nat, buf : Seq(D), size : Nat,
   part : {"head", "new", "open", "body", "bad", "ok"}, file : Fds \cup {0}]

Sockets(D) ==
  [st : {"none", "backlog", "open", "closed"}, fd : Fds \cup {0},
   ptr : Frames \cup {None}, in : Seq(D), fin : {"no", "fin", "rst"},
   told : BOOLEAN, put : 0..MaxSends, out : Seq(D), short : BOOLEAN]

PoolType ==
  /\ binding \in [Tasks -> Workers \cup {None}]
  /\ queue \in [Workers -> Seq(Tasks)]
  /\ holder \in [Workers -> Tasks \cup {None}]
  /\ frame \in [Tasks -> {"free", "live", "done"}]

DataType(D) ==
  /\ code \in [Tasks -> Coroutines(D)]
  /\ sock \in [Conns -> Sockets(D)]

EventType ==
  /\ events \in SUBSET Sources
  /\ ready \in SUBSET {c \in Conns : sock[c].st = "open"}
  /\ ended \in {"no", "freed", "thrown", "sigpipe"}

(* A handle waits in the queue of the worker it is bound to, and the       *)
(* coroutine a worker is inside of lives and is bound to this worker, so   *)
(* no other worker is inside of it.                                        *)
QueueInv == \A w \in Workers : \A i \in 1..Len(queue[w]) : binding[queue[w][i]] = w
HeldInv ==
  \A w \in Workers :
    holder[w] # None => frame[holder[w]] = "live" /\ binding[holder[w]] = w

(* There are events to dispatch only while a worker is inside of           *)
(* epollWaitEvent, and so no round of cleanTasks between epoll_wait and    *)
(* the last of them: their connections are open.                           *)
WaitInv ==
  /\ frame[Waiter] = "live" /\ frame[Acceptor] = "live"
  /\ events # {} => code[Waiter].at = "dispatch"
  /\ code[Waiter].at = "dispatch" => \E w \in Workers : holder[w] = Waiter
  /\ \A c \in Conns : c \in events => sock[c].st = "open"

(* A frame that has not been destroyed keeps its socket open.              *)
FrameInv ==
  \A t \in Frames :
    frame[t] # "free" => code[t].conn \in Conns /\ sock[code[t].conn].st = "open"

(* An open socket has a descriptor of its own, and its handler's address   *)
(* is registered; that address is the only handler of the connection.      *)
FdInv ==
  \A c \in Conns :
    IF sock[c].st = "open"
    THEN /\ sock[c].fd \in Fds /\ sock[c].ptr \in Frames
         /\ \A d \in Conns : sock[d].fd = sock[c].fd => d = c
    ELSE sock[c].fd = 0
PtrInv ==
  \A t \in Frames :
    frame[t] # "free" /\ code[t].kind = "handler" => sock[code[t].conn].ptr = t

(* WakesKept, with what it counts taken apart.                             *)
Held(t) == IF \E w \in Workers : holder[w] = t THEN 1 ELSE 0
Waiting(t) == IF binding[t] = None THEN 0 ELSE Entries(t, binding[t])
WakeInv ==
  \A t \in Frames : frame[t] = "live" => code[t].wakes = Held(t) + Waiting(t)

CoreInv(D) ==
  /\ PoolType /\ DataType(D) /\ EventType
  /\ QueueInv /\ HeldInv /\ WaitInv /\ FrameInv /\ FdInv /\ PtrInv
  /\ WakeInv /\ FirstEventComes

-----------------------------------------------------------------------------
(* The pool's part: what an operation does to the queues.                  *)

LEMMA ConstantsFacts ==
  /\ Waiter \in Tasks /\ Acceptor \in Tasks /\ Waiter # Acceptor
  /\ Waiter \notin Frames /\ Acceptor \notin Frames
  /\ None \notin Tasks /\ None \notin Workers /\ None \notin Conns /\ None \notin Frames
  /\ Listener \notin Conns /\ None # Listener
  /\ Frames \subseteq Tasks /\ Conns \subseteq Sources
  /\ \A t \in Tasks : t \in Frames \/ t = Waiter \/ t = Acceptor
  BY ConstantsAssumption DEF Tasks, Loops, Sources

LEMMA EntriesIsCount == \A t, w : Entries(t, w) = Count(queue[w], t)
  BY DEF Entries, Count

LEMMA WaitingType ==
  ASSUME PoolType
  PROVE  \A t \in Tasks : Waiting(t) \in Nat /\ Held(t) \in Nat
  <1> SUFFICES ASSUME NEW t \in Tasks PROVE Waiting(t) \in Nat /\ Held(t) \in Nat
    OBVIOUS
  <1>1. CASE binding[t] = None
    BY <1>1 DEF Waiting, Held
  <1>2. CASE binding[t] # None
    <2> DEFINE w == binding[t]
    <2>1. queue[w] \in Seq(Tasks)
      BY <1>2 DEF PoolType
    <2>2. Count(queue[w], t) \in Nat
      BY <2>1, CountType
    <2> QED
      BY <1>2, <2>2, EntriesIsCount DEF Waiting, Held
  <1> QED
    BY <1>1, <1>2

(* addTask: one entry more for t, and none for anybody else.               *)
Added(t) ==
  /\ binding' \in [Tasks -> Workers \cup {None}]
  /\ queue' \in [Workers -> Seq(Tasks)]
  /\ QueueInv'
  /\ \A u \in Tasks : binding[u] # None => binding'[u] = binding[u]
  /\ \A u \in Tasks : Waiting(u)' = Waiting(u) + (IF u = t THEN 1 ELSE 0)

LEMMA AddTaskAdds ==
  ASSUME PoolType, QueueInv, NEW t \in Tasks, addTask(t)
  PROVE  Added(t)
  <1>1. PICK v \in Workers :
          /\ binding[t] \in {None, v}
          /\ binding' = [binding EXCEPT ![t] = v]
          /\ queue' = [queue EXCEPT ![v] = Append(@, t)]
    BY DEF addTask
  <1>2. /\ binding' \in [Tasks -> Workers \cup {None}]
        /\ queue' \in [Workers -> Seq(Tasks)]
        /\ queue[v] \in Seq(Tasks)
    BY <1>1 DEF PoolType
  <1>3. \A u \in Tasks : binding[u] # None => binding'[u] = binding[u]
    BY <1>1 DEF PoolType
  <1>4. \A w \in Workers \ {v} : queue'[w] = queue[w]
    BY <1>1 DEF PoolType
  <1>5. queue'[v] = Append(queue[v], t)
    BY <1>1 DEF PoolType
  <1>6. binding'[t] = v /\ \A u \in Tasks \ {t} : binding'[u] = binding[u]
    BY <1>1 DEF PoolType
  <1>7. QueueInv'
    <2> SUFFICES ASSUME NEW w \in Workers, NEW i \in 1..Len(queue'[w])
                 PROVE  binding'[queue'[w][i]] = w
      BY DEF QueueInv
    <2>1. CASE w # v
      <3>1. queue'[w] = queue[w] /\ i \in 1..Len(queue[w]) /\ queue[w][i] \in Tasks
        BY <1>4, <2>1 DEF PoolType
      <3>2. binding[queue[w][i]] = w
        BY <3>1 DEF QueueInv
      <3> QED
        BY <1>3, <3>1, <3>2, ConstantsFacts
    <2>2. CASE w = v /\ i = Len(queue[v]) + 1
      BY <1>2, <1>5, <1>6, <2>2
    <2>3. CASE w = v /\ i # Len(queue[v]) + 1
      <3>1. i \in 1..Len(queue[v]) /\ queue'[w][i] = queue[v][i] /\ queue[v][i] \in Tasks
        BY <1>2, <1>5, <2>3
      <3>2. binding[queue[v][i]] = v
        BY <3>1 DEF QueueInv
      <3> QED
        BY <1>3, <2>3, <3>1, <3>2, ConstantsFacts
    <2> QED
      BY <2>1, <2>2, <2>3
  <1>8. ASSUME NEW u \in Tasks
        PROVE  Waiting(u)' = Waiting(u) + (IF u = t THEN 1 ELSE 0)
    <2>1. Count(queue'[v], u) = Count(queue[v], u) + (IF t = u THEN 1 ELSE 0)
      BY <1>2, <1>5, CountAppend
    <2>2. Count(queue[v], u) \in Nat
      BY <1>2, CountType
    <2>3. Waiting(u)' = IF binding'[u] = None THEN 0 ELSE Count(queue'[binding'[u]], u)
      BY DEF Waiting, Entries, Count
    <2>4. Waiting(u) = IF binding[u] = None THEN 0 ELSE Count(queue[binding[u]], u)
      BY DEF Waiting, Entries, Count
    <2>5. CASE u = t /\ binding[t] = v
      BY <1>6, <2>1, <2>3, <2>4, <2>5, ConstantsFacts
    <2>6. CASE u = t /\ binding[t] = None
      <3>1. \A i \in 1..Len(queue[v]) : queue[v][i] # t
        BY <2>6, ConstantsFacts DEF QueueInv
      <3>2. Count(queue[v], t) = 0
        BY <1>2, <3>1, CountType
      <3> QED
        BY <1>6, <2>1, <2>3, <2>4, <2>6, <3>2, ConstantsFacts
    <2>7. CASE u # t
      <3>1. Waiting(u) \in Nat
        BY WaitingType
      <3>2. CASE binding[u] = v
        BY <1>6, <2>1, <2>2, <2>3, <2>4, <2>7, <3>2, ConstantsFacts
      <3>3. CASE binding[u] = None
        BY <1>6, <2>3, <2>4, <2>7, <3>3
      <3>4. CASE binding[u] # v /\ binding[u] # None
        <4>1. binding[u] \in Workers /\ queue'[binding[u]] = queue[binding[u]]
          BY <1>4, <3>4 DEF PoolType
        <4> QED
          BY <1>6, <2>3, <2>4, <2>7, <3>1, <4>1
      <3> QED
        BY <3>2, <3>3, <3>4
    <2> QED
      BY <1>1, <2>5, <2>6, <2>7
  <1> QED
    BY <1>2, <1>3, <1>7, <1>8 DEF Added

(* Nobody's queue changes.                                                 *)
LEMMA QueuesSame ==
  ASSUME QueueInv, UNCHANGED <<binding, queue>>
  PROVE  QueueInv' /\ \A u \in Tasks : Waiting(u)' = Waiting(u)
  BY DEF QueueInv, Waiting, Entries

(* runTasks pops a handle: one entry less for it.                          *)
LEMMA PopTakes ==
  ASSUME PoolType, QueueInv, NEW w \in Workers, queue[w] # <<>>,
         queue' = [queue EXCEPT ![w] = Tail(@)], binding' = binding
  PROVE  /\ queue' \in [Workers -> Seq(Tasks)]
         /\ QueueInv'
         /\ Head(queue[w]) \in Tasks
         /\ binding[Head(queue[w])] = w
         /\ \A u \in Tasks :
              /\ Waiting(u) = Waiting(u)' + (IF u = Head(queue[w]) THEN 1 ELSE 0)
              /\ Waiting(u)' \in Nat
  <1> DEFINE h == Head(queue[w])
  <1>1. queue[w] \in Seq(Tasks) /\ Tail(queue[w]) \in Seq(Tasks) /\ h \in Tasks /\ h = queue[w][1]
        /\ 1 \in 1..Len(queue[w])
    BY DEF PoolType
  <1>2. binding[h] = w
    BY <1>1 DEF QueueInv
  <1>3. /\ queue' \in [Workers -> Seq(Tasks)]
        /\ queue'[w] = Tail(queue[w])
        /\ \A v \in Workers \ {w} : queue'[v] = queue[v]
    BY <1>1 DEF PoolType
  <1>4. QueueInv'
    <2> SUFFICES ASSUME NEW v \in Workers, NEW i \in 1..Len(queue'[v])
                 PROVE  binding[queue'[v][i]] = v
      BY DEF QueueInv
    <2>1. CASE v = w
      <3>1. i + 1 \in 1..Len(queue[w]) /\ queue'[v][i] = queue[w][i + 1]
        BY <1>1, <1>3, <2>1
      <3> QED
        BY <2>1, <3>1 DEF QueueInv
    <2>2. CASE v # w
      BY <1>3, <2>2 DEF QueueInv
    <2> QED
      BY <2>1, <2>2
  <1>5. ASSUME NEW u \in Tasks
        PROVE  /\ Waiting(u) = Waiting(u)' + (IF u = h THEN 1 ELSE 0)
               /\ Waiting(u)' \in Nat
    <2>1. Count(queue[w], u) = Count(queue'[w], u) + (IF h = u THEN 1 ELSE 0)
      BY <1>1, <1>3, CountTail
    <2>2. Count(queue'[w], u) \in Nat
      BY <1>1, <1>3, CountType
    <2>3. Waiting(u)' = IF binding[u] = None THEN 0 ELSE Count(queue'[binding[u]], u)
      BY DEF Waiting, Entries, Count
    <2>4. Waiting(u) = IF binding[u] = None THEN 0 ELSE Count(queue[binding[u]], u)
      BY DEF Waiting, Entries, Count
    <2>5. Waiting(u) \in Nat
      BY WaitingType
    <2>6. CASE u = h
      BY <1>2, <2>1, <2>2, <2>3, <2>4, <2>6, ConstantsFacts
    <2>7. CASE u # h /\ binding[u] = w
      BY <2>1, <2>2, <2>3, <2>4, <2>7, ConstantsFacts
    <2>8. CASE u # h /\ binding[u] # w
      <3>1. binding[u] = None \/ queue'[binding[u]] = queue[binding[u]]
        BY <1>3, <2>8 DEF PoolType
      <3> QED
        BY <2>3, <2>4, <2>5, <2>8, <3>1
    <2> QED
      BY <2>6, <2>7, <2>8
  <1> QED
    BY <1>1, <1>2, <1>3, <1>4, <1>5

(* cleanTasks: the tasks of gone have no entry any more, the others all.   *)
LEMMA CleanKeeps ==
  ASSUME PoolType, QueueInv, NEW gone, gone \subseteq Tasks,
         binding' = [t \in Tasks |-> IF t \in gone THEN None ELSE binding[t]],
         queue' = [w \in Workers |-> Without(queue[w], gone)]
  PROVE  /\ binding' \in [Tasks -> Workers \cup {None}]
         /\ queue' \in [Workers -> Seq(Tasks)]
         /\ QueueInv'
         /\ \A u \in Tasks : u \notin gone => Waiting(u)' = Waiting(u)
  <1>1. binding' \in [Tasks -> Workers \cup {None}]
    BY DEF PoolType
  <1>2. ASSUME NEW w \in Workers
        PROVE  /\ queue'[w] \in Seq(Tasks)
               /\ \A j \in 1..Len(queue'[w]) :
                    /\ queue'[w][j] \notin gone
                    /\ \E i \in 1..Len(queue[w]) : queue[w][i] = queue'[w][j]
               /\ \A e : e \notin gone => Count(queue'[w], e) = Count(queue[w], e)
    <2>1. queue'[w] = Without(queue[w], gone) /\ queue[w] \in Seq(Tasks)
      BY DEF PoolType
    <2> QED
      BY <2>1, WithoutFacts
  <1>3. queue' \in [Workers -> Seq(Tasks)]
    BY <1>2
  <1>4. QueueInv'
    <2> SUFFICES ASSUME NEW w \in Workers, NEW j \in 1..Len(queue'[w])
                 PROVE  binding'[queue'[w][j]] = w
      BY DEF QueueInv
    <2>1. PICK i \in 1..Len(queue[w]) : queue[w][i] = queue'[w][j]
      BY <1>2
    <2>2. queue'[w][j] \in Tasks \ gone
      BY <1>2
    <2> QED
      BY <2>1, <2>2 DEF QueueInv
  <1>5. ASSUME NEW u \in Tasks, u \notin gone PROVE Waiting(u)' = Waiting(u)
    <2>1. binding'[u] = binding[u]
      BY <1>5
    <2>2. Waiting(u)' = IF binding'[u] = None THEN 0 ELSE Count(queue'[binding'[u]], u)
      BY DEF Waiting, Entries, Count
    <2>3. Waiting(u) = IF binding[u] = None THEN 0 ELSE Count(queue[binding[u]], u)
      BY DEF Waiting, Entries, Count
    <2>4. CASE binding[u] = None
      BY <2>1, <2>2, <2>3, <2>4
    <2>5. CASE binding[u] # None
      <3>1. binding[u] \in Workers
        BY <2>5 DEF PoolType
      <3>2. Count(queue'[binding[u]], u) = Count(queue[binding[u]], u)
        BY <1>2, <1>5, <3>1
      <3> QED
        BY <2>1, <2>2, <2>3, <3>2
    <2> QED
      BY <2>4, <2>5
  <1> QED
    BY <1>1, <1>3, <1>4, <1>5

(* A worker leaves or enters a coroutine.                                  *)
LEMMA HolderLeaves ==
  ASSUME PoolType, HeldInv, NEW w \in Workers, holder[w] # None,
         holder' = [holder EXCEPT ![w] = None]
  PROVE  /\ holder' \in [Workers -> Tasks \cup {None}]
         /\ Held(holder[w]) = 1
         /\ \A v \in Workers \ {w} : holder'[v] = holder[v] /\ holder[v] # holder[w]
         /\ holder'[w] = None
         /\ \A u \in Tasks : Held(u)' = IF u = holder[w] THEN 0 ELSE Held(u)
  <1> DEFINE t == holder[w]
  <1>1. /\ holder' \in [Workers -> Tasks \cup {None}]
        /\ holder'[w] = None
        /\ \A v \in Workers \ {w} : holder'[v] = holder[v]
    BY DEF PoolType
  <1>2. \A v \in Workers \ {w} : holder[v] # t
    BY DEF HeldInv
  <1>4. Held(t) = 1
    BY DEF Held
  <1>5. ASSUME NEW u \in Tasks PROVE Held(u)' = IF u = t THEN 0 ELSE Held(u)
    <2>1. CASE u = t
      BY <1>1, <1>2, <2>1, ConstantsFacts DEF Held
    <2>2. CASE u # t
      <3>1. (\E v \in Workers : holder'[v] = u) <=> (\E v \in Workers : holder[v] = u)
        BY <1>1, <2>2, ConstantsFacts
      <3> QED
        BY <2>2, <3>1 DEF Held
    <2> QED
      BY <2>1, <2>2
  <1>6. t \in Tasks /\ t # None
    BY DEF PoolType
  <1> QED
    BY <1>1, <1>2, <1>4, <1>5, <1>6

LEMMA HolderEnters ==
  ASSUME PoolType, HeldInv, NEW w \in Workers, holder[w] = None,
         NEW t \in Tasks, binding[t] = w,
         holder' = [holder EXCEPT ![w] = t]
  PROVE  /\ holder' \in [Workers -> Tasks \cup {None}]
         /\ \A v \in Workers \ {w} : holder'[v] = holder[v]
         /\ holder'[w] = t
         /\ \A u \in Tasks : Held(u)' = IF u = t THEN 1 ELSE Held(u)
         /\ Held(t) = 0
  <1>1. /\ holder' \in [Workers -> Tasks \cup {None}]
        /\ holder'[w] = t
        /\ \A v \in Workers \ {w} : holder'[v] = holder[v]
    BY DEF PoolType
  <1>2. \A v \in Workers : holder[v] # t
    BY ConstantsFacts DEF HeldInv
  <1>3. ASSUME NEW u \in Tasks PROVE Held(u)' = IF u = t THEN 1 ELSE Held(u)
    <2>1. CASE u = t
      BY <1>1, <2>1 DEF Held
    <2>2. CASE u # t
      <3>1. (\E v \in Workers : holder'[v] = u) <=> (\E v \in Workers : holder[v] = u)
        BY <1>1, <2>2, ConstantsFacts
      <3> QED
        BY <2>2, <3>1 DEF Held
    <2> QED
      BY <2>1, <2>2
  <1> QED
    BY <1>1, <1>2, <1>3 DEF Held

(* From WakeInv, WakesKept: a coroutine is inside of one worker at most.   *)
LEMMA WakesCounted ==
  ASSUME PoolType, HeldInv, WakeInv
  PROVE  WakesKept
  <1> SUFFICES ASSUME NEW t \in Frames, frame[t] = "live"
               PROVE  code[t].wakes = Cardinality({w \in Workers : holder[w] = t})
                                        + (IF binding[t] = None THEN 0 ELSE Entries(t, binding[t]))
    BY DEF WakesKept
  <1>1. Cardinality({w \in Workers : holder[w] = t}) = Held(t)
    <2>1. CASE \E w \in Workers : holder[w] = t
      <3>1. PICK w \in Workers : holder[w] = t
        BY <2>1
      <3>2. \A v \in Workers : holder[v] = t => v = w
        BY <3>1, ConstantsFacts DEF HeldInv
      <3>3. {v \in Workers : holder[v] = t} = {w}
        BY <3>1, <3>2
      <3> QED
        BY <2>1, <3>3, FS_Singleton DEF Held
    <2>2. CASE ~\E w \in Workers : holder[w] = t
      <3>1. {v \in Workers : holder[v] = t} = {}
        BY <2>2
      <3> QED
        BY <2>2, <3>1, FS_EmptySet DEF Held
    <2> QED
      BY <2>1, <2>2
  <1>2. code[t].wakes = Held(t) + Waiting(t)
    BY DEF WakeInv
  <1> QED
    BY <1>1, <1>2 DEF Waiting

-----------------------------------------------------------------------------
(* The sockets' part: steps that leave descriptors, addresses and events   *)
(* alone.                                                                  *)

SameEnds(c) ==
  /\ sock'[c].st = sock[c].st /\ sock'[c].fd = sock[c].fd /\ sock'[c].ptr = sock[c].ptr
  /\ sock'[c].fin = sock[c].fin
  /\ sock'[c].in # <<>> => sock[c].in # <<>>
SameTask(t) ==
  /\ code'[t].kind = code[t].kind /\ code'[t].conn = code[t].conn
  /\ code'[t].wakes = code[t].wakes

Calm ==
  /\ UNCHANGED <<events, ready>>
  /\ ended' \in {"no", "freed", "thrown", "sigpipe"} /\ (ended' = "no" => ended = "no")
  /\ \A t \in Frames :
       /\ SameTask(t)
       /\ frame[t] = "free" => frame'[t] = "free"
       /\ frame'[t] = "live" => frame[t] = "live"
  /\ frame'[Waiter] = "live" /\ frame'[Acceptor] = "live"
  /\ code'[Waiter].at = "dispatch" <=> code[Waiter].at = "dispatch"
  /\ \A v \in Workers :
       holder[v] = Waiter /\ code[Waiter].at = "dispatch" => holder'[v] = Waiter
  /\ \A c \in Conns : SameEnds(c)

(* What CoreInv says of the sockets.                                       *)
SockInv == EventType /\ WaitInv /\ FrameInv /\ FdInv /\ PtrInv /\ FirstEventComes

LEMMA CalmKeeps ==
  ASSUME NEW D, CoreInv(D), Calm, PoolType', DataType(D)'
  PROVE  SockInv'
  <1>1. \A c \in Conns : SameEnds(c) /\ sock[c].st # "open" => c \notin ready
    BY DEF CoreInv, EventType, Calm
  <1>2. EventType'
    BY DEF CoreInv, EventType, Calm, SameEnds
  <1>3. WaitInv'
    BY DEF CoreInv, WaitInv, Calm, SameEnds
  <1>4. \A t \in Frames :
          /\ code'[t].conn = code[t].conn /\ code'[t].kind = code[t].kind
          /\ frame'[t] # "free" => frame[t] # "free"
    BY DEF Calm, SameTask
  <1>5. FrameInv'
    BY <1>4 DEF CoreInv, FrameInv, Calm, SameEnds
  <1>6. FdInv'
    BY DEF CoreInv, FdInv, Calm, SameEnds
  <1>7. PtrInv'
    <2> SUFFICES ASSUME NEW t \in Frames, frame'[t] # "free", code'[t].kind = "handler"
                 PROVE  sock'[code'[t].conn].ptr = t
      BY DEF PtrInv
    <2>1. frame[t] # "free" /\ code[t].kind = "handler" /\ code'[t].conn = code[t].conn
      BY <1>4
    <2>2. code[t].conn \in Conns /\ sock[code[t].conn].ptr = t
      BY <2>1 DEF CoreInv, FrameInv, PtrInv
    <2> QED
      BY <2>1, <2>2 DEF Calm, SameEnds
  <1>8. FirstEventComes'
    <2> SUFFICES ASSUME NEW c \in Conns, ended' = "no", sock'[c].st = "open",
                        sock'[c].in # <<>> \/ sock'[c].fin # "no",
                        frame'[sock'[c].ptr] = "live",
                        code'[sock'[c].ptr].conn = c,
                        code'[sock'[c].ptr].wakes = 0
                 PROVE  c \in ready' \cup events'
      BY DEF FirstEventComes, Running
    <2>1. SameEnds(c)
      BY DEF Calm
    <2>2. sock[c].ptr \in Frames /\ sock'[c].ptr = sock[c].ptr /\ sock[c].st = "open"
      BY <2>1 DEF SameEnds, CoreInv, FdInv
    <2>3. SameTask(sock[c].ptr) /\ frame[sock[c].ptr] = "live"
      BY <2>2 DEF Calm
    <2>4. ended = "no" /\ (sock[c].in # <<>> \/ sock[c].fin # "no")
      BY <2>1 DEF Calm, SameEnds
    <2>5. c \in ready \cup events
      BY <2>2, <2>3, <2>4 DEF SameTask, CoreInv, FirstEventComes, Running
    <2> QED
      BY <2>5 DEF Calm
  <1> QED
    BY <1>2, <1>3, <1>5, <1>6, <1>7, <1>8 DEF SockInv

LEMMA CoreFromParts ==
  ASSUME NEW D, PoolType', DataType(D)', QueueInv', HeldInv', WakeInv', SockInv'
  PROVE  CoreInv(D)'
  BY DEF CoreInv, SockInv

(* The coroutine on w goes on, or ends: what all steps of a handler are    *)
(* that create no coroutine.                                               *)
Going(w, t, D) ==
  /\ holder[w] = t
  /\ DataType(D)'
  /\ UNCHANGED <<binding, queue, events, ready>>
  /\ ended' \in {"no", "freed", "thrown", "sigpipe"} /\ (ended' = "no" => ended = "no")
  /\ \/ UNCHANGED <<holder, frame>>
     \/ holder' = [holder EXCEPT ![w] = None] /\ frame' = [frame EXCEPT ![t] = "done"]
  /\ \A u \in Frames : SameTask(u)
  /\ code'[Waiter].at = code[Waiter].at
  /\ \A c \in Conns : SameEnds(c)

LEMMA GoingKeeps ==
  ASSUME NEW D, CoreInv(D), NEW w \in Workers, NEW t \in Frames, Going(w, t, D)
  PROVE  CoreInv(D)'
  <1> USE DEF CoreInv
  <1>1. QueueInv' /\ \A u \in Tasks : Waiting(u)' = Waiting(u)
    BY QueuesSame DEF Going
  <1>2. t # None /\ t # Waiter /\ t # Acceptor /\ t \in Tasks
    BY ConstantsFacts
  <1>3. CASE UNCHANGED <<holder, frame>>
    <2>1. PoolType'
      BY <1>3 DEF Going, PoolType
    <2>2. HeldInv'
      BY <1>3 DEF Going, HeldInv
    <2>3. \A u \in Tasks : Held(u)' = Held(u)
      BY <1>3 DEF Held
    <2>4. WakeInv'
      BY <1>1, <1>3, <2>3, ConstantsFacts DEF Going, SameTask, WakeInv
    <2>5. Calm
      BY <1>3 DEF Going, Calm, WaitInv
    <2> HIDE DEF CoreInv
    <2>6. SockInv'
      BY <2>1, <2>5, CalmKeeps DEF Going
    <2> QED
      BY <1>1, <2>1, <2>2, <2>4, <2>6, CoreFromParts DEF Going
  <1>4. CASE holder' = [holder EXCEPT ![w] = None] /\ frame' = [frame EXCEPT ![t] = "done"]
    <2>1. /\ holder' \in [Workers -> Tasks \cup {None}]
          /\ \A v \in Workers \ {w} : holder'[v] = holder[v] /\ holder[v] # t
          /\ holder'[w] = None
          /\ \A u \in Tasks : Held(u)' = IF u = t THEN 0 ELSE Held(u)
      BY <1>2, <1>4, HolderLeaves DEF Going
    <2>2. /\ frame'[t] = "done" /\ \A u \in Tasks \ {t} : frame'[u] = frame[u]
          /\ frame' \in [Tasks -> {"free", "live", "done"}]
      BY <1>2, <1>4 DEF PoolType
    <2>3. PoolType'
      BY <2>1, <2>2 DEF Going, PoolType
    <2>4. HeldInv'
      <3> SUFFICES ASSUME NEW v \in Workers, holder'[v] # None
                   PROVE  frame'[holder'[v]] = "live" /\ binding'[holder'[v]] = v
        BY DEF HeldInv
      <3>1. v # w /\ holder'[v] = holder[v] /\ holder[v] \in Tasks \ {t}
        BY <2>1 DEF PoolType
      <3> QED
        BY <2>2, <3>1 DEF HeldInv, Going
    <2>5. WakeInv'
      <3> SUFFICES ASSUME NEW u \in Frames, frame'[u] = "live"
                   PROVE  code'[u].wakes = Held(u)' + Waiting(u)'
        BY DEF WakeInv
      <3>1. u # t /\ u \in Tasks /\ frame[u] = "live"
        BY <2>2, ConstantsFacts
      <3> QED
        BY <1>1, <2>1, <3>1 DEF WakeInv, Going, SameTask
    <2>6. Calm
      <3>1. \A u \in Frames : /\ frame[u] = "free" => frame'[u] = "free"
                              /\ frame'[u] = "live" => frame[u] = "live"
        <4>1. frame[t] = "live"
          BY <1>2 DEF HeldInv, Going
        <4> QED
          BY <2>2, <4>1, ConstantsFacts
      <3>2. frame'[Waiter] = "live" /\ frame'[Acceptor] = "live"
        BY <1>2, <2>2, ConstantsFacts DEF WaitInv
      <3>3. \A v \in Workers : holder[v] = Waiter => holder'[v] = Waiter
        BY <1>2, <2>1 DEF Going
      <3> QED
        BY <3>1, <3>2, <3>3 DEF Going, Calm
    <2> HIDE DEF CoreInv
    <2>7. SockInv'
      BY <2>3, <2>6, CalmKeeps DEF Going
    <2> QED
      BY <1>1, <2>3, <2>4, <2>5, <2>7, CoreFromParts DEF Going
  <1> QED
    BY <1>3, <1>4 DEF Going

(* The coroutine on w creates one for its own connection and adds it to    *)
(* the pool; then it goes on, or ends.                                     *)
Spawning(w, t, D) ==
  /\ holder[w] = t
  /\ FreeFrames # {}
  /\ DataType(D)'
  /\ addTask(NewFrame)
  /\ UNCHANGED <<events, ready, sock, ended>>
  /\ \/ holder' = holder /\ frame' = [frame EXCEPT ![NewFrame] = "live"]
     \/ /\ holder' = [holder EXCEPT ![w] = None]
        /\ frame' = [frame EXCEPT ![NewFrame] = "live", ![t] = "done"]
  /\ code'[NewFrame].kind # "handler" /\ code'[NewFrame].conn = code[t].conn
  /\ code'[NewFrame].wakes = Waiting(NewFrame) + 1
  /\ \A u \in Frames \ {NewFrame} : SameTask(u)
  /\ code'[Waiter].at = code[Waiter].at

LEMMA NewFrameIsFree ==
  ASSUME FreeFrames # {}
  PROVE  NewFrame \in Frames /\ frame[NewFrame] = "free"
  <1>1. NewFrame \in FreeFrames
    BY DEF NewFrame
  <1> QED
    BY <1>1 DEF FreeFrames

LEMMA SpawningKeeps ==
  ASSUME NEW D, CoreInv(D), NEW w \in Workers, NEW t \in Frames, Spawning(w, t, D)
  PROVE  CoreInv(D)'
  <1> DEFINE n == NewFrame
  <1> USE DEF CoreInv
  <1>1. n \in Frames /\ frame[n] = "free" /\ n \in Tasks
    BY NewFrameIsFree, ConstantsFacts DEF Spawning
  <1>2. Added(n)
    BY <1>1, AddTaskAdds DEF Spawning
  <1> HIDE DEF n
  <1>3. t # None /\ t # Waiter /\ t # Acceptor /\ t \in Tasks /\ n # Waiter /\ n # Acceptor /\ n # None
    BY <1>1, ConstantsFacts
  <1>4. frame[t] = "live" /\ t # n /\ code[t].conn \in Conns /\ sock[code[t].conn].st = "open"
        /\ binding[t] = w
    <2>1. frame[t] = "live" /\ binding[t] = w
      BY <1>3 DEF Spawning, HeldInv
    <2> QED
      BY <1>1, <2>1 DEF FrameInv
  <1>5. \A v \in Workers : holder[v] # n
    BY <1>1, <1>3 DEF HeldInv
  <1>6. Held(n) = 0
    BY <1>5 DEF Held
  <1>7. /\ frame' \in [Tasks -> {"free", "live", "done"}]
        /\ frame'[n] = "live"
        /\ \A u \in Tasks \ {n, t} : frame'[u] = frame[u]
        /\ frame'[t] \in {"live", "done"}
    BY <1>1, <1>3, <1>4 DEF Spawning, PoolType, n
  <1>8. /\ holder' \in [Workers -> Tasks \cup {None}]
        /\ \A v \in Workers \ {w} : holder'[v] = holder[v] /\ holder[v] # t
        /\ holder'[w] \in {t, None}
        /\ frame'[t] = "live" => holder'[w] = t
        /\ frame'[t] = "done" => holder'[w] = None
    <2>1. \A v \in Workers \ {w} : holder[v] # t
      BY <1>3, <1>4 DEF HeldInv
    <2> QED
      BY <1>1, <1>3, <1>4, <1>7, <2>1 DEF Spawning, PoolType, n
  <1>9. \A u \in Tasks : u # t \/ frame'[t] = "live" => Held(u)' = Held(u)
    <2> SUFFICES ASSUME NEW u \in Tasks, u # t \/ frame'[t] = "live"
                 PROVE  Held(u)' = Held(u)
      OBVIOUS
    <2>1. \A v \in Workers : (holder'[v] = u) <=> (holder[v] = u)
      BY <1>3, <1>8, ConstantsFacts DEF Spawning
    <2> QED
      BY <2>1 DEF Held
  <1>10. PoolType'
    BY <1>2, <1>7, <1>8 DEF Added, PoolType
  <1>11. QueueInv'
    BY <1>2 DEF Added
  <1>12. HeldInv'
    <2> SUFFICES ASSUME NEW v \in Workers, holder'[v] # None
                 PROVE  frame'[holder'[v]] = "live" /\ binding'[holder'[v]] = v
      BY DEF HeldInv
    <2>1. holder'[v] = holder[v] /\ holder[v] \in Tasks \ {n} /\ (holder[v] = t => frame'[t] = "live")
      BY <1>3, <1>5, <1>7, <1>8, ConstantsFacts DEF PoolType, Spawning
    <2>2. frame[holder[v]] = "live" /\ binding[holder[v]] = v
      BY <2>1, ConstantsFacts DEF HeldInv
    <2>3. binding'[holder[v]] = v
      BY <1>2, <2>1, <2>2, ConstantsFacts DEF Added
    <2> QED
      BY <1>7, <2>1, <2>2, <2>3
  <1>13. WakeInv'
    <2> SUFFICES ASSUME NEW u \in Frames, frame'[u] = "live"
                 PROVE  code'[u].wakes = Held(u)' + Waiting(u)'
      BY DEF WakeInv
    <2>0. u \in Tasks /\ Held(u)' = Held(u)
      BY <1>1, <1>7, <1>9, ConstantsFacts
    <2>1. CASE u = n
      <3>1. Waiting(u)' = Waiting(n) + 1
        BY <1>2, <2>0, <2>1 DEF Added
      <3>2. code'[u].wakes = Waiting(n) + 1 /\ Waiting(n) \in Nat
        BY <2>0, <2>1, WaitingType DEF Spawning, n
      <3> QED
        BY <1>6, <2>0, <2>1, <3>1, <3>2
    <2>2. CASE u # n
      <3>1. Waiting(u)' = Waiting(u) /\ Waiting(u) \in Nat
        BY <1>2, <2>0, <2>2, WaitingType DEF Added
      <3>2. frame[u] = "live" /\ code'[u].wakes = code[u].wakes
        BY <1>4, <1>7, <2>0, <2>2 DEF Spawning, SameTask, n
      <3> QED
        BY <2>0, <3>1, <3>2 DEF WakeInv
    <2> QED
      BY <2>1, <2>2
  <1>14. \A u \in Frames \ {n} :
           SameTask(u) /\ (frame'[u] # "free" => frame[u] # "free")
                       /\ (frame'[u] = "live" => frame[u] = "live")
    BY <1>4, <1>7, ConstantsFacts DEF Spawning, n
  <1>15. EventType'
    BY DEF Spawning, EventType
  <1>16. WaitInv'
    <2>1. frame'[Waiter] = "live" /\ frame'[Acceptor] = "live"
      BY <1>3, <1>7, ConstantsFacts DEF WaitInv
    <2>2. \A v \in Workers : holder[v] = Waiter => holder'[v] = Waiter
      BY <1>3, <1>8 DEF Spawning
    <2> QED
      BY <2>1, <2>2 DEF Spawning, WaitInv
  <1>17. FrameInv'
    <2> SUFFICES ASSUME NEW u \in Frames, frame'[u] # "free"
                 PROVE  code'[u].conn \in Conns /\ sock'[code'[u].conn].st = "open"
      BY DEF FrameInv
    <2>1. CASE u = n
      BY <1>4, <2>1 DEF Spawning, n
    <2>2. CASE u # n
      BY <1>14, <2>2 DEF Spawning, FrameInv, SameTask
    <2> QED
      BY <2>1, <2>2
  <1>18. FdInv'
    BY DEF Spawning, FdInv
  <1>19. PtrInv'
    <2> SUFFICES ASSUME NEW u \in Frames, frame'[u] # "free", code'[u].kind = "handler"
                 PROVE  sock'[code'[u].conn].ptr = u
      BY DEF PtrInv
    <2>1. u # n
      BY DEF Spawning, n
    <2> QED
      BY <1>14, <2>1 DEF Spawning, PtrInv, SameTask
  <1>20. FirstEventComes'
    <2> SUFFICES ASSUME NEW c \in Conns, ended' = "no", sock'[c].st = "open",
                        sock'[c].in # <<>> \/ sock'[c].fin # "no",
                        frame'[sock'[c].ptr] = "live",
                        code'[sock'[c].ptr].conn = c,
                        code'[sock'[c].ptr].wakes = 0
                 PROVE  c \in ready' \cup events'
      BY DEF FirstEventComes, Running
    <2>1. sock[c].ptr \in Frames /\ sock'[c].ptr = sock[c].ptr
      BY DEF Spawning, FdInv
    <2>2. sock[c].ptr # n
      BY <1>1, <2>1, WaitingType DEF Spawning, n
    <2> QED
      BY <1>14, <2>1, <2>2 DEF Spawning, SameTask, FirstEventComes, Running
  <1> HIDE DEF CoreInv
  <1>21. SockInv'
    BY <1>15, <1>16, <1>17, <1>18, <1>19, <1>20 DEF SockInv
  <1> QED
    BY <1>10, <1>11, <1>12, <1>13, <1>21, CoreFromParts DEF Spawning

-----------------------------------------------------------------------------
(* The steps of EpollServer.                                               *)

LEMMA MovedTask ==
  ASSUME NEW D, DataType(D), NEW t \in Tasks,
         NEW a \in {"none", "run", "yield", "dispatch", "respond"},
         code' = [code EXCEPT ![t].at = a]
  PROVE  /\ code' \in [Tasks -> Coroutines(D)]
         /\ \A u \in Tasks : SameTask(u) /\ code'[u].at = IF u = t THEN a ELSE code[u].at
         /\ \A u \in Tasks \ {t} : code'[u] = code[u]
  BY ZenonT(60) DEF DataType, Coroutines, SameTask

LEMMA RunTaskKeeps ==
  ASSUME NEW D, CoreInv(D), NEW w \in Workers, RunTask(w)
  PROVE  CoreInv(D)'
  <1> DEFINE h == Head(queue[w])
  <1>1. /\ queue' \in [Workers -> Seq(Tasks)] /\ QueueInv'
        /\ h \in Tasks /\ binding[h] = w
        /\ \A u \in Tasks : /\ Waiting(u) = Waiting(u)' + (IF u = h THEN 1 ELSE 0)
                            /\ Waiting(u)' \in Nat
    BY PopTakes DEF RunTask, CoreInv
  <1> HIDE DEF h
  <1>2. DataType(D)'
    BY DEF RunTask, CoreInv, DataType
  <1>3. \A u \in Tasks : u # h => Waiting(u)' = Waiting(u)
    BY <1>1
  <1>4. CASE frame[h] = "live"
    <2>1. /\ holder' \in [Workers -> Tasks \cup {None}]
          /\ \A v \in Workers \ {w} : holder'[v] = holder[v]
          /\ holder'[w] = h
          /\ \A u \in Tasks : Held(u)' = IF u = h THEN 1 ELSE Held(u)
          /\ Held(h) = 0
      BY <1>1, <1>4, HolderEnters DEF RunTask, CoreInv, h
    <2>2. PoolType'
      BY <1>1, <2>1 DEF RunTask, CoreInv, PoolType
    <2>3. HeldInv'
      BY <1>1, <1>4, <2>1 DEF RunTask, CoreInv, HeldInv
    <2>4. WakeInv'
      <3> SUFFICES ASSUME NEW u \in Frames, frame[u] = "live"
                   PROVE  code[u].wakes = Held(u)' + Waiting(u)'
        BY DEF WakeInv, RunTask
      <3>1. u \in Tasks /\ code[u].wakes = Held(u) + Waiting(u)
        BY ConstantsFacts DEF CoreInv, WakeInv
      <3>2. CASE u = h
        BY <1>1, <2>1, <3>1, <3>2
      <3>3. CASE u # h
        BY <1>3, <2>1, <3>1, <3>3
      <3> QED
        BY <3>2, <3>3
    <2>5. Calm
      <3>1. \A v \in Workers : holder[v] = Waiter => holder'[v] = Waiter
        BY <2>1, ConstantsFacts DEF RunTask
      <3>2. frame[Waiter] = "live" /\ frame[Acceptor] = "live" /\ ended \in {"no", "freed", "thrown", "sigpipe"}
        BY DEF CoreInv, WaitInv, EventType
      <3>3. UNCHANGED <<frame, code, events, ready, sock, ended>>
        BY DEF RunTask, epollVars
      <3> QED
        BY <3>1, <3>2, <3>3 DEF Calm, SameTask, SameEnds
    <2>6. SockInv'
      BY <1>2, <2>2, <2>5, CalmKeeps
    <2> QED
      BY <1>1, <1>2, <2>2, <2>3, <2>4, <2>6, CoreFromParts
  <1>5. CASE frame[h] # "live"
    <2>1. holder' = holder
      BY <1>5 DEF RunTask, CoreInv, PoolType, h
    <2>2. PoolType'
      BY <1>1, <2>1 DEF RunTask, CoreInv, PoolType
    <2>3. HeldInv'
      BY <2>1 DEF RunTask, CoreInv, HeldInv
    <2>4. WakeInv'
      <3> SUFFICES ASSUME NEW u \in Frames, frame[u] = "live"
                   PROVE  code[u].wakes = Held(u)' + Waiting(u)'
        BY DEF WakeInv, RunTask
      <3>1. u \in Tasks /\ u # h /\ code[u].wakes = Held(u) + Waiting(u)
        BY <1>5, ConstantsFacts DEF CoreInv, WakeInv
      <3>2. Held(u)' = Held(u)
        BY <2>1 DEF Held
      <3> QED
        BY <1>3, <3>1, <3>2
    <2>5. Calm
      <3>2. frame[Waiter] = "live" /\ frame[Acceptor] = "live" /\ ended \in {"no", "freed", "thrown", "sigpipe"}
        BY DEF CoreInv, WaitInv, EventType
      <3>3. UNCHANGED <<holder, frame, code, events, ready, sock, ended>>
        BY <2>1 DEF RunTask, epollVars
      <3> QED
        BY <3>2, <3>3 DEF Calm, SameTask, SameEnds
    <2>6. SockInv'
      BY <1>2, <2>2, <2>5, CalmKeeps
    <2> QED
      BY <1>1, <1>2, <2>2, <2>3, <2>4, <2>6, CoreFromParts
  <1> QED
    BY <1>4, <1>5

LEMMA YieldKeeps ==
  ASSUME NEW D, CoreInv(D), NEW w \in Workers, Yield(w)
  PROVE  CoreInv(D)'
  <1> DEFINE t == holder[w]
  <1>1. t # None /\ t \in Tasks /\ code[t].at = "yield" /\ addTask(t)
        /\ code' = [code EXCEPT ![t].at = "run"]
        /\ holder' = [holder EXCEPT ![w] = None]
    BY DEF Yield, CoreInv, PoolType
  <1>2. /\ holder' \in [Workers -> Tasks \cup {None}]
        /\ Held(t) = 1
        /\ \A v \in Workers \ {w} : holder'[v] = holder[v] /\ holder[v] # t
        /\ holder'[w] = None
        /\ \A u \in Tasks : Held(u)' = IF u = t THEN 0 ELSE Held(u)
    BY <1>1, HolderLeaves DEF CoreInv
  <1> HIDE DEF t
  <1>3. Added(t)
    BY <1>1, AddTaskAdds DEF CoreInv
  <1>4. /\ code' \in [Tasks -> Coroutines(D)]
        /\ \A u \in Tasks : SameTask(u) /\ code'[u].at = IF u = t THEN "run" ELSE code[u].at
    BY <1>1, MovedTask DEF CoreInv
  <1>5. DataType(D)'
    BY <1>4 DEF Yield, CoreInv, DataType
  <1>6. PoolType'
    BY <1>2, <1>3 DEF Yield, Added, CoreInv, PoolType
  <1>7. QueueInv'
    BY <1>3 DEF Added
  <1>8. HeldInv'
    <2> SUFFICES ASSUME NEW v \in Workers, holder'[v] # None
                 PROVE  frame'[holder'[v]] = "live" /\ binding'[holder'[v]] = v
      BY DEF HeldInv
    <2>1. holder'[v] = holder[v] /\ holder[v] \in Tasks
      BY <1>2 DEF CoreInv, PoolType
    <2>2. frame[holder[v]] = "live" /\ binding[holder[v]] = v
      BY <2>1 DEF CoreInv, HeldInv
    <2> QED
      BY <1>3, <2>1, <2>2, ConstantsFacts DEF Added, Yield
  <1>9. WakeInv'
    <2> SUFFICES ASSUME NEW u \in Frames, frame[u] = "live"
                 PROVE  code'[u].wakes = Held(u)' + Waiting(u)'
      BY DEF WakeInv, Yield
    <2>1. u \in Tasks /\ code[u].wakes = Held(u) + Waiting(u) /\ Waiting(u) \in Nat
      BY WaitingType, ConstantsFacts DEF CoreInv, WakeInv
    <2>2. Waiting(u)' = Waiting(u) + (IF u = t THEN 1 ELSE 0)
      BY <1>3, <2>1 DEF Added
    <2> QED
      BY <1>2, <1>4, <2>1, <2>2, WaitingType DEF SameTask, CoreInv
  <1>10. Calm
    <2>1. code'[Waiter].at = "dispatch" <=> code[Waiter].at = "dispatch"
      BY <1>1, <1>4, ConstantsFacts
    <2>2. \A v \in Workers :
            holder[v] = Waiter /\ code[Waiter].at = "dispatch" => holder'[v] = Waiter
      BY <1>1, <1>2 DEF t
    <2>3. frame[Waiter] = "live" /\ frame[Acceptor] = "live" /\ ended \in {"no", "freed", "thrown", "sigpipe"}
      BY DEF CoreInv, WaitInv, EventType
    <2>4. UNCHANGED <<frame, events, ready, sock, ended>>
      BY DEF Yield, epollVars
    <2> QED
      BY <1>4, <2>1, <2>2, <2>3, <2>4, ConstantsFacts DEF Calm, SameEnds
  <1>11. SockInv'
    BY <1>5, <1>6, <1>10, CalmKeeps
  <1> QED
    BY <1>5, <1>6, <1>7, <1>8, <1>9, <1>11, CoreFromParts

(* The process ends, and nothing else changes.                             *)
LEMMA EndingKeeps ==
  ASSUME NEW D, CoreInv(D), UNCHANGED <<poolVars, frame, code, epollVars, sock>>,
         ended' \in {"freed", "thrown", "sigpipe"}
  PROVE  CoreInv(D)'
  <1>1. QueueInv' /\ \A u \in Tasks : Waiting(u)' = Waiting(u)
    BY QueuesSame DEF CoreInv, poolVars
  <1>2. PoolType'
    BY DEF CoreInv, PoolType, poolVars
  <1>3. DataType(D)'
    BY DEF CoreInv, DataType
  <1>4. HeldInv'
    BY DEF CoreInv, HeldInv, poolVars
  <1>5. WakeInv'
    BY <1>1, ConstantsFacts DEF CoreInv, WakeInv, Held, poolVars
  <1>6. Calm
    BY DEF Calm, CoreInv, WaitInv, SameTask, SameEnds, poolVars, epollVars
  <1>7. SockInv'
    BY <1>2, <1>3, <1>6, CalmKeeps
  <1> QED
    BY <1>1, <1>2, <1>3, <1>4, <1>5, <1>7, CoreFromParts

LEMMA AcceptSuspendKeeps ==
  ASSUME NEW D, CoreInv(D), NEW w \in Workers, AcceptSuspend(w)
  PROVE  CoreInv(D)'
  <1>0. holder[w] = Acceptor /\ Acceptor # None /\ Acceptor \in Tasks
    BY ConstantsFacts DEF AcceptSuspend, On
  <1>1. QueueInv' /\ \A u \in Tasks : Waiting(u)' = Waiting(u)
    BY QueuesSame DEF CoreInv, AcceptSuspend
  <1>2. /\ holder' \in [Workers -> Tasks \cup {None}]
        /\ \A v \in Workers \ {w} : holder'[v] = holder[v]
        /\ holder'[w] = None
        /\ \A u \in Tasks : Held(u)' = IF u = Acceptor THEN 0 ELSE Held(u)
    BY <1>0, HolderLeaves DEF CoreInv, AcceptSuspend
  <1>3. PoolType'
    BY <1>2 DEF CoreInv, PoolType, AcceptSuspend
  <1>4. DataType(D)'
    BY DEF CoreInv, DataType, AcceptSuspend
  <1>5. HeldInv'
    BY <1>2 DEF CoreInv, HeldInv, AcceptSuspend
  <1>6. WakeInv'
    BY <1>1, <1>2, ConstantsFacts DEF CoreInv, WakeInv, AcceptSuspend
  <1>7. Calm
    <2>1. \A v \in Workers : holder[v] = Waiter => holder'[v] = Waiter
      BY <1>0, <1>2, ConstantsFacts
    <2> QED
      BY <2>1 DEF Calm, CoreInv, WaitInv, EventType, SameTask, SameEnds, AcceptSuspend, epollVars
  <1>8. SockInv'
    BY <1>3, <1>4, <1>7, CalmKeeps
  <1> QED
    BY <1>1, <1>3, <1>4, <1>5, <1>6, <1>8, CoreFromParts


(* A peer does something, and the frames and the pool stay as they are.    *)
LEMMA PoolStays ==
  ASSUME NEW D, CoreInv(D), UNCHANGED <<poolVars, frame>>,
         \A t \in Frames : code'[t].wakes = code[t].wakes
  PROVE  PoolType' /\ QueueInv' /\ HeldInv' /\ WakeInv'
  <1>1. QueueInv' /\ \A u \in Tasks : Waiting(u)' = Waiting(u)
    BY QueuesSame DEF CoreInv, poolVars
  <1>2. PoolType'
    BY DEF CoreInv, PoolType, poolVars
  <1>3. HeldInv'
    BY DEF CoreInv, HeldInv, poolVars
  <1>4. WakeInv'
    BY <1>1, ConstantsFacts DEF CoreInv, WakeInv, Held, poolVars
  <1> QED
    BY <1>1, <1>2, <1>3, <1>4

(* What the peer of c may change: its end of the socket, if there is one;  *)
(* if something arrives there, the edge is raised.                         *)
Arriving(c) ==
  /\ \A d \in Conns \ {c} : sock'[d] = sock[d]
  /\ sock'[c].fd = sock[c].fd /\ sock'[c].ptr = sock[c].ptr
  /\ sock'[c].st = "open" <=> sock[c].st = "open"
  /\ \/ ready' = IF sock[c].st = "open" THEN ready \cup {c} ELSE ready
     \/ ready' = ready /\ sock[c].st # "open"
  /\ UNCHANGED <<poolVars, frame, code, events, ended>>

LEMMA ArrivingKeeps ==
  ASSUME NEW D, CoreInv(D), NEW c \in Conns, Arriving(c), DataType(D)'
  PROVE  CoreInv(D)'
  <1>1. PoolType' /\ QueueInv' /\ HeldInv' /\ WakeInv'
    BY PoolStays DEF Arriving
  <1>2. \A d \in Conns : /\ sock'[d].st = "open" <=> sock[d].st = "open"
                         /\ sock'[d].fd = sock[d].fd /\ sock'[d].ptr = sock[d].ptr
    BY DEF Arriving
  <1>3. EventType'
    BY <1>2 DEF Arriving, CoreInv, EventType
  <1>4. WaitInv'
    BY <1>2 DEF Arriving, CoreInv, WaitInv, poolVars
  <1>5. FrameInv'
    BY <1>2 DEF Arriving, CoreInv, FrameInv
  <1>6. FdInv'
    BY <1>2 DEF Arriving, CoreInv, FdInv
  <1>7. PtrInv'
    BY <1>2 DEF Arriving, CoreInv, FrameInv, PtrInv
  <1>8. FirstEventComes'
    <2> SUFFICES ASSUME NEW d \in Conns, ended' = "no", sock'[d].st = "open",
                        sock'[d].in # <<>> \/ sock'[d].fin # "no",
                        frame'[sock'[d].ptr] = "live",
                        code'[sock'[d].ptr].conn = d,
                        code'[sock'[d].ptr].wakes = 0
                 PROVE  d \in ready' \cup events'
      BY DEF FirstEventComes, Running
    <2>1. CASE d = c
      BY <2>1 DEF Arriving
    <2>2. CASE d # c
      <3>1. d \in ready \cup events
        BY <2>2 DEF Arriving, CoreInv, FirstEventComes, Running
      <3> QED
        BY <3>1 DEF Arriving
    <2> QED
      BY <2>1, <2>2
  <1>9. SockInv'
    BY <1>3, <1>4, <1>5, <1>6, <1>7, <1>8 DEF SockInv
  <1> QED
    BY <1>1, <1>9, CoreFromParts

LEMMA PeerConnectKeeps ==
  ASSUME NEW D, CoreInv(D), NEW c \in Conns, PeerConnect(c)
  PROVE  CoreInv(D)'
  <1>1. sock[c].st = "none" /\ sock' = [sock EXCEPT ![c].st = "backlog"]
    BY DEF PeerConnect
  <1>2. sock' \in [Conns -> Sockets(D)]
    BY <1>1 DEF CoreInv, DataType, Sockets
  <1>3. DataType(D)'
    BY <1>2 DEF CoreInv, DataType, PeerConnect
  <1>4. /\ \A d \in Conns \ {c} : sock'[d] = sock[d]
        /\ sock'[c].fd = sock[c].fd /\ sock'[c].ptr = sock[c].ptr /\ sock'[c].st = "backlog"
    BY <1>1 DEF CoreInv, DataType, Sockets
  <1>5. Arriving(c)
    BY <1>1, <1>4 DEF Arriving, PeerConnect, epollVars
  <1> QED
    BY <1>3, <1>5, ArrivingKeeps

LEMMA PeerSendIs ==
  ASSUME NEW D, CoreInv(D), NEW c \in Conns, NEW data \in D, PeerSend(c, data)
  PROVE  /\ sock' \in [Conns -> Sockets(D)]
         /\ \A d \in Conns \ {c} : sock'[d] = sock[d]
         /\ sock'[c].in = Append(sock[c].in, data) /\ sock'[c].put = sock[c].put + 1
         /\ sock'[c].st = sock[c].st /\ sock'[c].fd = sock[c].fd /\ sock'[c].ptr = sock[c].ptr
         /\ sock'[c].out = sock[c].out /\ sock'[c].fin = sock[c].fin
         /\ sock'[c].short = sock[c].short
  <1>1. /\ sock[c].put < MaxSends
        /\ sock' = [sock EXCEPT ![c].in = Append(@, data), ![c].put = @ + 1]
    BY DEF PeerSend
  <1> DEFINE in == Append(sock[c].in, data)
             put == sock[c].put + 1
             r == [sock[c] EXCEPT !.in = in, !.put = put]
  <1>2. sock[c] \in Sockets(D) /\ sock[c].in \in Seq(D) /\ sock[c].put \in 0..MaxSends
    BY DEF CoreInv, DataType, Sockets
  <1>3. in \in Seq(D) /\ put \in 0..MaxSends
    BY <1>1, <1>2, ConstantsAssumption
  <1>5. sock' = [sock EXCEPT ![c] = r]
    BY <1>1 DEF CoreInv, DataType
  <1> HIDE DEF in, put
  <1>4. /\ r \in Sockets(D) /\ r.st = sock[c].st /\ r.fd = sock[c].fd /\ r.ptr = sock[c].ptr
        /\ r.in = in /\ r.put = put /\ r.out = sock[c].out /\ r.fin = sock[c].fin
        /\ r.short = sock[c].short
    BY <1>2, <1>3 DEF Sockets
  <1> HIDE DEF r
  <1>6. sock' \in [Conns -> Sockets(D)] /\ sock'[c] = r /\ \A d \in Conns \ {c} : sock'[d] = sock[d]
    BY <1>4, <1>5 DEF CoreInv, DataType
  <1> QED
    BY <1>4, <1>6 DEF in, put

LEMMA PeerSendKeeps ==
  ASSUME NEW D, CoreInv(D), NEW c \in Conns, NEW data \in D, PeerSend(c, data)
  PROVE  CoreInv(D)'
  <1>1. ready' = IF sock[c].st = "open" THEN ready \cup {c} ELSE ready
    BY DEF PeerSend, Raise
  <1>2. /\ sock' \in [Conns -> Sockets(D)]
        /\ \A d \in Conns \ {c} : sock'[d] = sock[d]
        /\ sock'[c].st = sock[c].st /\ sock'[c].fd = sock[c].fd /\ sock'[c].ptr = sock[c].ptr
    BY PeerSendIs
  <1>3. DataType(D)'
    BY <1>2 DEF CoreInv, DataType, PeerSend
  <1>4. Arriving(c)
    BY <1>1, <1>2 DEF Arriving, PeerSend
  <1> QED
    BY <1>3, <1>4, ArrivingKeeps

LEMMA PeerCloseKeeps ==
  ASSUME NEW D, CoreInv(D), NEW c \in Conns, NEW how \in {"fin", "rst"}, PeerClose(c, how)
  PROVE  CoreInv(D)'
  <1>1. /\ sock' = [sock EXCEPT ![c].fin = how]
        /\ ready' = IF sock[c].st = "open" THEN ready \cup {c} ELSE ready
    BY DEF PeerClose, Raise
  <1>2. sock' \in [Conns -> Sockets(D)]
    BY <1>1 DEF CoreInv, DataType, Sockets
  <1>3. DataType(D)'
    BY <1>2 DEF CoreInv, DataType, PeerClose
  <1>4. /\ \A d \in Conns \ {c} : sock'[d] = sock[d]
        /\ sock'[c].fd = sock[c].fd /\ sock'[c].ptr = sock[c].ptr /\ sock'[c].st = sock[c].st
    BY <1>1 DEF CoreInv, DataType, Sockets
  <1>5. Arriving(c)
    BY <1>1, <1>4 DEF Arriving, PeerClose
  <1> QED
    BY <1>3, <1>5, ArrivingKeeps

LEMMA WaiterMoves ==
  ASSUME NEW D, DataType(D),
         NEW a \in {"none", "run", "yield", "dispatch", "respond"},
         code' = [code EXCEPT ![Waiter].at = a]
  PROVE  /\ code' \in [Tasks -> Coroutines(D)]
         /\ \A u \in Tasks : SameTask(u)
         /\ code'[Waiter].at = a
  <1>1. Waiter \in Tasks
    BY ConstantsFacts
  <1>2. /\ code' \in [Tasks -> Coroutines(D)]
        /\ \A u \in Tasks : SameTask(u) /\ code'[u].at = IF u = Waiter THEN a ELSE code[u].at
    BY <1>1, ZenonT(60) DEF DataType, Coroutines, SameTask
  <1> QED
    BY <1>1, <1>2

LEMMA EpollWaitKeeps ==
  ASSUME NEW D, CoreInv(D), NEW w \in Workers, EpollWait(w)
  PROVE  CoreInv(D)'
  <1>1. PICK evs \in SUBSET Reportable :
          /\ events' = evs
          /\ ready' = Keep(evs)
          /\ code' = [code EXCEPT ![Waiter].at = IF evs = {} THEN "yield" ELSE "dispatch"]
    BY DEF EpollWait
  <1>2. /\ code' \in [Tasks -> Coroutines(D)]
        /\ \A u \in Tasks : SameTask(u)
        /\ code'[Waiter].at = IF evs = {} THEN "yield" ELSE "dispatch"
    <2> DEFINE a == IF evs = {} THEN "yield" ELSE "dispatch"
    <2>1. a \in {"none", "run", "yield", "dispatch", "respond"}
      OBVIOUS
    <2>2. code' = [code EXCEPT ![Waiter].at = a]
      BY <1>1
    <2> HIDE DEF a
    <2>3. /\ code' \in [Tasks -> Coroutines(D)]
          /\ \A u \in Tasks : SameTask(u)
          /\ code'[Waiter].at = a
      <3>1. DataType(D)
        BY DEF CoreInv
      <3> QED
        BY <2>1, <2>2, <3>1, WaiterMoves
    <2> QED
      BY <2>3 DEF a
  <1>3. UNCHANGED <<poolVars, frame, sock, ended>> /\ holder[w] = Waiter /\ code[Waiter].at = "run"
    BY DEF EpollWait, On
  <1>4. PoolType' /\ QueueInv' /\ HeldInv' /\ WakeInv'
    BY <1>2, <1>3, PoolStays, ConstantsFacts DEF SameTask
  <1>5. DataType(D)'
    BY <1>2, <1>3 DEF CoreInv, DataType
  <1>6. \A s \in evs : s = Listener \/ s \in ready
    BY DEF Reportable
  <1>7. EventType'
    BY <1>1, <1>3, <1>6 DEF CoreInv, EventType, Keep, Reportable, Sources
  <1>8. WaitInv'
    <2>1. \A c \in Conns : c \in evs => sock[c].st = "open"
      BY <1>6, ConstantsFacts DEF CoreInv, EventType
    <2> QED
      BY <1>1, <1>2, <1>3, <2>1 DEF CoreInv, WaitInv, poolVars
  <1>9. FrameInv'
    BY <1>2, <1>3, ConstantsFacts DEF CoreInv, FrameInv, SameTask
  <1>10. FdInv'
    BY <1>3 DEF CoreInv, FdInv
  <1>11. PtrInv'
    BY <1>2, <1>3, ConstantsFacts DEF CoreInv, PtrInv, SameTask
  <1>12. FirstEventComes'
    <2> SUFFICES ASSUME NEW d \in Conns, ended' = "no", sock'[d].st = "open",
                        sock'[d].in # <<>> \/ sock'[d].fin # "no",
                        frame'[sock'[d].ptr] = "live",
                        code'[sock'[d].ptr].conn = d,
                        code'[sock'[d].ptr].wakes = 0
                 PROVE  d \in ready' \cup events'
      BY DEF FirstEventComes, Running
    <2>1. sock[d].ptr \in Frames
      BY <1>3 DEF CoreInv, FdInv
    <2>2. d \in ready \cup events
      BY <1>2, <1>3, <2>1, ConstantsFacts DEF CoreInv, FirstEventComes, Running, SameTask
    <2>3. events = {}
      BY <1>3 DEF CoreInv, WaitInv
    <2>4. d \in Reportable /\ d # Listener
      BY <1>3, <2>2, <2>3, ConstantsFacts DEF Reportable
    <2> QED
      BY <1>1, <2>4 DEF Keep
  <1>13. SockInv'
    BY <1>7, <1>8, <1>9, <1>10, <1>11, <1>12 DEF SockInv
  <1> QED
    BY <1>4, <1>5, <1>13, CoreFromParts

(* What the step of another does not change of a coroutine.                *)
SameLocals(r, q) ==
  r.at = q.at /\ r.buf = q.buf /\ r.size = q.size /\ r.part = q.part /\ r.file = q.file

Woken(t) == t \in Frames /\ frame[t] = "live"
AfterEvent(s) == IF events = {s} THEN "yield" ELSE code[Waiter].at

LEMMA DispatchTasks ==
  ASSUME NEW D, CoreInv(D), NEW w \in Workers, NEW s \in Sources, Dispatch(w, s)
  PROVE  /\ s # Listener => s \in Conns /\ sock[s].st = "open"
                             /\ Registered(s) = sock[s].ptr /\ Registered(s) \in Frames
         /\ Registered(s) \in Tasks /\ Registered(s) # Waiter
         /\ Registered(s) \in Frames \/ Registered(s) = Acceptor
         /\ code' \in [Tasks -> Coroutines(D)]
         /\ \A u \in Tasks : code'[u].kind = code[u].kind /\ code'[u].conn = code[u].conn
         /\ \A u \in Tasks : code'[u].wakes = IF u = Registered(s) /\ Woken(Registered(s))
                                              THEN code[u].wakes + 1 ELSE code[u].wakes
         /\ code'[Waiter].at = AfterEvent(s)
         /\ \A u \in Frames : SameLocals(code'[u], code[u])
  <1> DEFINE t == Registered(s)
             woken == Woken(t)
             a == AfterEvent(s)
  <1>1. /\ code[Waiter].at = "dispatch" /\ s \in events
        /\ code' = [code EXCEPT ![t].wakes = IF woken THEN @ + 1 ELSE @,
                                ![Waiter].at = IF events = {s} THEN "yield" ELSE @]
    BY DEF Dispatch, Woken
  <1>2. s # Listener => s \in Conns /\ sock[s].st = "open" /\ t = sock[s].ptr /\ t \in Frames
    <2>1. s # Listener => s \in Conns /\ t = sock[s].ptr
      BY DEF Sources, Registered
    <2> QED
      BY <1>1, <2>1 DEF CoreInv, WaitInv, FdInv
  <1>3. t \in Tasks /\ t # Waiter /\ (t \in Frames \/ t = Acceptor)
    BY <1>2, ConstantsFacts DEF Registered
  <1>4. a \in {"none", "run", "yield", "dispatch", "respond"} /\ (a = "dispatch" <=> events # {s})
    BY <1>1 DEF AfterEvent
  <1>5. /\ code' \in [Tasks -> Coroutines(D)]
        /\ \A u \in Tasks : code'[u].kind = code[u].kind /\ code'[u].conn = code[u].conn
        /\ \A u \in Tasks : code'[u].wakes = IF u = t /\ woken THEN code[u].wakes + 1
                                             ELSE code[u].wakes
        /\ code'[Waiter].at = a
        /\ \A u \in Frames : SameLocals(code'[u], code[u])
    <2> DEFINE k == IF woken THEN code[t].wakes + 1 ELSE code[t].wakes
               r == [code[t] EXCEPT !.wakes = k]
               q == [code[Waiter] EXCEPT !.at = a]
    <2>1. code[t] \in Coroutines(D) /\ code[Waiter] \in Coroutines(D) /\ k \in Nat
      BY <1>3, ConstantsFacts DEF CoreInv, DataType, Coroutines
    <2>2. code' = [code EXCEPT ![t] = r, ![Waiter] = q]
      BY <1>1, <1>3, ConstantsFacts DEF CoreInv, DataType, AfterEvent
    <2> HIDE DEF k, a, t
    <2>3. /\ r \in Coroutines(D) /\ r.kind = code[t].kind /\ r.conn = code[t].conn
          /\ r.wakes = k /\ SameLocals(r, code[t])
      BY <2>1 DEF Coroutines, SameLocals
    <2>4. /\ q \in Coroutines(D) /\ q.kind = code[Waiter].kind /\ q.conn = code[Waiter].conn
          /\ q.wakes = code[Waiter].wakes /\ q.at = a
      BY <1>4, <2>1 DEF Coroutines
    <2> HIDE DEF r, q
    <2>5. /\ code' \in [Tasks -> Coroutines(D)]
          /\ code'[t] = r /\ code'[Waiter] = q
          /\ \A u \in Tasks : u # t /\ u # Waiter => code'[u] = code[u]
      BY <1>3, <2>2, <2>3, <2>4, ConstantsFacts DEF CoreInv, DataType
    <2>6. \A u \in Tasks : code'[u].kind = code[u].kind /\ code'[u].conn = code[u].conn
      BY <2>3, <2>4, <2>5
    <2>7. \A u \in Tasks : code'[u].wakes = IF u = t /\ woken THEN code[u].wakes + 1
                                            ELSE code[u].wakes
      BY <1>3, <2>3, <2>4, <2>5 DEF k
    <2>8. \A u \in Frames : SameLocals(code'[u], code[u])
      BY <1>3, <2>3, <2>5, ConstantsFacts DEF SameLocals
    <2> QED
      BY <2>4, <2>5, <2>6, <2>7, <2>8
  <1> QED
    BY <1>2, <1>3, <1>5

LEMMA DispatchKeeps ==
  ASSUME NEW D, CoreInv(D), NEW w \in Workers, NEW s \in Sources, Dispatch(w, s)
  PROVE  CoreInv(D)'
  <1> DEFINE t == Registered(s)
             woken == t \in Frames /\ frame[t] = "live"
             a == IF events = {s} THEN "yield" ELSE code[Waiter].at
  <1>1. /\ holder[w] = Waiter /\ code[Waiter].at = "dispatch" /\ s \in events
        /\ events' = events \ {s}
        /\ IF TooMany(t) THEN UNCHANGED <<binding, queue>> ELSE addTask(t)
        /\ code' = [code EXCEPT ![t].wakes = IF woken THEN @ + 1 ELSE @,
                                ![Waiter].at = IF events = {s} THEN "yield" ELSE @]
        /\ UNCHANGED <<holder, frame, ready, sock, ended>>
    BY DEF Dispatch
  <1>2. s # Listener => s \in Conns /\ sock[s].st = "open" /\ t = sock[s].ptr /\ t \in Frames
    BY DispatchTasks
  <1>3. t \in Tasks /\ t # Waiter /\ (t \in Frames \/ t = Acceptor)
    BY DispatchTasks
  <1>4. t \in Frames => ~TooMany(t)
    BY ConstantsFacts DEF TooMany
  <1>5. a \in {"none", "run", "yield", "dispatch", "respond"} /\ (a = "dispatch" <=> events # {s})
    BY <1>1
  <1>6. /\ code' \in [Tasks -> Coroutines(D)]
        /\ \A u \in Tasks : code'[u].kind = code[u].kind /\ code'[u].conn = code[u].conn
        /\ \A u \in Tasks : code'[u].wakes = IF u = t /\ woken THEN code[u].wakes + 1
                                             ELSE code[u].wakes
        /\ code'[Waiter].at = a
    BY DispatchTasks DEF Woken, AfterEvent
  <1> HIDE DEF t, a
  <1>7. DataType(D)'
    BY <1>1, <1>6 DEF CoreInv, DataType
  <1>8. /\ PoolType' /\ QueueInv'
        /\ \A u \in Tasks : binding[u] # None => binding'[u] = binding[u]
        /\ \A u \in Frames : Waiting(u)' = Waiting(u) + (IF u = t THEN 1 ELSE 0)
    <2>1. CASE TooMany(t)
      <3>1. UNCHANGED <<binding, queue>> /\ t \notin Frames
        BY <1>1, <1>4, <2>1
      <3>2. QueueInv' /\ \A u \in Tasks : Waiting(u)' = Waiting(u)
        BY <3>1, QueuesSame DEF CoreInv
      <3>3. \A u \in Frames : Waiting(u)' = Waiting(u) + (IF u = t THEN 1 ELSE 0)
        BY <3>1, <3>2, WaitingType, ConstantsFacts DEF CoreInv
      <3> QED
        BY <1>1, <3>1, <3>2, <3>3 DEF CoreInv, PoolType
    <2>2. CASE ~TooMany(t)
      <3>1. Added(t)
        BY <1>1, <1>3, <2>2, AddTaskAdds DEF CoreInv
      <3> QED
        BY <1>1, <3>1, ConstantsFacts DEF Added, CoreInv, PoolType
    <2> QED
      BY <2>1, <2>2
  <1>9. HeldInv'
    <2> SUFFICES ASSUME NEW v \in Workers, holder[v] # None
                 PROVE  frame[holder[v]] = "live" /\ binding'[holder[v]] = v
      BY <1>1 DEF HeldInv
    <2>1. holder[v] \in Tasks /\ frame[holder[v]] = "live" /\ binding[holder[v]] = v
      BY DEF CoreInv, PoolType, HeldInv
    <2> QED
      BY <1>8, <2>1, ConstantsFacts
  <1>10. WakeInv'
    <2> SUFFICES ASSUME NEW u \in Frames, frame[u] = "live"
                 PROVE  code'[u].wakes = Held(u)' + Waiting(u)'
      BY <1>1 DEF WakeInv
    <2>1. /\ code[u].wakes = Held(u) + Waiting(u)
          /\ Held(u) \in Nat /\ Waiting(u) \in Nat /\ u \in Tasks
      BY WaitingType, ConstantsFacts DEF CoreInv, WakeInv
    <2>2. Held(u)' = Held(u)
      BY <1>1 DEF Held
    <2>3. Waiting(u)' = Waiting(u) + (IF u = t THEN 1 ELSE 0)
      BY <1>8
    <2>4. code'[u].wakes = IF u = t THEN code[u].wakes + 1 ELSE code[u].wakes
      BY <1>6, <2>1
    <2> QED
      BY <2>1, <2>2, <2>3, <2>4
  <1>11. EventType'
    BY <1>1 DEF CoreInv, EventType
  <1>12. WaitInv'
    <2>1. events' # {} => code'[Waiter].at = "dispatch"
      BY <1>1, <1>5, <1>6
    <2> QED
      BY <1>1, <2>1 DEF CoreInv, WaitInv
  <1>13. FrameInv'
    BY <1>1, <1>6, ConstantsFacts DEF CoreInv, FrameInv
  <1>14. FdInv'
    BY <1>1 DEF CoreInv, FdInv
  <1>15. PtrInv'
    BY <1>1, <1>6, ConstantsFacts DEF CoreInv, PtrInv
  <1>16. FirstEventComes'
    <2> SUFFICES ASSUME NEW d \in Conns, ended' = "no", sock'[d].st = "open",
                        sock'[d].in # <<>> \/ sock'[d].fin # "no",
                        frame'[sock'[d].ptr] = "live",
                        code'[sock'[d].ptr].conn = d,
                        code'[sock'[d].ptr].wakes = 0
                 PROVE  d \in ready' \cup events'
      BY DEF FirstEventComes, Running
    <2> DEFINE p == sock[d].ptr
    <2>1. p \in Frames /\ p \in Tasks /\ frame[p] = "live" /\ code[p].conn = d
      BY <1>1, <1>6, ConstantsFacts DEF CoreInv, FdInv
    <2>2. code[p].wakes \in Nat
      BY <2>1 DEF CoreInv, DataType, Coroutines
    <2>3. code'[p].wakes = 0
      BY <1>1
    <2>4. p # t /\ code[p].wakes = 0
      BY <1>6, <2>1, <2>2, <2>3
    <2>5. d \in ready \cup events
      BY <1>1, <2>1, <2>4 DEF CoreInv, FirstEventComes, Running
    <2>6. d # s
      BY <1>2, <2>4, ConstantsFacts
    <2> QED
      BY <1>1, <2>5, <2>6
  <1>17. SockInv'
    BY <1>11, <1>12, <1>13, <1>14, <1>15, <1>16 DEF SockInv
  <1> QED
    BY <1>7, <1>8, <1>9, <1>10, <1>17, CoreFromParts

(* The kernel has a lowest free descriptor.                                *)
LEMMA LowestIsFree ==
  ASSUME FreeFds # {}
  PROVE  LowestFd \in FreeFds
  <1>1. FreeFds \in SUBSET Nat
    BY DEF FreeFds, Fds
  <1>2. \E fd \in FreeFds : \A other \in FreeFds : fd <= other
    BY <1>1, LeastNumber
  <1> QED
    BY <1>2 DEF LowestFd

(* A new coroutine has been added as often as its address has entries.     *)
LEMMA FreshIs ==
  ASSUME NEW D, NEW c \in Conns,
         NEW kind \in {"none", "wait", "accept", "handler", "writer", "respond"},
         Waiting(NewFrame) \in Nat
  PROVE  /\ Fresh(kind, c) \in Coroutines(D)
         /\ Fresh(kind, c).kind = kind /\ Fresh(kind, c).conn = c
         /\ Fresh(kind, c).wakes = Waiting(NewFrame)
         /\ Fresh(kind, c).at = "run"
  <1> DEFINE k == Waiting(NewFrame)
  <1>1. Fresh(kind, c) = [Blank EXCEPT !.kind = kind, !.at = "run", !.conn = c, !.wakes = k]
    BY DEF Fresh, Waiting
  <1> HIDE DEF k
  <1>2. Fresh(kind, c) = [kind |-> kind, at |-> "run", conn |-> c, wakes |-> k,
                          buf |-> <<>>, size |-> 0, part |-> "head", file |-> 0]
    BY <1>1 DEF Blank
  <1>3. k \in Nat
    BY DEF k
  <1>4. Fresh(kind, c) \in Coroutines(D)
    BY <1>2, <1>3 DEF Coroutines
  <1> QED
    BY <1>2, <1>4 DEF k

LEMMA AcceptIs ==
  ASSUME NEW D, CoreInv(D), NEW w \in Workers, NEW c \in Conns, Accept(w, c)
  PROVE  /\ NewFrame \in Frames /\ frame[NewFrame] = "free" /\ Waiting(NewFrame) \in Nat
         /\ LowestFd \in Fds /\ LowestFd # 0 /\ \A d \in Conns : sock[d].fd # LowestFd
         /\ code' \in [Tasks -> Coroutines(D)]
         /\ \A u \in Tasks \ {NewFrame} : code'[u] = code[u]
         /\ code'[NewFrame].kind = "handler" /\ code'[NewFrame].conn = c
         /\ code'[NewFrame].wakes = Waiting(NewFrame) /\ code'[NewFrame].at = "run"
         /\ sock' \in [Conns -> Sockets(D)]
         /\ \A d \in Conns \ {c} : sock'[d] = sock[d]
         /\ sock'[c].st = "open" /\ sock'[c].fd = LowestFd /\ sock'[c].ptr = NewFrame
         /\ sock'[c].in = sock[c].in /\ sock'[c].fin = sock[c].fin /\ sock'[c].put = sock[c].put
         /\ frame' \in [Tasks -> {"free", "live", "done"}] /\ frame'[NewFrame] = "live"
         /\ \A u \in Tasks \ {NewFrame} : frame'[u] = frame[u]
  <1> DEFINE n == NewFrame
             new == Fresh("handler", c)
             r == [sock[c] EXCEPT !.st = "open", !.fd = LowestFd, !.ptr = n]
  <1>1. /\ sock[c].st = "backlog" /\ FreeFds # {} /\ FreeFrames # {}
        /\ sock' = [sock EXCEPT ![c].st = "open", ![c].fd = LowestFd, ![c].ptr = n]
        /\ frame' = [frame EXCEPT ![n] = "live"]
        /\ code' = [code EXCEPT ![n] = new]
    BY DEF Accept
  <1>2. n \in Frames /\ frame[n] = "free" /\ n \in Tasks /\ n # Waiter /\ n # Acceptor /\ n # None
    BY <1>1, NewFrameIsFree, ConstantsFacts
  <1>3. LowestFd \in Fds /\ LowestFd # 0 /\ \A d \in Conns : sock[d].fd # LowestFd
    <2>1. LowestFd \in FreeFds
      BY <1>1, LowestIsFree
    <2> QED
      BY <2>1 DEF FreeFds, UsedFds, Fds
  <1>4. Waiting(n) \in Nat
    BY <1>2, WaitingType DEF CoreInv
  <1>5. /\ new \in Coroutines(D) /\ new.kind = "handler" /\ new.conn = c
        /\ new.wakes = Waiting(n) /\ new.at = "run"
    <2> HIDE DEF n, r
    <2>1. NewFrame = n
      BY DEF n
    <2> QED
      BY <1>4, <2>1, FreshIs
  <1>6. /\ r \in Sockets(D) /\ r.st = "open" /\ r.fd = LowestFd /\ r.ptr = n
        /\ r.in = sock[c].in /\ r.fin = sock[c].fin /\ r.put = sock[c].put
    <2>1. sock[c] \in Sockets(D)
      BY DEF CoreInv, DataType
    <2> HIDE DEF n
    <2> QED
      BY <1>2, <1>3, <2>1 DEF Sockets
  <1>7. sock' = [sock EXCEPT ![c] = r]
    BY <1>1 DEF CoreInv, DataType
  <1> HIDE DEF n, new, r
  <1>8. /\ code' \in [Tasks -> Coroutines(D)] /\ code'[n] = new
        /\ \A u \in Tasks \ {n} : code'[u] = code[u]
    BY <1>1, <1>2, <1>5 DEF CoreInv, DataType
  <1>9. /\ sock' \in [Conns -> Sockets(D)] /\ sock'[c] = r
        /\ \A d \in Conns \ {c} : sock'[d] = sock[d]
    BY <1>6, <1>7 DEF CoreInv, DataType
  <1>10. /\ frame' \in [Tasks -> {"free", "live", "done"}] /\ frame'[n] = "live"
         /\ \A u \in Tasks \ {n} : frame'[u] = frame[u]
    BY <1>1, <1>2 DEF CoreInv, PoolType
  <1> QED
    BY <1>2, <1>3, <1>4, <1>5, <1>6, <1>8, <1>9, <1>10 DEF n

LEMMA AcceptKeeps ==
  ASSUME NEW D, CoreInv(D), NEW w \in Workers, NEW c \in Conns, Accept(w, c)
  PROVE  CoreInv(D)'
  <1> DEFINE n == NewFrame
  <1>1. /\ sock[c].st = "backlog"
        /\ ready' = IF sock[c].in # <<>> \/ sock[c].fin # "no" THEN ready \cup {c} ELSE ready
        /\ UNCHANGED <<binding, queue, holder, events, ended>>
    BY DEF Accept, poolVars
  <1>3. /\ n \in Frames /\ frame[n] = "free" /\ Waiting(n) \in Nat
        /\ LowestFd \in Fds /\ LowestFd # 0 /\ \A d \in Conns : sock[d].fd # LowestFd
        /\ code' \in [Tasks -> Coroutines(D)]
        /\ \A u \in Tasks \ {n} : code'[u] = code[u]
        /\ code'[n].kind = "handler" /\ code'[n].conn = c
        /\ code'[n].wakes = Waiting(n)
        /\ sock' \in [Conns -> Sockets(D)]
        /\ \A d \in Conns \ {c} : sock'[d] = sock[d]
        /\ sock'[c].st = "open" /\ sock'[c].fd = LowestFd /\ sock'[c].ptr = n
        /\ sock'[c].in = sock[c].in /\ sock'[c].fin = sock[c].fin
        /\ frame' \in [Tasks -> {"free", "live", "done"}] /\ frame'[n] = "live"
        /\ \A u \in Tasks \ {n} : frame'[u] = frame[u]
    BY AcceptIs
  <1> HIDE DEF n
  <1>2. n \in Tasks /\ n # Waiter /\ n # Acceptor /\ n # None
    BY <1>3, ConstantsFacts
  <1>11. DataType(D)'
    BY <1>3 DEF DataType
  <1>12. PoolType'
    BY <1>1, <1>3 DEF CoreInv, PoolType
  <1>13. QueueInv' /\ \A u \in Tasks : Waiting(u)' = Waiting(u)
    BY <1>1, QueuesSame DEF CoreInv
  <1>14. \A v \in Workers : holder[v] # n
    BY <1>2, <1>3 DEF CoreInv, HeldInv
  <1>15. HeldInv'
    <2> SUFFICES ASSUME NEW v \in Workers, holder[v] # None
                 PROVE  frame'[holder[v]] = "live" /\ binding[holder[v]] = v
      BY <1>1 DEF HeldInv
    <2> QED
      BY <1>3, <1>14 DEF CoreInv, PoolType, HeldInv
  <1>16. WakeInv'
    <2> SUFFICES ASSUME NEW u \in Frames, frame'[u] = "live"
                 PROVE  code'[u].wakes = Held(u)' + Waiting(u)'
      BY DEF WakeInv
    <2>1. u \in Tasks /\ Held(u)' = Held(u) /\ Waiting(u)' = Waiting(u)
      BY <1>1, <1>13, ConstantsFacts DEF Held
    <2>2. CASE u = n
      <3>1. Held(n) = 0
        BY <1>14 DEF Held
      <3> QED
        BY <1>3, <2>1, <2>2, <3>1
    <2>3. CASE u # n
      BY <1>3, <2>1, <2>3 DEF CoreInv, WakeInv
    <2> QED
      BY <2>2, <2>3
  <1>17. EventType'
    <2>1. c \notin ready
      BY <1>1 DEF CoreInv, EventType
    <2>2. \A d \in ready' : d \in Conns /\ sock'[d].st = "open"
      BY <1>1, <1>3 DEF CoreInv, EventType
    <2> QED
      BY <1>1, <2>2 DEF CoreInv, EventType
  <1>18. WaitInv'
    <2>1. frame'[Waiter] = "live" /\ frame'[Acceptor] = "live" /\ code'[Waiter] = code[Waiter]
      BY <1>2, <1>3, ConstantsFacts DEF CoreInv, WaitInv
    <2>2. \A d \in Conns : d \in events => sock'[d].st = "open"
      BY <1>3 DEF CoreInv, WaitInv
    <2> QED
      BY <1>1, <2>1, <2>2 DEF CoreInv, WaitInv
  <1>19. FrameInv'
    <2> SUFFICES ASSUME NEW u \in Frames, frame'[u] # "free"
                 PROVE  code'[u].conn \in Conns /\ sock'[code'[u].conn].st = "open"
      BY DEF FrameInv
    <2>1. CASE u = n
      BY <1>3, <2>1
    <2>2. CASE u # n
      <3>1. code'[u] = code[u] /\ frame[u] # "free"
        BY <1>3, <2>2, ConstantsFacts
      <3>2. code[u].conn \in Conns /\ sock[code[u].conn].st = "open"
        BY <3>1 DEF CoreInv, FrameInv
      <3> QED
        BY <1>3, <3>1, <3>2
    <2> QED
      BY <2>1, <2>2
  <1>20. FdInv'
    <2> SUFFICES ASSUME NEW d \in Conns
                 PROVE  IF sock'[d].st = "open"
                        THEN /\ sock'[d].fd \in Fds /\ sock'[d].ptr \in Frames
                             /\ \A e \in Conns : sock'[e].fd = sock'[d].fd => e = d
                        ELSE sock'[d].fd = 0
      BY DEF FdInv
    <2>1. CASE d = c
      BY <1>2, <1>3, <2>1
    <2>2. CASE d # c
      <3>1. sock'[d] = sock[d]
        BY <1>3, <2>2
      <3>2. sock[d].fd # sock'[c].fd
        BY <1>3
      <3> QED
        BY <1>3, <3>1, <3>2 DEF CoreInv, FdInv
    <2> QED
      BY <2>1, <2>2
  <1>21. PtrInv'
    <2> SUFFICES ASSUME NEW u \in Frames, frame'[u] # "free", code'[u].kind = "handler"
                 PROVE  sock'[code'[u].conn].ptr = u
      BY DEF PtrInv
    <2>1. CASE u = n
      BY <1>3, <2>1
    <2>2. CASE u # n
      <3>1. code'[u] = code[u] /\ frame[u] # "free"
        BY <1>3, <2>2, ConstantsFacts
      <3>2. code[u].conn \in Conns \ {c} /\ sock[code[u].conn].ptr = u
        BY <1>1, <3>1 DEF CoreInv, FrameInv, PtrInv
      <3> QED
        BY <1>3, <3>1, <3>2
    <2> QED
      BY <2>1, <2>2
  <1>22. FirstEventComes'
    <2> SUFFICES ASSUME NEW d \in Conns, ended' = "no", sock'[d].st = "open",
                        sock'[d].in # <<>> \/ sock'[d].fin # "no",
                        frame'[sock'[d].ptr] = "live",
                        code'[sock'[d].ptr].conn = d,
                        code'[sock'[d].ptr].wakes = 0
                 PROVE  d \in ready' \cup events'
      BY DEF FirstEventComes, Running
    <2>1. CASE d = c
      BY <1>1, <1>3, <2>1
    <2>2. CASE d # c
      <3>1. sock'[d] = sock[d] /\ sock[d].ptr \in Frames
        BY <1>3, <2>2 DEF CoreInv, FdInv
      <3>2. sock[d].ptr # n
        BY <1>3, <2>2, <3>1
      <3>3. d \in ready \cup events
        BY <1>1, <1>3, <3>1, <3>2, ConstantsFacts DEF CoreInv, FirstEventComes, Running
      <3> QED
        BY <1>1, <3>3
    <2> QED
      BY <2>1, <2>2
  <1>23. SockInv'
    BY <1>17, <1>18, <1>19, <1>20, <1>21, <1>22 DEF SockInv
  <1> QED
    BY <1>11, <1>12, <1>13, <1>15, <1>16, <1>23, CoreFromParts

(* The connections that a round of cleanTasks closes.                      *)
GoneConns == {c \in Conns : sock[c].st = "open" /\ Owners(c) \subseteq Cleanable}

LEMMA CleanSockets ==
  ASSUME NEW D, CoreInv(D), Clean
  PROVE  /\ sock' \in [Conns -> Sockets(D)]
         /\ \A c \in GoneConns : /\ sock'[c].st = "closed" /\ sock'[c].fd = 0
                                 /\ sock'[c].in = <<>>
         /\ \A c \in Conns \ GoneConns : sock'[c] = sock[c]
         /\ \A c \in Conns : /\ sock'[c].put = sock[c].put /\ sock'[c].fin = sock[c].fin
                             /\ sock'[c].out = sock[c].out /\ sock'[c].short = sock[c].short
         /\ ready' = ready \ GoneConns
  <1> DEFINE r(c) == [sock[c] EXCEPT !.st = "closed", !.fd = 0, !.ptr = None, !.in = <<>>]
  <1>1. /\ sock' = [c \in Conns |-> IF c \in GoneConns THEN r(c) ELSE sock[c]]
        /\ ready' = ready \ GoneConns
    BY DEF Clean, GoneConns
  <1>2. ASSUME NEW c \in Conns
        PROVE  /\ r(c) \in Sockets(D) /\ r(c).st = "closed" /\ r(c).fd = 0 /\ r(c).in = <<>>
               /\ r(c).put = sock[c].put /\ r(c).fin = sock[c].fin
               /\ r(c).out = sock[c].out /\ r(c).short = sock[c].short
    <2>1. sock[c] \in Sockets(D)
      BY DEF CoreInv, DataType
    <2>2. r(c) \in Sockets(D)
      <3> DEFINE empty == <<>>
                 zero == 0
      <3>1. empty \in Seq(D) /\ zero \in Fds \cup {0}
        OBVIOUS
      <3>2. r(c) = [sock[c] EXCEPT !.st = "closed", !.fd = zero, !.ptr = None, !.in = empty]
        OBVIOUS
      <3> HIDE DEF empty, zero
      <3> QED
        BY <2>1, <3>1, <3>2 DEF Sockets
    <2>3. r(c).st = "closed" /\ r(c).fd = 0 /\ r(c).in = <<>>
      BY <2>1 DEF Sockets
    <2>4. /\ r(c).put = sock[c].put /\ r(c).fin = sock[c].fin
          /\ r(c).out = sock[c].out /\ r(c).short = sock[c].short
      BY <2>1 DEF Sockets
    <2> QED
      BY <2>2, <2>3, <2>4
  <1> HIDE DEF r
  <1>3. \A c \in Conns : sock'[c] = IF c \in GoneConns THEN r(c) ELSE sock[c]
    BY <1>1
  <1>4. sock' \in [Conns -> Sockets(D)]
    BY <1>1, <1>2 DEF CoreInv, DataType
  <1> QED
    BY <1>1, <1>2, <1>3, <1>4 DEF GoneConns

LEMMA CleanKeepsCore ==
  ASSUME NEW D, CoreInv(D), Clean
  PROVE  CoreInv(D)'
  <1>1. /\ \A w \in Workers : holder[w] = None
        /\ binding' = [t \in Tasks |-> IF t \in Cleanable THEN None ELSE binding[t]]
        /\ queue' = [w \in Workers |-> Without(queue[w], Cleanable)]
        /\ frame' = [t \in Tasks |-> IF t \in Cleanable THEN "free" ELSE frame[t]]
        /\ code' = [t \in Tasks |-> IF t \in Cleanable THEN Blank ELSE code[t]]
        /\ UNCHANGED <<holder, events, ended>>
    BY DEF Clean
  <1>2. /\ sock' \in [Conns -> Sockets(D)]
        /\ \A c \in GoneConns : sock'[c].st = "closed" /\ sock'[c].fd = 0 /\ sock'[c].in = <<>>
        /\ \A c \in Conns \ GoneConns : sock'[c] = sock[c]
        /\ ready' = ready \ GoneConns
    BY CleanSockets
  <1>3. Cleanable \subseteq Tasks /\ Cleanable \subseteq Frames /\ \A t \in Cleanable : frame[t] = "done"
    BY ConstantsFacts DEF Cleanable
  <1>4. /\ binding' \in [Tasks -> Workers \cup {None}]
        /\ queue' \in [Workers -> Seq(Tasks)]
        /\ QueueInv'
        /\ \A u \in Tasks : u \notin Cleanable => Waiting(u)' = Waiting(u)
    BY <1>1, <1>3, CleanKeeps DEF CoreInv
  <1>5. /\ frame' \in [Tasks -> {"free", "live", "done"}]
        /\ \A u \in Tasks : frame'[u] # "free" => u \notin Cleanable /\ frame'[u] = frame[u]
        /\ \A u \in Tasks \ Cleanable : frame'[u] = frame[u]
    BY <1>1 DEF CoreInv, PoolType
  <1>6. Blank \in Coroutines(D)
    BY DEF Blank, Coroutines
  <1>7. code' \in [Tasks -> Coroutines(D)] /\ \A u \in Tasks \ Cleanable : code'[u] = code[u]
    BY <1>1, <1>6 DEF CoreInv, DataType
  <1>8. DataType(D)'
    BY <1>2, <1>7 DEF DataType
  <1>9. PoolType'
    BY <1>1, <1>4, <1>5 DEF CoreInv, PoolType
  <1>10. HeldInv'
    BY <1>1 DEF HeldInv
  <1>11. WakeInv'
    <2> SUFFICES ASSUME NEW u \in Frames, frame'[u] = "live"
                 PROVE  code'[u].wakes = Held(u)' + Waiting(u)'
      BY DEF WakeInv
    <2>1. u \in Tasks /\ u \notin Cleanable /\ frame[u] = "live"
      BY <1>5, ConstantsFacts
    <2>2. Held(u)' = Held(u)
      BY <1>1 DEF Held
    <2> QED
      BY <1>4, <1>7, <2>1, <2>2 DEF CoreInv, WakeInv
  <1>12. EventType'
    BY <1>1, <1>2 DEF CoreInv, EventType
  <1>13. WaitInv'
    <2>1. Waiter \in Tasks \ Cleanable /\ Acceptor \in Tasks \ Cleanable
      BY <1>3, ConstantsFacts
    <2>2. code[Waiter].at # "dispatch" /\ events = {}
      BY <1>1, ConstantsFacts DEF CoreInv, WaitInv
    <2> QED
      BY <1>1, <1>5, <1>7, <2>1, <2>2 DEF CoreInv, WaitInv
  <1>14. \A u \in Frames : frame'[u] # "free" =>
           /\ code'[u] = code[u] /\ frame'[u] = frame[u]
           /\ code[u].conn \in Conns \ GoneConns /\ sock[code[u].conn].st = "open"
    <2> SUFFICES ASSUME NEW u \in Frames, frame'[u] # "free"
                 PROVE  /\ code'[u] = code[u] /\ frame'[u] = frame[u]
                        /\ code[u].conn \in Conns \ GoneConns /\ sock[code[u].conn].st = "open"
      OBVIOUS
    <2>1. u \in Tasks \ Cleanable /\ frame'[u] = frame[u] /\ code'[u] = code[u]
      BY <1>5, <1>7, ConstantsFacts
    <2>2. code[u].conn \in Conns /\ sock[code[u].conn].st = "open"
      BY <2>1 DEF CoreInv, FrameInv
    <2>3. u \in Owners(code[u].conn)
      BY <2>1 DEF Owners
    <2>4. code[u].conn \notin GoneConns
      BY <2>1, <2>3 DEF GoneConns
    <2> QED
      BY <2>1, <2>2, <2>4
  <1>15. FrameInv'
    BY <1>2, <1>14 DEF FrameInv
  <1>16. FdInv'
    <2> SUFFICES ASSUME NEW d \in Conns
                 PROVE  IF sock'[d].st = "open"
                        THEN /\ sock'[d].fd \in Fds /\ sock'[d].ptr \in Frames
                             /\ \A e \in Conns : sock'[e].fd = sock'[d].fd => e = d
                        ELSE sock'[d].fd = 0
      BY DEF FdInv
    <2>1. CASE d \in GoneConns
      BY <1>2, <2>1
    <2>2. CASE d \notin GoneConns
      <3>1. sock'[d] = sock[d] /\ (sock[d].st = "open" => sock[d].fd \in Fds /\ sock[d].fd # 0)
        BY <1>2, <2>2 DEF CoreInv, FdInv, Fds
      <3>2. \A e \in Conns : sock'[e].fd = sock[e].fd \/ sock'[e].fd = 0
        BY <1>2
      <3> QED
        BY <3>1, <3>2 DEF CoreInv, FdInv
    <2> QED
      BY <2>1, <2>2
  <1>17. PtrInv'
    BY <1>2, <1>14 DEF CoreInv, PtrInv
  <1>18. FirstEventComes'
    <2> SUFFICES ASSUME NEW d \in Conns, ended' = "no", sock'[d].st = "open",
                        sock'[d].in # <<>> \/ sock'[d].fin # "no",
                        frame'[sock'[d].ptr] = "live",
                        code'[sock'[d].ptr].conn = d,
                        code'[sock'[d].ptr].wakes = 0
                 PROVE  d \in ready' \cup events'
      BY DEF FirstEventComes, Running
    <2>1. d \notin GoneConns
      BY <1>2
    <2>2. sock'[d] = sock[d] /\ sock[d].ptr \in Frames
      BY <1>2, <2>1 DEF CoreInv, FdInv
    <2>3. code'[sock[d].ptr] = code[sock[d].ptr] /\ frame[sock[d].ptr] = "live"
      BY <1>14, <2>2
    <2>4. d \in ready \cup events
      BY <1>1, <2>2, <2>3 DEF CoreInv, FirstEventComes, Running
    <2> QED
      BY <1>1, <1>2, <2>1, <2>4
  <1>19. SockInv'
    BY <1>12, <1>13, <1>15, <1>16, <1>17, <1>18 DEF SockInv
  <1> QED
    BY <1>4, <1>8, <1>9, <1>10, <1>11, <1>19, CoreFromParts

-----------------------------------------------------------------------------
(* The initial states, and a summary of the steps.                         *)

LEMMA LoopFrame ==
  ASSUME NEW D,
         NEW kind \in {"none", "wait", "accept", "handler", "writer", "respond"},
         NEW at \in {"none", "run", "yield", "dispatch", "respond"}
  PROVE  /\ [Blank EXCEPT !.kind = kind, !.at = at] \in Coroutines(D)
         /\ [Blank EXCEPT !.kind = kind, !.at = at].at = at
  <1>1. Blank \in Coroutines(D)
    BY DEF Blank, Coroutines
  <1> QED
    BY <1>1 DEF Coroutines

LEMMA InitKeeps ==
  ASSUME NEW D, InitCore
  PROVE  CoreInv(D)
  <1>1. PICK x \in Workers :
          /\ binding = [t \in Tasks |-> IF t = Waiter THEN x ELSE None]
          /\ queue = [v \in Workers |-> IF v = x THEN <<Waiter>> ELSE <<>>]
    BY DEF InitCore
  <1>2. /\ holder = [w \in Workers |-> None]
        /\ frame = [t \in Tasks |-> IF t \in Frames THEN "free" ELSE "live"]
        /\ events = {} /\ ready = {} /\ ended = "no"
        /\ sock = [c \in Conns |-> NoSock]
        /\ code = [t \in Tasks |->
                     CASE t = Waiter -> [Blank EXCEPT !.kind = "wait", !.at = "run"]
                       [] t = Acceptor -> [Blank EXCEPT !.kind = "accept", !.at = "run"]
                       [] OTHER -> Blank]
    BY DEF InitCore
  <1>3. PoolType
    BY <1>1, <1>2, ConstantsFacts DEF PoolType
  <1>4. NoSock \in Sockets(D) /\ NoSock.st = "none" /\ NoSock.fd = 0
    <2>1. 0 \in 0..MaxSends
      BY ConstantsAssumption
    <2> QED
      BY <2>1 DEF NoSock, Sockets
  <1>5. /\ Blank \in Coroutines(D)
        /\ [Blank EXCEPT !.kind = "wait", !.at = "run"] \in Coroutines(D)
        /\ [Blank EXCEPT !.kind = "accept", !.at = "run"] \in Coroutines(D)
        /\ [Blank EXCEPT !.kind = "wait", !.at = "run"].at = "run"
    <2>1. Blank \in Coroutines(D)
      BY DEF Blank, Coroutines
    <2> QED
      BY <2>1, LoopFrame
  <1>6. code[Waiter].at = "run"
    BY <1>2, <1>5, ConstantsFacts
  <1>7. DataType(D)
    <2>1. code \in [Tasks -> Coroutines(D)]
      BY <1>2, <1>5, ConstantsFacts
    <2>2. sock \in [Conns -> Sockets(D)]
      BY <1>2, <1>4
    <2> QED
      BY <2>1, <2>2 DEF DataType
  <1>8. EventType
    BY <1>2 DEF EventType
  <1>9. QueueInv
    BY <1>1, ConstantsFacts DEF QueueInv
  <1>10. HeldInv
    BY <1>2 DEF HeldInv
  <1>11. WaitInv
    BY <1>2, <1>6, ConstantsFacts DEF WaitInv
  <1>12. \A t \in Frames : frame[t] = "free"
    BY <1>2, ConstantsFacts
  <1>13. \A c \in Conns : sock[c].st # "open" /\ sock[c].fd = 0
    BY <1>2, <1>4
  <1>14. FrameInv /\ PtrInv /\ WakeInv
    BY <1>12 DEF FrameInv, PtrInv, WakeInv
  <1>15. FdInv /\ FirstEventComes
    BY <1>13 DEF FdInv, FirstEventComes
  <1> QED
    BY <1>3, <1>7, <1>8, <1>9, <1>10, <1>11, <1>14, <1>15 DEF CoreInv

(* Whatever the loops and the cleaner do.                                  *)
CoreLoop(w) ==
  \/ RunTask(w)
  \/ Yield(w)
  \/ EpollWait(w)
  \/ \E s \in Sources : Dispatch(w, s)
  \/ \E c \in Conns : Accept(w, c)
  \/ AcceptSuspend(w)
  \/ AcceptThrow(w)

LEMMA CoreLoopKeeps ==
  ASSUME NEW D, CoreInv(D), NEW w \in Workers, CoreLoop(w)
  PROVE  CoreInv(D)'
  <1>1. ASSUME AcceptThrow(w) PROVE CoreInv(D)'
    BY <1>1, EndingKeeps DEF AcceptThrow
  <1> QED
    BY <1>1, RunTaskKeeps, YieldKeeps, EpollWaitKeeps, DispatchKeeps, AcceptKeeps,
       AcceptSuspendKeeps DEF CoreLoop

(* What the steps of the loops other than accept leave to the handlers.    *)
QuietLoop(w) ==
  \/ RunTask(w)
  \/ Yield(w)
  \/ EpollWait(w)
  \/ \E s \in Sources : Dispatch(w, s)
  \/ AcceptSuspend(w)
  \/ AcceptThrow(w)

LEMMA QuietLoopLeaves ==
  ASSUME NEW D, CoreInv(D), NEW w \in Workers, QuietLoop(w)
  PROVE  /\ UNCHANGED <<sock, frame>>
         /\ \A u \in Frames :
              /\ code'[u].kind = code[u].kind /\ code'[u].conn = code[u].conn
              /\ code'[u].buf = code[u].buf /\ code'[u].size = code[u].size
              /\ \/ code'[u].at = code[u].at
                 \/ code[u].at = "yield" /\ code'[u].at = "run"
  <1> DEFINE Left == \A u \in Frames :
               /\ code'[u].kind = code[u].kind /\ code'[u].conn = code[u].conn
               /\ code'[u].buf = code[u].buf /\ code'[u].size = code[u].size
               /\ \/ code'[u].at = code[u].at
                  \/ code[u].at = "yield" /\ code'[u].at = "run"
  <1>1. UNCHANGED <<sock, frame>>
    BY DEF QuietLoop, RunTask, Yield, EpollWait, Dispatch, AcceptSuspend, AcceptThrow
  <1>2. ASSUME Yield(w) PROVE Left
    <2> DEFINE t == holder[w]
               r == [code[t] EXCEPT !.at = "run"]
    <2>1. /\ t \in Tasks /\ code[t].at = "yield" /\ code' = [code EXCEPT ![t].at = "run"]
      BY <1>2 DEF Yield, CoreInv, PoolType
    <2>2. code[t] \in Coroutines(D) /\ code' = [code EXCEPT ![t] = r]
      BY <2>1 DEF CoreInv, DataType
    <2> HIDE DEF t
    <2>3. /\ r.kind = code[t].kind /\ r.conn = code[t].conn /\ r.buf = code[t].buf
          /\ r.size = code[t].size /\ r.at = "run"
      BY <2>2 DEF Coroutines
    <2> HIDE DEF r
    <2>4. \A u \in Tasks : code'[u] = IF u = t THEN r ELSE code[u]
      BY <2>1, <2>2 DEF CoreInv, DataType
    <2> QED
      BY <2>1, <2>3, <2>4, ConstantsFacts
  <1>3. ASSUME EpollWait(w) PROVE Left
    <2>1. \A u \in Frames : code'[u] = code[u]
      BY <1>3, ConstantsFacts DEF EpollWait, CoreInv, DataType
    <2> QED
      BY <2>1
  <1>4. ASSUME NEW s \in Sources, Dispatch(w, s) PROVE Left
    BY <1>4, DispatchTasks, ConstantsFacts DEF SameLocals
  <1>5. ASSUME UNCHANGED code PROVE Left
    BY <1>5
  <1>6. ASSUME RunTask(w) \/ AcceptSuspend(w) \/ AcceptThrow(w) PROVE UNCHANGED code
    BY <1>6 DEF RunTask, AcceptSuspend, AcceptThrow
  <1>7. Left
    <2> HIDE DEF Left
    <2> QED
      BY <1>2, <1>3, <1>4, <1>5, <1>6 DEF QuietLoop
  <1> QED
    BY <1>1, <1>7

LEMMA TouchFreedKeeps ==
  ASSUME NEW D, CoreInv(D), TouchFreed
  PROVE  CoreInv(D)'
  BY EndingKeeps DEF TouchFreed

LEMMA StutterKeeps ==
  ASSUME NEW D, CoreInv(D), UNCHANGED coreVars
  PROVE  CoreInv(D)'
  <1>1. UNCHANGED <<poolVars, frame, code, events, ready, sock, ended>>
    BY DEF coreVars, epollVars
  <1>2. PoolType' /\ QueueInv' /\ HeldInv' /\ WakeInv'
    BY <1>1, PoolStays
  <1>3. DataType(D)'
    BY <1>1 DEF CoreInv, DataType
  <1>4. Calm
    BY <1>1 DEF Calm, SameTask, SameEnds, CoreInv, EventType, WaitInv, poolVars
  <1>5. SockInv'
    BY <1>2, <1>3, <1>4, CalmKeeps
  <1> QED
    BY <1>2, <1>3, <1>5, CoreFromParts

(* What CoreInv says in the words of EpollServer.                          *)
LEMMA CoreTypes ==
  ASSUME NEW D, CoreInv(D)
  PROVE  TypeOKCore /\ WakesKept /\ FirstEventComes
  <1>1. \A t \in Tasks :
          /\ DOMAIN code[t] = DOMAIN Blank
          /\ code[t].kind \in {"none", "wait", "accept", "handler", "writer", "respond"}
          /\ code[t].at \in {"none", "run", "yield", "dispatch", "respond"}
          /\ code[t].conn \in Conns \cup {None}
          /\ code[t].wakes \in Nat
          /\ code[t].file \in Fds \cup {0}
    BY DEF CoreInv, DataType, Coroutines, Blank
  <1>2. \A c \in Conns :
          /\ DOMAIN sock[c] = DOMAIN NoSock
          /\ sock[c].st \in {"none", "backlog", "open", "closed"}
          /\ sock[c].fd \in Fds \cup {0}
          /\ sock[c].ptr \in Frames \cup {None}
          /\ sock[c].fin \in {"no", "fin", "rst"}
          /\ sock[c].put \in 0..MaxSends
    BY DEF CoreInv, DataType, Sockets, NoSock
  <1>3. TypeOKCore
    BY <1>1, <1>2 DEF TypeOKCore, CoreInv, PoolType, EventType
  <1> QED
    BY <1>3, WakesCounted DEF CoreInv

=============================================================================

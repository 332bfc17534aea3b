------------------------- MODULE UringServerProofs -------------------------
(***************************************************************************)
(* The safety properties of the io_uring server, for any number of         *)
(* workers, frames and connections, and any size of the ring.              *)
(***************************************************************************)
EXTENDS UringServer, FiniteSetTheorems, TLAPS

-----------------------------------------------------------------------------
(* The inductive invariant.                                                *)

(* The six places from which a coroutine can be resumed, or where it runs. *)
InQueue(t) == \E w \in Workers : \E i \in 1..Len(queue[w]) : queue[w][i] = t
Executes(t) == \E w \in Workers : exec[w] = t
Submitted(t) == \E i \in 1..Len(sq) : sq[i].by = t
InKernel(t) == \E o \in ops : o.by = t
Completed(t) == \E i \in 1..Len(cq) : cq[i].by = t /\ ~cq[i].more
Awaits(t) == \E r \in Tasks : frame[r] = "live" /\ code[r].prev = t

NoPlace(t) ==
  /\ ~InQueue(t) /\ ~Executes(t) /\ ~Submitted(t)
  /\ ~InKernel(t) /\ ~Completed(t) /\ ~Awaits(t)

OnePlace(t) ==
  \/ /\ InQueue(t) /\ ~Executes(t) /\ ~Submitted(t)
     /\ ~InKernel(t) /\ ~Completed(t) /\ ~Awaits(t)
  \/ /\ ~InQueue(t) /\ Executes(t) /\ ~Submitted(t)
     /\ ~InKernel(t) /\ ~Completed(t) /\ ~Awaits(t)
  \/ /\ ~InQueue(t) /\ ~Executes(t) /\ Submitted(t)
     /\ ~InKernel(t) /\ ~Completed(t) /\ ~Awaits(t)
  \/ /\ ~InQueue(t) /\ ~Executes(t) /\ ~Submitted(t)
     /\ InKernel(t) /\ ~Completed(t) /\ ~Awaits(t)
  \/ /\ ~InQueue(t) /\ ~Executes(t) /\ ~Submitted(t)
     /\ ~InKernel(t) /\ Completed(t) /\ ~Awaits(t)
  \/ /\ ~InQueue(t) /\ ~Executes(t) /\ ~Submitted(t)
     /\ ~InKernel(t) /\ ~Completed(t) /\ Awaits(t)

(* A live coroutine is in one of them, and its position in the code says   *)
(* in which it can be.                                                     *)
PlaceInv ==
  \A t \in Tasks :
    /\ IF frame[t] = "live" THEN OnePlace(t) ELSE NoPlace(t)
    /\ Submitted(t) \/ InKernel(t) \/ Completed(t) => code[t].at = "wait"
    /\ InQueue(t) => code[t].at \in {"submit", "wait", "peek", "read"}
    /\ Executes(t) => code[t].at # "await"

(* And it is there once.                                                   *)
QueueOnce ==
  \A v, w \in Workers : \A i \in 1..Len(queue[v]), j \in 1..Len(queue[w]) :
    queue[v][i] = queue[w][j] => v = w /\ i = j
ExecOnce == \A v, w \in Workers : exec[v] # None /\ exec[v] = exec[w] => v = w
SqOnce == \A i, j \in 1..Len(sq) : sq[i].by = sq[j].by => i = j
OpsOnce == \A o, p \in ops : o.by = p.by => o = p
CallerOnce ==
  \A r, s \in Tasks :
    /\ frame[r] = "live" /\ frame[s] = "live"
    /\ code[r].prev # None /\ code[r].prev = code[s].prev
    => r = s

(* The completion without IORING_CQE_F_MORE is the last one.               *)
LastInv ==
  \A i, j \in 1..Len(cq) : cq[i].by = cq[j].by /\ ~cq[i].more => j <= i

OnceInv ==
  QueueOnce /\ ExecOnce /\ SqOnce /\ OpsOnce /\ CallerOnce /\ LastInv

(* What each kind of coroutine looks like.                                 *)
KindInv ==
  /\ code[Reaper].kind = "reap" /\ frame[Reaper] = "live"
  /\ code[Reaper].at \in {"peek", "more"}
  /\ code[Acceptor].kind = "accept" /\ frame[Acceptor] = "live"
  /\ code[Acceptor].at \in {"submit", "wait", "thrown"}
  /\ \A t \in Loops : code[t].prev = None /\ code[t].conn = None
  /\ \A t \in Frames :
       IF frame[t] = "free" THEN code[t] = Blank
       ELSE /\ code[t].kind \in {"client", "read", "respond"}
            /\ code[t].conn \in Conns
            /\ code[t].kind = "client" => code[t].at \in {"read", "await", "got", "end"}
            /\ code[t].kind # "client" => code[t].at \in {"submit", "wait"}
            /\ code[t].kind # "read" => code[t].prev = None

(* readRequest runs for a clientHandle that awaits it.                     *)
CallerInv ==
  \A t \in Frames :
    frame[t] = "live" /\ code[t].kind = "read" =>
      /\ code[t].prev \in Frames
      /\ frame[code[t].prev] = "live"
      /\ code[code[t].prev].kind = "client"
      /\ code[code[t].prev].at = "await"
      /\ code[code[t].prev].conn = code[t].conn

(* Of the coroutines that exist the pool does not yet know a readRequest   *)
(* whose first recv has not been completed.                                *)
BoundInv ==
  \A t \in Tasks :
    frame[t] # "free" /\ binding[t] = None =>
      /\ frame[t] = "live"
      /\ code[t].kind = "read"
      /\ ~InQueue(t)
      /\ Executes(t) => code[t].at = "submit"

HolderInv == \A w \in Workers : holder[w] = None => exec[w] = None

(* An operation or completion belongs to what its coroutine waits for.     *)
Matches(o, c) == o.kind = c[o.by].kind /\ o.conn = c[o.by].conn

CompletionRecords ==
  [by : Tasks, kind : {"read", "respond", "accept"},
   res : {"ok", "part", "full", "big", "eof", "fail", "again", "retry", "fatal"},
   n : Nat, conn : Conns \cup {None}, more : BOOLEAN]

PeerRecords == [sock : {"none", "open", "closed"}, reqs : Nat, begun : BOOLEAN]

TypeInv ==
  /\ TypeOK
  /\ cq \in Seq(CompletionRecords)
  /\ peer \in [Conns -> PeerRecords]

OpInv ==
  /\ \A i \in 1..Len(sq) : Matches(sq[i], code)
  /\ \A o \in ops : Matches(o, code)
  /\ \A i \in 1..Len(cq) :
       /\ cq[i].kind = code[cq[i].by].kind
       /\ cq[i].kind # "accept" => ~cq[i].more /\ cq[i].conn = None
       /\ InKernel(cq[i].by) \/ Completed(cq[i].by)

(* The first completion has been looked at, and asyncAccept's caller of    *)
(* addTask is about to remove it.                                          *)
HeadSeen == code[Reaper].at = "more"
SeenInv == HeadSeen => cq # <<>> /\ cq[1].kind = "accept" /\ Executes(Reaper)

(* Sockets: connections wait in the ring, each once, until they have an    *)
(* owner; a socket is open exactly from then until its owners are gone.    *)
SocketInv ==
  /\ \A i, j \in 1..Len(cq) : cq[i].conn # None /\ cq[i].conn = cq[j].conn => i = j
  /\ \A i \in 1..Len(cq) :
       cq[i].conn # None =>
         /\ peer[cq[i].conn].sock # "none"
         /\ \/ peer[cq[i].conn].sock = "open" /\ Owners(cq[i].conn) = {}
            \/ i = 1 /\ HeadSeen
  /\ \A c \in Conns :
       /\ Owners(c) # {} => peer[c].sock = "open"
       /\ peer[c].sock = "open" =>
            \/ Owners(c) # {}
            \/ \E i \in 1..Len(cq) : cq[i].conn = c /\ ~(i = 1 /\ HeadSeen)

IInv ==
  /\ TypeInv /\ PlaceInv /\ OnceInv /\ KindInv /\ CallerInv /\ BoundInv
  /\ HolderInv /\ OpInv /\ SeenInv /\ SocketInv

-----------------------------------------------------------------------------
(* Sequences: what Append and Tail do to each element.                     *)

LEMMA AppendFacts ==
  ASSUME NEW S, NEW s \in Seq(S), NEW e \in S
  PROVE  /\ Append(s, e) \in Seq(S)
         /\ Len(Append(s, e)) = Len(s) + 1
         /\ \A i \in 1..Len(s) : Append(s, e)[i] = s[i]
         /\ Append(s, e)[Len(s) + 1] = e
         /\ Len(s) \in Nat
  OBVIOUS

LEMMA TailFacts ==
  ASSUME NEW S, NEW s \in Seq(S), s # <<>>
  PROVE  /\ Head(s) = s[1] /\ Head(s) \in S
         /\ Tail(s) \in Seq(S)
         /\ Len(s) \in Nat \ {0}
         /\ Len(Tail(s)) = Len(s) - 1
         /\ \A i \in 1..(Len(s) - 1) : Tail(s)[i] = s[i + 1]
  OBVIOUS

LEMMA ConstantFacts ==
  /\ None \notin Tasks /\ None \notin Workers /\ None \notin Conns
  /\ Reaper \in Tasks /\ Acceptor \in Tasks /\ Reaper # Acceptor
  /\ Reaper \notin Frames /\ Acceptor \notin Frames
  /\ Frames \subseteq Tasks /\ Loops \subseteq Tasks
  /\ \A t \in Tasks : t \in Frames \/ t = Reaper \/ t = Acceptor
  /\ SqSize \in Nat /\ MaxReqs \in Nat /\ BodyLen \in Nat
  BY ConstantsAssumption DEF Tasks, Loops

-----------------------------------------------------------------------------
(* What the steps do to the places.                                        *)

LEMMA AddTaskPlaces ==
  ASSUME TypeOK, NEW t \in Tasks, addTask(t)
  PROVE  /\ binding' \in [Tasks -> Workers \cup {None}]
         /\ queue' \in [Workers -> Seq(Tasks)]
         /\ binding'[t] # None
         /\ \A u \in Tasks : u # t => binding'[u] = binding[u]
         /\ \A u \in Tasks : InQueue(u)' <=> InQueue(u) \/ u = t
         /\ QueueOnce /\ ~InQueue(t) => QueueOnce'
  <1>1. PICK v \in Workers :
          /\ binding' = [binding EXCEPT ![t] = v]
          /\ queue' = [queue EXCEPT ![v] = Append(@, t)]
    BY DEF addTask
  <1>2. binding \in [Tasks -> Workers \cup {None}] /\ queue \in [Workers -> Seq(Tasks)]
    BY DEF TypeOK
  <1>3. /\ queue[v] \in Seq(Tasks)
        /\ queue'[v] = Append(queue[v], t)
        /\ \A w \in Workers : w # v => queue'[w] = queue[w]
    BY <1>1, <1>2
  <1>4. /\ queue'[v] \in Seq(Tasks)
        /\ Len(queue'[v]) = Len(queue[v]) + 1
        /\ \A i \in 1..Len(queue[v]) : queue'[v][i] = queue[v][i]
        /\ queue'[v][Len(queue[v]) + 1] = t
        /\ Len(queue[v]) \in Nat
    BY <1>3, AppendFacts
  <1>5. /\ binding' \in [Tasks -> Workers \cup {None}]
        /\ binding'[t] # None
        /\ \A u \in Tasks : u # t => binding'[u] = binding[u]
    BY <1>1, <1>2, ConstantFacts
  <1>6. queue' \in [Workers -> Seq(Tasks)]
    BY <1>1, <1>2, <1>3, <1>4
  <1>7. \A i \in 1..Len(queue'[v]) : i \in 1..Len(queue[v]) \/ i = Len(queue[v]) + 1
    BY <1>4
  <1>8. ASSUME NEW u \in Tasks PROVE InQueue(u)' <=> InQueue(u) \/ u = t
    <2>1. InQueue(u)' => InQueue(u) \/ u = t
      BY <1>3, <1>4, <1>7 DEF InQueue
    <2>2. InQueue(u) => InQueue(u)'
      BY <1>3, <1>4 DEF InQueue
    <2>3. u = t => InQueue(u)'
      BY <1>4 DEF InQueue
    <2> QED
      BY <2>1, <2>2, <2>3
  <1>9. ASSUME QueueOnce, ~InQueue(t) PROVE QueueOnce'
    <2> SUFFICES ASSUME NEW v1 \in Workers, NEW v2 \in Workers,
                        NEW i \in 1..Len(queue'[v1]), NEW j \in 1..Len(queue'[v2]),
                        queue'[v1][i] = queue'[v2][j]
                 PROVE  v1 = v2 /\ i = j
      BY DEF QueueOnce
    <2>1. (v1 = v /\ i = Len(queue[v]) + 1) \/ (i \in 1..Len(queue[v1]) /\ queue'[v1][i] = queue[v1][i])
      BY <1>3, <1>4, <1>7
    <2>2. (v2 = v /\ j = Len(queue[v]) + 1) \/ (j \in 1..Len(queue[v2]) /\ queue'[v2][j] = queue[v2][j])
      BY <1>3, <1>4, <1>7
    <2>3. CASE i \in 1..Len(queue[v1]) /\ queue'[v1][i] = queue[v1][i]
      <3>1. v2 = v /\ j = Len(queue[v]) + 1 => queue[v1][i] = t
        BY <2>3, <1>4
      <3>2. ~(v2 = v /\ j = Len(queue[v]) + 1)
        BY <3>1, <2>3, <1>9 DEF InQueue
      <3> QED
        BY <2>2, <2>3, <3>2, <1>9 DEF QueueOnce
    <2>4. CASE v1 = v /\ i = Len(queue[v]) + 1
      BY <2>2, <2>4, <1>4, <1>9 DEF InQueue
    <2> QED
      BY <2>1, <2>3, <2>4
  <1> QED
    BY <1>5, <1>6, <1>8, <1>9

LEMMA PopPlaces ==
  ASSUME TypeOK, QueueOnce, NEW w \in Workers, queue[w] # <<>>,
         queue' = [queue EXCEPT ![w] = Tail(@)]
  PROVE  /\ queue' \in [Workers -> Seq(Tasks)]
         /\ Head(queue[w]) \in Tasks
         /\ InQueue(Head(queue[w]))
         /\ \A u \in Tasks : InQueue(u)' <=> InQueue(u) /\ u # Head(queue[w])
         /\ QueueOnce'
  <1>1. queue \in [Workers -> Seq(Tasks)] /\ queue[w] \in Seq(Tasks)
    BY DEF TypeOK
  <1>2. /\ queue'[w] = Tail(queue[w])
        /\ \A v \in Workers : v # w => queue'[v] = queue[v]
    BY <1>1
  <1>3. /\ Head(queue[w]) = queue[w][1] /\ Head(queue[w]) \in Tasks
        /\ queue'[w] \in Seq(Tasks)
        /\ Len(queue[w]) \in Nat \ {0}
        /\ Len(queue'[w]) = Len(queue[w]) - 1
        /\ \A i \in 1..(Len(queue[w]) - 1) : queue'[w][i] = queue[w][i + 1]
    BY <1>1, <1>2, TailFacts
  <1>4. queue' \in [Workers -> Seq(Tasks)]
    BY <1>1, <1>3
  <1>5. ASSUME NEW u \in Tasks
        PROVE  InQueue(u)' <=> InQueue(u) /\ u # Head(queue[w])
    <2>1. ASSUME InQueue(u)' PROVE InQueue(u) /\ u # Head(queue[w])
      <3>1. PICK v \in Workers, i \in Int : i \in 1..Len(queue'[v]) /\ queue'[v][i] = u
        BY <2>1 DEF InQueue
      <3>2. CASE v = w
        <4>1. i + 1 \in 1..Len(queue[w]) /\ queue[w][i + 1] = u /\ i + 1 # 1
          BY <3>1, <3>2, <1>3
        <4>2. 1 \in 1..Len(queue[w])
          BY <1>3
        <4> QED
          BY <4>1, <4>2, <1>3 DEF InQueue, QueueOnce
      <3>3. CASE v # w
        <4>1. i \in 1..Len(queue[v]) /\ queue[v][i] = u
          BY <3>1, <3>3, <1>2
        <4>2. 1 \in 1..Len(queue[w])
          BY <1>3
        <4> QED
          BY <3>3, <4>1, <4>2, <1>3 DEF InQueue, QueueOnce
      <3> QED
        BY <3>2, <3>3
    <2>2. ASSUME InQueue(u), u # Head(queue[w]) PROVE InQueue(u)'
      <3>1. PICK v \in Workers, i \in Int : i \in 1..Len(queue[v]) /\ queue[v][i] = u
        BY <2>2 DEF InQueue
      <3>2. CASE v = w
        <4>1. i # 1
          BY <3>1, <3>2, <2>2, <1>3
        <4>2. i - 1 \in 1..(Len(queue[w]) - 1) /\ (i - 1) + 1 = i
          BY <4>1, <3>1, <3>2, <1>3
        <4>3. i - 1 \in 1..Len(queue'[w]) /\ queue'[w][i - 1] = u
          BY <4>2, <3>1, <3>2, <1>3
        <4> QED
          BY <4>3 DEF InQueue
      <3>3. CASE v # w
        BY <3>1, <3>3, <1>2 DEF InQueue
      <3> QED
        BY <3>2, <3>3
    <2> QED
      BY <2>1, <2>2
  <1>6. QueueOnce'
    <2> SUFFICES ASSUME NEW v1 \in Workers, NEW v2 \in Workers,
                        NEW i \in 1..Len(queue'[v1]), NEW j \in 1..Len(queue'[v2]),
                        queue'[v1][i] = queue'[v2][j]
                 PROVE  v1 = v2 /\ i = j
      BY DEF QueueOnce
    <2> DEFINE k == IF v1 = w THEN i + 1 ELSE i
               l == IF v2 = w THEN j + 1 ELSE j
    <2>1. k \in 1..Len(queue[v1]) /\ queue'[v1][i] = queue[v1][k]
      BY <1>2, <1>3
    <2>2. l \in 1..Len(queue[v2]) /\ queue'[v2][j] = queue[v2][l]
      BY <1>2, <1>3
    <2>3. v1 = v2 /\ k = l
      BY <2>1, <2>2 DEF QueueOnce
    <2> QED
      BY <2>3, <1>3
  <1>7. InQueue(Head(queue[w]))
    BY <1>3 DEF InQueue
  <1> QED
    BY <1>3, <1>4, <1>5, <1>6, <1>7

LEMMA ExecPlaces ==
  ASSUME TypeOK, ExecOnce, NEW w \in Workers, NEW x \in Tasks \cup {None},
         x # None => ~Executes(x),
         exec' = [exec EXCEPT ![w] = x]
  PROVE  /\ exec' \in [Workers -> Tasks \cup {None}]
         /\ exec'[w] = x
         /\ \A v \in Workers : v # w => exec'[v] = exec[v]
         /\ \A u \in Tasks : Executes(u)' <=> u = x \/ (Executes(u) /\ u # exec[w])
         /\ ExecOnce'
  <1>1. exec \in [Workers -> Tasks \cup {None}]
    BY DEF TypeOK
  <1>2. /\ exec' \in [Workers -> Tasks \cup {None}]
        /\ exec'[w] = x
        /\ \A v \in Workers : v # w => exec'[v] = exec[v]
    BY <1>1
  <1>3. ASSUME NEW u \in Tasks
        PROVE  Executes(u)' <=> u = x \/ (Executes(u) /\ u # exec[w])
    BY <1>2, ConstantFacts DEF Executes, ExecOnce
  <1>4. ExecOnce'
    BY <1>2, <1>1 DEF Executes, ExecOnce
  <1> QED
    BY <1>2, <1>3, <1>4

LEMMA SubmitPlaces ==
  ASSUME TypeOK, Room, NEW o \in OpRecords, sq' = Append(sq, o)
  PROVE  /\ sq' \in Seq(OpRecords) /\ Len(sq') <= SqSize
         /\ \A u \in Tasks : Submitted(u)' <=> Submitted(u) \/ u = o.by
         /\ SqOnce /\ ~Submitted(o.by) => SqOnce'
         /\ \A i \in 1..Len(sq') :
              sq'[i] = o \/ (i \in 1..Len(sq) /\ sq'[i] = sq[i])
  <1>1. sq \in Seq(OpRecords)
    BY DEF TypeOK
  <1>2. /\ sq' \in Seq(OpRecords)
        /\ Len(sq') = Len(sq) + 1
        /\ \A i \in 1..Len(sq) : sq'[i] = sq[i]
        /\ sq'[Len(sq) + 1] = o
        /\ Len(sq) \in Nat
    BY <1>1, AppendFacts
  <1>3. Len(sq') <= SqSize
    BY <1>2, ConstantFacts DEF Room
  <1>4. \A i \in 1..Len(sq') : i = Len(sq) + 1 \/ i \in 1..Len(sq)
    BY <1>2
  <1>5. ASSUME NEW u \in Tasks PROVE Submitted(u)' <=> Submitted(u) \/ u = o.by
    <2>1. Submitted(u)' => Submitted(u) \/ u = o.by
      BY <1>2, <1>4 DEF Submitted
    <2>2. Submitted(u) => Submitted(u)'
      BY <1>2 DEF Submitted
    <2>3. u = o.by => Submitted(u)'
      BY <1>2 DEF Submitted
    <2> QED
      BY <2>1, <2>2, <2>3
  <1>6. ASSUME SqOnce, ~Submitted(o.by) PROVE SqOnce'
    BY <1>2, <1>4, <1>6 DEF SqOnce, Submitted
  <1> QED
    BY <1>2, <1>3, <1>4, <1>5, <1>6

LEMMA TakePlaces ==
  ASSUME TypeOK, SqOnce, OpsOnce, sq # <<>>,
         sq' = Tail(sq), ops' = ops \cup {Head(sq)},
         \A o \in ops : o.by # Head(sq).by
  PROVE  /\ sq' \in Seq(OpRecords) /\ Len(sq') <= SqSize
         /\ Head(sq) = sq[1] /\ 1 \in 1..Len(sq) /\ Head(sq) \in OpRecords
         /\ Submitted(Head(sq).by)
         /\ \A u \in Tasks : Submitted(u)' <=> Submitted(u) /\ u # Head(sq).by
         /\ \A u \in Tasks : InKernel(u)' <=> InKernel(u) \/ u = Head(sq).by
         /\ SqOnce' /\ OpsOnce'
         /\ \A i \in 1..Len(sq') : i + 1 \in 1..Len(sq) /\ sq'[i] = sq[i + 1]
  <1>1. sq \in Seq(OpRecords) /\ Len(sq) <= SqSize
    BY DEF TypeOK
  <1>2. /\ Head(sq) = sq[1] /\ Head(sq) \in OpRecords
        /\ sq' \in Seq(OpRecords)
        /\ Len(sq) \in Nat \ {0}
        /\ Len(sq') = Len(sq) - 1
        /\ \A i \in 1..(Len(sq) - 1) : sq'[i] = sq[i + 1]
    BY <1>1, TailFacts
  <1>3. Len(sq') <= SqSize /\ 1 \in 1..Len(sq)
    BY <1>1, <1>2, ConstantFacts
  <1>4. \A i \in 1..Len(sq') : i + 1 \in 1..Len(sq) /\ sq'[i] = sq[i + 1]
    BY <1>2
  <1>5. ASSUME NEW u \in Tasks PROVE Submitted(u)' <=> Submitted(u) /\ u # Head(sq).by
    <2>1. ASSUME Submitted(u)' PROVE Submitted(u) /\ u # Head(sq).by
      <3>1. PICK i \in 1..Len(sq') : sq'[i].by = u
        BY <2>1 DEF Submitted
      <3>2. i + 1 \in 1..Len(sq) /\ sq[i + 1].by = u /\ i + 1 # 1
        BY <3>1, <1>4
      <3> QED
        BY <3>2, <1>2, <1>3 DEF Submitted, SqOnce
    <2>2. ASSUME Submitted(u), u # Head(sq).by PROVE Submitted(u)'
      <3>1. PICK i \in 1..Len(sq) : sq[i].by = u
        BY <2>2 DEF Submitted
      <3>2. i # 1
        BY <3>1, <2>2, <1>2
      <3>3. i - 1 \in 1..(Len(sq) - 1) /\ (i - 1) + 1 = i
        BY <3>1, <3>2, <1>2
      <3>4. i - 1 \in 1..Len(sq') /\ sq'[i - 1].by = u
        BY <3>1, <3>3, <1>2
      <3> QED
        BY <3>4 DEF Submitted
    <2> QED
      BY <2>1, <2>2
  <1>6. \A u \in Tasks : InKernel(u)' <=> InKernel(u) \/ u = Head(sq).by
    BY DEF InKernel
  <1>7. SqOnce'
    <2> SUFFICES ASSUME NEW i \in 1..Len(sq'), NEW j \in 1..Len(sq'), sq'[i].by = sq'[j].by
                 PROVE  i = j
      BY DEF SqOnce
    <2>1. i + 1 = j + 1
      BY <1>4 DEF SqOnce
    <2> QED
      BY <2>1
  <1>8. OpsOnce'
    BY DEF OpsOnce
  <1>9. Submitted(Head(sq).by)
    BY <1>2, <1>3 DEF Submitted
  <1> QED
    BY <1>2, <1>3, <1>4, <1>5, <1>6, <1>7, <1>8, <1>9

(* Post: the kernel completes the operation o with the entry e.            *)
LEMMA PostPlaces ==
  ASSUME TypeInv, OpsOnce, LastInv, NEW o \in ops, NEW e \in CompletionRecords,
         e.by = o.by, ~Completed(o.by),
         cq' = Append(cq, e), ops' = IF e.more THEN ops ELSE ops \ {o}
  PROVE  /\ cq' \in Seq(CompletionRecords)
         /\ Len(cq) \in Nat /\ Len(cq') = Len(cq) + 1
         /\ \A i \in 1..Len(cq) : cq'[i] = cq[i]
         /\ cq'[Len(cq) + 1] = e
         /\ ops' \subseteq ops
         /\ \A u \in Tasks : InKernel(u)' <=> InKernel(u) /\ (e.more \/ u # o.by)
         /\ \A u \in Tasks : Completed(u)' <=> Completed(u) \/ (~e.more /\ u = o.by)
         /\ OpsOnce' /\ LastInv'
  <1>1. cq \in Seq(CompletionRecords)
    BY DEF TypeInv
  <1>2. /\ cq' \in Seq(CompletionRecords)
        /\ Len(cq') = Len(cq) + 1
        /\ \A i \in 1..Len(cq) : cq'[i] = cq[i]
        /\ cq'[Len(cq) + 1] = e
        /\ Len(cq) \in Nat
    BY <1>1, AppendFacts
  <1>3. \A i \in 1..Len(cq') : i = Len(cq) + 1 \/ i \in 1..Len(cq)
    BY <1>2
  <1>4. ops' \subseteq ops /\ OpsOnce'
    BY DEF OpsOnce
  <1>5. \A u \in Tasks : InKernel(u)' <=> InKernel(u) /\ (e.more \/ u # o.by)
    BY DEF InKernel, OpsOnce
  <1>6. ASSUME NEW u \in Tasks
        PROVE  Completed(u)' <=> Completed(u) \/ (~e.more /\ u = o.by)
    <2>1. Completed(u)' => Completed(u) \/ (~e.more /\ u = o.by)
      BY <1>2, <1>3 DEF Completed
    <2>2. Completed(u) => Completed(u)'
      BY <1>2 DEF Completed
    <2>3. ~e.more /\ u = o.by => Completed(u)'
      BY <1>2 DEF Completed
    <2> QED
      BY <2>1, <2>2, <2>3
  <1>7. LastInv'
    <2> SUFFICES ASSUME NEW i \in 1..Len(cq'), NEW j \in 1..Len(cq'),
                        cq'[i].by = cq'[j].by, ~cq'[i].more
                 PROVE  j <= i
      BY DEF LastInv
    <2>1. CASE i = Len(cq) + 1
      BY <2>1, <1>2
    <2>2. CASE i \in 1..Len(cq) /\ j \in 1..Len(cq)
      BY <2>2, <1>2 DEF LastInv
    <2>3. CASE i \in 1..Len(cq) /\ j = Len(cq) + 1
      BY <2>3, <1>2 DEF Completed
    <2> QED
      BY <2>1, <2>2, <2>3, <1>3
  <1> QED
    BY <1>2, <1>4, <1>5, <1>6, <1>7

(* cqe_seen.                                                               *)
LEMMA SeenPlaces ==
  ASSUME TypeInv, LastInv, cq # <<>>, cq' = Tail(cq)
  PROVE  /\ cq' \in Seq(CompletionRecords)
         /\ Head(cq) = cq[1] /\ 1 \in 1..Len(cq) /\ Head(cq) \in CompletionRecords
         /\ Len(cq) \in Nat /\ Len(cq') = Len(cq) - 1
         /\ \A i \in 1..Len(cq') : i + 1 \in 1..Len(cq) /\ cq'[i] = cq[i + 1]
         /\ \A i \in 1..Len(cq) : i = 1 \/ (i - 1 \in 1..Len(cq') /\ cq'[i - 1] = cq[i])
         /\ \A u \in Tasks :
              Completed(u)' <=> Completed(u) /\ (Head(cq).more \/ u # Head(cq).by)
         /\ ~Head(cq).more => Completed(Head(cq).by)
         /\ LastInv'
  <1>1. cq \in Seq(CompletionRecords)
    BY DEF TypeInv
  <1>2. /\ Head(cq) = cq[1] /\ Head(cq) \in CompletionRecords
        /\ cq' \in Seq(CompletionRecords)
        /\ Len(cq) \in Nat \ {0}
        /\ Len(cq') = Len(cq) - 1
        /\ \A i \in 1..(Len(cq) - 1) : cq'[i] = cq[i + 1]
    BY <1>1, TailFacts
  <1>3. 1 \in 1..Len(cq)
    BY <1>2
  <1>4. \A i \in 1..Len(cq') : i + 1 \in 1..Len(cq) /\ cq'[i] = cq[i + 1]
    BY <1>2
  <1>5. ASSUME NEW i \in 1..Len(cq), i # 1
        PROVE  i - 1 \in 1..Len(cq') /\ cq'[i - 1] = cq[i]
    <2>1. i - 1 \in 1..(Len(cq) - 1) /\ (i - 1) + 1 = i
      BY <1>2, <1>5
    <2> QED
      BY <2>1, <1>2
  <1>6. ASSUME NEW u \in Tasks
        PROVE  Completed(u)' <=> Completed(u) /\ (Head(cq).more \/ u # Head(cq).by)
    <2>1. ASSUME Completed(u)' PROVE Completed(u) /\ (Head(cq).more \/ u # Head(cq).by)
      <3>1. PICK i \in 1..Len(cq') : cq'[i].by = u /\ ~cq'[i].more
        BY <2>1 DEF Completed
      <3>2. i + 1 \in 1..Len(cq) /\ cq[i + 1].by = u /\ ~cq[i + 1].more /\ ~(i + 1 <= 1)
        BY <3>1, <1>4
      <3> QED
        BY <3>2, <1>2, <1>3 DEF Completed, LastInv
    <2>2. ASSUME Completed(u), Head(cq).more \/ u # Head(cq).by PROVE Completed(u)'
      <3>1. PICK i \in 1..Len(cq) : cq[i].by = u /\ ~cq[i].more
        BY <2>2 DEF Completed
      <3>2. i # 1
        BY <3>1, <2>2, <1>2
      <3>3. i - 1 \in 1..Len(cq') /\ cq'[i - 1].by = u /\ ~cq'[i - 1].more
        BY <3>1, <3>2, <1>5
      <3> QED
        BY <3>3 DEF Completed
    <2> QED
      BY <2>1, <2>2
  <1>7. LastInv'
    <2> SUFFICES ASSUME NEW i \in 1..Len(cq'), NEW j \in 1..Len(cq'),
                        cq'[i].by = cq'[j].by, ~cq'[i].more
                 PROVE  j <= i
      BY DEF LastInv
    <2>1. j + 1 <= i + 1
      BY <1>4 DEF LastInv
    <2> QED
      BY <2>1, <1>2
  <1>8. ~Head(cq).more => Completed(Head(cq).by)
    BY <1>2, <1>3 DEF Completed
  <1> QED
    BY <1>2, <1>3, <1>4, <1>5, <1>6, <1>7, <1>8

-----------------------------------------------------------------------------
(* What the steps leave alone.                                             *)

LEMMA QueueSame ==
  ASSUME UNCHANGED queue
  PROVE  /\ \A u \in Tasks : InQueue(u)' <=> InQueue(u)
         /\ QueueOnce => QueueOnce'
  BY DEF InQueue, QueueOnce

LEMMA ExecSame ==
  ASSUME UNCHANGED exec
  PROVE  /\ \A u \in Tasks : Executes(u)' <=> Executes(u)
         /\ ExecOnce => ExecOnce'
  BY DEF Executes, ExecOnce

LEMMA SqSame ==
  ASSUME UNCHANGED sq
  PROVE  /\ \A u \in Tasks : Submitted(u)' <=> Submitted(u)
         /\ SqOnce => SqOnce'
  BY DEF Submitted, SqOnce

LEMMA OpsSame ==
  ASSUME UNCHANGED ops
  PROVE  /\ \A u \in Tasks : InKernel(u)' <=> InKernel(u)
         /\ OpsOnce => OpsOnce'
  BY DEF InKernel, OpsOnce

LEMMA CqSame ==
  ASSUME UNCHANGED cq
  PROVE  /\ \A u \in Tasks : Completed(u)' <=> Completed(u)
         /\ LastInv => LastInv'
  BY DEF Completed, LastInv

LEMMA ElementTypes ==
  ASSUME TypeInv
  PROVE  /\ \A i \in 1..Len(sq) : sq[i] \in OpRecords /\ sq[i].by \in Tasks
         /\ \A o \in ops : o \in OpRecords /\ o.by \in Tasks
         /\ \A i \in 1..Len(cq) :
              /\ cq[i] \in CompletionRecords
              /\ cq[i].by \in Tasks
              /\ cq[i].conn \in Conns \cup {None}
  <1>1. sq \in Seq(OpRecords) /\ ops \subseteq OpRecords /\ cq \in Seq(CompletionRecords)
    BY DEF TypeInv, TypeOK
  <1>2. \A o \in OpRecords : o.by \in Tasks
    BY DEF OpRecords
  <1>3. \A e \in CompletionRecords : e.by \in Tasks /\ e.conn \in Conns \cup {None}
    BY DEF CompletionRecords
  <1>4. \A i \in 1..Len(sq) : sq[i] \in OpRecords
    BY <1>1
  <1>5. \A i \in 1..Len(cq) : cq[i] \in CompletionRecords
    BY <1>1
  <1> QED
    BY <1>1, <1>2, <1>3, <1>4, <1>5

(* The coroutines that live keep their kind, connection and caller.        *)
LiveShape ==
  \A u \in Tasks :
    frame[u] = "live" =>
      /\ code'[u].kind = code[u].kind
      /\ code'[u].conn = code[u].conn
      /\ code'[u].prev = code[u].prev

(* ... and no coroutine begins, ends or is destroyed.                      *)
SameShape == LiveShape /\ UNCHANGED frame

LEMMA LoopsLive ==
  ASSUME KindInv
  PROVE  /\ frame[Reaper] = "live" /\ frame[Acceptor] = "live"
         /\ \A t \in Tasks : frame[t] # "live" => t \in Frames
  BY ConstantFacts DEF KindInv

LEMMA ShapeFacts ==
  ASSUME KindInv, SameShape, UNCHANGED code \/ \A u \in Tasks : frame[u] # "live" => code'[u] = code[u]
  PROVE  /\ \A u \in Tasks : Awaits(u)' <=> Awaits(u)
         /\ CallerOnce => CallerOnce'
         /\ \A c \in Conns : Owners(c)' = Owners(c)
  <1>1. /\ \A u \in Tasks : Awaits(u)' <=> Awaits(u)
        /\ CallerOnce => CallerOnce'
    BY DEF SameShape, LiveShape, Awaits, CallerOnce
  <1>2. \A u \in Frames : code'[u].kind = code[u].kind /\ code'[u].conn = code[u].conn /\ frame'[u] = frame[u]
    BY ConstantFacts DEF SameShape, LiveShape
  <1> QED
    BY <1>1, <1>2 DEF Owners

LEMMA OpSame ==
  ASSUME PlaceInv, TypeInv, OpInv, LiveShape, UNCHANGED <<sq, ops, cq>>
  PROVE  OpInv'
  <1>1. /\ \A i \in 1..Len(sq) : sq[i].by \in Tasks
        /\ \A o \in ops : o.by \in Tasks
        /\ \A i \in 1..Len(cq) : cq[i].by \in Tasks
    BY ElementTypes
  <1>2. \A u \in Tasks : Submitted(u) \/ InKernel(u) \/ Completed(u) => frame[u] = "live"
    BY DEF PlaceInv, NoPlace
  <1>3. ASSUME NEW i \in 1..Len(sq) PROVE Matches(sq[i], code')
    <2>1. Submitted(sq[i].by)
      BY DEF Submitted
    <2> QED
      BY <1>1, <1>2, <2>1 DEF OpInv, Matches, LiveShape
  <1>4. ASSUME NEW o \in ops PROVE Matches(o, code')
    <2>1. InKernel(o.by)
      BY DEF InKernel
    <2> QED
      BY <1>1, <1>2, <2>1 DEF OpInv, Matches, LiveShape
  <1>5. ASSUME NEW i \in 1..Len(cq)
        PROVE  /\ cq[i].kind = code'[cq[i].by].kind
               /\ cq[i].kind # "accept" => ~cq[i].more /\ cq[i].conn = None
               /\ InKernel(cq[i].by) \/ Completed(cq[i].by)
    BY <1>1, <1>2 DEF OpInv, LiveShape
  <1>6. \A i \in 1..Len(cq) : InKernel(cq[i].by) <=> InKernel(cq[i].by)'
    BY DEF InKernel
  <1>7. \A i \in 1..Len(cq) : Completed(cq[i].by) <=> Completed(cq[i].by)'
    BY DEF Completed
  <1> QED
    BY <1>3, <1>4, <1>5, <1>6, <1>7 DEF OpInv

LEMMA SocketSame ==
  ASSUME SocketInv, TypeInv, UNCHANGED <<cq, peer>>, HeadSeen' <=> HeadSeen,
         \A c \in Conns : Owners(c)' = {} <=> Owners(c) = {}
  PROVE  SocketInv'
  <1>1. \A i \in 1..Len(cq) : cq[i].conn # None => cq[i].conn \in Conns
    BY ElementTypes
  <1> DEFINE owned(c) == Owners(c) # {}
  <1>2. \A c \in Conns : owned(c)' <=> owned(c)
    OBVIOUS
  <1>3. ASSUME NEW i \in 1..Len(cq), cq[i].conn # None
        PROVE  Owners(cq[i].conn)' = {} <=> Owners(cq[i].conn) = {}
    <2>1. PICK c \in Conns : c = cq[i].conn
      BY <1>1, <1>3
    <2> QED
      BY <2>1, <1>2
  <1> QED
    BY <1>2, <1>3 DEF SocketInv

LEMMA SeenSame ==
  ASSUME SeenInv, UNCHANGED cq, HeadSeen' <=> HeadSeen,
         HeadSeen /\ Executes(Reaper) => Executes(Reaper)'
  PROVE  SeenInv'
  BY DEF SeenInv

-----------------------------------------------------------------------------
(* The pool's steps.                                                       *)

LEMMA RunTaskStep ==
  ASSUME IInv, NEW w \in Workers, RunTask(w)
  PROVE  IInv'
  <1> DEFINE h == Head(queue[w])
  <1> USE DEF IInv, OnceInv
  <1>1. /\ h \in Tasks /\ InQueue(h)
        /\ queue' \in [Workers -> Seq(Tasks)]
        /\ \A u \in Tasks : InQueue(u)' <=> InQueue(u) /\ u # h
        /\ QueueOnce'
    BY PopPlaces DEF RunTask, TypeInv
  <1>2. frame[h] = "live" /\ ~Executes(h) /\ code[h].at # "await"
    BY <1>1 DEF PlaceInv, NoPlace, OnePlace
  <1>3. exec' = [exec EXCEPT ![w] = h] /\ exec[w] = None
    BY <1>2 DEF RunTask, HolderInv
  <1>4. /\ exec' \in [Workers -> Tasks \cup {None}]
        /\ exec'[w] = h
        /\ \A v \in Workers : v # w => exec'[v] = exec[v]
        /\ \A u \in Tasks : Executes(u)' <=> u = h \/ Executes(u)
        /\ ExecOnce'
    BY <1>1, <1>2, <1>3, ExecPlaces, ConstantFacts DEF TypeInv
  <1>5. UNCHANGED <<binding, frame, code, sq, ops, cq, peer>>
    BY DEF RunTask, kernelVars
  <1>6. SameShape /\ LiveShape
    BY <1>5 DEF SameShape, LiveShape
  <1>7. HeadSeen' <=> HeadSeen
    BY <1>5 DEF HeadSeen
  <1>8. TypeInv'
    BY <1>1, <1>4, <1>5 DEF TypeInv, TypeOK, RunTask
  <1>9. PlaceInv'
    BY <1>1, <1>2, <1>4, <1>5, <1>6, SqSame, OpsSame, CqSame, ShapeFacts
       DEF PlaceInv, NoPlace, OnePlace
  <1>10. OnceInv'
    BY <1>1, <1>4, <1>5, <1>6, SqSame, OpsSame, CqSame, ShapeFacts
  <1>11. KindInv' /\ CallerInv'
    BY <1>5 DEF KindInv, CallerInv
  <1>12. BoundInv'
    BY <1>1, <1>4, <1>5 DEF BoundInv
  <1>13. HolderInv'
    BY <1>1, <1>4, <1>5, ConstantFacts DEF HolderInv, RunTask, TypeInv, TypeOK
  <1>14. OpInv'
    BY <1>5, <1>6, OpSame
  <1>15. SeenInv'
    BY <1>4, <1>5, <1>7, SeenSame, ConstantFacts
  <1>16. SocketInv'
    BY <1>5, <1>6, <1>7, ShapeFacts, SocketSame
  <1> QED
    BY <1>8, <1>9, <1>10, <1>11, <1>12, <1>13, <1>14, <1>15, <1>16

LEMMA ReturnTaskStep ==
  ASSUME IInv, NEW w \in Workers, ReturnTask(w)
  PROVE  IInv'
  <1> USE DEF IInv, OnceInv
  <1>1. UNCHANGED <<binding, queue, frame, exec, code, sq, ops, cq, peer>>
    BY DEF ReturnTask, kernelVars
  <1>2. SameShape /\ LiveShape
    BY <1>1 DEF SameShape, LiveShape
  <1>3. HeadSeen' <=> HeadSeen
    BY <1>1 DEF HeadSeen
  <1>4. TypeInv'
    BY <1>1, ConstantFacts DEF TypeInv, TypeOK, ReturnTask
  <1>5. PlaceInv'
    BY <1>1, <1>2, QueueSame, ExecSame, SqSame, OpsSame, CqSame, ShapeFacts
       DEF PlaceInv, NoPlace, OnePlace
  <1>6. OnceInv'
    BY <1>1, <1>2, QueueSame, ExecSame, SqSame, OpsSame, CqSame, ShapeFacts
  <1>7. KindInv' /\ CallerInv'
    BY <1>1 DEF KindInv, CallerInv
  <1>8. BoundInv'
    BY <1>1, QueueSame, ExecSame DEF BoundInv
  <1>9. HolderInv'
    BY DEF HolderInv, ReturnTask, TypeInv, TypeOK
  <1>10. OpInv' /\ SeenInv' /\ SocketInv'
    BY <1>1, <1>2, <1>3, OpSame, SeenSame, SocketSame, ExecSame, ShapeFacts, ConstantFacts
  <1> QED
    BY <1>4, <1>5, <1>6, <1>7, <1>8, <1>9, <1>10

(* A coroutine t gives up its share of its socket: it does not own it any  *)
(* more and everything else stays as it is.                                *)
LEMMA DisownSockets ==
  ASSUME SocketInv, TypeInv, NEW t \in Tasks, Disown(t),
         UNCHANGED cq, HeadSeen' <=> HeadSeen,
         \A c \in Conns : Owners(c)' = Owners(c) \ {t}
  PROVE  SocketInv' /\ peer' \in [Conns -> PeerRecords]
  <1>1. peer \in [Conns -> PeerRecords]
    BY DEF TypeInv
  <1>2. ASSUME NEW c \in Conns
        PROVE  /\ peer'[c] \in PeerRecords
               /\ Owners(c) = {t} => peer'[c].sock = "closed"
               /\ Owners(c) # {t} => peer'[c] = peer[c]
    BY <1>1 DEF Disown, PeerRecords
  <1>3. peer' \in [Conns -> PeerRecords]
    BY <1>2 DEF Disown
  <1>4. ASSUME NEW i \in 1..Len(cq), cq[i].conn # None
        PROVE  /\ peer'[cq[i].conn].sock # "none"
               /\ \/ peer'[cq[i].conn].sock = "open" /\ Owners(cq[i].conn)' = {}
                  \/ i = 1 /\ HeadSeen
    <2>1. cq[i].conn \in Conns
      BY <1>4, ElementTypes
    <2>2. CASE Owners(cq[i].conn) # {t}
      BY <2>1, <2>2, <1>2, <1>4 DEF SocketInv
    <2>3. CASE Owners(cq[i].conn) = {t}
      BY <2>1, <2>3, <1>2, <1>4 DEF SocketInv
    <2> QED
      BY <2>2, <2>3
  <1>5. ASSUME NEW c \in Conns
        PROVE  /\ Owners(c)' # {} => peer'[c].sock = "open"
               /\ peer'[c].sock = "open" =>
                    \/ Owners(c)' # {}
                    \/ \E i \in 1..Len(cq) : cq[i].conn = c /\ ~(i = 1 /\ HeadSeen)
    BY <1>2 DEF SocketInv
  <1> QED
    BY <1>3, <1>4, <1>5 DEF SocketInv

LEMMA CleanTaskStep ==
  ASSUME IInv, NEW t \in Tasks, CleanTask(t)
  PROVE  IInv'
  <1> USE DEF IInv, OnceInv
  <1>1. t \in Frames /\ frame[t] = "done" /\ NoPlace(t)
    BY ConstantFacts DEF CleanTask, KindInv, PlaceInv
  <1>2. UNCHANGED <<queue, holder, exec, sq, ops, cq>>
    BY DEF CleanTask
  <1>3. /\ frame' = [frame EXCEPT ![t] = "free"]
        /\ binding' = [binding EXCEPT ![t] = None]
        /\ code' = [code EXCEPT ![t] = Blank]
        /\ Disown(t)
    BY DEF CleanTask
  <1>4. /\ frame'[t] = "free" /\ binding'[t] = None /\ code'[t] = Blank
        /\ \A u \in Tasks : u # t =>
             frame'[u] = frame[u] /\ binding'[u] = binding[u] /\ code'[u] = code[u]
    BY <1>3 DEF TypeInv, TypeOK
  <1>5. LiveShape
    BY <1>1, <1>4 DEF LiveShape
  <1>6. HeadSeen' <=> HeadSeen
    BY <1>1, <1>4, ConstantFacts DEF HeadSeen
  <1>7. \A u \in Tasks : Awaits(u)' <=> Awaits(u)
    BY <1>1, <1>4 DEF Awaits
  <1>8. \A c \in Conns : Owners(c)' = Owners(c) \ {t}
    BY <1>1, <1>4, ConstantFacts DEF Owners
  <1>9. SocketInv' /\ peer' \in [Conns -> PeerRecords]
    BY <1>2, <1>3, <1>6, <1>8, DisownSockets
  <1>10. TypeInv'
    <2>1. Blank \in CodeRecords
      BY DEF Blank, CodeRecords
    <2>2. \A c \in Conns : peer'[c].sock \in {"none", "open", "closed"}
      BY <1>9 DEF PeerRecords
    <2> QED
      BY <1>2, <1>3, <1>9, <2>1, <2>2 DEF TypeInv, TypeOK
  <1>11. PlaceInv'
    BY <1>1, <1>2, <1>4, <1>7, QueueSame, ExecSame, SqSame, OpsSame, CqSame
       DEF PlaceInv, NoPlace, OnePlace
  <1>12. OnceInv'
    <2>1. CallerOnce'
      BY <1>1, <1>4 DEF CallerOnce
    <2> QED
      BY <1>2, <2>1, QueueSame, ExecSame, SqSame, OpsSame, CqSame
  <1>13. KindInv'
    BY <1>1, <1>4, ConstantFacts DEF KindInv
  <1>14. CallerInv'
    BY <1>1, <1>4, ConstantFacts DEF CallerInv
  <1>15. BoundInv'
    BY <1>2, <1>4, QueueSame, ExecSame DEF BoundInv
  <1>16. HolderInv'
    BY <1>2 DEF HolderInv
  <1>17. OpInv' /\ SeenInv'
    BY <1>2, <1>5, <1>6, OpSame, SeenSame, ExecSame, ConstantFacts
  <1> QED
    BY <1>9, <1>10, <1>11, <1>12, <1>13, <1>14, <1>15, <1>16, <1>17

-----------------------------------------------------------------------------
(* The steps of coroutines.                                                *)

(* The coroutine that executes on a worker lives, and is nowhere else.     *)
LEMMA ExecutingFacts ==
  ASSUME IInv, NEW w \in Workers, NEW t \in Tasks, exec[w] = t
  PROVE  /\ frame[t] = "live" /\ Executes(t)
         /\ ~InQueue(t) /\ ~Submitted(t) /\ ~InKernel(t) /\ ~Completed(t) /\ ~Awaits(t)
         /\ holder[w] # None
         /\ code[t] \in CodeRecords
         /\ code[t].at # "await"
         /\ code[t].at = "submit" => code[t].kind \in {"accept", "read", "respond"}
         /\ code[t].kind \in {"client", "read", "respond"} => t \in Frames
         /\ code[t].kind = "reap" => t = Reaper
         /\ code[t].kind = "accept" => t = Acceptor
  <1>1. Executes(t)
    BY DEF Executes
  <1>2. frame[t] = "live" /\ OnePlace(t)
    BY <1>1 DEF IInv, PlaceInv, NoPlace
  <1>3. holder[w] # None
    BY ConstantFacts DEF IInv, HolderInv
  <1>4. code[t] \in CodeRecords
    BY DEF IInv, TypeInv, TypeOK
  <1>5. code[t].at # "await"
    BY <1>1 DEF IInv, PlaceInv
  <1>6. /\ code[t].at = "submit" => code[t].kind \in {"accept", "read", "respond"}
        /\ code[t].kind \in {"client", "read", "respond"} => t \in Frames
        /\ code[t].kind = "reap" => t = Reaper
        /\ code[t].kind = "accept" => t = Acceptor
    BY <1>2, ConstantFacts DEF IInv, KindInv
  <1> QED
    BY <1>1, <1>2, <1>3, <1>4, <1>5, <1>6 DEF OnePlace

LEMMA SubmitStep ==
  ASSUME IInv, NEW w \in Workers, NEW t \in Tasks, Submit(w, t)
  PROVE  IInv'
  <1> USE DEF IInv, OnceInv
  <1>1. exec[w] = t /\ code[t].at = "submit"
    BY DEF Submit
  <1>2. UNCHANGED <<binding, queue, holder, frame, ops, cq, peer>>
    BY DEF Submit, poolVars
  <1>3. /\ code' = [code EXCEPT ![t].at = "wait", ![t].res = "none", ![t].n = 0]
        /\ exec' = [exec EXCEPT ![w] = None]
        /\ sq' = Append(sq, Operation(t))
        /\ Room
    BY DEF Submit
  <1>4. code \in [Tasks -> CodeRecords]
    BY DEF TypeInv, TypeOK
  <1>5. \A u \in Tasks : u # t => code'[u] = code[u]
    BY <1>3, <1>4
  <1>6. /\ code'[t] \in CodeRecords /\ code'[t].at = "wait"
        /\ code'[t].kind = code[t].kind /\ code'[t].conn = code[t].conn
        /\ code'[t].prev = code[t].prev
    <2>1. code[t] \in CodeRecords
      BY <1>4
    <2>5. code'[t] = [code[t] EXCEPT !.at = "wait", !.res = "none", !.n = 0]
      BY <1>3, <1>4
    <2>2. [code[t] EXCEPT !.at = "wait", !.res = "none", !.n = 0] \in CodeRecords
      BY <2>1 DEF CodeRecords
    <2>3. code'[t].at = "wait" /\ code'[t].kind = code[t].kind
      BY <2>5, <2>1 DEF CodeRecords
    <2>4. code'[t].conn = code[t].conn /\ code'[t].prev = code[t].prev
      BY <2>5, <2>1 DEF CodeRecords
    <2> QED
      BY <2>5, <2>2, <2>3, <2>4
  <1>7. /\ LiveShape
        /\ \A u \in Tasks : Awaits(u)' <=> Awaits(u)
        /\ CallerOnce'
        /\ \A c \in Conns : Owners(c)' = Owners(c)
    <2>1. SameShape /\ LiveShape
      BY <1>2, <1>5, <1>6 DEF SameShape, LiveShape
    <2>2. \A u \in Tasks : frame[u] # "live" => code'[u] = code[u]
      BY <1>1, <1>5, ExecutingFacts
    <2> QED
      BY <2>1, <2>2, ShapeFacts
  <1>8. Operation(t) \in OpRecords /\ Operation(t).by = t /\ Matches(Operation(t), code')
    <2>1. PartLen(code[t].part) \in Nat
      BY <1>4, ConstantFacts DEF PartLen, CodeRecords
    <2>2. code[t].kind \in {"read", "respond", "accept"} /\ code[t].conn \in Conns \cup {None}
      BY <1>1, <1>4, ExecutingFacts DEF CodeRecords
    <2>3. Operation(t) \in OpRecords /\ Operation(t).by = t
      BY <2>1, <2>2 DEF Operation, OpRecords
    <2>4. Operation(t).kind = code'[t].kind /\ Operation(t).conn = code'[t].conn
      BY <1>6 DEF Operation
    <2> QED
      BY <2>3, <2>4 DEF Matches
  <1>9. /\ sq' \in Seq(OpRecords) /\ Len(sq') <= SqSize
        /\ \A u \in Tasks : Submitted(u)' <=> Submitted(u) \/ u = t
        /\ SqOnce'
        /\ \A i \in 1..Len(sq') :
             sq'[i] = Operation(t) \/ (i \in 1..Len(sq) /\ sq'[i] = sq[i])
    BY <1>1, <1>3, <1>8, SubmitPlaces, ExecutingFacts DEF TypeInv
  <1>10. /\ exec' \in [Workers -> Tasks \cup {None}]
         /\ exec'[w] = None
         /\ \A v \in Workers : v # w => exec'[v] = exec[v]
         /\ \A u \in Tasks : Executes(u)' <=> Executes(u) /\ u # t
         /\ ExecOnce'
    BY <1>1, <1>3, ExecPlaces, ConstantFacts DEF TypeInv
  <1>11. HeadSeen' <=> HeadSeen
    BY <1>1, <1>5, <1>6, ConstantFacts DEF HeadSeen
  <1>12. TypeInv'
    BY <1>2, <1>3, <1>5, <1>6, <1>4, <1>9, <1>10 DEF TypeInv, TypeOK
  <1>13. PlaceInv'
    <2>1. Executes(t) /\ OnePlace(t) /\ frame[t] = "live"
      BY <1>1, ExecutingFacts DEF PlaceInv
    <2>2. \A u \in Tasks :
             /\ InQueue(u)' <=> InQueue(u)
             /\ InKernel(u)' <=> InKernel(u)
             /\ Completed(u)' <=> Completed(u)
      BY <1>2, QueueSame, OpsSame, CqSame
    <2> QED
      BY <1>2, <1>5, <1>6, <1>7, <1>9, <1>10, <2>1, <2>2 DEF PlaceInv, NoPlace, OnePlace
  <1>14. OnceInv'
    BY <1>2, <1>7, <1>9, <1>10, QueueSame, OpsSame, CqSame
  <1>15. KindInv'
    <2>1. t # Reaper
      BY <1>1 DEF KindInv
    <2>2. frame[t] = "live" /\ (t \in Frames => code[t].kind # "client")
      BY <1>1, ExecutingFacts DEF KindInv
    <2> QED
      BY <1>2, <1>5, <1>6, <2>1, <2>2, ConstantFacts DEF KindInv
  <1>16. CallerInv'
    <2>1. code[t].at # "await"
      BY <1>1
    <2> QED
      BY <1>2, <1>5, <1>6, <2>1, ConstantFacts DEF CallerInv
  <1>17. BoundInv'
    <2>1. \A u \in Tasks : InQueue(u)' <=> InQueue(u)
      BY <1>2, QueueSame
    <2> QED
      BY <1>1, <1>2, <1>5, <1>6, <1>10, <2>1 DEF BoundInv
  <1>18. HolderInv'
    BY <1>2, <1>10 DEF HolderInv
  <1>19. OpInv'
    <2>1. \A i \in 1..Len(sq') : Matches(sq'[i], code')
      <3>1. ASSUME NEW i \in 1..Len(sq) PROVE Matches(sq[i], code')
        <4>1. Matches(sq[i], code) /\ sq[i].by \in Tasks
          BY ElementTypes DEF OpInv
        <4> QED
          BY <4>1, <1>5, <1>6 DEF Matches
      <3> QED
        BY <1>8, <1>9, <3>1
    <2>2. \A o \in ops' : Matches(o, code')
      <3>1. ASSUME NEW o \in ops PROVE Matches(o, code')
        <4>1. Matches(o, code) /\ o.by \in Tasks
          BY ElementTypes DEF OpInv
        <4> QED
          BY <4>1, <1>5, <1>6 DEF Matches
      <3> QED
        BY <1>2, <3>1
    <2>3. ASSUME NEW i \in 1..Len(cq)
          PROVE  /\ cq[i].kind = code'[cq[i].by].kind
                 /\ cq[i].kind # "accept" => ~cq[i].more /\ cq[i].conn = None
                 /\ InKernel(cq[i].by) \/ Completed(cq[i].by)
      BY <1>5, <1>6, ElementTypes DEF OpInv
    <2>4. \A i \in 1..Len(cq) : InKernel(cq[i].by)' <=> InKernel(cq[i].by)
      BY <1>2 DEF InKernel
    <2>5. \A i \in 1..Len(cq) : Completed(cq[i].by)' <=> Completed(cq[i].by)
      BY <1>2 DEF Completed
    <2> QED
      BY <2>1, <2>2, <2>3, <2>4, <2>5, <1>2 DEF OpInv
  <1>20. SeenInv'
    <2>1. HeadSeen => t # Reaper
      BY <1>1 DEF HeadSeen
    <2> QED
      BY <1>2, <1>10, <1>11, <2>1, SeenSame, ConstantFacts
  <1>21. SocketInv'
    BY <1>2, <1>7, <1>11, SocketSame
  <1> QED
    BY <1>12, <1>13, <1>14, <1>15, <1>16, <1>17, <1>18, <1>19, <1>20, <1>21

(* Of all frames a step writes only into that of t, and leaves what its    *)
(* kind, connection and caller are.                                        *)
OnlyAt(t) ==
  /\ code' \in [Tasks -> CodeRecords]
  /\ \A u \in Tasks : u # t => code'[u] = code[u]
  /\ code'[t].kind = code[t].kind
  /\ code'[t].conn = code[t].conn
  /\ code'[t].prev = code[t].prev

LEMMA OnlyAtFacts ==
  ASSUME IInv, NEW t \in Tasks, frame[t] = "live", OnlyAt(t), UNCHANGED frame
  PROVE  /\ LiveShape
         /\ \A u \in Tasks : Awaits(u)' <=> Awaits(u)
         /\ CallerOnce'
         /\ \A c \in Conns : Owners(c)' = Owners(c)
  <1>1. SameShape /\ LiveShape
    BY DEF SameShape, LiveShape, OnlyAt
  <1>2. \A u \in Tasks : frame[u] # "live" => code'[u] = code[u]
    BY DEF OnlyAt
  <1> QED
    BY <1>1, <1>2, ShapeFacts DEF IInv, OnceInv

(* A coroutine that goes on after its co_await.                            *)
LEMMA StayStep ==
  ASSUME IInv, NEW w \in Workers, NEW t \in Tasks, exec[w] = t, OnlyAt(t),
         UNCHANGED <<poolVars, frame, exec, kernelVars>>,
         code[t].at = "wait",
         code'[t].at = "submit" \/ (code'[t].at = "thrown" /\ t = Acceptor)
  PROVE  IInv'
  <1> USE DEF IInv, OnceInv
  <1>1. UNCHANGED <<binding, queue, holder, frame, exec, sq, ops, cq, peer>>
    BY DEF poolVars, kernelVars
  <1>2. frame[t] = "live" /\ Executes(t) /\ OnePlace(t) /\ t # Reaper
    BY ExecutingFacts DEF PlaceInv, KindInv
  <1>3. /\ LiveShape
        /\ \A u \in Tasks : Awaits(u)' <=> Awaits(u)
        /\ CallerOnce'
        /\ \A c \in Conns : Owners(c)' = Owners(c)
    BY <1>1, <1>2, OnlyAtFacts
  <1>4. /\ \A u \in Tasks : u # t => code'[u] = code[u]
        /\ code'[t].kind = code[t].kind /\ code'[t].conn = code[t].conn
        /\ code'[t].prev = code[t].prev
    BY DEF OnlyAt
  <1>5. HeadSeen' <=> HeadSeen
    BY <1>2, <1>4, ConstantFacts DEF HeadSeen
  <1>6. TypeInv'
    BY <1>1 DEF OnlyAt, TypeInv, TypeOK
  <1>7. PlaceInv'
    <2>1. \A u \in Tasks :
            /\ InQueue(u)' <=> InQueue(u)
            /\ Executes(u)' <=> Executes(u)
            /\ Submitted(u)' <=> Submitted(u)
            /\ InKernel(u)' <=> InKernel(u)
            /\ Completed(u)' <=> Completed(u)
      BY <1>1, QueueSame, ExecSame, SqSame, OpsSame, CqSame
    <2> QED
      BY <1>1, <1>2, <1>3, <1>4, <2>1 DEF PlaceInv, NoPlace, OnePlace
  <1>8. OnceInv'
    BY <1>1, <1>3, QueueSame, ExecSame, SqSame, OpsSame, CqSame
  <1>9. KindInv'
    <2>1. t \in Frames => code[t].kind # "client"
      BY <1>2 DEF KindInv
    <2> QED
      BY <1>1, <1>2, <1>4, <2>1, ConstantFacts DEF KindInv
  <1>10. CallerInv'
    BY <1>1, <1>4, ConstantFacts DEF CallerInv
  <1>11. BoundInv'
    <2>1. binding[t] # None
      BY <1>2 DEF BoundInv
    <2>2. \A u \in Tasks : (InQueue(u)' <=> InQueue(u)) /\ (Executes(u)' <=> Executes(u))
      BY <1>1, QueueSame, ExecSame
    <2> QED
      BY <1>1, <1>4, <2>1, <2>2 DEF BoundInv
  <1>12. HolderInv'
    BY <1>1 DEF HolderInv
  <1>13. OpInv' /\ SeenInv' /\ SocketInv'
    BY <1>1, <1>3, <1>5, OpSame, SeenSame, ExecSame, SocketSame, ConstantFacts
  <1> QED
    BY <1>6, <1>7, <1>8, <1>9, <1>10, <1>11, <1>12, <1>13

(* A coroutine that goes through the scheduler.                            *)
LEMMA YieldStep ==
  ASSUME IInv, NEW w \in Workers, NEW t \in Tasks, exec[w] = t, OnlyAt(t),
         addTask(t), exec' = [exec EXCEPT ![w] = None],
         UNCHANGED <<holder, frame, kernelVars>>,
         \/ code[t].at \in {"submit", "wait"} /\ code'[t].at = "submit"
         \/ t = Reaper /\ code[t].at = "peek" /\ code'[t].at = "peek"
  PROVE  IInv'
  <1> USE DEF IInv, OnceInv
  <1>1. UNCHANGED <<holder, frame, sq, ops, cq, peer>>
    BY DEF kernelVars
  <1>2. frame[t] = "live" /\ Executes(t) /\ ~InQueue(t) /\ OnePlace(t)
    BY ExecutingFacts DEF PlaceInv
  <1>3. /\ LiveShape
        /\ \A u \in Tasks : Awaits(u)' <=> Awaits(u)
        /\ CallerOnce'
        /\ \A c \in Conns : Owners(c)' = Owners(c)
    BY <1>1, <1>2, OnlyAtFacts
  <1>4. /\ \A u \in Tasks : u # t => code'[u] = code[u]
        /\ code'[t].kind = code[t].kind /\ code'[t].conn = code[t].conn
        /\ code'[t].prev = code[t].prev
    BY DEF OnlyAt
  <1>5. /\ binding' \in [Tasks -> Workers \cup {None}]
        /\ queue' \in [Workers -> Seq(Tasks)]
        /\ binding'[t] # None
        /\ \A u \in Tasks : u # t => binding'[u] = binding[u]
        /\ \A u \in Tasks : InQueue(u)' <=> InQueue(u) \/ u = t
        /\ QueueOnce'
    BY <1>2, AddTaskPlaces DEF TypeInv
  <1>6. /\ exec' \in [Workers -> Tasks \cup {None}]
        /\ exec'[w] = None
        /\ \A v \in Workers : v # w => exec'[v] = exec[v]
        /\ \A u \in Tasks : Executes(u)' <=> Executes(u) /\ u # t
        /\ ExecOnce'
    BY ExecPlaces, ConstantFacts DEF TypeInv
  <1>7. (~HeadSeen /\ ~HeadSeen') \/ (t # Reaper /\ (HeadSeen' <=> HeadSeen))
    BY <1>4, ConstantFacts DEF HeadSeen, KindInv
  <1>8. TypeInv'
    BY <1>1, <1>5, <1>6 DEF OnlyAt, TypeInv, TypeOK
  <1>9. PlaceInv'
    <2>1. \A u \in Tasks :
            /\ Submitted(u)' <=> Submitted(u)
            /\ InKernel(u)' <=> InKernel(u)
            /\ Completed(u)' <=> Completed(u)
      BY <1>1, SqSame, OpsSame, CqSame
    <2> QED
      BY <1>1, <1>2, <1>3, <1>4, <1>5, <1>6, <2>1 DEF PlaceInv, NoPlace, OnePlace
  <1>10. OnceInv'
    BY <1>1, <1>3, <1>5, <1>6, SqSame, OpsSame, CqSame
  <1>11. KindInv'
    <2>1. code[t].at \in {"submit", "wait"} => t # Reaper /\ (t \in Frames => code[t].kind # "client")
      BY <1>2 DEF KindInv
    <2> QED
      BY <1>1, <1>2, <1>4, <2>1, ConstantFacts DEF KindInv
  <1>12. CallerInv'
    BY <1>1, <1>4, ConstantFacts DEF CallerInv
  <1>13. BoundInv'
    BY <1>1, <1>4, <1>5, <1>6 DEF BoundInv
  <1>14. HolderInv'
    BY <1>1, <1>6 DEF HolderInv
  <1>15. OpInv' /\ SocketInv'
    BY <1>1, <1>3, <1>7, OpSame, SocketSame
  <1>16. SeenInv'
    BY <1>1, <1>6, <1>7, SeenSame, ConstantFacts
  <1> QED
    BY <1>8, <1>9, <1>10, <1>11, <1>12, <1>13, <1>14, <1>15, <1>16

-----------------------------------------------------------------------------
Places ==
  {"none", "peek", "more", "submit", "wait", "read", "await", "got", "end", "thrown"}

LEMMA MoveFacts ==
  ASSUME IInv, NEW t \in Tasks, NEW a \in Places, code' = [code EXCEPT ![t].at = a]
  PROVE  OnlyAt(t) /\ code'[t].at = a
  <1>1. code \in [Tasks -> CodeRecords]
    BY DEF IInv, TypeInv, TypeOK
  <1>2. code[t] \in CodeRecords
    BY <1>1
  <1>3. code'[t] = [code[t] EXCEPT !.at = a] /\ \A u \in Tasks : u # t => code'[u] = code[u]
    BY <1>1
  <1>4. [code[t] EXCEPT !.at = a] \in CodeRecords
    BY <1>2 DEF CodeRecords, Places
  <1>5. code' \in [Tasks -> CodeRecords]
    BY <1>1, <1>3, <1>4
  <1> QED
    BY <1>2, <1>3, <1>5 DEF OnlyAt, CodeRecords

LEMMA SameFacts ==
  ASSUME IInv, NEW t \in Tasks, UNCHANGED code
  PROVE  OnlyAt(t)
  BY DEF IInv, TypeInv, TypeOK, OnlyAt

LEMMA SubmitBusyStep ==
  ASSUME IInv, NEW w \in Workers, NEW t \in Tasks, SubmitBusy(w, t)
  PROVE  IInv'
  <1>1. OnlyAt(t)
    BY SameFacts DEF SubmitBusy
  <1> QED
    BY <1>1, YieldStep DEF SubmitBusy

LEMMA AcceptAgainStep ==
  ASSUME IInv, NEW w \in Workers, NEW t \in Tasks, AcceptAgain(w, t)
  PROVE  IInv'
  <1> DEFINE a == IF code[t].res = "fatal" THEN "thrown" ELSE "submit"
  <1>1. exec[w] = t /\ code[t].at = "wait" /\ t = Acceptor
    BY ExecutingFacts DEF AcceptAgain, At
  <1>2. OnlyAt(t) /\ code'[t].at = a
    BY MoveFacts DEF AcceptAgain, Places
  <1> QED
    BY <1>1, <1>2, StayStep DEF AcceptAgain

LEMMA ReadMoreStep ==
  ASSUME IInv, NEW w \in Workers, NEW t \in Tasks, ReadMore(w, t)
  PROVE  IInv'
  <1>1. OnlyAt(t) /\ code'[t].at = "submit"
    BY MoveFacts DEF ReadMore, Places
  <1> QED
    BY <1>1, StayStep DEF ReadMore, At

LEMMA SendRetryStep ==
  ASSUME IInv, NEW w \in Workers, NEW t \in Tasks, SendRetry(w, t)
  PROVE  IInv'
  <1>1. OnlyAt(t) /\ code'[t].at = "submit"
    BY MoveFacts DEF SendRetry, Places
  <1> QED
    BY <1>1, YieldStep DEF SendRetry, At

(* The history that Record keeps is typed.                                 *)
LEMMA RecordFacts ==
  ASSUME IInv, NEW t \in Tasks
  PROVE  /\ Record(t) \in CodeRecords
         /\ Record(t).kind = code[t].kind /\ Record(t).conn = code[t].conn
         /\ Record(t).prev = code[t].prev
  <1>1. code[t] \in CodeRecords
    BY DEF IInv, TypeInv, TypeOK
  <1>2. PartStart(code[t].part) + code[t].n \in Nat
    BY <1>1 DEF PartStart, CodeRecords
  <1>3. (code[t].again \/ code[t].sent # PartStart(code[t].part)) \in BOOLEAN
    OBVIOUS
  <1> DEFINE s == PartStart(code[t].part) + code[t].n
             g == code[t].again \/ code[t].sent # PartStart(code[t].part)
  <1>4. Record(t) = [code[t] EXCEPT !.sent = s, !.again = g]
    BY DEF Record
  <1> HIDE DEF s, g
  <1>5. [code[t] EXCEPT !.sent = s, !.again = g] \in CodeRecords
    BY <1>1, <1>2, <1>3 DEF CodeRecords, s, g
  <1> QED
    BY <1>1, <1>4, <1>5 DEF CodeRecords

LEMMA ReplaceFacts ==
  ASSUME IInv, NEW t \in Tasks, NEW r \in CodeRecords, code' = [code EXCEPT ![t] = r],
         r.kind = code[t].kind, r.conn = code[t].conn, r.prev = code[t].prev
  PROVE  OnlyAt(t) /\ code'[t] = r
  <1>1. code \in [Tasks -> CodeRecords]
    BY DEF IInv, TypeInv, TypeOK
  <1>2. code'[t] = r /\ \A u \in Tasks : u # t => code'[u] = code[u]
    BY <1>1
  <1>3. code' \in [Tasks -> CodeRecords]
    BY <1>1
  <1> QED
    BY <1>2, <1>3 DEF OnlyAt

LEMMA SendRestStep ==
  ASSUME IInv, NEW w \in Workers, NEW t \in Tasks, SendRest(w, t)
  PROVE  IInv'
  <1> DEFINE r == [Record(t) EXCEPT !.at = "submit"]
  <1>1. /\ r \in CodeRecords /\ r.at = "submit"
        /\ r.kind = code[t].kind /\ r.conn = code[t].conn /\ r.prev = code[t].prev
    BY RecordFacts DEF CodeRecords
  <1>2. code' = [code EXCEPT ![t] = r]
    BY DEF SendRest
  <1> HIDE DEF r
  <1>3. OnlyAt(t) /\ code'[t].at = "submit"
    BY <1>1, <1>2, ReplaceFacts
  <1> QED
    BY <1>3, StayStep DEF SendRest, At

LEMMA SendBodyStep ==
  ASSUME IInv, NEW w \in Workers, NEW t \in Tasks, SendBody(w, t)
  PROVE  IInv'
  <1> DEFINE r == [Record(t) EXCEPT !.at = "submit", !.part = "body"]
  <1>1. /\ r \in CodeRecords /\ r.at = "submit"
        /\ r.kind = code[t].kind /\ r.conn = code[t].conn /\ r.prev = code[t].prev
    BY RecordFacts DEF CodeRecords
  <1>2. code' = [code EXCEPT ![t] = r]
    BY DEF SendBody
  <1> HIDE DEF r
  <1>3. OnlyAt(t) /\ code'[t].at = "submit"
    BY <1>1, <1>2, ReplaceFacts
  <1> QED
    BY <1>3, StayStep DEF SendBody, At

LEMMA ReapNoneStep ==
  ASSUME IInv, NEW w \in Workers, ReapNone(w)
  PROVE  IInv'
  <1>1. OnlyAt(Reaper)
    BY SameFacts, ConstantFacts DEF ReapNone
  <1> QED
    BY <1>1, YieldStep, ConstantFacts DEF ReapNone, At

-----------------------------------------------------------------------------
(* co_return.                                                              *)

(* The coroutine t has ended, and its worker goes on with p.                *)
Ended(w, t, p) ==
  /\ frame'[t] = "done"
  /\ \A u \in Tasks : u # t => frame'[u] = frame[u]
  /\ exec' \in [Workers -> Tasks \cup {None}]
  /\ exec'[w] = p
  /\ \A v \in Workers : v # w => exec'[v] = exec[v]
  /\ \A u \in Tasks : Executes(u)' <=> u = p \/ (Executes(u) /\ u # t)
  /\ ExecOnce'
  /\ \A u \in Tasks : Awaits(u)' <=> Awaits(u) /\ u # p
  /\ CallerOnce'

LEMMA EndPlaces ==
  ASSUME IInv, NEW w \in Workers, NEW t \in Tasks, exec[w] = t,
         frame' = [frame EXCEPT ![t] = "done"],
         exec' = [exec EXCEPT ![w] = code[t].prev],
         LiveShape
  PROVE  Ended(w, t, code[t].prev)
  <1> USE DEF IInv, OnceInv
  <1> DEFINE p == code[t].prev
  <1>1. frame[t] = "live" /\ ~Awaits(t)
    BY ExecutingFacts
  <1>2. frame'[t] = "done" /\ \A u \in Tasks : u # t => frame'[u] = frame[u]
    BY DEF TypeInv, TypeOK
  <1>3. p \in Tasks \cup {None}
    BY ConstantFacts DEF TypeInv, TypeOK, CodeRecords
  <1>4. p \in Tasks => Awaits(p)
    BY <1>1 DEF Awaits
  <1>5. p \in Tasks => ~Executes(p)
    BY <1>4 DEF PlaceInv, NoPlace, OnePlace
  <1>6. /\ exec' \in [Workers -> Tasks \cup {None}]
        /\ exec'[w] = p
        /\ \A v \in Workers : v # w => exec'[v] = exec[v]
        /\ \A u \in Tasks : Executes(u)' <=> u = p \/ (Executes(u) /\ u # t)
        /\ ExecOnce'
    BY <1>3, <1>5, ExecPlaces DEF TypeInv
  <1>7. ASSUME NEW u \in Tasks PROVE Awaits(u)' <=> Awaits(u) /\ u # p
    <2>1. Awaits(u)' => Awaits(u) /\ u # p
      BY <1>1, <1>2, ConstantFacts DEF Awaits, LiveShape, CallerOnce
    <2>2. Awaits(u) /\ u # p => Awaits(u)'
      BY <1>1, <1>2 DEF Awaits, LiveShape
    <2> QED
      BY <2>1, <2>2
  <1>8. CallerOnce'
    BY <1>1, <1>2 DEF CallerOnce, LiveShape
  <1> QED
    BY <1>2, <1>6, <1>7, <1>8 DEF Ended

LEMMA ResponseEndStep ==
  ASSUME IInv, NEW w \in Workers, NEW t \in Tasks, ResponseEnd(w, t)
  PROVE  IInv'
  <1> USE DEF IInv, OnceInv
  <1>1. exec[w] = t /\ code[t].at = "wait" /\ code[t].kind = "respond"
    BY DEF ResponseEnd, At
  <1>2. UNCHANGED <<binding, queue, holder, sq, ops, cq, peer>>
    BY DEF ResponseEnd, poolVars, kernelVars
  <1>3. frame[t] = "live" /\ OnePlace(t) /\ Executes(t) /\ t \in Frames /\ code[t].prev = None
    BY <1>1, ExecutingFacts DEF PlaceInv, KindInv
  <1> DEFINE r == IF code[t].res = "ok" THEN Record(t) ELSE code[t]
  <1>4. OnlyAt(t)
    <2>1. code[t] \in CodeRecords
      BY DEF TypeInv, TypeOK
    <2>2. /\ r \in CodeRecords
          /\ r.kind = code[t].kind /\ r.conn = code[t].conn /\ r.prev = code[t].prev
      BY <2>1, RecordFacts
    <2>3. code' = [code EXCEPT ![t] = r]
      BY DEF ResponseEnd
    <2> HIDE DEF r
    <2> QED
      BY <2>2, <2>3, ReplaceFacts
  <1>5. /\ \A u \in Tasks : u # t => code'[u] = code[u]
        /\ code'[t].kind = "respond" /\ code'[t].conn = code[t].conn
        /\ code'[t].prev = None
        /\ LiveShape
    BY <1>1, <1>3, <1>4 DEF OnlyAt, LiveShape
  <1>6. frame' = [frame EXCEPT ![t] = "done"] /\ exec' = [exec EXCEPT ![w] = code[t].prev]
    BY DEF ResponseEnd, ReturnPrev
  <1>7. /\ frame'[t] = "done" /\ \A u \in Tasks : u # t => frame'[u] = frame[u]
        /\ exec' \in [Workers -> Tasks \cup {None}]
        /\ exec'[w] = None
        /\ \A v \in Workers : v # w => exec'[v] = exec[v]
        /\ \A u \in Tasks : Executes(u)' <=> Executes(u) /\ u # t
        /\ ExecOnce'
        /\ \A u \in Tasks : Awaits(u)' <=> Awaits(u)
        /\ CallerOnce'
    <2>1. Ended(w, t, code[t].prev)
      BY <1>1, <1>5, <1>6, EndPlaces
    <2> QED
      BY <2>1, <1>3, ConstantFacts DEF Ended
  <1>8. HeadSeen' <=> HeadSeen
    BY <1>3, <1>5, ConstantFacts DEF HeadSeen
  <1>9. \A c \in Conns : Owners(c)' = Owners(c)
    BY <1>1, <1>3, <1>5, <1>7, ConstantFacts DEF Owners
  <1>10. TypeInv'
    BY <1>2, <1>4, <1>6, <1>7 DEF TypeInv, TypeOK, OnlyAt
  <1>11. PlaceInv'
    <2>1. \A u \in Tasks :
            /\ InQueue(u)' <=> InQueue(u)
            /\ Submitted(u)' <=> Submitted(u)
            /\ InKernel(u)' <=> InKernel(u)
            /\ Completed(u)' <=> Completed(u)
      BY <1>2, QueueSame, SqSame, OpsSame, CqSame
    <2> QED
      BY <1>3, <1>5, <1>7, <2>1 DEF PlaceInv, NoPlace, OnePlace
  <1>12. OnceInv'
    BY <1>2, <1>7, QueueSame, SqSame, OpsSame, CqSame
  <1>13. KindInv'
    <2>1. code'[t].at \in {"submit", "wait"}
      <3>1. Record(t).at = code[t].at
        BY DEF Record, TypeInv, TypeOK, CodeRecords
      <3>2. code'[t] = r
        BY DEF ResponseEnd, TypeInv, TypeOK
      <3> QED
        BY <1>1, <3>1, <3>2
    <2>2. code'[t].conn \in Conns
      BY <1>3, <1>5 DEF KindInv
    <2> QED
      BY <1>3, <1>5, <1>7, <2>1, <2>2, ConstantFacts DEF KindInv
  <1>14. CallerInv'
    BY <1>1, <1>3, <1>5, <1>7, ConstantFacts DEF CallerInv
  <1>15. BoundInv'
    <2>1. binding[t] # None
      BY <1>1, <1>3 DEF BoundInv
    <2>2. \A u \in Tasks : InQueue(u)' <=> InQueue(u)
      BY <1>2, QueueSame
    <2> QED
      BY <1>2, <1>5, <1>7, <2>1, <2>2 DEF BoundInv
  <1>16. HolderInv'
    BY <1>2, <1>7 DEF HolderInv
  <1>17. OpInv' /\ SocketInv'
    BY <1>2, <1>5, <1>8, <1>9, OpSame, SocketSame
  <1>18. SeenInv'
    BY <1>2, <1>3, <1>7, <1>8, SeenSame, ConstantFacts
  <1> QED
    BY <1>10, <1>11, <1>12, <1>13, <1>14, <1>15, <1>16, <1>17, <1>18

LEMMA ClientEndStep ==
  ASSUME IInv, NEW w \in Workers, NEW t \in Tasks, ClientEnd(w, t)
  PROVE  IInv'
  <1> USE DEF IInv, OnceInv
  <1>1. exec[w] = t /\ code[t].kind = "client"
    BY DEF ClientEnd, At
  <1>2. UNCHANGED <<binding, queue, holder, code, sq, ops, cq>> /\ Disown(t)
    BY DEF ClientEnd, poolVars
  <1>3. /\ frame[t] = "live" /\ OnePlace(t) /\ Executes(t) /\ t \in Frames
        /\ code[t].prev = None /\ code[t].at # "await"
    BY <1>1, ExecutingFacts DEF PlaceInv, KindInv
  <1>4. LiveShape
    BY <1>2 DEF LiveShape
  <1>5. frame' = [frame EXCEPT ![t] = "done"] /\ exec' = [exec EXCEPT ![w] = code[t].prev]
    BY DEF ClientEnd, ReturnPrev
  <1>6. /\ frame'[t] = "done" /\ \A u \in Tasks : u # t => frame'[u] = frame[u]
        /\ exec' \in [Workers -> Tasks \cup {None}]
        /\ exec'[w] = None
        /\ \A v \in Workers : v # w => exec'[v] = exec[v]
        /\ \A u \in Tasks : Executes(u)' <=> Executes(u) /\ u # t
        /\ ExecOnce'
        /\ \A u \in Tasks : Awaits(u)' <=> Awaits(u)
        /\ CallerOnce'
    <2>1. Ended(w, t, code[t].prev)
      BY <1>1, <1>4, <1>5, EndPlaces
    <2> QED
      BY <2>1, <1>3, ConstantFacts DEF Ended
  <1>7. HeadSeen' <=> HeadSeen
    BY <1>2 DEF HeadSeen
  <1>8. \A c \in Conns : Owners(c)' = Owners(c) \ {t}
    BY <1>1, <1>2, <1>3, <1>6, ConstantFacts DEF Owners
  <1>9. SocketInv' /\ peer' \in [Conns -> PeerRecords]
    BY <1>2, <1>7, <1>8, DisownSockets
  <1>10. TypeInv'
    <2>1. \A c \in Conns : peer'[c].sock \in {"none", "open", "closed"}
      BY <1>9 DEF PeerRecords
    <2> QED
      BY <1>2, <1>5, <1>6, <1>9, <2>1 DEF TypeInv, TypeOK
  <1>11. PlaceInv'
    <2>1. \A u \in Tasks :
            /\ InQueue(u)' <=> InQueue(u)
            /\ Submitted(u)' <=> Submitted(u)
            /\ InKernel(u)' <=> InKernel(u)
            /\ Completed(u)' <=> Completed(u)
      BY <1>2, QueueSame, SqSame, OpsSame, CqSame
    <2> QED
      BY <1>2, <1>3, <1>6, <2>1 DEF PlaceInv, NoPlace, OnePlace
  <1>12. OnceInv'
    BY <1>2, <1>6, QueueSame, SqSame, OpsSame, CqSame
  <1>13. KindInv'
    BY <1>2, <1>3, <1>6, ConstantFacts DEF KindInv
  <1>14. CallerInv'
    BY <1>2, <1>3, <1>6, ConstantFacts DEF CallerInv
  <1>15. BoundInv'
    <2>1. binding[t] # None
      BY <1>1, <1>3 DEF BoundInv
    <2>2. \A u \in Tasks : InQueue(u)' <=> InQueue(u)
      BY <1>2, QueueSame
    <2> QED
      BY <1>2, <1>6, <2>1, <2>2 DEF BoundInv
  <1>16. HolderInv'
    BY <1>2, <1>6 DEF HolderInv
  <1>17. OpInv'
    BY <1>2, <1>4, OpSame
  <1>18. SeenInv'
    BY <1>2, <1>3, <1>6, <1>7, SeenSame, ConstantFacts
  <1> QED
    BY <1>9, <1>10, <1>11, <1>12, <1>13, <1>14, <1>15, <1>16, <1>17, <1>18

(* readRequest returns to the clientHandle p that awaits it.               *)
LEMMA ReadEndStep ==
  ASSUME IInv, NEW w \in Workers, NEW t \in Tasks, ReadEnd(w, t)
  PROVE  IInv'
  <1> USE DEF IInv, OnceInv
  <1>1. exec[w] = t /\ code[t].at = "wait" /\ code[t].kind = "read"
    BY DEF ReadEnd, At
  <1>2. UNCHANGED <<binding, queue, holder, sq, ops, cq, peer>>
    BY DEF ReadEnd, poolVars, kernelVars
  <1>3. frame[t] = "live" /\ OnePlace(t) /\ Executes(t) /\ t \in Frames
    BY <1>1, ExecutingFacts DEF PlaceInv
  <1>4. PICK p \in Frames : p = code[t].prev
    BY <1>1, <1>3 DEF CallerInv
  <1>5. /\ frame[p] = "live" /\ code[p].kind = "client" /\ code[p].at = "await"
        /\ p \in Tasks /\ p # t
    BY <1>1, <1>3, <1>4, ConstantFacts DEF CallerInv
  <1>6. Awaits(p) /\ OnePlace(p)
    BY <1>3, <1>4, <1>5 DEF Awaits, PlaceInv
  <1> DEFINE r == [code[p] EXCEPT !.at = "got", !.res = Outcome(code[t].res)]
  <1>7. OnlyAt(p) /\ code'[p].at = "got"
    <2>1. code[p] \in CodeRecords
      BY <1>5 DEF TypeInv, TypeOK
    <2>2. Outcome(code[t].res) \in {"ok", "bad", "closed", "error"}
      BY DEF Outcome
    <2>3. /\ r \in CodeRecords /\ r.at = "got"
          /\ r.kind = code[p].kind /\ r.conn = code[p].conn /\ r.prev = code[p].prev
      BY <2>1, <2>2 DEF CodeRecords
    <2>4. code' = [code EXCEPT ![p] = r]
      BY <1>4, <1>5, <2>1 DEF ReadEnd, TypeInv, TypeOK, CodeRecords
    <2> HIDE DEF r
    <2> QED
      BY <1>5, <2>3, <2>4, ReplaceFacts
  <1>8. /\ \A u \in Tasks : u # p => code'[u] = code[u]
        /\ code'[p].kind = "client" /\ code'[p].conn = code[p].conn
        /\ code'[p].prev = code[p].prev
        /\ LiveShape
    BY <1>5, <1>7 DEF OnlyAt, LiveShape
  <1>9. frame' = [frame EXCEPT ![t] = "done"] /\ exec' = [exec EXCEPT ![w] = code[t].prev]
    BY DEF ReadEnd, ReturnPrev
  <1>10. /\ frame'[t] = "done" /\ \A u \in Tasks : u # t => frame'[u] = frame[u]
         /\ exec' \in [Workers -> Tasks \cup {None}]
         /\ exec'[w] = p
         /\ \A v \in Workers : v # w => exec'[v] = exec[v]
         /\ \A u \in Tasks : Executes(u)' <=> u = p \/ (Executes(u) /\ u # t)
         /\ ExecOnce'
         /\ \A u \in Tasks : Awaits(u)' <=> Awaits(u) /\ u # p
         /\ CallerOnce'
    <2>1. Ended(w, t, code[t].prev)
      BY <1>1, <1>8, <1>9, EndPlaces
    <2> QED
      BY <2>1, <1>4 DEF Ended
  <1>11. HeadSeen' <=> HeadSeen
    BY <1>5, <1>8, ConstantFacts DEF HeadSeen
  <1>12. \A c \in Conns : Owners(c)' = Owners(c)
    BY <1>1, <1>3, <1>5, <1>8, <1>10, ConstantFacts DEF Owners
  <1>13. TypeInv'
    BY <1>2, <1>7, <1>9, <1>10 DEF TypeInv, TypeOK, OnlyAt
  <1>14. PlaceInv'
    <2>1. \A u \in Tasks :
            /\ InQueue(u)' <=> InQueue(u)
            /\ Submitted(u)' <=> Submitted(u)
            /\ InKernel(u)' <=> InKernel(u)
            /\ Completed(u)' <=> Completed(u)
      BY <1>2, QueueSame, SqSame, OpsSame, CqSame
    <2>2. /\ ~InQueue(p) /\ ~Executes(p) /\ ~Submitted(p) /\ ~InKernel(p) /\ ~Completed(p)
      BY <1>6 DEF OnePlace
    <2>3. /\ ~InQueue(t) /\ ~Submitted(t) /\ ~InKernel(t) /\ ~Completed(t) /\ ~Awaits(t)
      BY <1>3 DEF OnePlace
    <2> QED
      BY <1>3, <1>5, <1>7, <1>8, <1>10, <2>1, <2>2, <2>3 DEF PlaceInv, NoPlace, OnePlace
  <1>15. OnceInv'
    BY <1>2, <1>10, QueueSame, SqSame, OpsSame, CqSame
  <1>16. KindInv'
    <2>1. code'[p].conn \in Conns /\ code'[p].prev = None
      BY <1>5, <1>8 DEF KindInv
    <2> QED
      BY <1>1, <1>3, <1>5, <1>7, <1>8, <1>10, <2>1, ConstantFacts DEF KindInv
  <1>17. CallerInv'
    <2> SUFFICES ASSUME NEW u \in Frames, frame'[u] = "live", code'[u].kind = "read"
                 PROVE  /\ code'[u].prev \in Frames
                        /\ frame'[code'[u].prev] = "live"
                        /\ code'[code'[u].prev].kind = "client"
                        /\ code'[code'[u].prev].at = "await"
                        /\ code'[code'[u].prev].conn = code'[u].conn
      BY DEF CallerInv
    <2>1. u # t /\ u # p /\ frame[u] = "live" /\ code'[u] = code[u] /\ u \in Tasks
      BY <1>8, <1>10, ConstantFacts
    <2>2. code[u].prev # p
      BY <1>3, <1>4, <2>1, ConstantFacts DEF CallerOnce
    <2>3. code[u].prev # t /\ code[u].prev \in Tasks
      BY <1>1, <2>1, ConstantFacts DEF CallerInv
    <2> QED
      BY <1>8, <1>10, <2>1, <2>2, <2>3 DEF CallerInv
  <1>18. BoundInv'
    <2>1. binding[t] # None /\ binding[p] # None
      BY <1>1, <1>3, <1>5 DEF BoundInv
    <2>2. \A u \in Tasks : InQueue(u)' <=> InQueue(u)
      BY <1>2, QueueSame
    <2> QED
      BY <1>2, <1>8, <1>10, <2>1, <2>2 DEF BoundInv
  <1>19. HolderInv'
    <2>1. holder[w] # None
      BY <1>1, ExecutingFacts
    <2> QED
      BY <1>2, <1>10, <2>1 DEF HolderInv
  <1>20. OpInv' /\ SocketInv'
    BY <1>2, <1>8, <1>11, <1>12, OpSame, SocketSame
  <1>21. SeenInv'
    BY <1>2, <1>3, <1>10, <1>11, SeenSame, ConstantFacts
  <1> QED
    BY <1>13, <1>14, <1>15, <1>16, <1>17, <1>18, <1>19, <1>20, <1>21

-----------------------------------------------------------------------------
(* Coroutines that are created.                                            *)

LEMMA NewFrameFacts ==
  ASSUME FreeFrames # {}
  PROVE  NewFrame \in Frames /\ frame[NewFrame] = "free"
  BY DEF FreeFrames, NewFrame

LEMMA CoroutineFacts ==
  ASSUME NEW k \in {"reap", "accept", "client", "read", "respond"}, NEW a \in Places,
         NEW c \in Conns \cup {None}, NEW p \in Tasks \cup {None}
  PROVE  /\ Coroutine(k, a, c, p) \in CodeRecords
         /\ Coroutine(k, a, c, p).kind = k /\ Coroutine(k, a, c, p).at = a
         /\ Coroutine(k, a, c, p).conn = c /\ Coroutine(k, a, c, p).prev = p
  <1>1. Blank \in CodeRecords
    BY DEF Blank, CodeRecords
  <1> DEFINE x == [Blank EXCEPT !.kind = k, !.at = a, !.conn = c, !.prev = p]
  <1>2. x \in CodeRecords
    <2> DEFINE y == [Blank EXCEPT !.kind = k]
               z == [y EXCEPT !.at = a]
    <2>1. y \in CodeRecords
      BY <1>1 DEF CodeRecords
    <2> HIDE DEF y
    <2>2. z \in CodeRecords
      BY <2>1 DEF CodeRecords, Places
    <2> HIDE DEF z
    <2>3. [z EXCEPT !.conn = c, !.prev = p] \in CodeRecords
      BY <2>2 DEF CodeRecords
    <2> QED
      BY <2>3 DEF y, z
  <1>3. x.kind = k /\ x.at = a /\ x.conn = c /\ x.prev = p
    BY <1>1 DEF CodeRecords
  <1>4. Coroutine(k, a, c, p) = x
    BY DEF Coroutine
  <1> HIDE DEF x
  <1> QED
    BY <1>2, <1>3, <1>4

LEMMA BodyFacts ==
  ASSUME NEW r \in CodeRecords, NEW b \in BOOLEAN
  PROVE  /\ [r EXCEPT !.body = b] \in CodeRecords
         /\ [r EXCEPT !.body = b].kind = r.kind
         /\ [r EXCEPT !.body = b].at = r.at
         /\ [r EXCEPT !.body = b].conn = r.conn
         /\ [r EXCEPT !.body = b].prev = r.prev
  BY DEF CodeRecords

(* The frame f is that of a new coroutine, awaited by q or by nobody.      *)
Begun(f, q) ==
  /\ frame'[f] = "live"
  /\ \A u \in Tasks : u # f => frame'[u] = frame[u]
  /\ frame' \in [Tasks -> {"free", "live", "done"}]
  /\ \A u \in Tasks : Awaits(u)' <=> Awaits(u) \/ u = q
  /\ CallerOnce'
  /\ NoPlace(f)

LEMMA BeginPlaces ==
  ASSUME IInv, NEW f \in Frames, frame[f] = "free",
         frame' = [frame EXCEPT ![f] = "live"],
         NEW q \in Tasks \cup {None}, code'[f].prev = q,
         q # None => ~Awaits(q),
         LiveShape
  PROVE  Begun(f, q)
  <1> USE DEF IInv, OnceInv
  <1>1. frame \in [Tasks -> {"free", "live", "done"}] /\ f \in Tasks
    BY ConstantFacts DEF TypeInv, TypeOK
  <1>2. /\ frame'[f] = "live"
        /\ \A u \in Tasks : u # f => frame'[u] = frame[u]
        /\ frame' \in [Tasks -> {"free", "live", "done"}]
    BY <1>1
  <1>3. NoPlace(f)
    BY <1>1 DEF PlaceInv
  <1>4. ASSUME NEW u \in Tasks PROVE Awaits(u)' <=> Awaits(u) \/ u = q
    <2>1. Awaits(u)' => Awaits(u) \/ u = q
      BY <1>1, <1>2 DEF Awaits, LiveShape
    <2>2. Awaits(u) => Awaits(u)'
      BY <1>1, <1>2 DEF Awaits, LiveShape
    <2>3. u = q => Awaits(u)'
      BY <1>1, <1>2 DEF Awaits
    <2> QED
      BY <2>1, <2>2, <2>3
  <1>5. CallerOnce'
    <2> SUFFICES ASSUME NEW r \in Tasks, NEW s \in Tasks,
                        frame'[r] = "live", frame'[s] = "live",
                        code'[r].prev # None, code'[r].prev = code'[s].prev
                 PROVE  r = s
      BY DEF CallerOnce
    <2>1. CASE r # f /\ s # f
      BY <2>1, <1>2 DEF LiveShape, CallerOnce
    <2>2. CASE r = f /\ s # f
      <3>1. frame[s] = "live" /\ code[s].prev = q
        BY <2>2, <1>2 DEF LiveShape
      <3> QED
        BY <2>2, <3>1, ConstantFacts DEF Awaits
    <2>3. CASE s = f /\ r # f
      <3>1. frame[r] = "live" /\ code[r].prev = q
        BY <2>3, <1>2 DEF LiveShape
      <3> QED
        BY <2>3, <3>1, ConstantFacts DEF Awaits
    <2> QED
      BY <2>1, <2>2, <2>3
  <1> QED
    BY <1>2, <1>3, <1>4, <1>5 DEF Begun

LEMMA ClientReadStep ==
  ASSUME IInv, NEW w \in Workers, NEW t \in Tasks, ClientRead(w, t)
  PROVE  IInv'
  <1> USE DEF IInv, OnceInv
  <1>1. exec[w] = t /\ code[t].at = "read" /\ code[t].kind = "client"
    BY DEF ClientRead, At
  <1>2. UNCHANGED <<binding, queue, holder, sq, ops, cq, peer>>
    BY DEF ClientRead, poolVars, kernelVars
  <1>3. /\ frame[t] = "live" /\ OnePlace(t) /\ Executes(t) /\ t \in Frames
        /\ code[t].conn \in Conns
    BY <1>1, ExecutingFacts DEF PlaceInv, KindInv
  <1>4. PICK f \in Frames : f = NewFrame /\ frame[f] = "free"
    BY NewFrameFacts DEF ClientRead, Create
  <1>5. f \in Tasks /\ f # t /\ NoPlace(f)
    BY <1>3, <1>4, ConstantFacts DEF PlaceInv
  <1> DEFINE new == Coroutine("read", "submit", code[t].conn, t)
             r == [code[t] EXCEPT !.at = "await"]
  <1>6. /\ new \in CodeRecords /\ new.kind = "read" /\ new.at = "submit"
        /\ new.conn = code[t].conn /\ new.prev = t
    BY <1>3, CoroutineFacts DEF Places
  <1>7. /\ r \in CodeRecords /\ r.at = "await"
        /\ r.kind = code[t].kind /\ r.conn = code[t].conn /\ r.prev = code[t].prev
    <2>1. code[t] \in CodeRecords
      BY DEF TypeInv, TypeOK
    <2> QED
      BY <2>1 DEF CodeRecords
  <1>8. code' = [code EXCEPT ![f] = new, ![t] = r]
    BY <1>4, <1>5 DEF ClientRead, TypeInv, TypeOK
  <1> HIDE DEF new, r
  <1>9. code' \in [Tasks -> CodeRecords]
    BY <1>5, <1>6, <1>7, <1>8 DEF TypeInv, TypeOK
  <1>10. /\ code'[f].kind = "read" /\ code'[f].at = "submit"
         /\ code'[f].conn = code[t].conn /\ code'[f].prev = t
         /\ code'[t].kind = "client" /\ code'[t].at = "await"
         /\ code'[t].conn = code[t].conn /\ code'[t].prev = code[t].prev
         /\ \A u \in Tasks : u # f /\ u # t => code'[u] = code[u]
    BY <1>1, <1>5, <1>6, <1>7, <1>8 DEF TypeInv, TypeOK
  <1>11. LiveShape
    BY <1>1, <1>4, <1>10 DEF LiveShape
  <1>12. ~Awaits(t)
    BY <1>3 DEF OnePlace
  <1>13. Begun(f, t)
    BY <1>4, <1>10, <1>11, <1>12, BeginPlaces DEF ClientRead, Create
  <1>14. /\ exec' \in [Workers -> Tasks \cup {None}]
         /\ exec'[w] = f
         /\ \A v \in Workers : v # w => exec'[v] = exec[v]
         /\ \A u \in Tasks : Executes(u)' <=> u = f \/ (Executes(u) /\ u # t)
         /\ ExecOnce'
    <2>1. exec' = [exec EXCEPT ![w] = f] /\ ~Executes(f)
      BY <1>4, <1>5 DEF ClientRead, NoPlace
    <2> QED
      BY <1>1, <1>5, <2>1, ExecPlaces DEF TypeInv
  <1>15. HeadSeen' <=> HeadSeen
    BY <1>3, <1>10, ConstantFacts DEF HeadSeen
  <1>16. \A c \in Conns : Owners(c)' = Owners(c)
    BY <1>1, <1>3, <1>4, <1>10, <1>13, ConstantFacts DEF Owners, Begun
  <1>17. TypeInv'
    BY <1>2, <1>9, <1>13, <1>14 DEF TypeInv, TypeOK, Begun
  <1>18. PlaceInv'
    <2>1. \A u \in Tasks :
            /\ InQueue(u)' <=> InQueue(u)
            /\ Submitted(u)' <=> Submitted(u)
            /\ InKernel(u)' <=> InKernel(u)
            /\ Completed(u)' <=> Completed(u)
      BY <1>2, QueueSame, SqSame, OpsSame, CqSame
    <2>2. \A u \in Tasks : Awaits(u)' <=> Awaits(u) \/ u = t
      BY <1>13 DEF Begun
    <2>3. frame'[f] = "live" /\ \A u \in Tasks : u # f => frame'[u] = frame[u]
      BY <1>13 DEF Begun
    <2> QED
      BY <1>3, <1>5, <1>10, <1>14, <2>1, <2>2, <2>3 DEF PlaceInv, NoPlace, OnePlace
  <1>19. OnceInv'
    BY <1>2, <1>13, <1>14, QueueSame, SqSame, OpsSame, CqSame DEF Begun
  <1>20. KindInv'
    <2>1. code'[f].conn \in Conns /\ code'[t].prev = None
      BY <1>1, <1>3, <1>10 DEF KindInv
    <2>2. \A u \in Frames : u # f /\ u # t => code'[u] = code[u] /\ frame'[u] = frame[u]
      BY <1>10, <1>13, ConstantFacts DEF Begun
    <2>3. frame'[f] = "live" /\ frame'[t] = "live"
      BY <1>3, <1>5, <1>13, ConstantFacts DEF Begun
    <2>4. \A u \in Loops : code'[u] = code[u] /\ frame'[u] = frame[u]
      BY <1>3, <1>10, <1>13, ConstantFacts DEF Begun, Loops
    <2>5. ASSUME NEW u \in Frames
          PROVE  IF frame'[u] = "free" THEN code'[u] = Blank
                 ELSE /\ code'[u].kind \in {"client", "read", "respond"}
                      /\ code'[u].conn \in Conns
                      /\ code'[u].kind = "client" =>
                           code'[u].at \in {"read", "await", "got", "end"}
                      /\ code'[u].kind # "client" => code'[u].at \in {"submit", "wait"}
                      /\ code'[u].kind # "read" => code'[u].prev = None
      <3>1. CASE u = f
        BY <3>1, <1>10, <2>1, <2>3
      <3>2. CASE u = t
        BY <3>2, <1>3, <1>10, <2>1, <2>3
      <3>3. CASE u # f /\ u # t
        BY <3>3, <2>2 DEF KindInv
      <3> QED
        BY <3>1, <3>2, <3>3
    <2> QED
      BY <2>4, <2>5 DEF KindInv, Loops
  <1>21. CallerInv'
    <2> SUFFICES ASSUME NEW u \in Frames, frame'[u] = "live", code'[u].kind = "read"
                 PROVE  /\ code'[u].prev \in Frames
                        /\ frame'[code'[u].prev] = "live"
                        /\ code'[code'[u].prev].kind = "client"
                        /\ code'[code'[u].prev].at = "await"
                        /\ code'[code'[u].prev].conn = code'[u].conn
      BY DEF CallerInv
    <2>1. CASE u = f
      BY <1>3, <1>5, <1>10, <1>13, <2>1 DEF Begun
    <2>2. CASE u # f
      <3>1. u # t /\ frame[u] = "live" /\ code'[u] = code[u] /\ u \in Tasks
        BY <1>10, <1>13, <2>2, ConstantFacts DEF Begun
      <3>2. /\ code[u].prev \in Frames /\ frame[code[u].prev] = "live"
            /\ code[code[u].prev].kind = "client" /\ code[code[u].prev].at = "await"
            /\ code[code[u].prev].conn = code[u].conn
        BY <3>1 DEF CallerInv
      <3>3. code[u].prev # t /\ code[u].prev # f /\ code[u].prev \in Tasks
        BY <1>1, <1>4, <3>2, ConstantFacts
      <3> QED
        BY <1>10, <1>13, <3>1, <3>2, <3>3 DEF Begun
    <2> QED
      BY <2>1, <2>2
  <1>22. BoundInv'
    <2>1. \A u \in Tasks : InQueue(u)' <=> InQueue(u)
      BY <1>2, QueueSame
    <2>2. binding[t] # None /\ ~InQueue(f)
      BY <1>1, <1>3, <1>5 DEF BoundInv, NoPlace
    <2> QED
      BY <1>2, <1>10, <1>13, <1>14, <2>1, <2>2 DEF BoundInv, Begun
  <1>23. HolderInv'
    <2>1. holder[w] # None
      BY <1>1, ExecutingFacts
    <2> QED
      BY <1>2, <1>14, <2>1 DEF HolderInv
  <1>24. OpInv' /\ SocketInv'
    BY <1>2, <1>11, <1>15, <1>16, OpSame, SocketSame
  <1>25. SeenInv'
    BY <1>2, <1>3, <1>14, <1>15, SeenSame, ConstantFacts
  <1> QED
    BY <1>17, <1>18, <1>19, <1>20, <1>21, <1>22, <1>23, <1>24, <1>25

(* A frame begins whose coroutine the pool is given: it waits in a queue.  *)
LEMMA BegunQueued ==
  ASSUME IInv, NEW f \in Frames, Begun(f, None), addTask(f)
  PROVE  /\ binding' \in [Tasks -> Workers \cup {None}]
         /\ queue' \in [Workers -> Seq(Tasks)]
         /\ binding'[f] # None
         /\ \A u \in Tasks : u # f => binding'[u] = binding[u]
         /\ \A u \in Tasks : InQueue(u)' <=> InQueue(u) \/ u = f
         /\ QueueOnce'
         /\ \A u \in Tasks : Awaits(u)' <=> Awaits(u)
  <1>1. f \in Tasks /\ ~InQueue(f)
    BY ConstantFacts DEF Begun, NoPlace
  <1>2. \A u \in Tasks : Awaits(u)' <=> Awaits(u)
    BY ConstantFacts DEF Begun
  <1> QED
    BY <1>1, <1>2, AddTaskPlaces DEF IInv, TypeInv, OnceInv

LEMMA ClientRespondStep ==
  ASSUME IInv, NEW w \in Workers, NEW t \in Tasks,
         NEW body \in BOOLEAN, NEW close \in BOOLEAN, ClientRespond(w, t, body, close)
  PROVE  IInv'
  <1> USE DEF IInv, OnceInv
  <1>1. exec[w] = t /\ code[t].at = "got" /\ code[t].kind = "client"
    BY DEF ClientRespond, At
  <1>2. UNCHANGED <<holder, exec, sq, ops, cq, peer>>
    BY DEF ClientRespond, kernelVars
  <1>3. /\ frame[t] = "live" /\ OnePlace(t) /\ Executes(t) /\ t \in Frames
        /\ code[t].conn \in Conns /\ code[t].prev = None
    BY <1>1, ExecutingFacts DEF PlaceInv, KindInv
  <1>4. PICK f \in Frames : f = NewFrame /\ frame[f] = "free"
    BY NewFrameFacts DEF ClientRespond, Create
  <1>5. f \in Tasks /\ f # t
    BY <1>3, <1>4, ConstantFacts
  <1> DEFINE new == [Coroutine("respond", "submit", code[t].conn, None) EXCEPT !.body = body]
             a == IF close \/ code[t].res = "closed" THEN "end" ELSE "read"
             r == [code[t] EXCEPT !.at = a]
  <1>6. /\ new \in CodeRecords /\ new.kind = "respond" /\ new.at = "submit"
        /\ new.conn = code[t].conn /\ new.prev = None
    <2> DEFINE x == Coroutine("respond", "submit", code[t].conn, None)
    <2>1. /\ x \in CodeRecords /\ x.kind = "respond" /\ x.at = "submit"
          /\ x.conn = code[t].conn /\ x.prev = None
      BY <1>3, CoroutineFacts DEF Places
    <2>2. new = [x EXCEPT !.body = body]
      OBVIOUS
    <2> HIDE DEF x, new
    <2> QED
      BY <2>1, <2>2, BodyFacts
  <1>7. /\ r \in CodeRecords /\ r.at \in {"end", "read"}
        /\ r.kind = code[t].kind /\ r.conn = code[t].conn /\ r.prev = code[t].prev
    <2>1. code[t] \in CodeRecords
      BY DEF TypeInv, TypeOK
    <2> QED
      BY <2>1 DEF CodeRecords
  <1>8. code' = [code EXCEPT ![f] = new, ![t] = r]
    BY <1>4, <1>5 DEF ClientRespond, TypeInv, TypeOK
  <1> HIDE DEF new, r
  <1>9. code' \in [Tasks -> CodeRecords]
    BY <1>5, <1>6, <1>7, <1>8 DEF TypeInv, TypeOK
  <1>10. /\ code'[f].kind = "respond" /\ code'[f].at = "submit"
         /\ code'[f].conn = code[t].conn /\ code'[f].prev = None
         /\ code'[t].kind = "client" /\ code'[t].at \in {"end", "read"}
         /\ code'[t].conn = code[t].conn /\ code'[t].prev = None
         /\ \A u \in Tasks : u # f /\ u # t => code'[u] = code[u]
    BY <1>1, <1>3, <1>5, <1>6, <1>7, <1>8 DEF TypeInv, TypeOK
  <1>11. LiveShape
    BY <1>1, <1>3, <1>4, <1>10 DEF LiveShape
  <1>12. Begun(f, None)
    BY <1>4, <1>10, <1>11, BeginPlaces DEF ClientRespond, Create
  <1>13. /\ frame'[f] = "live"
         /\ \A u \in Tasks : u # f => frame'[u] = frame[u]
         /\ frame' \in [Tasks -> {"free", "live", "done"}]
         /\ CallerOnce' /\ NoPlace(f)
    BY <1>12 DEF Begun
  <1>14. /\ binding' \in [Tasks -> Workers \cup {None}]
         /\ queue' \in [Workers -> Seq(Tasks)]
         /\ binding'[f] # None
         /\ \A u \in Tasks : u # f => binding'[u] = binding[u]
         /\ \A u \in Tasks : InQueue(u)' <=> InQueue(u) \/ u = f
         /\ QueueOnce'
         /\ \A u \in Tasks : Awaits(u)' <=> Awaits(u)
    BY <1>4, <1>12, BegunQueued DEF ClientRespond
  <1>15. HeadSeen' <=> HeadSeen
    BY <1>3, <1>4, <1>10, ConstantFacts DEF HeadSeen
  <1>16. \A c \in Conns : Owners(c)' = {} <=> Owners(c) = {}
    <2>1. PICK d \in Conns : d = code[t].conn
      BY <1>3
    <2>2. \A c \in Conns : c # d => Owners(c)' = Owners(c)
      BY <1>1, <1>3, <1>4, <1>10, <1>13, <2>1, ConstantFacts DEF Owners
    <2>3. t \in Owners(d) /\ t \in Owners(d)'
      BY <1>1, <1>3, <1>5, <1>10, <1>13, <2>1, ConstantFacts DEF Owners
    <2> QED
      BY <2>2, <2>3
  <1>17. TypeInv'
    BY <1>2, <1>9, <1>13, <1>14 DEF TypeInv, TypeOK
  <1>18. PlaceInv'
    <2>1. \A u \in Tasks :
            /\ Executes(u)' <=> Executes(u)
            /\ Submitted(u)' <=> Submitted(u)
            /\ InKernel(u)' <=> InKernel(u)
            /\ Completed(u)' <=> Completed(u)
      BY <1>2, ExecSame, SqSame, OpsSame, CqSame
    <2> QED
      BY <1>3, <1>5, <1>10, <1>13, <1>14, <2>1 DEF PlaceInv, NoPlace, OnePlace
  <1>19. OnceInv'
    BY <1>2, <1>13, <1>14, ExecSame, SqSame, OpsSame, CqSame
  <1>20. KindInv'
    <2>1. \A u \in Loops : code'[u] = code[u] /\ frame'[u] = frame[u]
      BY <1>3, <1>10, <1>13, ConstantFacts DEF Loops
    <2>2. ASSUME NEW u \in Frames
          PROVE  IF frame'[u] = "free" THEN code'[u] = Blank
                 ELSE /\ code'[u].kind \in {"client", "read", "respond"}
                      /\ code'[u].conn \in Conns
                      /\ code'[u].kind = "client" =>
                           code'[u].at \in {"read", "await", "got", "end"}
                      /\ code'[u].kind # "client" => code'[u].at \in {"submit", "wait"}
                      /\ code'[u].kind # "read" => code'[u].prev = None
      <3>1. CASE u = f
        BY <3>1, <1>3, <1>10, <1>13
      <3>2. CASE u = t
        BY <3>2, <1>3, <1>5, <1>10, <1>13
      <3>3. CASE u # f /\ u # t
        BY <3>3, <1>10, <1>13, ConstantFacts DEF KindInv
      <3> QED
        BY <3>1, <3>2, <3>3
    <2> QED
      BY <2>1, <2>2 DEF KindInv, Loops
  <1>21. CallerInv'
    <2> SUFFICES ASSUME NEW u \in Frames, frame'[u] = "live", code'[u].kind = "read"
                 PROVE  /\ code'[u].prev \in Frames
                        /\ frame'[code'[u].prev] = "live"
                        /\ code'[code'[u].prev].kind = "client"
                        /\ code'[code'[u].prev].at = "await"
                        /\ code'[code'[u].prev].conn = code'[u].conn
      BY DEF CallerInv
    <2>1. u # f /\ u # t /\ frame[u] = "live" /\ code'[u] = code[u] /\ u \in Tasks
      BY <1>10, <1>13, ConstantFacts
    <2>2. /\ code[u].prev \in Frames /\ frame[code[u].prev] = "live"
          /\ code[code[u].prev].kind = "client" /\ code[code[u].prev].at = "await"
          /\ code[code[u].prev].conn = code[u].conn
      BY <2>1 DEF CallerInv
    <2>3. code[u].prev # t /\ code[u].prev # f /\ code[u].prev \in Tasks
      BY <1>1, <1>4, <2>2, ConstantFacts
    <2> QED
      BY <1>10, <1>13, <2>1, <2>2, <2>3
  <1>22. BoundInv'
    <2>1. binding[t] # None
      BY <1>1, <1>3 DEF BoundInv
    <2>2. \A u \in Tasks : Executes(u)' <=> Executes(u)
      BY <1>2, ExecSame
    <2> SUFFICES ASSUME NEW u \in Tasks, frame'[u] # "free", binding'[u] = None
                 PROVE  /\ frame'[u] = "live"
                        /\ code'[u].kind = "read"
                        /\ ~InQueue(u)'
                        /\ Executes(u)' => code'[u].at = "submit"
      BY DEF BoundInv
    <2>3. u # f /\ u # t
      BY <1>5, <1>14, <2>1
    <2>4. frame'[u] = frame[u] /\ binding'[u] = binding[u] /\ code'[u] = code[u]
      BY <1>10, <1>13, <1>14, <2>3
    <2> QED
      BY <1>14, <2>2, <2>3, <2>4 DEF BoundInv
  <1>23. HolderInv'
    BY <1>2 DEF HolderInv
  <1>24. OpInv' /\ SocketInv'
    BY <1>2, <1>11, <1>15, <1>16, OpSame, SocketSame
  <1>25. SeenInv'
    BY <1>2, <1>15, SeenSame, ExecSame, ConstantFacts
  <1> QED
    BY <1>17, <1>18, <1>19, <1>20, <1>21, <1>22, <1>23, <1>24, <1>25

-----------------------------------------------------------------------------
(* reapIOs.                                                                *)

LEMMA SocketShift ==
  ASSUME SocketInv, TypeInv, LastInv, cq # <<>>, cq' = Tail(cq), UNCHANGED peer,
         ~HeadSeen', HeadSeen \/ Head(cq).conn = None,
         \A c \in Conns : Owners(c)' = Owners(c)
  PROVE  SocketInv'
  <1>1. /\ \A i \in 1..Len(cq') : i + 1 \in 1..Len(cq) /\ cq'[i] = cq[i + 1]
        /\ \A i \in 1..Len(cq) : i = 1 \/ (i - 1 \in 1..Len(cq') /\ cq'[i - 1] = cq[i])
        /\ Head(cq) = cq[1] /\ Len(cq) \in Nat /\ Len(cq') = Len(cq) - 1
    BY SeenPlaces
  <1>2. ASSUME NEW i \in 1..Len(cq'), NEW j \in 1..Len(cq'),
               cq'[i].conn # None, cq'[i].conn = cq'[j].conn
        PROVE  i = j
    <2>1. i + 1 = j + 1
      BY <1>1, <1>2 DEF SocketInv
    <2> QED
      BY <2>1, <1>1
  <1>3. ASSUME NEW i \in 1..Len(cq'), cq'[i].conn # None
        PROVE  \E d \in Conns :
                 /\ d = cq'[i].conn
                 /\ peer[d].sock = "open"
                 /\ Owners(d)' = {}
    <2>1. i + 1 \in 1..Len(cq) /\ cq'[i] = cq[i + 1] /\ i + 1 # 1
      BY <1>1
    <2>2. PICK d \in Conns : d = cq'[i].conn
      BY <1>3, <2>1, ElementTypes
    <2>3. peer[d].sock = "open" /\ Owners(d) = {}
      BY <1>3, <2>1, <2>2 DEF SocketInv
    <2>4. Owners(d)' = {}
      BY <2>3
    <2> QED
      BY <2>2, <2>3, <2>4
  <1>4. ASSUME NEW c \in Conns
        PROVE  /\ Owners(c)' # {} => peer[c].sock = "open"
               /\ peer[c].sock = "open" =>
                    \/ Owners(c)' # {}
                    \/ \E i \in 1..Len(cq') : cq'[i].conn = c
    <2>1. Owners(c)' # {} => peer[c].sock = "open"
      BY DEF SocketInv
    <2>2. ASSUME peer[c].sock = "open", Owners(c) = {}
          PROVE  \E i \in 1..Len(cq') : cq'[i].conn = c
      <3>1. PICK i \in 1..Len(cq) : cq[i].conn = c /\ ~(i = 1 /\ HeadSeen)
        BY <2>2 DEF SocketInv
      <3>2. i # 1
        BY <3>1, <1>1, ConstantFacts
      <3> QED
        BY <3>1, <3>2, <1>1
    <2> QED
      BY <2>1, <2>2
  <1>5. \A i \in 1..Len(cq') :
          cq'[i].conn # None =>
            peer'[cq'[i].conn].sock = "open" /\ (Owners(cq[i].conn) = {})'
    BY <1>3 DEF Owners
  <1>6. \A c \in Conns : peer'[c] = peer[c]
    OBVIOUS
  <1> QED
    BY <1>2, <1>4, <1>5, <1>6 DEF SocketInv

LEMMA OpShift ==
  ASSUME PlaceInv, TypeInv, OpInv, LastInv, LiveShape,
         cq # <<>>, cq' = Tail(cq), UNCHANGED <<sq, ops>>
  PROVE  OpInv'
  <1>1. /\ \A i \in 1..Len(sq) : sq[i].by \in Tasks
        /\ \A o \in ops : o.by \in Tasks
        /\ \A i \in 1..Len(cq) : cq[i].by \in Tasks
    BY ElementTypes
  <1>2. \A u \in Tasks : Submitted(u) \/ InKernel(u) \/ Completed(u) => frame[u] = "live"
    BY DEF PlaceInv, NoPlace
  <1>3. ASSUME NEW i \in 1..Len(sq) PROVE Matches(sq[i], code')
    <2>1. Submitted(sq[i].by)
      BY DEF Submitted
    <2> QED
      BY <1>1, <1>2, <2>1 DEF OpInv, Matches, LiveShape
  <1>4. ASSUME NEW o \in ops PROVE Matches(o, code')
    <2>1. InKernel(o.by)
      BY DEF InKernel
    <2> QED
      BY <1>1, <1>2, <2>1 DEF OpInv, Matches, LiveShape
  <1>5. /\ \A i \in 1..Len(cq') : i + 1 \in 1..Len(cq) /\ cq'[i] = cq[i + 1]
        /\ Head(cq) = cq[1] /\ 1 \in 1..Len(cq)
        /\ \A u \in Tasks :
             Completed(u)' <=> Completed(u) /\ (Head(cq).more \/ u # Head(cq).by)
    BY SeenPlaces
  <1>6. ASSUME NEW i \in 1..Len(cq')
        PROVE  /\ cq'[i].kind = code'[cq'[i].by].kind
               /\ cq'[i].kind # "accept" => ~cq'[i].more /\ cq'[i].conn = None
               /\ \E u \in Tasks : u = cq'[i].by /\ (InKernel(u)' \/ Completed(u)')
    <2>1. PICK u \in Tasks : u = cq'[i].by
      BY <1>1, <1>5
    <2>2. /\ i + 1 \in 1..Len(cq) /\ cq'[i] = cq[i + 1] /\ cq[i + 1].by = u
          /\ ~(i + 1 <= 1)
      BY <1>5, <2>1
    <2>3. /\ cq[i + 1].kind = code[u].kind
          /\ cq[i + 1].kind # "accept" => ~cq[i + 1].more /\ cq[i + 1].conn = None
          /\ InKernel(u) \/ Completed(u)
      BY <2>2 DEF OpInv
    <2>4. code'[u].kind = code[u].kind
      BY <2>3, <1>2 DEF LiveShape
    <2>5. ~Head(cq).more => u # Head(cq).by
      BY <2>2, <1>5 DEF LastInv
    <2>6. InKernel(u)' \/ Completed(u)'
      BY <2>3, <2>5, <1>5, OpsSame
    <2> QED
      BY <2>1, <2>2, <2>3, <2>4, <2>6
  <1>7. \A i \in 1..Len(cq') : (InKernel(cq[i].by) \/ Completed(cq[i].by))' 
    BY <1>6 DEF InKernel, Completed
  <1> QED
    BY <1>3, <1>4, <1>6, <1>7 DEF OpInv

(* cqe_seen: a completion is removed; if it is the last one of its         *)
(* operation, the coroutine that waited for it has been added.             *)
LEMMA SeenStep ==
  ASSUME IInv, NEW w \in Workers, exec[w] = Reaper,
         NEW z \in Tasks, frame[z] = "live", OnlyAt(z),
         z = Reaper \/ code'[z].at = code[z].at,
         code'[Reaper].at = "peek", HeadSeen \/ Head(cq).conn = None,
         cq # <<>>, cq' = Tail(cq),
         UNCHANGED <<holder, frame, exec, sq, ops, peer>>,
         IF Head(cq).more THEN UNCHANGED <<binding, queue>> ELSE addTask(Head(cq).by)
  PROVE  IInv'
  <1> USE DEF IInv, OnceInv
  <1> DEFINE e == Head(cq)
             x == e.by
  <1>1. /\ cq' \in Seq(CompletionRecords)
        /\ e = cq[1] /\ 1 \in 1..Len(cq) /\ e \in CompletionRecords
        /\ \A u \in Tasks : Completed(u)' <=> Completed(u) /\ (e.more \/ u # x)
        /\ ~e.more => Completed(x)
        /\ LastInv'
    BY SeenPlaces
  <1>2. x \in Tasks
    BY <1>1 DEF CompletionRecords
  <1>3. /\ LiveShape
        /\ \A u \in Tasks : Awaits(u)' <=> Awaits(u)
        /\ CallerOnce'
        /\ \A c \in Conns : Owners(c)' = Owners(c)
    BY OnlyAtFacts
  <1>4. /\ \A u \in Tasks : u # z => code'[u] = code[u]
        /\ \A u \in Tasks : u # Reaper => code'[u].at = code[u].at
        /\ \A u \in Tasks : /\ code'[u].kind = code[u].kind
                            /\ code'[u].conn = code[u].conn
                            /\ code'[u].prev = code[u].prev
    BY DEF OnlyAt
  <1>5. ~e.more => /\ frame[x] = "live" /\ OnePlace(x) /\ Completed(x)
                   /\ code[x].at = "wait" /\ x # Reaper
    BY <1>1, <1>2 DEF PlaceInv, NoPlace, KindInv
  <1>6. /\ binding' \in [Tasks -> Workers \cup {None}]
        /\ queue' \in [Workers -> Seq(Tasks)]
        /\ \A u \in Tasks : InQueue(u)' <=> InQueue(u) \/ (~e.more /\ u = x)
        /\ \A u \in Tasks : binding'[u] = None => binding[u] = None
        /\ \A u \in Tasks : ~e.more /\ u = x => binding'[u] # None
        /\ QueueOnce'
    <2>1. CASE e.more
      BY <2>1, QueueSame DEF TypeInv, TypeOK
    <2>2. CASE ~e.more
      <3>1. ~InQueue(x) /\ addTask(x)
        BY <2>2, <1>5 DEF OnePlace
      <3> HIDE DEF x
      <3>2. /\ binding' \in [Tasks -> Workers \cup {None}]
            /\ queue' \in [Workers -> Seq(Tasks)]
            /\ binding'[x] # None
            /\ \A u \in Tasks : u # x => binding'[u] = binding[u]
            /\ \A u \in Tasks : InQueue(u)' <=> InQueue(u) \/ u = x
            /\ QueueOnce'
        BY <3>1, <1>2, AddTaskPlaces DEF TypeInv
      <3> QED
        BY <2>2, <3>2
    <2> QED
      BY <2>1, <2>2
  <1>7. \A u \in Tasks :
          /\ Executes(u)' <=> Executes(u)
          /\ Submitted(u)' <=> Submitted(u)
          /\ InKernel(u)' <=> InKernel(u)
    BY ExecSame, SqSame, OpsSame
  <1> HIDE DEF e, x
  <1>8. TypeInv'
    BY <1>1, <1>6 DEF OnlyAt, TypeInv, TypeOK
  <1>9. PlaceInv'
    <2> SUFFICES ASSUME NEW u \in Tasks
                 PROVE  /\ IF frame[u] = "live" THEN OnePlace(u)' ELSE NoPlace(u)'
                        /\ (Submitted(u) \/ InKernel(u) \/ Completed(u))' => code'[u].at = "wait"
                        /\ InQueue(u)' => code'[u].at \in {"submit", "wait", "peek", "read"}
                        /\ Executes(u)' => code'[u].at # "await"
      BY DEF PlaceInv
    <2>1. u = Reaper => code'[u].at = "peek" /\ Executes(u)
      BY ConstantFacts DEF Executes
    <2>2. frame[u] = "live" => OnePlace(u)
      BY DEF PlaceInv
    <2>3. frame[u] # "live" => NoPlace(u)
      BY DEF PlaceInv
    <2>4. ~e.more /\ u = x => OnePlace(u)'
      BY <1>1, <1>3, <1>5, <1>6, <1>7 DEF OnePlace
    <2>5. ~(~e.more /\ u = x) => (OnePlace(u)' <=> OnePlace(u)) /\ (NoPlace(u)' <=> NoPlace(u))
      BY <1>1, <1>3, <1>6, <1>7 DEF OnePlace, NoPlace
    <2>6. /\ (Submitted(u) \/ InKernel(u) \/ Completed(u))' => code[u].at = "wait"
          /\ InQueue(u)' => code[u].at \in {"submit", "wait", "peek", "read"}
          /\ Executes(u)' => code[u].at # "await"
      BY <1>1, <1>5, <1>6, <1>7 DEF PlaceInv
    <2>7. u # Reaper => code'[u].at = code[u].at
      BY <1>4
    <2>8. u = Reaper => ~Submitted(u)' /\ ~InKernel(u)' /\ ~Completed(u)'
      BY <1>1, <1>7, <2>1, <2>2, <2>3 DEF OnePlace, NoPlace
    <2> QED
      BY <1>5, <2>1, <2>2, <2>3, <2>4, <2>5, <2>6, <2>7, <2>8
  <1>10. OnceInv'
    BY <1>1, <1>3, <1>6, ExecSame, SqSame, OpsSame
  <1>11. KindInv'
    <2>1. \A u \in Tasks : frame[u] = "free" => code'[u] = code[u]
      BY <1>4
    <2> QED
      BY <1>4, <2>1, ConstantFacts DEF KindInv
  <1>12. CallerInv'
    BY <1>4, ConstantFacts DEF CallerInv
  <1>13. BoundInv'
    <2> SUFFICES ASSUME NEW u \in Tasks, frame[u] # "free", binding'[u] = None
                 PROVE  /\ frame[u] = "live"
                        /\ code'[u].kind = "read"
                        /\ ~InQueue(u)'
                        /\ Executes(u)' => code'[u].at = "submit"
      BY DEF BoundInv
    <2>1. binding[u] = None /\ ~(~e.more /\ u = x)
      BY <1>6
    <2>2. u # Reaper
      BY <2>1 DEF BoundInv, KindInv
    <2> QED
      BY <1>4, <1>6, <1>7, <2>1, <2>2 DEF BoundInv
  <1>14. HolderInv'
    BY DEF HolderInv
  <1>15. OpInv'
    BY <1>3, OpShift
  <1>16. ~HeadSeen'
    BY DEF HeadSeen
  <1>17. SeenInv'
    BY <1>16 DEF SeenInv
  <1>18. SocketInv'
    BY <1>3, <1>16, SocketShift
  <1> QED
    BY <1>8, <1>9, <1>10, <1>11, <1>12, <1>13, <1>14, <1>15, <1>17, <1>18

(* What the first completion is about, and when it has been looked at.     *)
LEMMA HeadFacts ==
  ASSUME IInv, cq # <<>>
  PROVE  /\ Head(cq) = cq[1] /\ 1 \in 1..Len(cq)
         /\ Head(cq) \in CompletionRecords /\ Head(cq).by \in Tasks
         /\ frame[Head(cq).by] = "live"
         /\ InKernel(Head(cq).by) \/ Completed(Head(cq).by)
         /\ code[Head(cq).by].at = "wait"
         /\ Head(cq).kind = code[Head(cq).by].kind
         /\ Head(cq).kind # "accept" =>
              ~Head(cq).more /\ Head(cq).conn = None /\ Head(cq).by # Reaper
         /\ Head(cq).kind = "accept" => Head(cq).by = Acceptor
  <1> DEFINE e == Head(cq)
             x == e.by
  <1>1. e = cq[1] /\ 1 \in 1..Len(cq) /\ e \in CompletionRecords
    <2>1. cq \in Seq(CompletionRecords)
      BY DEF IInv, TypeInv
    <2>2. e = cq[1] /\ Len(cq) \in Nat \ {0} /\ e \in CompletionRecords
      BY <2>1, TailFacts
    <2> QED
      BY <2>2
  <1>2. x \in Tasks
    BY <1>1 DEF CompletionRecords
  <1>3. /\ e.kind = code[x].kind
        /\ e.kind # "accept" => ~e.more /\ e.conn = None
        /\ InKernel(x) \/ Completed(x)
    BY <1>1 DEF IInv, OpInv
  <1>4. frame[x] = "live" /\ code[x].at = "wait"
    BY <1>2, <1>3 DEF IInv, PlaceInv, NoPlace
  <1>5. e.kind \in {"read", "respond", "accept"}
    BY <1>1 DEF CompletionRecords
  <1>6. (e.kind # "accept" => x # Reaper) /\ (e.kind = "accept" => x = Acceptor)
    BY <1>2, <1>3, <1>4, <1>5, ConstantFacts DEF IInv, KindInv
  <1> QED
    BY <1>1, <1>2, <1>3, <1>4, <1>6

Results == {"ok", "part", "full", "big", "eof", "fail", "again", "retry", "fatal"}

WithResult(r, a, n) == [r EXCEPT !.res = a, !.n = n]

LEMMA ResultFacts ==
  ASSUME NEW r \in CodeRecords, NEW a \in Results, NEW n \in Nat
  PROVE  /\ WithResult(r, a, n) \in CodeRecords
         /\ WithResult(r, a, n).at = r.at
         /\ WithResult(r, a, n).kind = r.kind
         /\ WithResult(r, a, n).conn = r.conn
         /\ WithResult(r, a, n).prev = r.prev
  BY DEF WithResult, CodeRecords, Results

LEMMA ReapOneStep ==
  ASSUME IInv, NEW w \in Workers, ReapOne(w)
  PROVE  IInv'
  <1> DEFINE e == Head(cq)
             x == e.by
             r == WithResult(code[x], e.res, e.n)
  <1>1. /\ exec[w] = Reaper /\ code[Reaper].at = "peek" /\ cq # <<>> /\ e.kind # "accept"
        /\ addTask(x) /\ cq' = Tail(cq)
        /\ UNCHANGED <<holder, frame, exec, sq, ops, peer>>
    BY DEF ReapOne, At
  <1>2. /\ e \in CompletionRecords /\ x \in Tasks /\ frame[x] = "live"
        /\ ~e.more /\ e.conn = None /\ x # Reaper
    BY <1>1, HeadFacts
  <1>3. /\ r \in CodeRecords /\ r.at = code[x].at
        /\ r.kind = code[x].kind /\ r.conn = code[x].conn /\ r.prev = code[x].prev
    <2>1. code[x] \in CodeRecords
      BY <1>2 DEF IInv, TypeInv, TypeOK
    <2>2. e.res \in Results /\ e.n \in Nat
      BY <1>2 DEF CompletionRecords, Results
    <2> QED
      BY <2>1, <2>2, ResultFacts
  <1>4. code' = [code EXCEPT ![x] = r]
    BY <1>2 DEF ReapOne, IInv, TypeInv, TypeOK, WithResult
  <1> HIDE DEF r
  <1>5. OnlyAt(x) /\ code'[x].at = code[x].at
    BY <1>2, <1>3, <1>4, ReplaceFacts
  <1>6. code'[Reaper].at = "peek"
    BY <1>1, <1>2, <1>5, ConstantFacts DEF OnlyAt
  <1> QED
    BY <1>1, <1>2, <1>5, <1>6, SeenStep

LEMMA ReapMoreStep ==
  ASSUME IInv, NEW w \in Workers, ReapMore(w)
  PROVE  IInv'
  <1>1. /\ exec[w] = Reaper /\ code[Reaper].at = "more" /\ cq' = Tail(cq)
        /\ UNCHANGED <<holder, frame, exec, sq, ops, peer>>
        /\ code' = [code EXCEPT ![Reaper].at = "peek"]
    BY DEF ReapMore, At
  <1>2. HeadSeen /\ cq # <<>> /\ frame[Reaper] = "live"
    BY <1>1 DEF HeadSeen, IInv, SeenInv, KindInv
  <1>3. IF Head(cq).more THEN UNCHANGED <<binding, queue>> ELSE addTask(Head(cq).by)
    BY <1>2, HeadFacts DEF ReapMore, Last, CompletionRecords
  <1>4. OnlyAt(Reaper) /\ code'[Reaper].at = "peek"
    BY <1>1, MoveFacts, ConstantFacts DEF Places
  <1> QED
    BY <1>1, <1>2, <1>3, <1>4, SeenStep, ConstantFacts

(* The result of an accept is stored; its completion has been looked at.   *)
LEMMA StoreFacts ==
  ASSUME IInv, NEW x \in Tasks, NEW a \in Results, x # Reaper,
         NEW f \in Frames \cup {None}, f \notin {x, Reaper}, NEW new \in CodeRecords,
         \/ code' = [code EXCEPT ![x].res = a, ![Reaper].at = "more"]
         \/ code' = [code EXCEPT ![x].res = a, ![Reaper].at = "more", ![f] = new]
  PROVE  /\ code' \in [Tasks -> CodeRecords]
         /\ code'[Reaper].at = "more"
         /\ code'[x].at = code[x].at
         /\ \A u \in Tasks : u # f =>
              /\ code'[u].kind = code[u].kind
              /\ code'[u].conn = code[u].conn
              /\ code'[u].prev = code[u].prev
         /\ \A u \in Tasks : u \notin {f, x, Reaper} => code'[u] = code[u]
  <1>1. code \in [Tasks -> CodeRecords] /\ Reaper \in Tasks
    BY ConstantFacts DEF IInv, TypeInv, TypeOK
  <1> DEFINE rx == [code[x] EXCEPT !.res = a]
             rr == [code[Reaper] EXCEPT !.at = "more"]
  <1>2. /\ code'[x] = rx /\ code'[Reaper] = rr
        /\ \A u \in Tasks : u \notin {f, x, Reaper} => code'[u] = code[u]
        /\ f \in Tasks => code'[f] = new \/ code'[f] = code[f]
        /\ code' = [u \in Tasks |-> code'[u]]
    BY <1>1
  <1>3. /\ rx \in CodeRecords /\ rx.at = code[x].at /\ rx.kind = code[x].kind
        /\ rx.conn = code[x].conn /\ rx.prev = code[x].prev
    <2>1. code[x] \in CodeRecords
      BY <1>1
    <2> QED
      BY <2>1 DEF CodeRecords, Results
  <1>4. /\ rr \in CodeRecords /\ rr.at = "more" /\ rr.kind = code[Reaper].kind
        /\ rr.conn = code[Reaper].conn /\ rr.prev = code[Reaper].prev
    <2>1. code[Reaper] \in CodeRecords
      BY <1>1
    <2> QED
      BY <2>1 DEF CodeRecords
  <1> HIDE DEF rx, rr
  <1>5. \A u \in Tasks : code'[u] \in CodeRecords
    BY <1>1, <1>2, <1>3, <1>4
  <1>6. code' \in [Tasks -> CodeRecords]
    BY <1>2, <1>5
  <1> QED
    BY <1>2, <1>3, <1>4, <1>6

LEMMA ReapConnFailsStep ==
  ASSUME IInv, NEW w \in Workers, ReapConnFails(w)
  PROVE  IInv'
  <1> USE DEF IInv, OnceInv
  <1>1. /\ exec[w] = Reaper /\ code[Reaper].at = "peek" /\ cq # <<>>
        /\ Head(cq).kind = "accept" /\ Head(cq).conn = None
        /\ code' = [code EXCEPT ![Head(cq).by].res = Head(cq).res, ![Reaper].at = "more"]
    BY DEF ReapConnFails, At, Accepted
  <1>2. UNCHANGED <<binding, queue, holder, frame, exec, sq, ops, cq, peer>>
    BY DEF ReapConnFails, poolVars, kernelVars
  <1>3. Head(cq) \in CompletionRecords /\ Head(cq).by = Acceptor /\ Head(cq) = cq[1]
    BY <1>1, HeadFacts
  <1>4. /\ code' \in [Tasks -> CodeRecords]
        /\ code'[Reaper].at = "more"
        /\ code'[Acceptor].at = code[Acceptor].at
        /\ \A u \in Tasks :
             /\ code'[u].kind = code[u].kind
             /\ code'[u].conn = code[u].conn
             /\ code'[u].prev = code[u].prev
        /\ \A u \in Frames : code'[u] = code[u]
    <2> DEFINE a == Head(cq).res
    <2>1. a \in Results
      BY <1>3 DEF CompletionRecords, Results
    <2>2. code[Reaper] \in CodeRecords
      BY ConstantFacts DEF TypeInv, TypeOK
    <2>3. code' = [code EXCEPT ![Acceptor].res = a, ![Reaper].at = "more"]
      BY <1>1, <1>3
    <2>4. None \in Frames \cup {None} /\ None \notin {Acceptor, Reaper}
      BY ConstantFacts
    <2> HIDE DEF a
    <2>5. /\ code' \in [Tasks -> CodeRecords]
          /\ code'[Reaper].at = "more"
          /\ code'[Acceptor].at = code[Acceptor].at
          /\ \A u \in Tasks : u # None =>
               /\ code'[u].kind = code[u].kind
               /\ code'[u].conn = code[u].conn
               /\ code'[u].prev = code[u].prev
          /\ \A u \in Tasks : u \notin {None, Acceptor, Reaper} => code'[u] = code[u]
      BY <2>1, <2>2, <2>3, <2>4, StoreFacts, ConstantFacts
    <2> QED
      BY <2>5, ConstantFacts
  <1>5. /\ LiveShape
        /\ \A u \in Tasks : Awaits(u)' <=> Awaits(u)
        /\ CallerOnce'
        /\ \A c \in Conns : Owners(c)' = Owners(c)
    <2>1. SameShape /\ LiveShape
      BY <1>2, <1>4 DEF SameShape, LiveShape
    <2>2. \A u \in Tasks : frame[u] # "live" => code'[u] = code[u]
      BY <1>4, LoopsLive
    <2> QED
      BY <2>1, <2>2, ShapeFacts
  <1>6. ~HeadSeen /\ HeadSeen' /\ Executes(Reaper)
    BY <1>1, <1>4 DEF HeadSeen, Executes
  <1>7. /\ frame[Reaper] = "live" /\ OnePlace(Reaper)
    BY ConstantFacts DEF KindInv, PlaceInv
  <1>8. \A u \in Tasks : u # Reaper => code'[u].at = code[u].at
    BY <1>4, ConstantFacts
  <1>9. \A u \in Tasks :
          /\ InQueue(u)' <=> InQueue(u)
          /\ Executes(u)' <=> Executes(u)
          /\ Submitted(u)' <=> Submitted(u)
          /\ InKernel(u)' <=> InKernel(u)
          /\ Completed(u)' <=> Completed(u)
    BY <1>2, QueueSame, ExecSame, SqSame, OpsSame, CqSame
  <1>10. TypeInv'
    BY <1>2, <1>4 DEF TypeInv, TypeOK
  <1>11. PlaceInv'
    BY <1>2, <1>4, <1>5, <1>6, <1>7, <1>8, <1>9 DEF PlaceInv, NoPlace, OnePlace
  <1>12. OnceInv'
    BY <1>2, <1>5, QueueSame, ExecSame, SqSame, OpsSame, CqSame
  <1>13. KindInv'
    BY <1>2, <1>4, ConstantFacts DEF KindInv
  <1>14. CallerInv'
    BY <1>2, <1>4, ConstantFacts DEF CallerInv
  <1>15. BoundInv'
    BY <1>2, <1>4, <1>8, <1>9, ConstantFacts DEF BoundInv, KindInv
  <1>16. HolderInv'
    BY <1>2 DEF HolderInv
  <1>17. OpInv'
    BY <1>2, <1>5, OpSame
  <1>18. SeenInv'
    BY <1>1, <1>2, <1>3, <1>6, <1>9, ConstantFacts DEF SeenInv
  <1>19. SocketInv'
    <2>1. cq[1].conn = None
      BY <1>1, <1>3
    <2>2. ASSUME NEW i \in 1..Len(cq), cq[i].conn # None
          PROVE  peer[cq[i].conn].sock = "open" /\ (Owners(cq[i].conn) = {})'
      <3>1. PICK d \in Conns : d = cq[i].conn
        BY <2>2, ElementTypes
      <3>2. peer[d].sock = "open" /\ Owners(d) = {}
        BY <1>6, <2>2, <3>1 DEF SocketInv
      <3>3. Owners(d)' = {}
        BY <1>5, <3>2
      <3> QED
        BY <1>2, <3>1, <3>2, <3>3 DEF Owners
    <2>3. ASSUME NEW c \in Conns
          PROVE  /\ Owners(c)' # {} => peer[c].sock = "open"
                 /\ peer[c].sock = "open" =>
                      \/ Owners(c)' # {}
                      \/ \E i \in 1..Len(cq) : cq[i].conn = c /\ ~(i = 1)
      BY <1>5, <1>6, <2>1, ConstantFacts DEF SocketInv
    <2>4. \A i, j \in 1..Len(cq) :
            cq[i].conn # None /\ cq[i].conn = cq[j].conn => i = j
      BY DEF SocketInv
    <2> QED
      BY <1>2, <1>6, <2>2, <2>3, <2>4 DEF SocketInv
  <1> QED
    BY <1>10, <1>11, <1>12, <1>13, <1>14, <1>15, <1>16, <1>17, <1>18, <1>19

(* A clientHandle for the connection d that the first completion brings.   *)
LEMMA ReapConnStep ==
  ASSUME IInv, NEW w \in Workers, ReapConn(w)
  PROVE  IInv'
  <1> USE DEF IInv, OnceInv
  <1> DEFINE e == Head(cq)
  <1>1. /\ exec[w] = Reaper /\ code[Reaper].at = "peek" /\ cq # <<>>
        /\ e.kind = "accept" /\ e.conn # None
        /\ Create /\ addTask(NewFrame)
    BY DEF ReapConn, At, Accepted
  <1>2. UNCHANGED <<holder, exec, sq, ops, cq, peer>>
    BY DEF ReapConn, kernelVars
  <1>3. /\ e \in CompletionRecords /\ e.by = Acceptor /\ e = cq[1] /\ 1 \in 1..Len(cq)
    BY <1>1, HeadFacts
  <1>4. PICK d \in Conns : d = e.conn
    BY <1>1, <1>3 DEF CompletionRecords
  <1>5. PICK f \in Frames : f = NewFrame /\ frame[f] = "free"
    BY <1>1, NewFrameFacts DEF Create
  <1>6. f \in Tasks /\ f # Reaper /\ f # Acceptor
    BY <1>5, ConstantFacts
  <1> DEFINE new == Coroutine("client", "read", d, None)
             a == e.res
  <1>7. /\ new \in CodeRecords /\ new.kind = "client" /\ new.at = "read"
        /\ new.conn = d /\ new.prev = None
    BY CoroutineFacts DEF Places
  <1>8. a \in Results
    BY <1>3 DEF CompletionRecords, Results
  <1>9. code' = [code EXCEPT ![Acceptor].res = a, ![Reaper].at = "more", ![f] = new]
    BY <1>3, <1>4, <1>5 DEF ReapConn
  <1> HIDE DEF new, a
  <1>10. /\ code' \in [Tasks -> CodeRecords]
         /\ code'[Reaper].at = "more"
         /\ code'[Acceptor].at = code[Acceptor].at
         /\ \A u \in Tasks : u # f =>
              /\ code'[u].kind = code[u].kind
              /\ code'[u].conn = code[u].conn
              /\ code'[u].prev = code[u].prev
         /\ \A u \in Tasks : u \notin {f, Acceptor, Reaper} => code'[u] = code[u]
    BY <1>6, <1>7, <1>8, <1>9, StoreFacts, ConstantFacts
  <1>11. /\ code'[f].kind = "client" /\ code'[f].at = "read"
         /\ code'[f].conn = d /\ code'[f].prev = None
    <2>1. code'[f] = new
      BY <1>6, <1>9 DEF TypeInv, TypeOK
    <2> QED
      BY <1>7, <2>1
  <1>12. \A u \in Frames : u # f => code'[u] = code[u]
    BY <1>10, ConstantFacts
  <1>13. \A u \in Tasks : u # f /\ u # Reaper => code'[u].at = code[u].at
    BY <1>10
  <1>14. LiveShape
    BY <1>5, <1>10 DEF LiveShape
  <1>15. Begun(f, None)
    BY <1>1, <1>5, <1>11, <1>14, BeginPlaces DEF Create
  <1>16. /\ frame'[f] = "live"
         /\ \A u \in Tasks : u # f => frame'[u] = frame[u]
         /\ frame' \in [Tasks -> {"free", "live", "done"}]
         /\ CallerOnce' /\ NoPlace(f)
    BY <1>15 DEF Begun
  <1>17. /\ binding' \in [Tasks -> Workers \cup {None}]
         /\ queue' \in [Workers -> Seq(Tasks)]
         /\ binding'[f] # None
         /\ \A u \in Tasks : u # f => binding'[u] = binding[u]
         /\ \A u \in Tasks : InQueue(u)' <=> InQueue(u) \/ u = f
         /\ QueueOnce'
         /\ \A u \in Tasks : Awaits(u)' <=> Awaits(u)
    BY <1>1, <1>5, <1>15, BegunQueued
  <1>18. ~HeadSeen /\ HeadSeen' /\ Executes(Reaper)
    BY <1>1, <1>10 DEF HeadSeen, Executes
  <1>19. frame[Reaper] = "live" /\ OnePlace(Reaper)
    BY ConstantFacts DEF KindInv, PlaceInv
  <1>20. \A u \in Tasks :
           /\ Executes(u)' <=> Executes(u)
           /\ Submitted(u)' <=> Submitted(u)
           /\ InKernel(u)' <=> InKernel(u)
           /\ Completed(u)' <=> Completed(u)
    BY <1>2, ExecSame, SqSame, OpsSame, CqSame
  <1>21. /\ \A c \in Conns : c # d => Owners(c)' = Owners(c)
         /\ f \in Owners(d)'
    <2>1. \A u \in Frames : u # f => code'[u] = code[u] /\ frame'[u] = frame[u]
      BY <1>12, <1>16, ConstantFacts
    <2> QED
      BY <1>5, <1>11, <1>16, <2>1 DEF Owners
  <1>22. TypeInv'
    BY <1>2, <1>10, <1>16, <1>17 DEF TypeInv, TypeOK
  <1>23. PlaceInv'
    <2> SUFFICES ASSUME NEW u \in Tasks
                 PROVE  /\ IF frame'[u] = "live" THEN OnePlace(u)' ELSE NoPlace(u)'
                        /\ (Submitted(u) \/ InKernel(u) \/ Completed(u))' => code'[u].at = "wait"
                        /\ InQueue(u)' => code'[u].at \in {"submit", "wait", "peek", "read"}
                        /\ Executes(u)' => code'[u].at # "await"
      BY DEF PlaceInv
    <2>1. CASE u = f
      BY <2>1, <1>11, <1>16, <1>17, <1>20 DEF OnePlace, NoPlace
    <2>2. CASE u = Reaper
      BY <2>2, <1>6, <1>10, <1>16, <1>17, <1>18, <1>19, <1>20 DEF OnePlace
    <2>3. CASE u # f /\ u # Reaper
      BY <2>3, <1>13, <1>16, <1>17, <1>20 DEF PlaceInv, OnePlace, NoPlace
    <2> QED
      BY <2>1, <2>2, <2>3
  <1>24. OnceInv'
    BY <1>2, <1>16, <1>17, ExecSame, SqSame, OpsSame, CqSame
  <1>25. KindInv'
    <2>1. /\ code'[Reaper].kind = "reap" /\ frame'[Reaper] = "live"
          /\ code'[Reaper].at \in {"peek", "more"}
          /\ code'[Acceptor].kind = "accept" /\ frame'[Acceptor] = "live"
          /\ code'[Acceptor].at \in {"submit", "wait", "thrown"}
      BY <1>6, <1>10, <1>16, ConstantFacts DEF KindInv
    <2>2. \A u \in Loops : code'[u].prev = None /\ code'[u].conn = None
      BY <1>6, <1>10, ConstantFacts DEF KindInv, Loops
    <2>3. ASSUME NEW u \in Frames
          PROVE  IF frame'[u] = "free" THEN code'[u] = Blank
                 ELSE /\ code'[u].kind \in {"client", "read", "respond"}
                      /\ code'[u].conn \in Conns
                      /\ code'[u].kind = "client" =>
                           code'[u].at \in {"read", "await", "got", "end"}
                      /\ code'[u].kind # "client" => code'[u].at \in {"submit", "wait"}
                      /\ code'[u].kind # "read" => code'[u].prev = None
      <3>1. CASE u = f
        BY <3>1, <1>11, <1>16
      <3>2. CASE u # f
        BY <3>2, <1>12, <1>16, ConstantFacts DEF KindInv
      <3> QED
        BY <3>1, <3>2
    <2> QED
      BY <2>1, <2>2, <2>3 DEF KindInv
  <1>26. CallerInv'
    <2> SUFFICES ASSUME NEW u \in Frames, frame'[u] = "live", code'[u].kind = "read"
                 PROVE  /\ code'[u].prev \in Frames
                        /\ frame'[code'[u].prev] = "live"
                        /\ code'[code'[u].prev].kind = "client"
                        /\ code'[code'[u].prev].at = "await"
                        /\ code'[code'[u].prev].conn = code'[u].conn
      BY DEF CallerInv
    <2>1. u # f /\ frame[u] = "live" /\ code'[u] = code[u] /\ u \in Tasks
      BY <1>11, <1>12, <1>16, ConstantFacts
    <2>2. /\ code[u].prev \in Frames /\ frame[code[u].prev] = "live"
          /\ code[code[u].prev].kind = "client" /\ code[code[u].prev].at = "await"
          /\ code[code[u].prev].conn = code[u].conn
      BY <2>1 DEF CallerInv
    <2>3. code[u].prev # f /\ code[u].prev \in Tasks
      BY <1>5, <2>2, ConstantFacts
    <2> QED
      BY <1>12, <1>16, <2>1, <2>2, <2>3
  <1>27. BoundInv'
    <2> SUFFICES ASSUME NEW u \in Tasks, frame'[u] # "free", binding'[u] = None
                 PROVE  /\ frame'[u] = "live"
                        /\ code'[u].kind = "read"
                        /\ ~InQueue(u)'
                        /\ Executes(u)' => code'[u].at = "submit"
      BY DEF BoundInv
    <2>1. u # f
      BY <1>17
    <2>2. frame'[u] = frame[u] /\ binding'[u] = binding[u] /\ code'[u].kind = code[u].kind
      BY <1>10, <1>16, <1>17, <2>1
    <2>3. u # Reaper
      BY <2>2 DEF BoundInv, KindInv
    <2> QED
      BY <1>13, <1>17, <1>20, <2>1, <2>2, <2>3 DEF BoundInv
  <1>28. HolderInv'
    BY <1>2 DEF HolderInv
  <1>29. OpInv'
    BY <1>2, <1>14, OpSame
  <1>30. SeenInv'
    BY <1>1, <1>2, <1>3, <1>18, <1>20, ConstantFacts DEF SeenInv
  <1>31. SocketInv'
    <2>1. \A i, j \in 1..Len(cq) :
            cq[i].conn # None /\ cq[i].conn = cq[j].conn => i = j
      BY DEF SocketInv
    <2>2. cq[1].conn = d
      BY <1>3, <1>4
    <2>3. peer[d].sock = "open"
      BY <1>1, <1>3, <1>4, <1>18 DEF SocketInv
    <2>4. ASSUME NEW i \in 1..Len(cq), cq[i].conn # None
          PROVE  /\ peer[cq[i].conn].sock # "none"
                 /\ \/ peer[cq[i].conn].sock = "open" /\ (Owners(cq[i].conn) = {})'
                    \/ i = 1
      <3>1. CASE i = 1
        BY <3>1, <2>2, <2>3
      <3>2. CASE i # 1
        <4>1. PICK c \in Conns : c = cq[i].conn
          BY <2>4, ElementTypes
        <4>2. c # d
          BY <1>3, <2>1, <2>2, <2>4, <3>2, <4>1
        <4>3. peer[c].sock = "open" /\ Owners(c) = {}
          BY <2>4, <3>2, <4>1 DEF SocketInv
        <4>4. Owners(c)' = {}
          BY <1>21, <4>2, <4>3
        <4> QED
          BY <1>2, <4>1, <4>3, <4>4 DEF Owners
      <3> QED
        BY <3>1, <3>2
    <2>5. ASSUME NEW c \in Conns
          PROVE  /\ Owners(c)' # {} => peer[c].sock = "open"
                 /\ peer[c].sock = "open" =>
                      \/ Owners(c)' # {}
                      \/ \E i \in 1..Len(cq) : cq[i].conn = c /\ ~(i = 1)
      <3>1. CASE c = d
        BY <3>1, <1>21, <2>3
      <3>2. CASE c # d
        BY <3>2, <1>18, <1>21, <2>2 DEF SocketInv
      <3> QED
        BY <3>1, <3>2
    <2> QED
      BY <1>2, <1>18, <2>1, <2>4, <2>5 DEF SocketInv
  <1> QED
    BY <1>22, <1>23, <1>24, <1>25, <1>26, <1>27, <1>28, <1>29, <1>30, <1>31

-----------------------------------------------------------------------------
(* The kernel.                                                             *)

LEMMA SameCode ==
  ASSUME IInv, UNCHANGED <<frame, code>>
  PROVE  /\ LiveShape
         /\ \A u \in Tasks : Awaits(u)' <=> Awaits(u)
         /\ CallerOnce'
         /\ \A c \in Conns : Owners(c)' = Owners(c)
         /\ KindInv' /\ CallerInv'
         /\ HeadSeen' <=> HeadSeen
  <1>1. SameShape /\ LiveShape
    BY DEF SameShape, LiveShape
  <1>2. KindInv' /\ CallerInv' /\ (HeadSeen' <=> HeadSeen)
    BY DEF IInv, KindInv, CallerInv, HeadSeen
  <1> QED
    BY <1>1, <1>2, ShapeFacts DEF IInv, OnceInv

LEMMA KernelTakeStep ==
  ASSUME IInv, KernelTake
  PROVE  IInv'
  <1> USE DEF IInv, OnceInv
  <1> DEFINE h == Head(sq)
             x == h.by
  <1>1. /\ sq # <<>> /\ sq' = Tail(sq) /\ ops' = ops \cup {h}
        /\ UNCHANGED <<binding, queue, holder, frame, exec, code, cq, peer>>
    BY DEF KernelTake, poolVars
  <1>2. h = sq[1] /\ 1 \in 1..Len(sq) /\ h \in OpRecords /\ x \in Tasks
    <2>1. sq \in Seq(OpRecords)
      BY DEF TypeInv, TypeOK
    <2>2. h = sq[1] /\ Len(sq) \in Nat \ {0} /\ h \in OpRecords
      BY <1>1, <2>1, TailFacts
    <2> QED
      BY <2>2 DEF OpRecords
  <1>3. Submitted(x) /\ frame[x] = "live" /\ OnePlace(x) /\ code[x].at = "wait"
    BY <1>2 DEF Submitted, PlaceInv, NoPlace
  <1>4. \A o \in ops : o.by # x
    BY <1>3 DEF OnePlace, InKernel
  <1>5. /\ sq' \in Seq(OpRecords) /\ Len(sq') <= SqSize
        /\ \A u \in Tasks : Submitted(u)' <=> Submitted(u) /\ u # x
        /\ \A u \in Tasks : InKernel(u)' <=> InKernel(u) \/ u = x
        /\ SqOnce' /\ OpsOnce'
        /\ \A i \in 1..Len(sq') : i + 1 \in 1..Len(sq) /\ sq'[i] = sq[i + 1]
    BY <1>1, <1>4, TakePlaces DEF TypeInv
  <1>6. /\ LiveShape
        /\ \A u \in Tasks : Awaits(u)' <=> Awaits(u)
        /\ CallerOnce'
        /\ \A c \in Conns : Owners(c)' = Owners(c)
        /\ KindInv' /\ CallerInv'
        /\ HeadSeen' <=> HeadSeen
    BY <1>1, SameCode
  <1>7. \A u \in Tasks :
          /\ InQueue(u)' <=> InQueue(u)
          /\ Executes(u)' <=> Executes(u)
          /\ Completed(u)' <=> Completed(u)
    BY <1>1, QueueSame, ExecSame, CqSame
  <1>8. Matches(h, code)
    BY <1>2 DEF OpInv
  <1> HIDE DEF h, x
  <1>9. TypeInv'
    BY <1>1, <1>2, <1>5 DEF TypeInv, TypeOK
  <1>10. PlaceInv'
    BY <1>1, <1>3, <1>5, <1>6, <1>7 DEF PlaceInv, NoPlace, OnePlace
  <1>11. OnceInv'
    BY <1>1, <1>5, <1>6, QueueSame, ExecSame, CqSame
  <1>12. BoundInv'
    BY <1>1, <1>7 DEF BoundInv
  <1>13. HolderInv'
    BY <1>1 DEF HolderInv
  <1>14. OpInv'
    <2>1. \A i \in 1..Len(sq') : Matches(sq'[i], code)
      BY <1>5 DEF OpInv
    <2>2. \A o \in ops' : Matches(o, code)
      BY <1>1, <1>8 DEF OpInv
    <2>3. \A i \in 1..Len(cq) :
            /\ cq[i].kind = code[cq[i].by].kind
            /\ cq[i].kind # "accept" => ~cq[i].more /\ cq[i].conn = None
            /\ InKernel(cq[i].by) \/ Completed(cq[i].by)
      BY DEF OpInv
    <2>4. \A i \in 1..Len(cq) : InKernel(cq[i].by) => InKernel(cq[i].by)'
      BY <1>1 DEF InKernel
    <2>5. \A i \in 1..Len(cq) : Completed(cq[i].by) => Completed(cq[i].by)'
      BY <1>1 DEF Completed
    <2> QED
      BY <1>1, <2>1, <2>2, <2>3, <2>4, <2>5 DEF OpInv, Matches
  <1>15. SeenInv' /\ SocketInv'
    <2>1. \A c \in Conns : Owners(c)' = {} <=> Owners(c) = {}
      BY <1>6
    <2> QED
      BY <1>1, <1>6, <1>7, <2>1, SeenSame, SocketSame, ConstantFacts
  <1> QED
    BY <1>6, <1>9, <1>10, <1>11, <1>12, <1>13, <1>14, <1>15

(* The kernel completes the operation o with the entry e, which may bring  *)
(* a connection whose socket has not existed before.                       *)
LEMMA PostStep ==
  ASSUME IInv, NEW o \in ops, NEW e \in CompletionRecords,
         e.by = o.by, e.kind = o.kind,
         e.kind # "accept" => ~e.more /\ e.conn = None,
         Post(o, e),
         peer' \in [Conns -> PeerRecords],
         \A c \in Conns : c # e.conn => peer'[c].sock = peer[c].sock,
         e.conn # None => peer[e.conn].sock = "none" /\ peer'[e.conn].sock = "open"
  PROVE  IInv'
  <1> USE DEF IInv, OnceInv
  <1>1. /\ cq' = Append(cq, e) /\ ops' = IF e.more THEN ops ELSE ops \ {o}
        /\ UNCHANGED <<binding, queue, holder, frame, exec, code, sq>>
    BY DEF Post, poolVars
  <1>2. PICK x \in Tasks : x = o.by
    BY ElementTypes
  <1>3. InKernel(x) /\ frame[x] = "live" /\ OnePlace(x) /\ code[x].at = "wait" /\ ~Completed(x)
    BY <1>2 DEF InKernel, PlaceInv, NoPlace, OnePlace
  <1>4. /\ cq' \in Seq(CompletionRecords)
        /\ Len(cq) \in Nat /\ Len(cq') = Len(cq) + 1
        /\ \A i \in 1..Len(cq) : cq'[i] = cq[i]
        /\ cq'[Len(cq) + 1] = e
        /\ ops' \subseteq ops
        /\ \A u \in Tasks : InKernel(u)' <=> InKernel(u) /\ (e.more \/ u # x)
        /\ \A u \in Tasks : Completed(u)' <=> Completed(u) \/ (~e.more /\ u = x)
        /\ OpsOnce' /\ LastInv'
    BY <1>1, <1>2, <1>3, PostPlaces
  <1>5. \A i \in 1..Len(cq') : i = Len(cq) + 1 \/ i \in 1..Len(cq)
    BY <1>4
  <1>6. /\ LiveShape
        /\ \A u \in Tasks : Awaits(u)' <=> Awaits(u)
        /\ CallerOnce'
        /\ \A c \in Conns : Owners(c)' = Owners(c)
        /\ KindInv' /\ CallerInv'
        /\ HeadSeen' <=> HeadSeen
    BY <1>1, SameCode
  <1>7. \A u \in Tasks :
          /\ InQueue(u)' <=> InQueue(u)
          /\ Executes(u)' <=> Executes(u)
          /\ Submitted(u)' <=> Submitted(u)
    BY <1>1, QueueSame, ExecSame, SqSame
  <1>8. TypeInv'
    <2>1. \A i \in 1..Len(cq') : cq'[i].by \in Tasks
      <3>1. \A i \in 1..Len(cq') : cq'[i] \in CompletionRecords
        BY <1>4
      <3> QED
        BY <3>1 DEF CompletionRecords
    <2>2. \A c \in Conns : peer'[c].sock \in {"none", "open", "closed"}
      BY DEF PeerRecords
    <2> QED
      BY <1>1, <1>4, <2>1, <2>2 DEF TypeInv, TypeOK
  <1>9. PlaceInv'
    BY <1>1, <1>3, <1>4, <1>6, <1>7 DEF PlaceInv, NoPlace, OnePlace
  <1>10. OnceInv'
    BY <1>1, <1>4, <1>6, QueueSame, ExecSame, SqSame
  <1>11. BoundInv'
    BY <1>1, <1>7 DEF BoundInv
  <1>12. HolderInv'
    BY <1>1 DEF HolderInv
  <1>13. OpInv'
    <2>1. (\A i \in 1..Len(sq) : Matches(sq[i], code)) /\ (\A p \in ops' : Matches(p, code))
      BY <1>4 DEF OpInv
    <2>2. ASSUME NEW i \in 1..Len(cq')
          PROVE  \E u \in Tasks :
                   /\ u = cq'[i].by
                   /\ cq'[i].kind = code[u].kind
                   /\ cq'[i].kind # "accept" => ~cq'[i].more /\ cq'[i].conn = None
                   /\ InKernel(u)' \/ Completed(u)'
      <3>1. CASE i = Len(cq) + 1
        <4>1. cq'[i] = e
          BY <3>1, <1>4
        <4>2. e.by = x /\ e.kind = code[x].kind
          BY <1>2 DEF OpInv, Matches
        <4>3. InKernel(x)' \/ Completed(x)'
          BY <1>3, <1>4
        <4> QED
          BY <4>1, <4>2, <4>3
      <3>2. CASE i \in 1..Len(cq)
        <4>1. PICK u \in Tasks : u = cq[i].by
          BY <3>2, ElementTypes
        <4>2. /\ cq[i].kind = code[u].kind
              /\ cq[i].kind # "accept" => ~cq[i].more /\ cq[i].conn = None
              /\ InKernel(u) \/ Completed(u)
          BY <3>2, <4>1 DEF OpInv
        <4>3. InKernel(u)' \/ Completed(u)'
          BY <1>4, <4>2
        <4>4. cq'[i] = cq[i]
          BY <3>2, <1>4
        <4> QED
          BY <4>1, <4>2, <4>3, <4>4
      <3> QED
        BY <3>1, <3>2, <1>5
    <2>3. \A i \in 1..Len(cq') : (InKernel(cq[i].by) \/ Completed(cq[i].by))'
      BY <2>2 DEF InKernel, Completed
    <2> QED
      BY <1>1, <2>1, <2>2, <2>3 DEF OpInv, Matches
  <1>14. HeadSeen => cq # <<>> /\ Len(cq) >= 1 /\ cq'[1] = cq[1]
    <2>1. cq \in Seq(CompletionRecords)
      BY DEF TypeInv
    <2> QED
      BY <2>1, <1>4 DEF SeenInv
  <1>15. SeenInv'
    <2>1. cq' # <<>>
      BY <1>4
    <2> QED
      BY <2>1, <1>6, <1>7, <1>14, ConstantFacts DEF SeenInv
  <1>16. SocketInv'
    <2>1. ~(Len(cq) + 1 = 1 /\ HeadSeen)
      BY <1>4, <1>14
    <2>2. ASSUME e.conn # None, NEW i \in 1..Len(cq) PROVE cq[i].conn # e.conn
      BY <2>2 DEF SocketInv
    <2>3. ASSUME NEW i \in 1..Len(cq'), NEW j \in 1..Len(cq'),
                 cq'[i].conn # None, cq'[i].conn = cq'[j].conn
          PROVE  i = j
      <3>1. (i = Len(cq) + 1 /\ cq'[i] = e) \/ (i \in 1..Len(cq) /\ cq'[i] = cq[i])
        BY <1>4, <1>5
      <3>2. (j = Len(cq) + 1 /\ cq'[j] = e) \/ (j \in 1..Len(cq) /\ cq'[j] = cq[j])
        BY <1>4, <1>5
      <3> QED
        BY <2>2, <2>3, <3>1, <3>2 DEF SocketInv
    <2>4. ASSUME NEW i \in 1..Len(cq'), cq'[i].conn # None
          PROVE  \E d \in Conns :
                   /\ d = cq'[i].conn
                   /\ peer'[d].sock # "none"
                   /\ \/ peer'[d].sock = "open" /\ Owners(d)' = {}
                      \/ i = 1 /\ HeadSeen
      <3>1. PICK d \in Conns : d = cq'[i].conn
        <4>1. cq'[i] \in CompletionRecords
          BY <1>4
        <4> QED
          BY <2>4, <4>1 DEF CompletionRecords
      <3>2. CASE i = Len(cq) + 1
        <4>1. d = e.conn
          BY <3>1, <3>2, <1>4
        <4>2. Owners(d) = {} /\ peer'[d].sock = "open"
          BY <2>4, <3>1, <4>1 DEF SocketInv
        <4>3. Owners(d)' = {}
          BY <1>6, <4>2
        <4> QED
          BY <3>1, <4>2, <4>3
      <3>3. CASE i \in 1..Len(cq)
        <4>1. d = cq[i].conn /\ d # e.conn
          BY <2>2, <2>4, <3>1, <3>3, <1>4
        <4>2. /\ peer[d].sock # "none"
              /\ \/ peer[d].sock = "open" /\ Owners(d) = {}
                 \/ i = 1 /\ HeadSeen
          BY <2>4, <3>1, <3>3, <4>1 DEF SocketInv
        <4>3. Owners(d)' = Owners(d) /\ peer'[d].sock = peer[d].sock
          BY <1>6, <4>1
        <4> QED
          BY <3>1, <4>2, <4>3
      <3> QED
        BY <3>2, <3>3, <1>5
    <2>5. \A i \in 1..Len(cq') :
            cq'[i].conn # None =>
              /\ peer'[cq'[i].conn].sock # "none"
              /\ \/ peer'[cq'[i].conn].sock = "open" /\ (Owners(cq[i].conn) = {})'
                 \/ i = 1 /\ HeadSeen'
      BY <1>6, <2>4 DEF Owners
    <2>6. ASSUME NEW c \in Conns
          PROVE  /\ Owners(c)' # {} => peer'[c].sock = "open"
                 /\ peer'[c].sock = "open" =>
                      \/ Owners(c)' # {}
                      \/ \E i \in 1..Len(cq') : cq'[i].conn = c /\ ~(i = 1 /\ HeadSeen)
      <3>1. Len(cq) + 1 \in 1..Len(cq')
        BY <1>4
      <3>2. CASE c = e.conn
        <4>1. Len(cq) + 1 \in 1..Len(cq') /\ cq'[Len(cq) + 1].conn = c
          BY <1>4, <3>1, <3>2
        <4>2. peer'[c].sock = "open"
          BY <3>2, ConstantFacts
        <4> QED
          BY <2>1, <4>1, <4>2
      <3>3. CASE c # e.conn
        <4>1. peer'[c].sock = peer[c].sock /\ Owners(c)' = Owners(c)
          BY <1>6, <3>3
        <4>2. Owners(c) # {} => peer[c].sock = "open"
          BY DEF SocketInv
        <4>3. ASSUME peer[c].sock = "open", Owners(c) = {}
              PROVE  \E i \in 1..Len(cq') : cq'[i].conn = c /\ ~(i = 1 /\ HeadSeen)
          <5>1. PICK i \in 1..Len(cq) : cq[i].conn = c /\ ~(i = 1 /\ HeadSeen)
            BY <4>3 DEF SocketInv
          <5>2. i \in 1..Len(cq') /\ cq'[i] = cq[i]
            BY <1>4
          <5> QED
            BY <5>1, <5>2
        <4> QED
          BY <4>1, <4>2, <4>3
      <3> QED
        BY <3>2, <3>3
    <2>7. \A c \in Conns :
            /\ Owners(c)' # {} => peer'[c].sock = "open"
            /\ peer'[c].sock = "open" =>
                 \/ Owners(c)' # {}
                 \/ \E i \in 1..Len(cq') : cq'[i].conn = c /\ ~(i = 1 /\ HeadSeen')
      BY <1>6, <2>6
    <2> QED
      BY <2>3, <2>5, <2>7 DEF SocketInv
  <1> QED
    BY <1>6, <1>8, <1>9, <1>10, <1>11, <1>12, <1>13, <1>15, <1>16

LEMMA CompletionFacts ==
  ASSUME TypeInv, NEW o \in ops, NEW a \in Results, NEW n \in Nat,
         NEW c \in Conns \cup {None}, NEW m \in BOOLEAN
  PROVE  /\ Completion(o, a, n, c, m) \in CompletionRecords
         /\ Completion(o, a, n, c, m).by = o.by
         /\ Completion(o, a, n, c, m).kind = o.kind
         /\ Completion(o, a, n, c, m).conn = c
         /\ Completion(o, a, n, c, m).more = m
  <1>1. o.by \in Tasks /\ o.kind \in {"read", "respond", "accept"}
    BY ElementTypes DEF OpRecords
  <1> QED
    BY <1>1 DEF Completion, CompletionRecords, Results

LEMMA KernelAcceptStep ==
  ASSUME IInv, NEW o \in ops, NEW c \in Conns, NEW more \in BOOLEAN, KernelAccept(o, c, more)
  PROVE  IInv'
  <1> DEFINE e == Completion(o, "ok", 0, c, more)
  <1>1. /\ o.kind = "accept" /\ peer[c].sock = "none"
        /\ peer' = [peer EXCEPT ![c].sock = "open"] /\ Post(o, e)
    BY DEF KernelAccept
  <1>2. /\ e \in CompletionRecords /\ e.by = o.by /\ e.kind = o.kind /\ e.conn = c
    BY CompletionFacts DEF IInv, Results
  <1>3. peer \in [Conns -> PeerRecords]
    BY DEF IInv, TypeInv
  <1>4. /\ peer' \in [Conns -> PeerRecords] /\ peer'[c].sock = "open"
        /\ \A d \in Conns : d # c => peer'[d] = peer[d]
    BY <1>1, <1>3 DEF PeerRecords
  <1> HIDE DEF e
  <1> QED
    BY <1>1, <1>2, <1>4, PostStep

(* An operation is completed without a connection.                         *)
LEMMA PlainPostStep ==
  ASSUME IInv, NEW o \in ops, NEW a \in Results, NEW n \in Nat,
         Post(o, Completion(o, a, n, None, FALSE)),
         peer' \in [Conns -> PeerRecords],
         \A c \in Conns : peer'[c].sock = peer[c].sock
  PROVE  IInv'
  <1> DEFINE e == Completion(o, a, n, None, FALSE)
  <1>1. /\ e \in CompletionRecords /\ e.by = o.by /\ e.kind = o.kind
        /\ e.conn = None /\ ~e.more
    <2>1. o.by \in Tasks /\ o.kind \in {"read", "respond", "accept"}
      BY ElementTypes DEF IInv, OpRecords
    <2> QED
      BY <2>1 DEF Completion, CompletionRecords, Results
  <1>2. Post(o, e)
    OBVIOUS
  <1> HIDE DEF e
  <1> QED
    BY <1>1, <1>2, PostStep

LEMMA KernelPlainStep ==
  ASSUME IInv, NEW o \in ops
  PROVE  /\ \A res \in {"retry", "fatal"} : KernelAcceptFails(o, res) => IInv'
         /\ \A n \in 0..o.len : KernelSend(o, n) => IInv'
         /\ \A res \in {"again", "fail"} : KernelSendFails(o, res) => IInv'
  <1>1. peer \in [Conns -> PeerRecords] /\ o.len \in Nat
    BY ElementTypes DEF IInv, TypeInv, OpRecords
  <1>2. ASSUME NEW res \in {"retry", "fatal"}, KernelAcceptFails(o, res) PROVE IInv'
    BY <1>1, <1>2, PlainPostStep DEF KernelAcceptFails, Results
  <1>3. ASSUME NEW n \in 0..o.len, KernelSend(o, n) PROVE IInv'
    <2>1. n \in Nat
      BY <1>1
    <2> QED
      BY <1>1, <1>3, <2>1, PlainPostStep DEF KernelSend, Results
  <1>4. ASSUME NEW res \in {"again", "fail"}, KernelSendFails(o, res) PROVE IInv'
    BY <1>1, <1>4, PlainPostStep DEF KernelSendFails, Results
  <1> QED
    BY <1>2, <1>3, <1>4

LEMMA KernelRecvStep ==
  ASSUME IInv, NEW o \in ops, NEW res \in {"part", "full", "big", "eof", "fail"},
         KernelRecv(o, res)
  PROVE  IInv'
  <1>1. peer \in [Conns -> PeerRecords]
    BY DEF IInv, TypeInv
  <1>2. Post(o, Completion(o, res, 0, None, FALSE)) /\ res \in Results
    BY DEF KernelRecv, Results
  <1> DEFINE d == o.conn
  <1>3. \/ peer' = [peer EXCEPT ![d].begun = TRUE]
        \/ peer' = [peer EXCEPT ![d].reqs = @ + 1, ![d].begun = FALSE]
        \/ peer' = peer
    BY DEF KernelRecv
  <1> HIDE DEF d
  <1>4. /\ peer' \in [Conns -> PeerRecords]
        /\ \A c \in Conns : peer'[c].sock = peer[c].sock
    <2>1. CASE peer' = [peer EXCEPT ![d].begun = TRUE]
      BY <1>1, <2>1 DEF PeerRecords
    <2>2. CASE peer' = [peer EXCEPT ![d].reqs = @ + 1, ![d].begun = FALSE]
      <3>1. ASSUME NEW c \in Conns
            PROVE  peer'[c] \in PeerRecords /\ peer'[c].sock = peer[c].sock
        <4>1. peer[c] \in PeerRecords
          BY <1>1
        <4>2. peer[c].reqs \in Nat
          BY <4>1 DEF PeerRecords
        <4>3. CASE c = d
          <5> DEFINE k == peer[c].reqs + 1
          <5>1. k \in Nat
            BY <4>2
          <5>2. peer'[c] = [peer[c] EXCEPT !.reqs = k, !.begun = FALSE]
            BY <1>1, <2>2, <4>3
          <5> HIDE DEF k
          <5> QED
            BY <4>1, <5>1, <5>2 DEF PeerRecords
        <4>4. CASE c # d
          BY <1>1, <2>2, <4>1, <4>4
        <4> QED
          BY <4>3, <4>4
      <3>2. peer' = [c \in Conns |-> peer'[c]]
        BY <1>1, <2>2
      <3> QED
        BY <3>1, <3>2
    <2>3. CASE peer' = peer
      BY <1>1, <2>3
    <2> QED
      BY <1>3, <2>1, <2>2, <2>3
  <1> QED
    BY <1>2, <1>4, PlainPostStep

-----------------------------------------------------------------------------
(* The invariant holds.                                                    *)

LEMMA InitInv ==
  Init => IInv
  <1> SUFFICES ASSUME Init PROVE IInv
    OBVIOUS
  <1>1. /\ binding \in [Tasks -> Workers \cup {None}]
        /\ \A t \in Tasks : binding[t] = None <=> t \in Frames
        /\ queue \in [Workers -> {<<>>, <<Reaper>>, <<Acceptor>>, <<Reaper, Acceptor>>}]
        /\ \A w \in Workers, t \in Loops :
             binding[t] = w <=> \E i \in 1..Len(queue[w]) : queue[w][i] = t
        /\ holder = [w \in Workers |-> None]
        /\ exec = [w \in Workers |-> None]
        /\ sq = <<>> /\ ops = {} /\ cq = <<>>
        /\ peer = [c \in Conns |-> [sock |-> "none", reqs |-> 0, begun |-> FALSE]]
    BY DEF Init
  <1>2. /\ frame \in [Tasks -> {"free", "live", "done"}]
        /\ \A t \in Frames : frame[t] = "free"
        /\ frame[Reaper] = "live" /\ frame[Acceptor] = "live"
    BY ConstantFacts DEF Init
  <1>3. /\ code \in [Tasks -> CodeRecords]
        /\ \A t \in Frames : code[t] = Blank
        /\ code[Reaper].kind = "reap" /\ code[Reaper].at = "peek"
        /\ code[Acceptor].kind = "accept" /\ code[Acceptor].at = "submit"
        /\ \A t \in Loops : code[t].prev = None /\ code[t].conn = None
    <2> DEFINE cr == Coroutine("reap", "peek", None, None)
               ca == Coroutine("accept", "submit", None, None)
    <2>1. /\ cr \in CodeRecords /\ cr.kind = "reap" /\ cr.at = "peek"
          /\ cr.conn = None /\ cr.prev = None
      BY CoroutineFacts DEF Places
    <2>2. /\ ca \in CodeRecords /\ ca.kind = "accept" /\ ca.at = "submit"
          /\ ca.conn = None /\ ca.prev = None
      BY CoroutineFacts DEF Places
    <2>3. Blank \in CodeRecords
      BY DEF Blank, CodeRecords
    <2>4. code = [t \in Tasks |-> CASE t = Reaper -> cr [] t = Acceptor -> ca [] OTHER -> Blank]
      BY DEF Init
    <2> HIDE DEF cr, ca
    <2>5. code[Reaper] = cr /\ code[Acceptor] = ca /\ \A t \in Frames : code[t] = Blank
      BY <2>4, ConstantFacts
    <2>6. \A t \in Tasks : code[t] \in CodeRecords
      BY <2>1, <2>2, <2>3, <2>5, ConstantFacts
    <2>7. code \in [Tasks -> CodeRecords]
      BY <2>4, <2>6
    <2> QED
      BY <2>1, <2>2, <2>5, <2>7 DEF Loops
  <1>4. \A t \in Tasks : frame[t] = "live" => code[t].prev = None
    BY <1>2, <1>3, ConstantFacts DEF Loops
  <1>5. ASSUME NEW w \in Workers
        PROVE  /\ queue[w] \in Seq(Tasks)
               /\ \A i \in 1..Len(queue[w]) : queue[w][i] \in Loops
               /\ \A i, j \in 1..Len(queue[w]) : queue[w][i] = queue[w][j] => i = j
    <2>1. queue[w] \in {<<>>, <<Reaper>>, <<Acceptor>>, <<Reaper, Acceptor>>}
      BY <1>1
    <2>2. CASE queue[w] = <<>>
      BY <2>2
    <2>3. CASE queue[w] = <<Reaper>>
      BY <2>3, ConstantFacts DEF Loops
    <2>4. CASE queue[w] = <<Acceptor>>
      BY <2>4, ConstantFacts DEF Loops
    <2>5. CASE queue[w] = <<Reaper, Acceptor>>
      BY <2>5, ConstantFacts DEF Loops
    <2> QED
      BY <2>1, <2>2, <2>3, <2>4, <2>5
  <1>6. /\ \A t \in Loops : InQueue(t)
        /\ \A t \in Frames : ~InQueue(t)
    <2>1. ASSUME NEW t \in Loops PROVE InQueue(t)
      <3>1. binding[t] \in Workers
        BY <1>1, ConstantFacts DEF Loops
      <3> QED
        BY <1>1, <3>1 DEF InQueue
    <2>2. ASSUME NEW t \in Frames, InQueue(t) PROVE FALSE
      <3>1. PICK w \in Workers : \E i \in 1..Len(queue[w]) : queue[w][i] = t
        BY <2>2 DEF InQueue
      <3> QED
        BY <3>1, <1>5, ConstantFacts DEF Loops
    <2> QED
      BY <2>1, <2>2
  <1>7. \A t \in Tasks : ~Executes(t) /\ ~Submitted(t) /\ ~InKernel(t)
                         /\ ~Completed(t) /\ ~Awaits(t)
    BY <1>1, <1>4, ConstantFacts DEF Executes, Submitted, InKernel, Completed, Awaits
  <1>8. TypeInv
    <2>1. queue \in [Workers -> Seq(Tasks)]
      BY <1>1, <1>5
    <2>2. sq \in Seq(OpRecords) /\ Len(sq) <= SqSize
      BY <1>1, ConstantFacts
    <2>3. peer \in [Conns -> PeerRecords] /\ \A c \in Conns : peer[c].sock = "none"
      BY <1>1 DEF PeerRecords
    <2>4. /\ holder \in [Workers -> Tasks \cup {None}]
          /\ exec \in [Workers -> Tasks \cup {None}]
      BY <1>1
    <2>5. ops \subseteq OpRecords /\ cq \in Seq(CompletionRecords) /\ Len(cq) = 0
      BY <1>1
    <2> QED
      BY <1>1, <1>2, <1>3, <2>1, <2>2, <2>3, <2>4, <2>5 DEF TypeInv, TypeOK
  <1>9. PlaceInv
    BY <1>2, <1>3, <1>6, <1>7, ConstantFacts DEF PlaceInv, OnePlace, NoPlace, Loops
  <1>10. OnceInv
    <2>1. QueueOnce
      <3> SUFFICES ASSUME NEW v \in Workers, NEW w \in Workers,
                          NEW i \in 1..Len(queue[v]), NEW j \in 1..Len(queue[w]),
                          queue[v][i] = queue[w][j]
                   PROVE  v = w /\ i = j
        BY DEF QueueOnce
      <3>1. queue[v][i] \in Loops
        BY <1>5
      <3>2. binding[queue[v][i]] = v /\ binding[queue[v][i]] = w
        BY <1>1, <3>1
      <3> QED
        BY <1>5, <3>2
    <2>2. ExecOnce
      BY <1>1 DEF ExecOnce
    <2>3. SqOnce /\ OpsOnce /\ LastInv
      BY <1>1 DEF SqOnce, OpsOnce, LastInv
    <2>4. CallerOnce
      BY <1>4 DEF CallerOnce
    <2> QED
      BY <2>1, <2>2, <2>3, <2>4 DEF OnceInv
  <1>11. KindInv
    BY <1>2, <1>3 DEF KindInv
  <1>12. CallerInv
    BY <1>2 DEF CallerInv
  <1>13. BoundInv
    BY <1>1, <1>2 DEF BoundInv
  <1>14. HolderInv
    BY <1>1 DEF HolderInv
  <1>15. OpInv
    BY <1>1 DEF OpInv
  <1>16. SeenInv
    BY <1>3 DEF SeenInv, HeadSeen
  <1>17. SocketInv
    <2>1. \A c \in Conns : Owners(c) = {} /\ peer[c].sock = "none"
      BY <1>1, <1>2 DEF Owners
    <2> QED
      BY <1>1, <2>1 DEF SocketInv
  <1> QED
    BY <1>8, <1>9, <1>10, <1>11, <1>12, <1>13, <1>14, <1>15, <1>16, <1>17 DEF IInv

LEMMA StutterStep ==
  ASSUME IInv, UNCHANGED vars
  PROVE  IInv'
  BY DEF IInv, vars, poolVars, kernelVars, TypeInv, TypeOK, PlaceInv, OnePlace, NoPlace,
         InQueue, Executes, Submitted, InKernel, Completed, Awaits, OnceInv, QueueOnce,
         ExecOnce, SqOnce, OpsOnce, CallerOnce, LastInv, KindInv, CallerInv, BoundInv,
         HolderInv, OpInv, SeenInv, HeadSeen, SocketInv, Owners

LEMMA NextStep ==
  ASSUME IInv, [Next]_vars
  PROVE  IInv'
  <1>1. CASE UNCHANGED vars
    BY <1>1, StutterStep
  <1>2. ASSUME NEW w \in Workers, PoolStep(w) PROVE IInv'
    BY <1>2, RunTaskStep, ReturnTaskStep DEF PoolStep
  <1>3. ASSUME NEW w \in Workers, reapIOs(w) PROVE IInv'
    BY <1>3, ReapNoneStep, ReapOneStep, ReapConnStep, ReapConnFailsStep, ReapMoreStep
       DEF reapIOs
  <1>4. ASSUME NEW w \in Workers, NEW t \in Tasks, CoroutineStep(w, t) PROVE IInv'
    <2>1. CASE SubmitBusy(w, t) \/ AcceptAgain(w, t)
      BY <2>1, SubmitBusyStep, AcceptAgainStep
    <2>2. CASE ClientRead(w, t) \/ ReadMore(w, t) \/ ReadEnd(w, t)
      BY <2>2, ClientReadStep, ReadMoreStep, ReadEndStep
    <2>3. CASE \E body, close \in BOOLEAN : ClientRespond(w, t, body, close)
      BY <2>3, ClientRespondStep
    <2>4. CASE ClientEnd(w, t)
      BY <2>4, ClientEndStep
    <2>5. CASE SendRetry(w, t) \/ SendRest(w, t) \/ SendBody(w, t) \/ ResponseEnd(w, t)
      BY <2>5, SendRetryStep, SendRestStep, SendBodyStep, ResponseEndStep
    <2> QED
      BY <1>4, <2>1, <2>2, <2>3, <2>4, <2>5 DEF CoroutineStep
  <1>5. CASE KernelStep
    <2>1. CASE KernelTake
      BY <2>1, KernelTakeStep
    <2>2. ASSUME NEW o \in ops, NEW c \in Conns, NEW more \in BOOLEAN,
                 KernelAccept(o, c, more)
          PROVE  IInv'
      BY <2>2, KernelAcceptStep
    <2>3. ASSUME NEW o \in ops, NEW res \in {"part", "full", "big", "eof", "fail"},
                 KernelRecv(o, res)
          PROVE  IInv'
      BY <2>3, KernelRecvStep
    <2> QED
      BY <1>5, <2>1, <2>2, <2>3, KernelPlainStep DEF KernelStep
  <1>6. ASSUME NEW w \in Workers, NEW t \in Tasks, Submit(w, t) PROVE IInv'
    BY <1>6, SubmitStep
  <1>7. ASSUME NEW t \in Tasks, CleanTask(t) PROVE IInv'
    BY <1>7, CleanTaskStep
  <1>8. CASE Terminated
    BY <1>1, <1>8 DEF Terminated
  <1>9. CASE Next
    BY <1>2, <1>3, <1>4, <1>5, <1>6, <1>7, <1>8, <1>9 DEF Next, WorkerStep
  <1> QED
    BY <1>1, <1>9

-----------------------------------------------------------------------------
(* The inductive invariant holds in every reachable state: of each live    *)
(* coroutine of the server there is exactly one trace - in a queue, on a   *)
(* worker, in the submission queue, in the kernel, among the completions   *)
(* or behind a coroutine it awaits - and sockets, bindings and completions *)
(* agree with where the coroutines are in the code.                        *)
THEOREM Invariance == Spec => []IInv
  BY InitInv, NextStep, PTL DEF Spec

(* All state has its type, and the ring never holds more than SqSize       *)
(* submissions, whoever calls io_uring_get_sqe.                            *)
THEOREM TypeCorrect == Spec => []TypeOK
  <1>1. IInv => TypeOK
    BY DEF IInv, TypeInv
  <1> QED
    BY <1>1, Invariance, PTL

LEMMA InvCallerWaits ==
  ASSUME IInv
  PROVE  CallerWaits
  <1> SUFFICES ASSUME NEW t \in {o.by : o \in Pending} \cup {cq[i].by : i \in 1..Len(cq)}
               PROVE  frame[t] = "live" /\ code[t].at = "wait" /\ \A w \in Workers : exec[w] # t
    BY DEF CallerWaits
  <1>1. t \in Tasks /\ (Submitted(t) \/ InKernel(t) \/ Completed(t))
    <2>1. CASE t \in {o.by : o \in Pending}
      BY <2>1, ElementTypes DEF IInv, Pending, Submitted, InKernel
    <2>2. CASE t \in {cq[i].by : i \in 1..Len(cq)}
      BY <2>2, ElementTypes DEF IInv, OpInv
    <2> QED
      BY <2>1, <2>2
  <1>2. frame[t] = "live" /\ code[t].at = "wait" /\ ~Executes(t)
    BY <1>1 DEF IInv, PlaceInv, OnePlace, NoPlace
  <1> QED
    BY <1>2 DEF Executes

(* userData points into the frame of a coroutine that is suspended at that *)
(* very co_await, from the submission until reapIOs has seen the last      *)
(* completion: the frame is neither destroyed nor running.                 *)
THEOREM CallersWait == Spec => []CallerWaits
  BY InvCallerWaits, Invariance, PTL

(* A coroutine has nothing that would resume it only if it has ended.      *)
LEMMA WakersOfNone ==
  ASSUME NEW t \in Tasks, NoPlace(t)
  PROVE  Wakers(t) = {}
  BY DEF NoPlace, InQueue, Executes, Submitted, InKernel, Completed, Awaits, Wakers, Pending

LEMMA WakersOfOne ==
  ASSUME IInv, NEW t \in Tasks, OnePlace(t)
  PROVE  \E x : Wakers(t) = {x}
  <1> USE DEF IInv, OnceInv
  <1>0. t # None
    BY ConstantFacts
  <1> DEFINE O == {<<"op", o>> : o \in {o \in Pending : o.by = t}}
             C == {<<"cqe", i>> : i \in {i \in 1..Len(cq) : cq[i].by = t /\ ~cq[i].more}}
             Q == UNION {{<<"queue", w, i>> : i \in {i \in 1..Len(queue[w]) : queue[w][i] = t}} :
                           w \in Workers}
             E == {<<"exec", w>> : w \in {w \in Workers : exec[w] = t}}
             A == {<<"callee", r>> : r \in {r \in Tasks : frame[r] = "live" /\ code[r].prev = t}}
  <1>1. Wakers(t) = O \cup C \cup Q \cup E \cup A
    BY DEF Wakers
  <1>2. ~Submitted(t) /\ ~InKernel(t) => O = {}
    BY DEF Submitted, InKernel, Pending
  <1>3. ~Completed(t) => C = {}
    BY DEF Completed
  <1>4. ~InQueue(t) => Q = {}
    BY DEF InQueue
  <1>5. ~Executes(t) => E = {}
    BY DEF Executes
  <1>6. ~Awaits(t) => A = {}
    BY DEF Awaits
  <1>7. ASSUME Submitted(t), ~InKernel(t) PROVE \E x : O = {x}
    <2>1. PICK i \in 1..Len(sq) : sq[i].by = t
      BY <1>7 DEF Submitted
    <2>2. \A o \in Pending : o.by = t <=> o = sq[i]
      BY <1>7, <2>1 DEF Pending, InKernel, SqOnce
    <2>3. sq[i] \in Pending
      BY DEF Pending
    <2>4. O = {<<"op", sq[i]>>}
      BY <2>2, <2>3
    <2> QED
      BY <2>4
  <1>8. ASSUME InKernel(t), ~Submitted(t) PROVE \E x : O = {x}
    <2>1. PICK p \in ops : p.by = t
      BY <1>8 DEF InKernel
    <2>2. \A o \in Pending : o.by = t <=> o = p
      BY <1>8, <2>1 DEF Pending, Submitted, OpsOnce
    <2>3. p \in Pending
      BY DEF Pending
    <2>4. O = {<<"op", p>>}
      BY <2>2, <2>3
    <2> QED
      BY <2>4
  <1>9. ASSUME Completed(t) PROVE \E x : C = {x}
    <2>1. PICK i \in 1..Len(cq) : cq[i].by = t /\ ~cq[i].more
      BY <1>9 DEF Completed
    <2>2. ASSUME NEW j \in 1..Len(cq), cq[j].by = t, ~cq[j].more PROVE j = i
      <3>1. j <= i /\ i <= j
        BY <2>1, <2>2 DEF LastInv
      <3> QED
        BY <3>1
    <2>3. C = {<<"cqe", i>>}
      BY <2>1, <2>2
    <2> QED
      BY <2>3
  <1>10. ASSUME InQueue(t) PROVE \E x : Q = {x}
    <2>1. PICK v \in Workers : \E i \in 1..Len(queue[v]) : queue[v][i] = t
      BY <1>10 DEF InQueue
    <2>2. PICK i \in 1..Len(queue[v]) : queue[v][i] = t
      BY <2>1
    <2>3. \A w \in Workers : \A j \in 1..Len(queue[w]) : queue[w][j] = t => w = v /\ j = i
      BY <2>2 DEF QueueOnce
    <2>4. \A x \in Q : x = <<"queue", v, i>>
      BY <2>3
    <2>5. <<"queue", v, i>> \in Q
      BY <2>2
    <2>6. Q = {<<"queue", v, i>>}
      BY <2>4, <2>5
    <2> QED
      BY <2>6
  <1>11. ASSUME Executes(t) PROVE \E x : E = {x}
    <2>1. PICK v \in Workers : exec[v] = t
      BY <1>11 DEF Executes
    <2>2. \A w \in Workers : exec[w] = t <=> w = v
      BY <1>0, <2>1 DEF ExecOnce
    <2>3. E = {<<"exec", v>>}
      BY <2>2
    <2> QED
      BY <2>3
  <1>12. ASSUME Awaits(t) PROVE \E x : A = {x}
    <2>1. PICK r \in Tasks : frame[r] = "live" /\ code[r].prev = t
      BY <1>12 DEF Awaits
    <2>2. \A s \in Tasks : frame[s] = "live" /\ code[s].prev = t <=> s = r
      BY <1>0, <2>1 DEF CallerOnce
    <2>3. A = {<<"callee", r>>}
      BY <2>2
    <2> QED
      BY <2>3
  <1> HIDE DEF O, C, Q, E, A
  <1>13. CASE InQueue(t)
    <2>1. O = {} /\ C = {} /\ E = {} /\ A = {}
      BY <1>2, <1>3, <1>5, <1>6, <1>13 DEF OnePlace
    <2> QED
      BY <1>1, <1>10, <1>13, <2>1
  <1>14. CASE Executes(t)
    <2>1. O = {} /\ C = {} /\ Q = {} /\ A = {}
      BY <1>2, <1>3, <1>4, <1>6, <1>14 DEF OnePlace
    <2> QED
      BY <1>1, <1>11, <1>14, <2>1
  <1>15. CASE Submitted(t) \/ InKernel(t)
    <2>1. C = {} /\ Q = {} /\ E = {} /\ A = {}
      BY <1>3, <1>4, <1>5, <1>6, <1>15 DEF OnePlace
    <2>2. \E x : O = {x}
      BY <1>7, <1>8, <1>15 DEF OnePlace
    <2> QED
      BY <1>1, <2>1, <2>2
  <1>16. CASE Completed(t)
    <2>1. O = {} /\ Q = {} /\ E = {} /\ A = {}
      BY <1>2, <1>4, <1>5, <1>6, <1>16 DEF OnePlace
    <2> QED
      BY <1>1, <1>9, <1>16, <2>1
  <1>17. CASE Awaits(t)
    <2>1. O = {} /\ C = {} /\ Q = {} /\ E = {}
      BY <1>2, <1>3, <1>4, <1>5, <1>17 DEF OnePlace
    <2> QED
      BY <1>1, <1>12, <1>17, <2>1
  <1> QED
    BY <1>13, <1>14, <1>15, <1>16, <1>17 DEF OnePlace

LEMMA InvResumedOnce ==
  ASSUME IInv
  PROVE  ResumedOnce
  <1>1. ASSUME NEW t \in Tasks, frame[t] = "live" PROVE Cardinality(Wakers(t)) = 1
    <2>1. OnePlace(t)
      BY <1>1 DEF IInv, PlaceInv
    <2>2. PICK x : Wakers(t) = {x}
      BY <2>1, WakersOfOne
    <2> QED
      BY <2>2, FS_Singleton
  <1>2. ASSUME NEW t \in Tasks, frame[t] # "live" PROVE Cardinality(Wakers(t)) = 0
    <2>1. Wakers(t) = {}
      BY <1>2, WakersOfNone DEF IInv, PlaceInv
    <2> QED
      BY <2>1, FS_EmptySet
  <1> QED
    BY <1>1, <1>2 DEF ResumedOnce

(* A coroutine that has not ended is about to be resumed by exactly one    *)
(* party, or runs once; one that has ended is resumed by nobody.  So no    *)
(* wake-up is lost and none is doubled, although a completion may be       *)
(* reaped before await_suspend has returned.                               *)
THEOREM ResumedExactlyOnce == Spec => []ResumedOnce
  BY InvResumedOnce, Invariance, PTL

LEMMA InvOpsOnOpenSocket ==
  ASSUME IInv
  PROVE  OpsOnOpenSocket
  <1> SUFFICES ASSUME NEW o \in Pending, o.conn # None
               PROVE  peer[o.conn].sock = "open"
    BY DEF OpsOnOpenSocket
  <1>1. o \in OpRecords /\ (Submitted(o.by) \/ InKernel(o.by)) /\ Matches(o, code)
    BY ElementTypes DEF IInv, OpInv, Pending, Submitted, InKernel
  <1>2. PICK t \in Tasks, c \in Conns : t = o.by /\ c = o.conn
    BY <1>1 DEF OpRecords
  <1>3. frame[t] = "live" /\ code[t].at = "wait" /\ code[t].conn = c
    BY <1>1, <1>2 DEF IInv, PlaceInv, NoPlace, Matches
  <1>4. t \in Frames
    BY <1>2, <1>3, ConstantFacts DEF IInv, KindInv, Loops
  <1>5. code[t].kind \in {"read", "respond"}
    BY <1>3, <1>4 DEF IInv, KindInv
  <1>6. CASE code[t].kind = "respond"
    <2>1. t \in Owners(c)
      BY <1>3, <1>4, <1>6 DEF Owners
    <2> QED
      BY <1>2, <2>1 DEF IInv, SocketInv
  <1>7. CASE code[t].kind = "read"
    <2>1. code[t].prev \in Owners(c)
      BY <1>3, <1>4, <1>7 DEF IInv, CallerInv, Owners
    <2> QED
      BY <1>2, <2>1 DEF IInv, SocketInv
  <1> QED
    BY <1>5, <1>6, <1>7

(* No recv and no send is submitted for, or works on, a descriptor that    *)
(* has been closed: neither ~socketBase of a clientHandle that returns nor *)
(* the cleaner closes the socket under another coroutine's operation.      *)
THEOREM OpsOnSockets == Spec => []OpsOnOpenSocket
  BY InvOpsOnOpenSocket, Invariance, PTL

(* ~Task destroys nothing, so every frame that has ended must be known to  *)
(* the pool: also that of readRequest, which is started by co_await.       *)
THEOREM EndedAreBound == Spec => []EndedIsBound
  <1>1. IInv => EndedIsBound
    BY DEF IInv, BoundInv, EndedIsBound
  <1> QED
    BY <1>1, Invariance, PTL

(* Every open socket has an owner that will close it, or its completion is *)
(* still in the ring.                                                      *)
THEOREM SocketsOwned == Spec => []SocketOwned
  <1>1. IInv => SocketOwned
    BY DEF IInv, SocketInv, SocketOwned
  <1> QED
    BY <1>1, Invariance, PTL
-----------------------------------------------------------------------------
(* Responses.  Whole(t) says how far the response of t has come: nothing   *)
(* of the part it is sending has been sent before, and a send that has     *)
(* ended well has sent all of it.                                          *)
Fits(o) == o.kind = "respond" => o.len = PartLen(code[o.by].part)
Delivers(e) == e.kind = "respond" /\ e.res = "ok" => e.n = PartLen(code[e.by].part)
Whole(t) ==
  /\ ~code[t].again
  /\ code[t].kind = "respond" /\ frame[t] = "live" =>
       /\ code[t].sent = PartStart(code[t].part)
       /\ code[t].at = "wait" /\ code[t].res = "ok" => AllSent(t)

WholeInv ==
  /\ \A t \in Frames : Whole(t)
  /\ \A i \in 1..Len(sq) : Fits(sq[i])
  /\ \A o \in ops : Fits(o)
  /\ \A i \in 1..Len(cq) : Delivers(cq[i])

(* Only coroutines of X change; what others wait for stays.                *)
OnlyThese(X) ==
  /\ \A u \in Tasks \ X : code'[u] = code[u] /\ (frame'[u] = "live" => frame[u] = "live")
  /\ \A u \in X : frame[u] = "live" /\ code[u].at = "wait" /\ ~Executes(u) =>
       code'[u].part = code[u].part

(* Operations and completions move, and new ones are as WholeInv says.     *)
OpsMove ==
  /\ \A i \in 1..Len(sq') : Fits(sq[i])' \/ \E j \in 1..Len(sq) : sq'[i] = sq[j]
  /\ \A o \in ops' : o \in ops \/ \E j \in 1..Len(sq) : o = sq[j]
  /\ \A i \in 1..Len(cq') : Delivers(cq[i])' \/ \E j \in 1..Len(cq) : cq'[i] = cq[j]

LEMMA WholeStays ==
  ASSUME IInv, WholeInv, NEW X \in SUBSET Tasks, OnlyThese(X), OpsMove,
         \A t \in X \cap Frames : Whole(t)'
  PROVE  WholeInv'
  <1>1. ASSUME NEW t \in Tasks, Submitted(t) \/ InKernel(t) \/ Completed(t)
        PROVE  code'[t].part = code[t].part
    <2>1. frame[t] = "live" /\ code[t].at = "wait" /\ ~Executes(t)
      BY <1>1 DEF IInv, PlaceInv, OnePlace, NoPlace
    <2> QED
      BY <2>1 DEF OnlyThese
  <1>2. ASSUME NEW j \in 1..Len(sq) PROVE sq[j].kind = "respond" => sq[j].len = PartLen(code'[sq[j].by].part)
    <2>1. sq[j].by \in Tasks /\ Submitted(sq[j].by)
      BY ElementTypes DEF IInv, Submitted
    <2> QED
      BY <1>1, <2>1 DEF WholeInv, Fits
  <1>3. ASSUME NEW o \in ops PROVE o.kind = "respond" => o.len = PartLen(code'[o.by].part)
    <2>1. o.by \in Tasks /\ InKernel(o.by)
      BY ElementTypes DEF IInv, InKernel
    <2> QED
      BY <1>1, <2>1 DEF WholeInv, Fits
  <1>4. ASSUME NEW j \in 1..Len(cq)
        PROVE  cq[j].kind = "respond" /\ cq[j].res = "ok" =>
                 cq[j].n = PartLen(code'[cq[j].by].part)
    <2>1. cq[j].by \in Tasks /\ (InKernel(cq[j].by) \/ Completed(cq[j].by))
      BY ElementTypes DEF IInv, OpInv
    <2> QED
      BY <1>1, <2>1 DEF WholeInv, Delivers
  <1>5. ASSUME NEW t \in Frames PROVE Whole(t)'
    <2>1. CASE t \in X
      BY <2>1
    <2>2. CASE t \notin X
      <3>1. code'[t] = code[t] /\ (frame'[t] = "live" => frame[t] = "live")
        BY <2>2, ConstantFacts DEF OnlyThese
      <3> QED
        BY <3>1 DEF WholeInv, Whole, AllSent
    <2> QED
      BY <2>1, <2>2
  <1>6. \A i \in 1..Len(sq') : Fits(sq[i])'
    BY <1>2 DEF OpsMove, Fits
  <1>7. \A o \in ops' : Fits(o)'
    BY <1>2, <1>3 DEF OpsMove, Fits
  <1>8. \A i \in 1..Len(cq') : Delivers(cq[i])'
    BY <1>4 DEF OpsMove, Delivers
  <1> QED
    BY <1>5, <1>6, <1>7, <1>8 DEF WholeInv

LEMMA OpsUnmoved ==
  ASSUME UNCHANGED <<sq, ops, cq>>
  PROVE  OpsMove
  BY DEF OpsMove

LEMMA CqDropped ==
  ASSUME IInv, cq # <<>>, cq' = Tail(cq), UNCHANGED <<sq, ops>>
  PROVE  OpsMove
  <1>1. cq \in Seq(CompletionRecords)
    BY DEF IInv, TypeInv
  <1>2. \A i \in 1..Len(cq') : i + 1 \in 1..Len(cq) /\ cq'[i] = cq[i + 1]
    BY <1>1, TailFacts
  <1> QED
    BY <1>2 DEF OpsMove

(* A step that changes the place of one coroutine only.                    *)
LEMMA AtFields ==
  ASSUME IInv, NEW t \in Tasks, NEW a, code' = [code EXCEPT ![t].at = a]
  PROVE  /\ \A u \in Tasks : u # t => code'[u] = code[u]
         /\ code'[t].at = a /\ code'[t].kind = code[t].kind
         /\ code'[t].again = code[t].again /\ code'[t].sent = code[t].sent
         /\ code'[t].part = code[t].part
  <1>1. code \in [Tasks -> CodeRecords]
    BY DEF IInv, TypeInv, TypeOK
  <1>2. code'[t] = [code[t] EXCEPT !.at = a]
    BY <1>1
  <1> QED
    BY <1>1, <1>2 DEF CodeRecords

LEMMA AtKeepsWhole ==
  ASSUME IInv, WholeInv, NEW t \in Tasks, NEW a, code' = [code EXCEPT ![t].at = a],
         a # "wait" \/ code[t].kind # "respond", UNCHANGED frame, OpsMove
  PROVE  WholeInv'
  <1>1. OnlyThese({t})
    BY AtFields DEF OnlyThese
  <1>2. /\ code'[t].at = a /\ code'[t].kind = code[t].kind
        /\ code'[t].again = code[t].again /\ code'[t].sent = code[t].sent
        /\ code'[t].part = code[t].part
    BY AtFields
  <1>3. ASSUME t \in Frames PROVE Whole(t)'
    <2>1. Whole(t)
      BY <1>3 DEF WholeInv
    <2> QED
      BY <1>2, <2>1 DEF Whole
  <1> QED
    BY <1>1, <1>3, WholeStays

(* A new coroutine has sent nothing.                                       *)
LEMMA NewIsWhole ==
  ASSUME NEW t \in Frames, NEW k \in {"client", "read", "respond"}, NEW a \in Places,
         NEW c \in Conns \cup {None}, NEW p \in Tasks \cup {None}, NEW b \in BOOLEAN,
         a # "wait",
         code'[t] \in {Coroutine(k, a, c, p), [Coroutine(k, a, c, p) EXCEPT !.body = b]}
  PROVE  Whole(t)'
  <1> DEFINE x == Coroutine(k, a, c, p)
  <1>1. x.again = FALSE /\ x.sent = 0 /\ x.part = "head" /\ x.at = a
    BY DEF Coroutine, Blank
  <1>2. x \in CodeRecords
    BY CoroutineFacts
  <1> HIDE DEF x
  <1>3. DEFINE y == [x EXCEPT !.body = b]
  <1>4. y.again = FALSE /\ y.sent = 0 /\ y.part = "head" /\ y.at = a
    BY <1>1, <1>2 DEF CodeRecords
  <1>5. code'[t] = x \/ code'[t] = y
    BY DEF x
  <1> HIDE DEF y
  <1> QED
    BY <1>1, <1>4, <1>5 DEF Whole, PartStart

LEMMA PoolKeepsWhole ==
  ASSUME IInv, WholeInv, UNCHANGED code, OpsMove,
         \A u \in Tasks : frame'[u] = "live" => frame[u] = "live"
  PROVE  WholeInv'
  <1>1. OnlyThese({})
    BY DEF OnlyThese
  <1> QED
    BY <1>1, WholeStays

(* What is submitted is the whole part.                                    *)
LEMMA SubmitWhole ==
  ASSUME IInv, WholeInv, NEW w \in Workers, NEW t \in Tasks, Submit(w, t)
  PROVE  WholeInv'
  <1>1. /\ code' = [code EXCEPT ![t].at = "wait", ![t].res = "none", ![t].n = 0]
        /\ sq' = Append(sq, Operation(t)) /\ UNCHANGED <<frame, ops, cq>>
        /\ code[t].at = "submit"
    BY DEF Submit
  <1>2. code \in [Tasks -> CodeRecords] /\ sq \in Seq(OpRecords)
    BY DEF IInv, TypeInv, TypeOK
  <1>3. /\ \A u \in Tasks : u # t => code'[u] = code[u]
        /\ code'[t] = [code[t] EXCEPT !.at = "wait", !.res = "none", !.n = 0]
    BY <1>1, <1>2
  <1>4. /\ code'[t].kind = code[t].kind /\ code'[t].again = code[t].again
        /\ code'[t].sent = code[t].sent /\ code'[t].part = code[t].part
        /\ code'[t].res = "none"
    BY <1>2, <1>3 DEF CodeRecords
  <1>5. OnlyThese({t}) /\ (t \in Frames => Whole(t)')
    BY <1>1, <1>3, <1>4 DEF OnlyThese, WholeInv, Whole
  <1>6. Operation(t).kind = "respond" =>
          Operation(t).len = PartLen(code'[Operation(t).by].part)
    BY <1>4 DEF Operation
  <1>7. Operation(t) \in OpRecords
    <2>1. code'[t] \in CodeRecords
      BY SubmitStep DEF IInv, TypeInv, TypeOK
    <2>2. sq' \in Seq(OpRecords)
      BY SubmitStep DEF IInv, TypeInv, TypeOK
    <2>3. Len(sq') = Len(sq) + 1 /\ sq'[Len(sq) + 1] = Operation(t) /\ Len(sq) \in Nat
      BY <1>1, <1>2
    <2> QED
      BY <2>2, <2>3
  <1> DEFINE d == Operation(t)
  <1> HIDE DEF d
  <1>8. \A i \in 1..Len(sq') : sq'[i] = d \/ (i \in 1..Len(sq) /\ sq'[i] = sq[i])
    BY <1>1, <1>2, <1>7, AppendFacts DEF d
  <1>9. OpsMove
    BY <1>1, <1>6, <1>8 DEF OpsMove, Fits, d
  <1> QED
    BY <1>5, <1>9, WholeStays

(* Without short sends the kernel reports nothing but whole parts.         *)
LEMMA PostWhole ==
  ASSUME IInv, WholeInv, NEW o \in ops, NEW e \in CompletionRecords, Post(o, e),
         e.by = o.by, e.kind = o.kind,
         e.kind = "respond" /\ e.res = "ok" => e.n = o.len
  PROVE  WholeInv'
  <1>1. /\ cq' = Append(cq, e) /\ ops' \subseteq ops
        /\ UNCHANGED <<frame, code, sq>>
    BY DEF Post
  <1>2. e.kind = "respond" /\ e.res = "ok" => e.n = PartLen(code'[e.by].part)
    BY <1>1 DEF WholeInv, Fits
  <1>3. cq \in Seq(CompletionRecords)
    BY DEF IInv, TypeInv
  <1>4. \A i \in 1..Len(cq') : cq'[i] = e \/ (i \in 1..Len(cq) /\ cq'[i] = cq[i])
    BY <1>1, <1>3, AppendFacts
  <1>5. OpsMove
    BY <1>1, <1>2, <1>4 DEF OpsMove, Delivers
  <1> QED
    BY <1>1, <1>5, PoolKeepsWhole

LEMMA KernelWhole ==
  ASSUME ShortSends = FALSE, IInv, WholeInv, KernelStep
  PROVE  WholeInv'
  <1>1. CASE KernelTake
    <2>1. /\ sq # <<>> /\ sq' = Tail(sq) /\ ops' = ops \cup {Head(sq)}
          /\ UNCHANGED <<frame, code, cq>>
      BY <1>1 DEF KernelTake
    <2>2. sq \in Seq(OpRecords)
      BY DEF IInv, TypeInv, TypeOK
    <2>3. /\ Head(sq) = sq[1] /\ 1 \in 1..Len(sq)
          /\ \A i \in 1..Len(sq') : i + 1 \in 1..Len(sq) /\ sq'[i] = sq[i + 1]
      BY <2>1, <2>2, TailFacts
    <2>4. OpsMove
      BY <2>1, <2>3 DEF OpsMove
    <2> QED
      BY <2>1, <2>4, PoolKeepsWhole
  <1>2. ASSUME NEW o \in ops, NEW res \in Results, NEW n \in Nat,
               NEW c \in Conns \cup {None}, NEW more \in BOOLEAN,
               Post(o, Completion(o, res, n, c, more)),
               o.kind = "respond" /\ res = "ok" => n = o.len
        PROVE  WholeInv'
    <2>1. o \in OpRecords /\ o.by \in Tasks /\ o.kind \in {"read", "respond", "accept"}
      BY ElementTypes DEF IInv, OpRecords
    <2> DEFINE e == Completion(o, res, n, c, more)
    <2>2. e \in CompletionRecords
      BY <2>1 DEF Completion, CompletionRecords, Results
    <2>3. e.by = o.by /\ e.kind = o.kind /\ e.res = res /\ e.n = n
      BY DEF Completion
    <2>4. Post(o, e)
      BY <1>2
    <2> HIDE DEF e
    <2> QED
      BY <1>2, <2>2, <2>3, <2>4, PostWhole
  <1>3. 0 \in Nat /\ None \in Conns \cup {None} /\ TRUE \in BOOLEAN /\ FALSE \in BOOLEAN
    OBVIOUS
  <1>4. ASSUME NEW o \in ops, NEW c \in Conns, NEW more \in BOOLEAN, KernelAccept(o, c, more)
        PROVE  WholeInv'
    BY <1>2, <1>3, <1>4 DEF KernelAccept, Results
  <1>5. ASSUME NEW o \in ops, NEW res \in {"retry", "fatal"}, KernelAcceptFails(o, res)
        PROVE  WholeInv'
    BY <1>2, <1>3, <1>5 DEF KernelAcceptFails, Results
  <1>6. ASSUME NEW o \in ops, NEW res \in {"part", "full", "big", "eof", "fail"},
               KernelRecv(o, res)
        PROVE  WholeInv'
    BY <1>2, <1>3, <1>6 DEF KernelRecv, Results
  <1>7. ASSUME NEW o \in ops, NEW n \in 0..o.len, KernelSend(o, n)
        PROVE  WholeInv'
    <2>1. n \in Nat
      OBVIOUS
    <2> QED
      BY <1>2, <1>3, <1>7, <2>1 DEF KernelSend, Results
  <1>8. ASSUME NEW o \in ops, NEW res \in {"again", "fail"}, KernelSendFails(o, res)
        PROVE  WholeInv'
    BY <1>2, <1>3, <1>8 DEF KernelSendFails, Results
  <1> QED
    BY <1>1, <1>4, <1>5, <1>6, <1>7, <1>8 DEF KernelStep

(* A response goes on to its body, or ends, with all of the part sent.     *)
LEMMA RecordWhole ==
  ASSUME IInv, WholeInv, NEW t \in Frames, code[t].kind = "respond", frame[t] = "live",
         code[t].at = "wait", code[t].res = "ok"
  PROVE  /\ AllSent(t)
         /\ Record(t) \in CodeRecords
         /\ Record(t).again = FALSE
         /\ Record(t).sent = PartStart(code[t].part) + PartLen(code[t].part)
         /\ Record(t).part = code[t].part
  <1>1. code[t] \in CodeRecords /\ t \in Tasks
    BY ConstantFacts DEF IInv, TypeInv, TypeOK
  <1>2. AllSent(t) /\ code[t].sent = PartStart(code[t].part) /\ code[t].again = FALSE
    BY <1>1 DEF WholeInv, Whole, CodeRecords
  <1> DEFINE s == PartStart(code[t].part) + code[t].n
  <1>3. Record(t) = [code[t] EXCEPT !.sent = s, !.again = FALSE]
    BY <1>1, <1>2 DEF Record, CodeRecords
  <1>4. s = PartStart(code[t].part) + PartLen(code[t].part)
    BY <1>2 DEF AllSent
  <1> HIDE DEF s
  <1>5. /\ [code[t] EXCEPT !.sent = s, !.again = FALSE].again = FALSE
        /\ [code[t] EXCEPT !.sent = s, !.again = FALSE].sent = s
        /\ [code[t] EXCEPT !.sent = s, !.again = FALSE].part = code[t].part
    BY <1>1 DEF CodeRecords
  <1> QED
    BY <1>1, <1>2, <1>3, <1>4, <1>5, RecordFacts

(* On a worker the response is live.                                       *)
LEMMA SendingFacts ==
  ASSUME IInv, NEW w \in Workers, NEW t \in Tasks, At(w, t, "respond", "wait")
  PROVE  t \in Frames /\ frame[t] = "live" /\ Executes(t) /\ code[t].kind = "respond"
  <1>1. Executes(t) /\ code[t].kind = "respond"
    BY DEF At, Executes
  <1> QED
    BY <1>1, ConstantFacts DEF IInv, PlaceInv, NoPlace, KindInv

LEMMA SendWhole ==
  ASSUME IInv, WholeInv, NEW w \in Workers, NEW t \in Tasks,
         SendRetry(w, t) \/ SendRest(w, t) \/ SendBody(w, t) \/ ResponseEnd(w, t)
  PROVE  WholeInv'
  <1>1. t \in Frames /\ frame[t] = "live" /\ Executes(t) /\ code[t].kind = "respond"
        /\ code[t].at = "wait" /\ code \in [Tasks -> CodeRecords]
    BY SendingFacts DEF SendRetry, SendRest, SendBody, ResponseEnd, At, IInv, TypeInv, TypeOK
  <1>2. CASE SendRetry(w, t)
    <2>1. code' = [code EXCEPT ![t].at = "submit"] /\ UNCHANGED <<frame, sq, ops, cq>>
      BY <1>2 DEF SendRetry, kernelVars
    <2> QED
      BY <2>1, OpsUnmoved, AtKeepsWhole
  <1>3. CASE SendRest(w, t)
    BY <1>1, <1>3, RecordWhole DEF SendRest
  <1>4. CASE SendBody(w, t)
    <2> DEFINE r == [Record(t) EXCEPT !.at = "submit", !.part = "body"]
    <2>1. /\ code[t].part = "head" /\ code[t].res = "ok"
          /\ code' = [code EXCEPT ![t] = r]
          /\ UNCHANGED <<frame, sq, ops, cq>>
      BY <1>4 DEF SendBody, kernelVars
    <2>2. r.again = FALSE /\ r.sent = Record(t).sent /\ r.part = "body" /\ r.at = "submit"
      BY <1>1, <2>1, RecordWhole DEF CodeRecords
    <2> HIDE DEF r
    <2>3. code'[t] = r /\ \A u \in Tasks : u # t => code'[u] = code[u]
      BY <1>1, <2>1
    <2>6. Record(t).sent = PartStart("head") + PartLen("head")
      BY <1>1, <2>1, RecordWhole
    <2>4. r.sent = PartStart("body")
      BY <2>2, <2>6 DEF PartStart, PartLen
    <2>5. OnlyThese({t}) /\ Whole(t)'
      BY <1>1, <2>1, <2>2, <2>3, <2>4 DEF OnlyThese, Whole
    <2> QED
      BY <2>1, <2>5, OpsUnmoved, WholeStays
  <1>5. CASE ResponseEnd(w, t)
    <2> DEFINE r == IF code[t].res = "ok" THEN Record(t) ELSE code[t]
    <2>1. /\ code' = [code EXCEPT ![t] = r]
          /\ frame' = [frame EXCEPT ![t] = "done"]
          /\ UNCHANGED <<sq, ops, cq>>
      BY <1>5 DEF ResponseEnd, kernelVars
    <2>2. ~r.again
      BY <1>1, RecordWhole DEF WholeInv, Whole
    <2> HIDE DEF r
    <2>3. /\ code'[t] = r /\ \A u \in Tasks : u # t => code'[u] = code[u]
          /\ frame'[t] = "done" /\ \A u \in Tasks : u # t => frame'[u] = frame[u]
      BY <1>1, <2>1 DEF IInv, TypeInv, TypeOK
    <2>4. OnlyThese({t}) /\ Whole(t)'
      BY <1>1, <2>2, <2>3 DEF OnlyThese, Whole
    <2> QED
      BY <2>1, <2>4, OpsUnmoved, WholeStays
  <1> QED
    BY <1>2, <1>3, <1>4, <1>5

(* A step that leaves the responses alone.                                 *)
LEMMA NoResponseWhole ==
  ASSUME WholeInv, NEW t \in Frames, code'[t].kind = code[t].kind,
         code[t].kind # "respond", code'[t].again = code[t].again
  PROVE  Whole(t)'
  BY DEF WholeInv, Whole

(* readRequest ends: its caller gets the result.                           *)
LEMMA ReadEndWhole ==
  ASSUME IInv, WholeInv, NEW w \in Workers, NEW t \in Tasks, ReadEnd(w, t)
  PROVE  WholeInv'
  <1>1. exec[w] = t /\ code[t].kind = "read"
    BY DEF ReadEnd, At
  <1>2. frame[t] = "live" /\ t \in Frames /\ Executes(t)
    BY <1>1, ExecutingFacts
  <1>3. PICK p \in Frames : p = code[t].prev
    BY <1>1, <1>2 DEF IInv, CallerInv
  <1>4. code[p].kind = "client" /\ code[p].at = "await" /\ p \in Tasks /\ p # t
    BY <1>1, <1>2, <1>3, ConstantFacts DEF IInv, CallerInv
  <1> DEFINE a == Outcome(code[t].res)
             r == [code[p] EXCEPT !.at = "got", !.res = a]
  <1>5. code \in [Tasks -> CodeRecords] /\ frame \in [Tasks -> {"free", "live", "done"}]
    BY DEF IInv, TypeInv, TypeOK
  <1>6. code' = [code EXCEPT ![p].at = "got", ![p].res = a]
    BY <1>3 DEF ReadEnd
  <1> HIDE DEF a
  <1>7. code'[p] = r /\ \A u \in Tasks : u # p => code'[u] = code[u]
    BY <1>4, <1>5, <1>6 DEF CodeRecords
  <1>8. r.kind = code[p].kind /\ r.again = code[p].again
    BY <1>4, <1>5 DEF CodeRecords
  <1> HIDE DEF r
  <1>9. /\ frame'[t] = "done" /\ \A u \in Tasks : u # t => frame'[u] = frame[u]
        /\ UNCHANGED <<sq, ops, cq>>
    BY <1>5 DEF ReadEnd, kernelVars
  <1>10. OnlyThese({t, p})
    BY <1>2, <1>4, <1>7, <1>9 DEF OnlyThese
  <1>11. Whole(p)' /\ Whole(t)'
    BY <1>1, <1>2, <1>4, <1>7, <1>8, NoResponseWhole
  <1> QED
    BY <1>2, <1>4, <1>9, <1>10, <1>11, OpsUnmoved, WholeStays

(* A new coroutine f is started by t, which goes on elsewhere.             *)
LEMMA BeginWhole ==
  ASSUME IInv, WholeInv, NEW t \in Frames, NEW f \in Frames, Executes(t),
         code[t].kind = "client", code'[t].kind = "client", code'[t].again = code[t].again,
         \A u \in Tasks : u # t /\ u # f => code'[u] = code[u] /\ frame'[u] = frame[u],
         frame'[t] = frame[t], frame[f] = "free", Whole(f)', UNCHANGED <<sq, ops, cq>>
  PROVE  WholeInv'
  <1>1. f \in Tasks /\ t \in Tasks
    BY ConstantFacts
  <1>2. OnlyThese({t, f})
    BY <1>1 DEF OnlyThese
  <1>3. Whole(t)'
    BY NoResponseWhole
  <1> QED
    BY <1>1, <1>2, <1>3, OpsUnmoved, WholeStays

(* What the creation of a coroutine does to the two frames.                *)
LEMMA BeginCode ==
  ASSUME IInv, NEW t \in Tasks, NEW f \in Tasks, f # t, NEW new, NEW a,
         code' = [code EXCEPT ![f] = new, ![t].at = a],
         frame' = [frame EXCEPT ![f] = "live"]
  PROVE  /\ code'[f] = new
         /\ code'[t].kind = code[t].kind /\ code'[t].again = code[t].again
         /\ \A u \in Tasks : u # t /\ u # f => code'[u] = code[u]
         /\ \A u \in Tasks : u # f => frame'[u] = frame[u]
  <1>1. code \in [Tasks -> CodeRecords] /\ frame \in [Tasks -> {"free", "live", "done"}]
    BY DEF IInv, TypeInv, TypeOK
  <1> DEFINE r == [code[t] EXCEPT !.at = a]
  <1>2. r.kind = code[t].kind /\ r.again = code[t].again
    BY <1>1 DEF CodeRecords
  <1>3. code'[t] = r /\ code'[f] = new
        /\ \A u \in Tasks : u # t /\ u # f => code'[u] = code[u]
    BY <1>1
  <1> HIDE DEF r
  <1> QED
    BY <1>1, <1>2, <1>3

LEMMA ClientReadWhole ==
  ASSUME IInv, WholeInv, NEW w \in Workers, NEW t \in Tasks, ClientRead(w, t)
  PROVE  WholeInv'
  <1>1. exec[w] = t /\ code[t].kind = "client"
    BY DEF ClientRead, At
  <1>2. frame[t] = "live" /\ t \in Frames /\ Executes(t) /\ code[t].conn \in Conns
    BY <1>1, ExecutingFacts DEF IInv, KindInv
  <1>3. PICK f \in Frames : f = NewFrame /\ frame[f] = "free"
    BY NewFrameFacts DEF ClientRead, Create
  <1>4. f # t /\ f \in Tasks
    BY <1>2, <1>3, ConstantFacts
  <1> DEFINE c == code[t].conn
             new == Coroutine("read", "submit", c, t)
  <1>5. /\ code' = [code EXCEPT ![f] = new, ![t].at = "await"]
        /\ frame' = [frame EXCEPT ![f] = "live"]
        /\ UNCHANGED <<sq, ops, cq>>
    BY <1>3 DEF ClientRead, Create, kernelVars
  <1>6. "submit" \in Places /\ c \in Conns \cup {None} /\ t \in Tasks \cup {None}
    BY <1>2 DEF Places
  <1> HIDE DEF c
  <1>7. /\ code'[f] = new
        /\ code'[t].kind = code[t].kind /\ code'[t].again = code[t].again
        /\ \A u \in Tasks : u # t /\ u # f => code'[u] = code[u]
        /\ \A u \in Tasks : u # f => frame'[u] = frame[u]
    <2> HIDE DEF new
    <2> QED
      BY <1>4, <1>5, BeginCode
  <1>8. Whole(f)'
    BY <1>6, <1>7, NewIsWhole
  <1> HIDE DEF new
  <1> QED
    BY <1>1, <1>2, <1>3, <1>4, <1>5, <1>7, <1>8, BeginWhole

LEMMA ClientRespondWhole ==
  ASSUME IInv, WholeInv, NEW w \in Workers, NEW t \in Tasks,
         NEW body \in BOOLEAN, NEW close \in BOOLEAN, ClientRespond(w, t, body, close)
  PROVE  WholeInv'
  <1>1. exec[w] = t /\ code[t].kind = "client"
    BY DEF ClientRespond, At
  <1>2. frame[t] = "live" /\ t \in Frames /\ Executes(t) /\ code[t].conn \in Conns
    BY <1>1, ExecutingFacts DEF IInv, KindInv
  <1>3. PICK f \in Frames : f = NewFrame /\ frame[f] = "free"
    BY NewFrameFacts DEF ClientRespond, Create
  <1>4. f # t /\ f \in Tasks
    BY <1>2, <1>3, ConstantFacts
  <1> DEFINE c == code[t].conn
             a == IF close \/ code[t].res = "closed" THEN "end" ELSE "read"
             new == [Coroutine("respond", "submit", c, None) EXCEPT !.body = body]
  <1>5. /\ code' = [code EXCEPT ![f] = new, ![t].at = a]
        /\ frame' = [frame EXCEPT ![f] = "live"]
        /\ UNCHANGED <<sq, ops, cq>>
    BY <1>3 DEF ClientRespond, Create, kernelVars
  <1>6. "submit" \in Places /\ c \in Conns \cup {None} /\ None \in Tasks \cup {None}
    BY <1>2 DEF Places
  <1> HIDE DEF c
  <1>7. /\ code'[f] = new
        /\ code'[t].kind = code[t].kind /\ code'[t].again = code[t].again
        /\ \A u \in Tasks : u # t /\ u # f => code'[u] = code[u]
        /\ \A u \in Tasks : u # f => frame'[u] = frame[u]
    <2> HIDE DEF new, a
    <2> QED
      BY <1>4, <1>5, BeginCode
  <1>8. Whole(f)'
    BY <1>6, <1>7, NewIsWhole
  <1> HIDE DEF new
  <1> QED
    BY <1>1, <1>2, <1>3, <1>4, <1>5, <1>7, <1>8, BeginWhole

(* reapIOs stores the result of a completion with the caller.              *)
LEMMA ReapOneWhole ==
  ASSUME IInv, WholeInv, NEW w \in Workers, ReapOne(w)
  PROVE  WholeInv'
  <1>1. cq # <<>> /\ cq' = Tail(cq) /\ UNCHANGED <<frame, sq, ops>>
    BY DEF ReapOne
  <1>2. PICK e \in CompletionRecords : e = Head(cq) /\ Delivers(e)
    BY <1>1, HeadFacts DEF WholeInv
  <1>3. PICK x \in Tasks : x = e.by
    BY <1>2 DEF CompletionRecords
  <1>4. frame[x] = "live" /\ code[x].at = "wait" /\ e.kind = code[x].kind
    BY <1>1, <1>2, <1>3, HeadFacts
  <1>5. code \in [Tasks -> CodeRecords]
    BY DEF IInv, TypeInv, TypeOK
  <1> DEFINE r == WithResult(code[x], e.res, e.n)
  <1>6. code' = [code EXCEPT ![x] = r]
    BY <1>2, <1>3, <1>5 DEF ReapOne, WithResult
  <1>7. /\ r.kind = code[x].kind /\ r.again = code[x].again /\ r.part = code[x].part
        /\ r.sent = code[x].sent /\ r.res = e.res /\ r.n = e.n
    BY <1>5 DEF WithResult, CodeRecords
  <1> HIDE DEF r
  <1>8. code'[x] = r /\ \A u \in Tasks : u # x => code'[u] = code[u]
    BY <1>5, <1>6
  <1>9. OnlyThese({x})
    BY <1>1, <1>7, <1>8 DEF OnlyThese
  <1>10. ASSUME x \in Frames PROVE Whole(x)'
    <2>1. Whole(x)
      BY <1>10 DEF WholeInv
    <2>2. code[x].kind = "respond" /\ e.res = "ok" => e.n = PartLen(code[x].part)
      BY <1>2, <1>3, <1>4 DEF Delivers
    <2> QED
      BY <1>1, <1>4, <1>7, <1>8, <2>1, <2>2 DEF Whole, AllSent
  <1>11. OpsMove
    BY <1>1, CqDropped
  <1> QED
    BY <1>9, <1>10, <1>11, WholeStays

LEMMA ReapMoreWhole ==
  ASSUME IInv, WholeInv, NEW w \in Workers, ReapMore(w)
  PROVE  WholeInv'
  <1>1. /\ code' = [code EXCEPT ![Reaper].at = "peek"] /\ cq' = Tail(cq)
        /\ UNCHANGED <<frame, sq, ops>> /\ HeadSeen
    BY DEF ReapMore, At, HeadSeen
  <1>2. cq # <<>> /\ Reaper \in Tasks
    BY <1>1, ConstantFacts DEF IInv, SeenInv
  <1>3. OpsMove
    BY <1>1, <1>2, CqDropped
  <1> QED
    BY <1>1, <1>2, <1>3, AtKeepsWhole

(* The coroutines that are not those of a connection send nothing.         *)
LEMMA LoopsWhole ==
  ASSUME IInv, WholeInv, NEW f \in Frames \cup {None}, f \in Frames => frame[f] = "free",
         \A u \in Frames : u # f => code'[u] = code[u] /\ frame'[u] = frame[u],
         \A u \in Loops : code'[u].part = code[u].part /\ frame'[u] = frame[u],
         f \in Frames => Whole(f)', UNCHANGED <<sq, ops, cq>>
  PROVE  WholeInv'
  <1> DEFINE X == Loops \cup ({f} \cap Frames)
  <1>1. X \in SUBSET Tasks
    BY ConstantFacts
  <1>2. \A u \in X \cap Frames : u = f
    BY ConstantFacts DEF Loops
  <1>3. OnlyThese(X)
    BY <1>2, ConstantFacts DEF OnlyThese, Loops
  <1> HIDE DEF X
  <1> QED
    BY <1>1, <1>2, <1>3, OpsUnmoved, WholeStays

LEMMA ReapConnWhole ==
  ASSUME IInv, WholeInv, NEW w \in Workers, ReapConn(w) \/ ReapConnFails(w)
  PROVE  WholeInv'
  <1> DEFINE e == Head(cq)
             a == e.res
  <1>1. cq # <<>> /\ e.kind = "accept" /\ UNCHANGED <<sq, ops, cq>>
    BY DEF ReapConn, ReapConnFails, kernelVars
  <1>2. e \in CompletionRecords /\ e.by = Acceptor
    BY <1>1, HeadFacts
  <1>3. /\ code \in [Tasks -> CodeRecords] /\ frame \in [Tasks -> {"free", "live", "done"}]
        /\ Reaper \in Tasks /\ Acceptor \in Tasks /\ Reaper # Acceptor
        /\ Frames \subseteq Tasks /\ Reaper \notin Frames /\ Acceptor \notin Frames
    BY ConstantFacts DEF IInv, TypeInv, TypeOK
  <1>4. /\ [code[Acceptor] EXCEPT !.res = a].part = code[Acceptor].part
        /\ [code[Reaper] EXCEPT !.at = "more"].part = code[Reaper].part
    BY <1>3 DEF CodeRecords
  <1>5. CASE ReapConn(w)
    <2>1. PICK f \in Frames : f = NewFrame /\ frame[f] = "free"
      BY <1>5, NewFrameFacts DEF ReapConn, Create
    <2>2. PICK d \in Conns \cup {None} : d = e.conn
      BY <1>2 DEF CompletionRecords
    <2> DEFINE new == Coroutine("client", "read", d, None)
    <2>3. /\ code' = [code EXCEPT ![Acceptor].res = a, ![Reaper].at = "more", ![f] = new]
          /\ frame' = [frame EXCEPT ![f] = "live"]
      BY <1>2, <1>5, <2>1, <2>2 DEF ReapConn, Create
    <2> HIDE DEF new, a, e
    <2>4. /\ code'[Acceptor] = [code[Acceptor] EXCEPT !.res = a]
          /\ code'[Reaper] = [code[Reaper] EXCEPT !.at = "more"]
          /\ code'[f] = new
          /\ \A u \in Frames : u # f => code'[u] = code[u] /\ frame'[u] = frame[u]
          /\ \A u \in Loops : frame'[u] = frame[u]
      BY <1>3, <2>1, <2>3 DEF Loops
    <2>5. "read" \in Places /\ None \in Tasks \cup {None}
      BY DEF Places
    <2>6. Whole(f)'
      <3>1. code'[f] = Coroutine("client", "read", d, None)
        BY <2>4 DEF new
      <3> QED
        BY <2>5, <3>1, NewIsWhole
    <2>7. \A u \in Loops : code'[u].part = code[u].part
      BY <1>4, <2>4 DEF Loops
    <2> QED
      BY <1>1, <2>1, <2>4, <2>6, <2>7, LoopsWhole
  <1>6. CASE ReapConnFails(w)
    <2>1. /\ code' = [code EXCEPT ![Acceptor].res = a, ![Reaper].at = "more"]
          /\ UNCHANGED frame
      BY <1>2, <1>6 DEF ReapConnFails
    <2> HIDE DEF a, e
    <2>2. /\ code'[Acceptor] = [code[Acceptor] EXCEPT !.res = a]
          /\ code'[Reaper] = [code[Reaper] EXCEPT !.at = "more"]
          /\ \A u \in Frames : code'[u] = code[u]
      BY <1>3, <2>1
    <2>3. \A u \in Loops : code'[u].part = code[u].part
      BY <1>4, <2>2 DEF Loops
    <2>4. None \notin Frames
      BY ConstantFacts
    <2> QED
      BY <1>1, <2>1, <2>2, <2>3, <2>4, LoopsWhole
  <1> QED
    BY <1>5, <1>6

LEMMA CleanTaskWhole ==
  ASSUME IInv, WholeInv, NEW t \in Tasks, CleanTask(t)
  PROVE  WholeInv'
  <1>1. /\ frame[t] = "done" /\ UNCHANGED <<sq, ops, cq>>
        /\ code' = [code EXCEPT ![t] = Blank] /\ frame' = [frame EXCEPT ![t] = "free"]
    BY DEF CleanTask
  <1>2. code \in [Tasks -> CodeRecords] /\ frame \in [Tasks -> {"free", "live", "done"}]
    BY DEF IInv, TypeInv, TypeOK
  <1>3. /\ code'[t] = Blank /\ frame'[t] = "free"
        /\ \A u \in Tasks : u # t => code'[u] = code[u] /\ frame'[u] = frame[u]
    BY <1>1, <1>2
  <1>4. OnlyThese({t})
    BY <1>1, <1>3 DEF OnlyThese
  <1>5. Blank.again = FALSE
    BY DEF Blank
  <1>6. Whole(t)'
    BY <1>3, <1>5 DEF Whole
  <1> QED
    BY <1>1, <1>4, <1>6, OpsUnmoved, WholeStays

(* The pool's steps and the yields change no frame but those that end.     *)
LEMMA QuietWhole ==
  ASSUME IInv, WholeInv, NEW w \in Workers, NEW t \in Tasks,
         \/ PoolStep(w) \/ ReapNone(w) \/ SubmitBusy(w, t) \/ ClientEnd(w, t)
         \/ UNCHANGED vars
  PROVE  WholeInv'
  <1>1. UNCHANGED <<code, sq, ops, cq>>
    BY DEF PoolStep, RunTask, ReturnTask, ReapNone, SubmitBusy, ClientEnd, kernelVars, vars
  <1>2. \A u \in Tasks : frame'[u] = "live" => frame[u] = "live"
    <2>1. UNCHANGED frame \/ frame' = [frame EXCEPT ![t] = "done"]
      BY DEF PoolStep, RunTask, ReturnTask, ReapNone, SubmitBusy, ClientEnd, vars
    <2>2. frame \in [Tasks -> {"free", "live", "done"}]
      BY DEF IInv, TypeInv, TypeOK
    <2> QED
      BY <2>1, <2>2
  <1> QED
    BY <1>1, <1>2, OpsUnmoved, PoolKeepsWhole

LEMMA AgainWhole ==
  ASSUME IInv, WholeInv, NEW w \in Workers, NEW t \in Tasks,
         AcceptAgain(w, t) \/ ReadMore(w, t)
  PROVE  WholeInv'
  <1>1. /\ code[t].kind # "respond"
        /\ \E a : code' = [code EXCEPT ![t].at = a]
        /\ UNCHANGED <<frame, sq, ops, cq>>
    BY DEF AcceptAgain, ReadMore, At, kernelVars
  <1> QED
    BY <1>1, OpsUnmoved, AtKeepsWhole

LEMMA InitWhole == Init => WholeInv
  <1> SUFFICES ASSUME Init PROVE WholeInv
    OBVIOUS
  <1>1. \A t \in Frames : frame[t] = "free" /\ code[t] = Blank
    BY ConstantFacts DEF Init
  <1>2. Blank.again = FALSE
    BY DEF Blank
  <1>3. \A t \in Frames : Whole(t)
    BY <1>1, <1>2 DEF Whole
  <1> QED
    BY <1>3 DEF Init, WholeInv

LEMMA NextWhole ==
  ASSUME ShortSends = FALSE, IInv, WholeInv, [Next]_vars
  PROVE  WholeInv'
  <1>0. PICK v \in Workers : TRUE
    BY ConstantsAssumption
  <1>1. CASE UNCHANGED vars \/ Terminated
    BY <1>0, <1>1, QuietWhole, ConstantFacts DEF Terminated
  <1>2. ASSUME NEW w \in Workers, PoolStep(w) \/ reapIOs(w) PROVE WholeInv'
    BY <1>2, ConstantFacts, QuietWhole, ReapOneWhole, ReapConnWhole, ReapMoreWhole
       DEF reapIOs
  <1>3. ASSUME NEW w \in Workers, NEW t \in Tasks, CoroutineStep(w, t) PROVE WholeInv'
    <2>1. CASE \/ SubmitBusy(w, t) \/ ClientEnd(w, t)
               \/ AcceptAgain(w, t) \/ ReadMore(w, t)
      BY <2>1, QuietWhole, AgainWhole
    <2>2. CASE ClientRead(w, t) \/ ReadEnd(w, t)
      BY <2>2, ClientReadWhole, ReadEndWhole
    <2>3. CASE \E body, close \in BOOLEAN : ClientRespond(w, t, body, close)
      BY <2>3, ClientRespondWhole
    <2>4. CASE SendRetry(w, t) \/ SendRest(w, t) \/ SendBody(w, t) \/ ResponseEnd(w, t)
      BY <2>4, SendWhole
    <2> QED
      BY <1>3, <2>1, <2>2, <2>3, <2>4 DEF CoroutineStep
  <1>4. CASE KernelStep
    BY <1>4, KernelWhole
  <1>5. ASSUME NEW w \in Workers, NEW t \in Tasks, Submit(w, t) PROVE WholeInv'
    BY <1>5, SubmitWhole
  <1>6. ASSUME NEW t \in Tasks, CleanTask(t) PROVE WholeInv'
    BY <1>6, CleanTaskWhole
  <1>7. CASE Next
    BY <1>1, <1>2, <1>3, <1>4, <1>5, <1>6, <1>7 DEF Next, WorkerStep
  <1> QED
    BY <1>1, <1>7

(* When the kernel always sends all it was given, a response sends each of *)
(* its units once, as "Content-Length" promises: EAGAIN, a full ring and   *)
(* errors repeat nothing.  The loops of responseHandler, which start again *)
(* with the whole part, are wrong only after a short send.                 *)
THEOREM WholeWithoutShortSends ==
  ASSUME ShortSends = FALSE
  PROVE  Spec => []ResponseWhole
  <1>1. IInv /\ WholeInv /\ [Next]_vars => WholeInv'
    BY NextWhole
  <1>2. WholeInv => ResponseWhole
    BY DEF WholeInv, Whole, ResponseWhole
  <1> QED
    BY <1>1, <1>2, InitWhole, Invariance, PTL DEF Spec
=============================================================================

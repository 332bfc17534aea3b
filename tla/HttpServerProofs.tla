-------------------------- MODULE HttpServerProofs --------------------------
(***************************************************************************)
(* What holds of the epoll HTTP server for any number of workers, frames,  *)
(* connections, descriptors and units: a message is made of what its own   *)
(* peer has sent, the table of partial requests keeps nothing that has no  *)
(* reader, no event is lost, and the types.                                *)
(***************************************************************************)
EXTENDS HttpServer, EpollServerProofs

-----------------------------------------------------------------------------
(* The inductive invariant of the server.                                  *)

TableType ==
  /\ uncompletedRequests \in [Fds -> Seq(Units)]
  /\ requests \in [Conns -> Seq(Seq(Units))]

(* t reads requests from descriptor fd.  While it starts a response its    *)
(* buffer is empty.                                                        *)
Reads(t, fd) ==
  /\ frame[t] = "live"
  /\ code[t].kind = "handler"
  /\ code[t].at # "respond"
  /\ sock[code[t].conn].fd = fd

(* Only what is being read is in the table, so the descriptor that the     *)
(* next connection gets has an empty buffer.                               *)
TableInv ==
  \A fd \in Fds : getBuffer(fd) # <<>> => \E t \in Frames : Reads(t, fd)

(* The units of s are from the peer of c, and of the first p it sent.        *)
Own(c, p, s) == \A j \in 1..Len(s) : s[j].conn = c /\ s[j].n <= p
Rising(s) == \A j \in 1..Len(s) : \A i \in 1..(j - 1) : s[i].n < s[j].n
Before(r, s) == \A i \in 1..Len(r) : \A j \in 1..Len(s) : r[i].n < s[j].n
Ordered(c, p, s) == Own(c, p, s) /\ Rising(s)

(* The messages of a connection, what is read of the next one, and what    *)
(* was not read yet, are in the order in which the peer has sent it.       *)
ArrivedInv == \A c \in Conns : Ordered(c, sock[c].put, sock[c].in)
MessageInv ==
  \A c \in Conns : \A k \in 1..Len(requests[c]) :
    /\ Ordered(c, sock[c].put, requests[c][k])
    /\ Before(requests[c][k], sock[c].in)
    /\ \A j \in 1..(k - 1) : Before(requests[c][j], requests[c][k])
BufferInv ==
  \A c \in Conns :
    sock[c].st = "open" =>
      /\ Ordered(c, sock[c].put, getBuffer(sock[c].fd))
      /\ Before(getBuffer(sock[c].fd), sock[c].in)
      /\ \A k \in 1..Len(requests[c]) : Before(requests[c][k], getBuffer(sock[c].fd))

HttpInv ==
  /\ CoreInv(Units) /\ TableType /\ TableInv
  /\ ArrivedInv /\ MessageInv /\ BufferInv

-----------------------------------------------------------------------------
(* Sequences of units.                                                     *)

LEMMA UnitsFacts ==
  \A u \in Units : u.n \in Nat /\ u.conn \in Conns
  BY ConstantsAssumption DEF Units

LEMMA EmptyOrdered ==
  ASSUME NEW c, NEW p, NEW r
  PROVE  Ordered(c, p, <<>>) /\ Before(<<>>, r) /\ Before(r, <<>>)
  BY DEF Ordered, Own, Rising, Before

(* The first unit that has arrived goes to the end of what was read.       *)
LEMMA MoveOrdered ==
  ASSUME NEW c \in Conns, NEW p, NEW s \in Seq(Units), NEW in \in Seq(Units), in # <<>>,
         Ordered(c, p, s), Ordered(c, p, in), Before(s, in)
  PROVE  /\ Append(s, Head(in)) \in Seq(Units) /\ Tail(in) \in Seq(Units)
         /\ Ordered(c, p, Append(s, Head(in))) /\ Ordered(c, p, Tail(in))
         /\ Before(Append(s, Head(in)), Tail(in))
         /\ \A r \in Seq(Units) :
              Before(r, s) /\ Before(r, in) => Before(r, Append(s, Head(in)))
         /\ \A r \in Seq(Units) : Before(r, in) => Before(r, Tail(in))
  <1> DEFINE h == Head(in)
             a == Append(s, h)
             b == Tail(in)
  <1>1. h \in Units /\ h = in[1] /\ 1 \in 1..Len(in)
    OBVIOUS
  <1>2. a \in Seq(Units) /\ b \in Seq(Units)
    BY <1>1
  <1>3. /\ \A j \in 1..Len(a) : IF j = Len(s) + 1 THEN a[j] = h ELSE j \in 1..Len(s) /\ a[j] = s[j]
        /\ \A j \in 1..Len(b) : j + 1 \in 1..Len(in) /\ b[j] = in[j + 1] /\ j \in Nat
        /\ Len(s) \in Nat /\ Len(in) \in Nat
    OBVIOUS
  <1> HIDE DEF h, a, b
  <1>4. Own(c, p, a)
    BY <1>1, <1>3 DEF Ordered, Own
  <1>5. Rising(a)
    <2> SUFFICES ASSUME NEW j \in 1..Len(a), NEW i \in 1..(j - 1) PROVE a[i].n < a[j].n
      BY DEF Rising
    <2>0. i \in 1..Len(s) /\ a[i] = s[i]
      <3>1. i \in 1..Len(a) /\ i # Len(s) + 1
        BY <1>2, <1>3
      <3> QED
        BY <1>3, <3>1
    <2>1. CASE j = Len(s) + 1
      BY <1>1, <1>3, <2>0, <2>1 DEF Before
    <2>2. CASE j # Len(s) + 1
      BY <1>3, <2>0, <2>2 DEF Ordered, Rising
    <2> QED
      BY <2>1, <2>2
  <1>6. Own(c, p, b)
    BY <1>3 DEF Ordered, Own
  <1>7. Rising(b)
    <2> SUFFICES ASSUME NEW j \in 1..Len(b), NEW i \in 1..(j - 1) PROVE b[i].n < b[j].n
      BY DEF Rising
    <2>1. i \in 1..Len(b)
      BY <1>2
    <2>2. b[i] = in[i + 1] /\ b[j] = in[j + 1] /\ j + 1 \in 1..Len(in) /\ i + 1 \in 1..((j + 1) - 1)
      BY <1>3, <2>1
    <2> QED
      BY <2>2 DEF Ordered, Rising
  <1>8. Before(a, b)
    <2> SUFFICES ASSUME NEW i \in 1..Len(a), NEW j \in 1..Len(b) PROVE a[i].n < b[j].n
      BY DEF Before
    <2>1. b[j] = in[j + 1] /\ j + 1 \in 1..Len(in) /\ 1 \in 1..((j + 1) - 1)
      BY <1>3
    <2>2. CASE i = Len(s) + 1
      BY <1>1, <1>3, <2>1, <2>2 DEF Ordered, Rising
    <2>3. CASE i # Len(s) + 1
      BY <1>3, <2>1, <2>3 DEF Before
    <2> QED
      BY <2>2, <2>3
  <1>9. ASSUME NEW r \in Seq(Units), Before(r, s), Before(r, in) PROVE Before(r, a)
    BY <1>1, <1>3, <1>9 DEF Before
  <1>10. ASSUME NEW r \in Seq(Units), Before(r, in) PROVE Before(r, b)
    BY <1>3, <1>10 DEF Before
  <1> QED
    BY <1>2, <1>4, <1>5, <1>6, <1>7, <1>8, <1>9, <1>10 DEF Ordered, a, b, h

(* A unit that the peer sends comes after all that it has sent.            *)
LEMMA SendOrdered ==
  ASSUME NEW c \in Conns, NEW p \in Nat, NEW in \in Seq(Units), NEW data \in Units,
         Ordered(c, p, in), data.conn = c, data.n = p + 1
  PROVE  /\ Ordered(c, p + 1, Append(in, data))
         /\ \A r \in Seq(Units) :
              Own(c, p, r) /\ Before(r, in) => Before(r, Append(in, data))
  <1> DEFINE a == Append(in, data)
  <1>1. /\ \A j \in 1..Len(a) : IF j = Len(in) + 1 THEN a[j] = data
                                ELSE j \in 1..Len(in) /\ a[j] = in[j] /\ a[j].n \in Nat
        /\ Len(in) \in Nat
    BY UnitsFacts
  <1> HIDE DEF a
  <1>2. \A j \in 1..Len(a) : a[j].conn = c /\ a[j].n <= p + 1
    BY <1>1 DEF Ordered, Own
  <1>3. Rising(a)
    <2> SUFFICES ASSUME NEW j \in 1..Len(a), NEW i \in 1..(j - 1) PROVE a[i].n < a[j].n
      BY DEF Rising
    <2>0. i \in 1..Len(in) /\ a[i] = in[i] /\ in[i].n \in Nat /\ i \in 1..Len(a)
      BY <1>1
    <2>1. CASE j = Len(in) + 1
      <3>1. a[j] = data /\ in[i].n <= p
        BY <1>1, <2>0, <2>1 DEF Ordered, Own
      <3> QED
        BY <2>0, <3>1
    <2>2. CASE j # Len(in) + 1
      BY <1>1, <2>0, <2>2 DEF Ordered, Rising
    <2> QED
      BY <2>1, <2>2
  <1>4. Ordered(c, p + 1, a)
    BY <1>2, <1>3 DEF Ordered, Own, Rising, a
  <1>5. ASSUME NEW r \in Seq(Units), Own(c, p, r), Before(r, in) PROVE Before(r, a)
    <2> SUFFICES ASSUME NEW i \in 1..Len(r), NEW j \in 1..Len(a) PROVE r[i].n < a[j].n
      BY DEF Before
    <2>1. r[i].n \in Nat /\ r[i].n <= p /\ i \in Nat
      BY <1>5, UnitsFacts DEF Own
    <2>2. CASE j = Len(in) + 1
      <3>1. a[j] = data
        BY <1>1, <2>2
      <3> QED
        BY <2>1, <3>1
    <2>3. CASE j # Len(in) + 1
      BY <1>1, <1>5, <2>3 DEF Before
    <2> QED
      BY <2>2, <2>3
  <1> QED
    BY <1>4, <1>5 DEF a

-----------------------------------------------------------------------------
(* The steps that read nothing.                                            *)

(* Who reads goes on reading, and no unit moves: what all steps are but    *)
(* those of readRequest, accept, the peers and the cleaner.                *)
Reading(t) == frame[t] = "live" /\ code[t].kind = "handler" /\ code[t].at # "respond"
SameUnits(c) ==
  /\ sock'[c].in = sock[c].in /\ sock'[c].put = sock[c].put /\ sock'[c].fd = sock[c].fd
  /\ sock'[c].st = "open" => sock[c].st = "open"

LEMMA BuffersStay ==
  ASSUME HttpInv, CoreInv(Units)', UNCHANGED readVars,
         \A t \in Frames : Reading(t) => Reading(t)' /\ code'[t].conn = code[t].conn,
         \A c \in Conns : SameUnits(c)
  PROVE  HttpInv'
  <1>1. TableType'
    BY DEF HttpInv, TableType, readVars
  <1>2. TableInv'
    <2> SUFFICES ASSUME NEW fd \in Fds, uncompletedRequests'[fd] # <<>>
                 PROVE  \E t \in Frames : Reads(t, fd)'
      BY DEF TableInv, getBuffer
    <2>1. PICK t \in Frames : Reads(t, fd)
      BY DEF HttpInv, TableInv, getBuffer, readVars
    <2>2. Reading(t) /\ code[t].conn \in Conns /\ sock[code[t].conn].fd = fd
      BY <2>1 DEF Reads, Reading, HttpInv, CoreInv, FrameInv
    <2>3. Reads(t, fd)'
      BY <2>2 DEF Reading, Reads, SameUnits
    <2> QED
      BY <2>3
  <1>3. ArrivedInv'
    BY DEF HttpInv, ArrivedInv, SameUnits, Ordered, Own, Rising
  <1>4. MessageInv'
    <2> SUFFICES ASSUME NEW c \in Conns, NEW k \in 1..Len(requests'[c])
                 PROVE  /\ Ordered(c, sock[c].put, requests[c][k])'
                        /\ Before(requests[c][k], sock[c].in)'
                        /\ (\A j \in 1..(k - 1) : Before(requests[c][j], requests[c][k]))'
      BY DEF MessageInv
    <2>1. SameUnits(c) /\ requests' = requests
      BY DEF readVars
    <2>2. /\ Ordered(c, sock[c].put, requests[c][k])
          /\ Before(requests[c][k], sock[c].in)
          /\ \A j \in 1..(k - 1) : Before(requests[c][j], requests[c][k])
      BY <2>1 DEF HttpInv, MessageInv
    <2> QED
      BY <2>1, <2>2 DEF SameUnits, Ordered, Own, Rising, Before
  <1>5. BufferInv'
    <2> SUFFICES ASSUME NEW c \in Conns, sock'[c].st = "open"
                 PROVE  /\ Ordered(c, sock[c].put, getBuffer(sock[c].fd))'
                        /\ Before(getBuffer(sock[c].fd), sock[c].in)'
                        /\ (\A k \in 1..Len(requests[c]) :
                              Before(requests[c][k], getBuffer(sock[c].fd)))'
      BY DEF BufferInv
    <2>1. SameUnits(c) /\ sock[c].st = "open"
      BY DEF SameUnits
    <2>2. getBuffer(sock[c].fd)' = getBuffer(sock[c].fd) /\ requests' = requests
      BY <2>1 DEF SameUnits, getBuffer, readVars
    <2>3. /\ Ordered(c, sock[c].put, getBuffer(sock[c].fd))
          /\ Before(getBuffer(sock[c].fd), sock[c].in)
          /\ \A k \in 1..Len(requests[c]) : Before(requests[c][k], getBuffer(sock[c].fd))
      BY <2>1 DEF HttpInv, BufferInv
    <2> QED
      BY <2>1, <2>2, <2>3 DEF SameUnits, Ordered, Own, Rising, Before
  <1> QED
    BY <1>1, <1>2, <1>3, <1>4, <1>5 DEF HttpInv

LEMMA QuietKeeps ==
  ASSUME HttpInv, NEW w \in Workers, QuietLoop(w), UNCHANGED readVars
  PROVE  HttpInv'
  <1>1. CoreInv(Units)'
    <2>1. CoreLoop(w)
      BY DEF QuietLoop, CoreLoop
    <2> QED
      BY <2>1, CoreLoopKeeps DEF HttpInv
  <1>2. /\ UNCHANGED <<sock, frame>>
        /\ \A u \in Frames :
             /\ code'[u].kind = code[u].kind /\ code'[u].conn = code[u].conn
             /\ \/ code'[u].at = code[u].at
                \/ code[u].at = "yield" /\ code'[u].at = "run"
    <2>1. CoreInv(Units)
      BY DEF HttpInv
    <2> QED
      BY <2>1, QuietLoopLeaves
  <1>3. \A t \in Frames : Reading(t) => Reading(t)' /\ code'[t].conn = code[t].conn
    BY <1>2 DEF Reading
  <1>4. \A c \in Conns : SameUnits(c)
    BY <1>2 DEF SameUnits
  <1> QED
    BY <1>1, <1>3, <1>4, BuffersStay

(* Steps that leave all but the pool, the events and the end alone.        *)
LEMMA OutsideKeeps ==
  ASSUME HttpInv, CoreInv(Units)', UNCHANGED <<frame, code, sock, readVars>>
  PROVE  HttpInv'
  <1>1. \A t \in Frames : Reading(t) => Reading(t)' /\ code'[t].conn = code[t].conn
    BY DEF Reading
  <1>2. \A c \in Conns : SameUnits(c)
    BY DEF SameUnits
  <1> QED
    BY <1>1, <1>2, BuffersStay

LEMMA PeerQuietKeeps ==
  ASSUME HttpInv, NEW c \in Conns, NEW how \in {"fin", "rst"},
         PeerConnect(c) \/ PeerClose(c, how), UNCHANGED readVars
  PROVE  HttpInv'
  <1>0. CoreInv(Units) /\ sock \in [Conns -> Sockets(Units)]
    BY DEF HttpInv, CoreInv, DataType
  <1>1. CoreInv(Units)'
    BY <1>0, PeerConnectKeeps, PeerCloseKeeps
  <1>2. UNCHANGED <<frame, code>>
    BY DEF PeerConnect, PeerClose
  <1>3. \A t \in Frames : Reading(t) => Reading(t)' /\ code'[t].conn = code[t].conn
    BY <1>2 DEF Reading
  <1>4. \A d \in Conns : SameUnits(d)
    <2>1. CASE PeerConnect(c)
      <3>1. sock' = [sock EXCEPT ![c].st = "backlog"]
        BY <2>1 DEF PeerConnect
      <3> QED
        BY <1>0, <3>1 DEF SameUnits, Sockets
    <2>2. CASE PeerClose(c, how)
      <3>1. sock' = [sock EXCEPT ![c].fin = how]
        BY <2>2 DEF PeerClose
      <3> QED
        BY <1>0, <3>1 DEF SameUnits, Sockets
    <2> QED
      BY <2>1, <2>2
  <1> QED
    BY <1>1, <1>3, <1>4, BuffersStay

-----------------------------------------------------------------------------
(* The responses.                                                          *)

Ats == {"none", "run", "yield", "dispatch", "respond"}
Parts == {"head", "new", "open", "body", "bad", "ok"}

Fields(t, a, p, f) ==
  [code EXCEPT ![t] = [code[t] EXCEPT !.at = a, !.part = p, !.file = f]]

(* The coroutine t changes where it is, its part or its file.              *)
LEMMA FieldsChange ==
  ASSUME CoreInv(Units), NEW t \in Frames,
         NEW a \in Ats,
         NEW p \in Parts, NEW f \in Fds \cup {0},
         code' = Fields(t, a, p, f)
  PROVE  /\ code' \in [Tasks -> Coroutines(Units)]
         /\ \A u \in Frames : SameTask(u)
         /\ code'[Waiter].at = code[Waiter].at
         /\ code'[t].at = a
         /\ \A u \in Tasks \ {t} : code'[u] = code[u]
  <1> DEFINE q == [code[t] EXCEPT !.at = a, !.part = p, !.file = f]
  <1>1. t \in Tasks /\ t # Waiter /\ code[t] \in Coroutines(Units)
    BY ConstantsFacts DEF CoreInv, DataType
  <1>2. /\ q \in Coroutines(Units) /\ q.kind = code[t].kind /\ q.conn = code[t].conn
        /\ q.wakes = code[t].wakes /\ q.at = a
    <2>1. q = [code[t] EXCEPT !.at = a, !.part = p, !.file = f]
      OBVIOUS
    <2> HIDE DEF q
    <2> QED
      BY <1>1, <2>1 DEF Coroutines, Ats, Parts
  <1>3. code' = [code EXCEPT ![t] = q]
    BY DEF Fields
  <1> HIDE DEF q
  <1>4. \A u \in Tasks : code'[u] = IF u = t THEN q ELSE code[u]
    BY <1>1, <1>3 DEF CoreInv, DataType
  <1>5. code' \in [Tasks -> Coroutines(Units)]
    BY <1>1, <1>2, <1>3 DEF CoreInv, DataType
  <1>6. \A u \in Frames : SameTask(u)
    BY <1>2, <1>4, ConstantsFacts DEF SameTask
  <1> QED
    BY <1>1, <1>2, <1>4, <1>5, <1>6, ConstantsFacts

(* A step of a response, which reads nothing.                              *)
Responding(w, t) ==
  /\ holder[w] = t /\ code[t].kind = "respond"
  /\ UNCHANGED <<binding, queue, events, ready, ended, readVars>>
  /\ \/ UNCHANGED <<holder, frame>>
     \/ holder' = [holder EXCEPT ![w] = None] /\ frame' = [frame EXCEPT ![t] = "done"]
  /\ sock' \in [Conns -> Sockets(Units)]
  /\ \A c \in Conns : SameEnds(c) /\ sock'[c].in = sock[c].in /\ sock'[c].put = sock[c].put
  /\ \E a \in Ats,
        p \in Parts, f \in Fds \cup {0} :
       code' = Fields(t, a, p, f)

LEMMA RespondingKeeps ==
  ASSUME HttpInv, NEW w \in Workers, NEW t \in Frames, Responding(w, t)
  PROVE  HttpInv'
  <1>0. CoreInv(Units)
    BY DEF HttpInv
  <1>1. /\ code' \in [Tasks -> Coroutines(Units)]
        /\ \A u \in Frames : SameTask(u)
        /\ code'[Waiter].at = code[Waiter].at
        /\ \A u \in Tasks \ {t} : code'[u] = code[u]
    <2>1. PICK a \in Ats,
               p \in Parts, f \in Fds \cup {0} :
            code' = Fields(t, a, p, f)
      BY DEF Responding
    <2> QED
      BY <1>0, <2>1, FieldsChange
  <1>2. DataType(Units)'
    BY <1>1 DEF Responding, DataType
  <1>3. Going(w, t, Units)
    <2>1. ended \in {"no", "freed", "thrown", "sigpipe"}
      BY <1>0 DEF CoreInv, EventType
    <2> QED
      BY <1>1, <1>2, <2>1 DEF Responding, Going
  <1>4. CoreInv(Units)'
    BY <1>0, <1>3, GoingKeeps
  <1>5. \A u \in Frames : Reading(u) => Reading(u)' /\ code'[u].conn = code[u].conn
    <2> SUFFICES ASSUME NEW u \in Frames, Reading(u)
                 PROVE  Reading(u)' /\ code'[u].conn = code[u].conn
      OBVIOUS
    <2>1. u # t /\ u \in Tasks
      BY ConstantsFacts DEF Reading, Responding
    <2>2. code'[u] = code[u] /\ frame'[u] = frame[u]
      BY <1>0, <1>1, <2>1 DEF Responding, CoreInv, PoolType
    <2> QED
      BY <2>2 DEF Reading
  <1>6. \A c \in Conns : SameUnits(c)
    BY DEF Responding, SameEnds, SameUnits
  <1> QED
    BY <1>4, <1>5, <1>6, BuffersStay DEF Responding

LEMMA TaskFields ==
  ASSUME CoreInv(Units), NEW t \in Frames
  PROVE  /\ code[t].at \in Ats /\ code[t].part \in Parts /\ code[t].file \in Fds \cup {0}
         /\ code = Fields(t, code[t].at, code[t].part, code[t].file)
         /\ \A f : [code EXCEPT ![t].file = f] = Fields(t, code[t].at, code[t].part, f)
         /\ \A p : [code EXCEPT ![t].part = p] = Fields(t, code[t].at, p, code[t].file)
         /\ \A a : [code EXCEPT ![t].at = a] = Fields(t, a, code[t].part, code[t].file)
         /\ \A p, f : [code EXCEPT ![t].part = p, ![t].file = f] = Fields(t, code[t].at, p, f)
         /\ \A a, p : [code EXCEPT ![t].at = a, ![t].part = p]
                        = Fields(t, a, p, code[t].file)
  <1> DEFINE r == code[t]
  <1>1. t \in Tasks /\ r \in Coroutines(Units) /\ DOMAIN code = Tasks
    BY ConstantsFacts DEF CoreInv, DataType
  <1>2. r.at \in Ats /\ r.part \in Parts /\ r.file \in Fds \cup {0}
    BY <1>1 DEF Coroutines, Ats, Parts
  <1>3. /\ r = [r EXCEPT !.at = r.at, !.part = r.part, !.file = r.file]
        /\ \A f : [r EXCEPT !.file = f] = [r EXCEPT !.at = r.at, !.part = r.part, !.file = f]
        /\ \A p : [r EXCEPT !.part = p] = [r EXCEPT !.at = r.at, !.part = p, !.file = r.file]
        /\ \A a : [r EXCEPT !.at = a] = [r EXCEPT !.at = a, !.part = r.part, !.file = r.file]
        /\ \A p, f : [r EXCEPT !.part = p, !.file = f]
                       = [r EXCEPT !.at = r.at, !.part = p, !.file = f]
    BY <1>1 DEF Coroutines
  <1>4. code = Fields(t, r.at, r.part, r.file)
    <2>1. code = [code EXCEPT ![t] = r]
      BY <1>1 DEF CoreInv, DataType
    <2> HIDE DEF r
    <2>2. code = [code EXCEPT ![t] = [r EXCEPT !.at = r.at, !.part = r.part, !.file = r.file]]
      BY <1>3, <2>1
    <2> QED
      BY <2>2 DEF Fields, r
  <1>5. ASSUME NEW f PROVE [code EXCEPT ![t].file = f] = Fields(t, r.at, r.part, f)
    <2>1. [code EXCEPT ![t].file = f] = [code EXCEPT ![t] = [r EXCEPT !.file = f]]
      BY <1>1
    <2> QED
      BY <1>3, <2>1, Zenon DEF Fields
  <1>6. ASSUME NEW p PROVE [code EXCEPT ![t].part = p] = Fields(t, r.at, p, r.file)
    <2>1. [code EXCEPT ![t].part = p] = [code EXCEPT ![t] = [r EXCEPT !.part = p]]
      BY <1>1
    <2> QED
      BY <1>3, <2>1, Zenon DEF Fields
  <1>7. ASSUME NEW a PROVE [code EXCEPT ![t].at = a] = Fields(t, a, r.part, r.file)
    <2>1. [code EXCEPT ![t].at = a] = [code EXCEPT ![t] = [r EXCEPT !.at = a]]
      BY <1>1
    <2> QED
      BY <1>3, <2>1, Zenon DEF Fields
  <1>8. ASSUME NEW p, NEW f
        PROVE  [code EXCEPT ![t].part = p, ![t].file = f] = Fields(t, r.at, p, f)
    <2>1. [code EXCEPT ![t].part = p, ![t].file = f]
            = [code EXCEPT ![t] = [r EXCEPT !.part = p, !.file = f]]
      BY <1>1
    <2> QED
      BY <1>3, <2>1, Zenon DEF Fields
  <1>9. ASSUME NEW a, NEW p
        PROVE  [code EXCEPT ![t].at = a, ![t].part = p] = Fields(t, a, p, r.file)
    <2>1. [code EXCEPT ![t].at = a, ![t].part = p]
            = [code EXCEPT ![t] = [r EXCEPT !.at = a, !.part = p]]
      BY <1>1
    <2>2. [r EXCEPT !.at = a, !.part = p] = [r EXCEPT !.at = a, !.part = p, !.file = r.file]
      BY <1>1 DEF Coroutines
    <2> QED
      BY <2>1, <2>2, Zenon DEF Fields
  <1> QED
    BY <1>2, <1>4, <1>5, <1>6, <1>7, <1>8, <1>9

(* An operation on a socket may tell its error; nothing else changes.      *)
LEMMA ToldChange ==
  ASSUME CoreInv(Units), NEW c \in Conns, NEW b \in BOOLEAN,
         sock' = [sock EXCEPT ![c].told = b]
  PROVE  /\ sock' \in [Conns -> Sockets(Units)]
         /\ \A d \in Conns : SameEnds(d) /\ sock'[d].in = sock[d].in /\ sock'[d].put = sock[d].put
  <1> DEFINE r == [sock[c] EXCEPT !.told = b]
  <1>1. sock[c] \in Sockets(Units) /\ sock' = [sock EXCEPT ![c] = r]
    BY DEF CoreInv, DataType
  <1>2. /\ r \in Sockets(Units) /\ r.st = sock[c].st /\ r.fd = sock[c].fd /\ r.ptr = sock[c].ptr
        /\ r.fin = sock[c].fin /\ r.in = sock[c].in /\ r.put = sock[c].put
    BY <1>1 DEF Sockets
  <1> HIDE DEF r
  <1>3. \A d \in Conns : sock'[d] = IF d = c THEN r ELSE sock[d]
    BY <1>1 DEF CoreInv, DataType
  <1>4. sock' \in [Conns -> Sockets(Units)]
    BY <1>1, <1>2 DEF CoreInv, DataType
  <1> QED
    BY <1>2, <1>3, <1>4 DEF SameEnds

LEMMA ResponseSteps ==
  ASSUME HttpInv, NEW w \in Workers, NEW t \in Frames,
         \/ SendHead(w, t) \/ OpenFail(w, t) \/ OpenFile(w, t)
         \/ SendBody(w, t) \/ SendAgain(w, t) \/ SendError(w, t)
  PROVE  HttpInv'
  <1>0. CoreInv(Units)
    BY DEF HttpInv
  <1>1. /\ code[t].at \in Ats /\ code[t].part \in Parts /\ code[t].file \in Fds \cup {0}
        /\ \A f : [code EXCEPT ![t].file = f] = Fields(t, code[t].at, code[t].part, f)
        /\ \A p : [code EXCEPT ![t].part = p] = Fields(t, code[t].at, p, code[t].file)
        /\ \A a : [code EXCEPT ![t].at = a] = Fields(t, a, code[t].part, code[t].file)
        /\ \A p, f : [code EXCEPT ![t].part = p, ![t].file = f] = Fields(t, code[t].at, p, f)
        /\ \A a, p : [code EXCEPT ![t].at = a, ![t].part = p]
                       = Fields(t, a, p, code[t].file)
    BY <1>0, TaskFields
  <1> DEFINE Changed == \E a \in Ats, p \in Parts, f \in Fds \cup {0} : code' = Fields(t, a, p, f)
             Ends == \/ UNCHANGED <<holder, frame>>
                     \/ /\ holder' = [holder EXCEPT ![w] = None]
                        /\ frame' = [frame EXCEPT ![t] = "done"]
  <1>2. /\ holder[w] = t /\ code[t].kind = "respond"
        /\ UNCHANGED <<binding, queue, events, ready, ended, readVars>>
    BY DEF SendHead, OpenFail, OpenFile, SendBody, SendAgain, SendError, On,
           poolVars, epollVars
  <1>3. ASSUME ResponseReturn(w, t) PROVE Changed /\ Ends
    <2>1. code' = Fields(t, code[t].at, code[t].part, 0)
      BY <1>1, <1>3, Zenon DEF ResponseReturn
    <2> QED
      BY <1>1, <1>3, <2>1 DEF ResponseReturn, Return
  <1>4. SendHead(w, t) => Changed /\ Ends
    <2> SUFFICES ASSUME SendHead(w, t) PROVE Changed /\ Ends
      OBVIOUS
    <2>1. CASE ResponseReturn(w, t)
      BY <1>3, <2>1
    <2>2. CASE code' = [code EXCEPT ![t].part = "open"] /\ UNCHANGED <<frame, holder>>
      <3>1. code' = Fields(t, code[t].at, "open", code[t].file) /\ "open" \in Parts
        BY <1>1, <2>2 DEF Parts
      <3> QED
        BY <1>1, <2>2, <3>1
    <2> QED
      BY <2>1, <2>2 DEF SendHead
  <1>5. OpenFail(w, t) => Changed /\ Ends
    BY <1>3 DEF OpenFail
  <1>6. OpenFile(w, t) => Changed /\ Ends
    <2> SUFFICES ASSUME OpenFile(w, t) PROVE Changed /\ Ends
      OBVIOUS
    <2>1. code' = Fields(t, code[t].at, "body", LowestFd) /\ "body" \in Parts
      BY <1>1 DEF Parts, OpenFile
    <2>2. LowestFd \in Fds
      BY LowestIsFree DEF OpenFile, FreeFds
    <2> QED
      BY <1>1, <2>1, <2>2 DEF OpenFile, poolVars
  <1>7. SendBody(w, t) => Changed /\ Ends
    BY <1>3 DEF SendBody
  <1>8. SendAgain(w, t) => Changed /\ Ends
    <2> SUFFICES ASSUME SendAgain(w, t) PROVE Changed /\ Ends
      OBVIOUS
    <2> DEFINE p == IF code[t].part = "new" THEN "head" ELSE code[t].part
    <2>1. code' = [code EXCEPT ![t].at = "yield", ![t].part = p]
      BY <1>0, ConstantsFacts DEF SendAgain, CoreInv, DataType, Coroutines
    <2>2. p \in Parts /\ "yield" \in Ats
      BY <1>1 DEF Parts, Ats
    <2> HIDE DEF p
    <2>3. code' = Fields(t, "yield", p, code[t].file)
      BY <1>1, <2>1, Zenon
    <2> QED
      BY <1>1, <2>2, <2>3 DEF SendAgain, poolVars
  <1>9. SendError(w, t) => Changed /\ Ends
    BY <1>3 DEF SendError
  <1>10. Changed /\ Ends
    <2> HIDE DEF Changed, Ends
    <2> QED
      BY <1>4, <1>5, <1>6, <1>7, <1>8, <1>9
  <1>11. /\ sock' \in [Conns -> Sockets(Units)]
         /\ \A c \in Conns : SameEnds(c) /\ sock'[c].in = sock[c].in /\ sock'[c].put = sock[c].put
    <2>1. CASE SendError(w, t)
      <3>1. t # None /\ code[t].conn \in Conns
        BY <1>0, <1>2, ConstantsFacts DEF CoreInv, HeldInv, FrameInv
      <3> DEFINE c == code[t].conn
      <3>2. sock' = [sock EXCEPT ![c].told = TRUE]
        BY <2>1 DEF SendError
      <3> HIDE DEF c
      <3> QED
        BY <1>0, <3>1, <3>2, ToldChange DEF c
    <2>2. CASE ~SendError(w, t)
      <3>1. sock' = sock
        BY <2>2 DEF SendHead, OpenFail, OpenFile, SendBody, SendAgain
      <3> QED
        BY <1>0, <3>1 DEF CoreInv, DataType, SameEnds
    <2> QED
      BY <2>1, <2>2
  <1>12. Responding(w, t)
    BY <1>2, <1>10, <1>11 DEF Responding
  <1> QED
    BY <1>12, RespondingKeeps

(* The process ends.                                                       *)
LEMMA ThrowSteps ==
  ASSUME HttpInv, NEW w \in Workers, NEW t \in Frames,
         ResponseThrow(w, t) \/ OpenThrow(w, t) \/ SendSignal(w, t)
  PROVE  HttpInv'
  <1>1. /\ UNCHANGED <<poolVars, frame, code, epollVars, sock, readVars>>
        /\ ended' \in {"freed", "thrown", "sigpipe"}
    BY DEF ResponseThrow, OpenThrow, SendSignal
  <1>2. CoreInv(Units)'
    BY <1>1, EndingKeeps DEF HttpInv
  <1> QED
    BY <1>1, <1>2, OutsideKeeps

(* The frame of a new response.                                            *)
Response(c, z) == [Spawned("respond", c) EXCEPT !.part = "new", !.size = z]

LEMMA NewResponse ==
  ASSUME NEW c \in Conns, NEW z \in Nat, Waiting(NewFrame) \in Nat
  PROVE  /\ Response(c, z) \in Coroutines(Units)
         /\ Response(c, z).kind = "respond" /\ Response(c, z).conn = c
         /\ Response(c, z).wakes = Waiting(NewFrame) + 1
  <1> DEFINE r == Fresh("respond", c)
             k == r.wakes + 1
             q == Response(c, z)
  <1>1. r \in Coroutines(Units) /\ r.kind = "respond" /\ r.conn = c /\ r.wakes = Waiting(NewFrame)
    BY FreshIs
  <1>2. Spawned("respond", c) = [r EXCEPT !.wakes = k]
    BY DEF Spawned
  <1>3. k \in Nat /\ k = Waiting(NewFrame) + 1
    BY <1>1
  <1> HIDE DEF r, k
  <1>4. q = [[r EXCEPT !.wakes = k] EXCEPT !.part = "new", !.size = z]
    BY <1>2 DEF Response
  <1> HIDE DEF q
  <1>5. /\ q \in Coroutines(Units)
        /\ q.kind = "respond" /\ q.conn = c /\ q.wakes = Waiting(NewFrame) + 1
    BY <1>1, <1>3, <1>4 DEF Coroutines
  <1> QED
    BY <1>5 DEF q

LEMMA StartResponseKeeps ==
  ASSUME HttpInv, NEW w \in Workers, NEW t \in Frames,
         NEW file \in BOOLEAN, NEW close \in BOOLEAN, StartResponse(w, t, file, close)
  PROVE  HttpInv'
  <1> DEFINE n == NewFrame
             c == code[t].conn
             q == [Spawned("respond", c) EXCEPT !.part = "new", !.size = IF file THEN 1 ELSE 0]
             r == [code[t] EXCEPT !.at = "run", !.part = "head"]
  <1>0. CoreInv(Units)
    BY DEF HttpInv
  <1>1. /\ holder[w] = t /\ code[t].at = "respond" /\ FreeFrames # {} /\ addTask(NewFrame)
        /\ frame' = [frame EXCEPT ![n] = "live", ![t] = IF close THEN "done" ELSE @]
        /\ holder' = [holder EXCEPT ![w] = IF close THEN None ELSE @]
        /\ code' = [code EXCEPT ![t].at = "run", ![t].part = "head", ![n] = q]
        /\ UNCHANGED <<events, ready, sock, ended, readVars>>
    BY DEF StartResponse, epollVars
  <1>2. n \in Frames /\ frame[n] = "free" /\ n \in Tasks /\ t \in Tasks /\ t # None
        /\ n # Waiter /\ t # Waiter
    BY <1>1, NewFrameIsFree, ConstantsFacts
  <1>3. frame[t] = "live" /\ c \in Conns /\ t # n
    BY <1>0, <1>1, <1>2 DEF CoreInv, HeldInv, FrameInv
  <1>4. Waiting(NewFrame) \in Nat
    BY <1>0, <1>2, WaitingType DEF CoreInv
  <1>5. q \in Coroutines(Units) /\ q.kind = "respond" /\ q.conn = c /\ q.wakes = Waiting(NewFrame) + 1
    <2> DEFINE z == IF file THEN 1 ELSE 0
    <2>1. z \in Nat /\ q = Response(c, z)
      BY DEF Response
    <2> HIDE DEF z, q, c
    <2> QED
      BY <1>3, <1>4, <2>1, NewResponse
  <1>6. /\ r \in Coroutines(Units) /\ r.kind = code[t].kind /\ r.conn = c
        /\ r.wakes = code[t].wakes
    BY <1>0, <1>2 DEF CoreInv, DataType, Coroutines
  <1>7. code' = [code EXCEPT ![t] = r, ![n] = q]
    <2> HIDE DEF q, n
    <2> QED
      BY <1>0, <1>1, <1>2, <1>3 DEF CoreInv, DataType
  <1> HIDE DEF q, r, n
  <1>8. /\ code'[n] = q /\ code'[t] = r
        /\ \A u \in Tasks \ {n, t} : code'[u] = code[u]
        /\ code' \in [Tasks -> Coroutines(Units)]
    BY <1>0, <1>2, <1>3, <1>5, <1>6, <1>7 DEF CoreInv, DataType
  <1>9. \/ holder' = holder /\ frame' = [frame EXCEPT ![n] = "live"]
        \/ /\ holder' = [holder EXCEPT ![w] = None]
           /\ frame' = [frame EXCEPT ![n] = "live", ![t] = "done"]
    <2>1. CASE close
      BY <1>1, <2>1
    <2>2. CASE ~close
      <3>1. holder' = holder
        BY <1>0, <1>1, <2>2 DEF CoreInv, PoolType
      <3>2. frame' = [frame EXCEPT ![n] = "live"]
        BY <1>0, <1>1, <1>2, <1>3, <2>2 DEF CoreInv, PoolType
      <3> QED
        BY <3>1, <3>2
    <2> QED
      BY <2>1, <2>2
  <1>10. \A u \in Frames \ {n} : SameTask(u)
    BY <1>6, <1>8, ConstantsFacts DEF SameTask
  <1>11. DataType(Units)'
    BY <1>0, <1>1, <1>8 DEF CoreInv, DataType
  <1>12. code'[Waiter].at = code[Waiter].at
    BY <1>2, <1>8, ConstantsFacts
  <1>13. Spawning(w, t, Units)
    BY <1>1, <1>5, <1>8, <1>9, <1>10, <1>11, <1>12 DEF Spawning, n, c
  <1>14. CoreInv(Units)'
    BY <1>0, <1>13, SpawningKeeps
  <1>15. \A u \in Frames : Reading(u) => Reading(u)' /\ code'[u].conn = code[u].conn
    <2> SUFFICES ASSUME NEW u \in Frames, Reading(u)
                 PROVE  Reading(u)' /\ code'[u].conn = code[u].conn
      OBVIOUS
    <2>1. u # t /\ u # n /\ u \in Tasks
      BY <1>1, <1>2, ConstantsFacts DEF Reading
    <2>2. code'[u] = code[u] /\ frame'[u] = frame[u]
      BY <1>0, <1>8, <1>9, <2>1 DEF CoreInv, PoolType
    <2> QED
      BY <2>2 DEF Reading
  <1>16. \A d \in Conns : SameUnits(d)
    BY <1>1 DEF SameUnits
  <1> QED
    BY <1>1, <1>14, <1>15, <1>16, BuffersStay

-----------------------------------------------------------------------------
(* The steps that move units.                                              *)

(* They concern one connection: it is enough to look at that one.          *)
LEMMA OneConnection ==
  ASSUME HttpInv, NEW c \in Conns,
         \A d \in Conns \ {c} :
           /\ SameUnits(d) /\ requests'[d] = requests[d]
           /\ sock[d].st = "open" =>
                uncompletedRequests'[sock[d].fd] = uncompletedRequests[sock[d].fd],
         Ordered(c, sock'[c].put, sock'[c].in),
         \A k \in 1..Len(requests'[c]) :
           /\ Ordered(c, sock'[c].put, requests'[c][k])
           /\ Before(requests'[c][k], sock'[c].in)
           /\ \A j \in 1..(k - 1) : Before(requests'[c][j], requests'[c][k]),
         sock'[c].st = "open" =>
           /\ Ordered(c, sock'[c].put, uncompletedRequests'[sock'[c].fd])
           /\ Before(uncompletedRequests'[sock'[c].fd], sock'[c].in)
           /\ \A k \in 1..Len(requests'[c]) : Before(requests'[c][k], uncompletedRequests'[sock'[c].fd])
  PROVE  ArrivedInv' /\ MessageInv' /\ BufferInv'
  <1>1. ArrivedInv'
    <2> SUFFICES ASSUME NEW d \in Conns PROVE Ordered(d, sock[d].put, sock[d].in)'
      BY DEF ArrivedInv
    <2>1. CASE d = c
      BY <2>1
    <2>2. CASE d # c
      <3>1. SameUnits(d) /\ Ordered(d, sock[d].put, sock[d].in)
        BY <2>2 DEF HttpInv, ArrivedInv
      <3> QED
        BY <3>1 DEF SameUnits, Ordered, Own, Rising
    <2> QED
      BY <2>1, <2>2
  <1>2. MessageInv'
    <2> SUFFICES ASSUME NEW d \in Conns, NEW k \in 1..Len(requests'[d])
                 PROVE  /\ Ordered(d, sock[d].put, requests[d][k])'
                        /\ Before(requests[d][k], sock[d].in)'
                        /\ (\A j \in 1..(k - 1) : Before(requests[d][j], requests[d][k]))'
      BY DEF MessageInv
    <2>1. CASE d = c
      BY <2>1
    <2>2. CASE d # c
      <3>1. SameUnits(d) /\ requests'[d] = requests[d]
        BY <2>2
      <3>2. /\ Ordered(d, sock[d].put, requests[d][k])
            /\ Before(requests[d][k], sock[d].in)
            /\ \A j \in 1..(k - 1) : Before(requests[d][j], requests[d][k])
        BY <3>1 DEF HttpInv, MessageInv
      <3> QED
        BY <3>1, <3>2 DEF SameUnits, Ordered, Own, Rising, Before
    <2> QED
      BY <2>1, <2>2
  <1>3. BufferInv'
    <2> SUFFICES ASSUME NEW d \in Conns, sock'[d].st = "open"
                 PROVE  /\ Ordered(d, sock[d].put, getBuffer(sock[d].fd))'
                        /\ Before(getBuffer(sock[d].fd), sock[d].in)'
                        /\ (\A k \in 1..Len(requests[d]) :
                              Before(requests[d][k], getBuffer(sock[d].fd)))'
      BY DEF BufferInv
    <2>1. CASE d = c
      BY <2>1 DEF getBuffer
    <2>2. CASE d # c
      <3>1. SameUnits(d) /\ sock[d].st = "open" /\ requests'[d] = requests[d]
        BY <2>2 DEF SameUnits
      <3>2. getBuffer(sock[d].fd)' = getBuffer(sock[d].fd)
        BY <2>2, <3>1 DEF SameUnits, getBuffer
      <3>3. /\ Ordered(d, sock[d].put, getBuffer(sock[d].fd))
            /\ Before(getBuffer(sock[d].fd), sock[d].in)
            /\ \A k \in 1..Len(requests[d]) : Before(requests[d][k], getBuffer(sock[d].fd))
        BY <3>1 DEF HttpInv, BufferInv
      <3> QED
        BY <3>1, <3>2, <3>3 DEF SameUnits, Ordered, Own, Rising, Before
    <2> QED
      BY <2>1, <2>2
  <1> QED
    BY <1>1, <1>2, <1>3

(* What a handler that reads knows.                                        *)
LEMMA ReaderFacts ==
  ASSUME HttpInv, NEW w \in Workers, NEW t \in Frames, NEW c, c = code[t].conn,
         On(w, t, "handler")
  PROVE  /\ c \in Conns /\ sock[c].st = "open" /\ sock[c].fd \in Fds
         /\ Reads(t, sock[c].fd)
         /\ sock[c] \in Sockets(Units) /\ sock[c].in \in Seq(Units) /\ sock[c].put \in Nat
         /\ uncompletedRequests[sock[c].fd] \in Seq(Units) /\ requests[c] \in Seq(Seq(Units))
         /\ \A d \in Conns \ {c} : sock[d].fd # sock[c].fd
         /\ \A u \in Frames \ {t}, fd \in Fds : Reads(u, fd) => fd # sock[c].fd
         /\ t \in Tasks /\ t # None /\ holder[w] = t
  <1>0. CoreInv(Units) /\ TableType
    BY DEF HttpInv
  <1>1. t \in Tasks /\ t # None /\ holder[w] = t /\ code[t].kind = "handler" /\ code[t].at = "run"
    BY ConstantsFacts DEF On
  <1>2. frame[t] = "live"
    BY <1>0, <1>1 DEF CoreInv, HeldInv
  <1>3. c \in Conns /\ sock[c].st = "open" /\ sock[c].ptr = t
    BY <1>0, <1>1, <1>2 DEF CoreInv, FrameInv, PtrInv
  <1>4. sock[c].fd \in Fds /\ \A d \in Conns : sock[d].fd = sock[c].fd => d = c
    BY <1>0, <1>3 DEF CoreInv, FdInv
  <1>5. sock[c] \in Sockets(Units)
    BY <1>0, <1>3 DEF CoreInv, DataType
  <1>6. sock[c].in \in Seq(Units) /\ sock[c].put \in Nat
    BY <1>5, ConstantsAssumption DEF Sockets
  <1>7. uncompletedRequests[sock[c].fd] \in Seq(Units) /\ requests[c] \in Seq(Seq(Units))
    BY <1>0, <1>3, <1>4 DEF TableType
  <1>8. ASSUME NEW u \in Frames \ {t}, NEW fd \in Fds, Reads(u, fd) PROVE fd # sock[c].fd
    <2>1. code[u].conn \in Conns /\ sock[code[u].conn].ptr = u /\ sock[code[u].conn].fd = fd
      BY <1>0, <1>8 DEF Reads, CoreInv, FrameInv, PtrInv
    <2> QED
      BY <1>3, <1>4, <2>1
  <1>9. Reads(t, sock[c].fd)
    BY <1>1, <1>2 DEF Reads
  <1> QED
    BY <1>1, <1>3, <1>4, <1>5, <1>6, <1>7, <1>8, <1>9

(* Its step touches its own buffer, and leaves nothing there unless it     *)
(* goes on reading.                                                        *)
LEMMA TableAfter ==
  ASSUME HttpInv, NEW w \in Workers, NEW t \in Frames, NEW c, c = code[t].conn,
         On(w, t, "handler"),
         \A fd \in Fds \ {sock[c].fd} : uncompletedRequests'[fd] = uncompletedRequests[fd],
         \A u \in Frames \ {t} : code'[u] = code[u] /\ frame'[u] = frame[u],
         \A d \in Conns : sock'[d].fd = sock[d].fd,
         uncompletedRequests'[sock[c].fd] # <<>> => Reading(t)' /\ code'[t].conn = c
  PROVE  TableInv'
  <1>1. /\ c \in Conns /\ sock'[c].fd = sock[c].fd
        /\ \A u \in Frames \ {t}, fd \in Fds : Reads(u, fd) => fd # sock[c].fd
        /\ Reads(t, sock[c].fd)
    BY ReaderFacts
  <1> SUFFICES ASSUME NEW fd \in Fds, uncompletedRequests'[fd] # <<>>
               PROVE  \E u \in Frames : Reads(u, fd)'
    BY DEF TableInv, getBuffer
  <1>2. CASE fd = sock[c].fd
    <2>1. Reads(t, fd)'
      BY <1>1, <1>2 DEF Reads, Reading
    <2> QED
      BY <2>1
  <1>3. CASE fd # sock[c].fd
    <2>1. PICK u \in Frames : Reads(u, fd)
      BY <1>3 DEF HttpInv, TableInv, getBuffer
    <2>2. u # t
      BY <1>1, <1>3, <2>1 DEF Reads
    <2>3. code[u].conn \in Conns
      BY <2>1 DEF HttpInv, CoreInv, FrameInv, Reads
    <2>4. Reads(u, fd)'
      BY <2>1, <2>2, <2>3 DEF Reads
    <2> QED
      BY <2>4
  <1> QED
    BY <1>2, <1>3

(* Both kinds of change of the code of t.                                  *)
LEMMA CodeChange ==
  ASSUME CoreInv(Units), NEW t \in Frames, NEW a \in Ats, NEW p \in Parts,
         \/ code' = code
         \/ code' = [code EXCEPT ![t].at = a]
         \/ code' = [code EXCEPT ![t].at = a, ![t].part = p]
  PROVE  /\ code' \in [Tasks -> Coroutines(Units)]
         /\ \A u \in Frames : SameTask(u)
         /\ code'[Waiter].at = code[Waiter].at
         /\ \A u \in Tasks \ {t} : code'[u] = code[u]
         /\ code'[t].at = IF code' = code THEN code[t].at ELSE a
  <1>1. /\ code[t].at \in Ats /\ code[t].part \in Parts /\ code[t].file \in Fds \cup {0}
        /\ code = Fields(t, code[t].at, code[t].part, code[t].file)
        /\ [code EXCEPT ![t].at = a] = Fields(t, a, code[t].part, code[t].file)
        /\ [code EXCEPT ![t].at = a, ![t].part = p] = Fields(t, a, p, code[t].file)
    BY TaskFields
  <1>2. PICK b \in Ats, q \in Parts, f \in Fds \cup {0} :
          code' = Fields(t, b, q, f) /\ (b = a \/ code' = code)
    BY <1>1
  <1>3. /\ code' \in [Tasks -> Coroutines(Units)]
        /\ \A u \in Frames : SameTask(u)
        /\ code'[Waiter].at = code[Waiter].at
        /\ \A u \in Tasks \ {t} : code'[u] = code[u]
        /\ code'[t].at = b
    BY <1>2, FieldsChange
  <1> QED
    BY <1>2, <1>3

LEMMA ReadMoreKeeps ==
  ASSUME HttpInv, NEW w \in Workers, NEW t \in Frames,
         NEW fits \in BOOLEAN, ReadMore(w, t, fits)
  PROVE  HttpInv'
  <1> DEFINE c == code[t].conn
             fd == sock[c].fd
             in == sock[c].in
             buf == uncompletedRequests[fd]
             h == Head(in)
             left == IF fits THEN Append(buf, h) ELSE <<>>
             rest == Tail(in)
  <1>0. CoreInv(Units) /\ TableType
    BY DEF HttpInv
  <1>1. /\ On(w, t, "handler") /\ ReadResult(c) = "data"
        /\ sock' = [sock EXCEPT ![c].in = Tail(@)]
        /\ uncompletedRequests' = [uncompletedRequests EXCEPT ![fd] = left]
        /\ code' = IF fits THEN code
                   ELSE [code EXCEPT ![t].at = "respond", ![t].part = "bad"]
        /\ UNCHANGED <<binding, queue, holder, frame, events, ready, ended, requests>>
    <2>1. uncompletedRequests' = [uncompletedRequests EXCEPT ![fd] = left]
      BY <1>0 DEF ReadMore, getBuffer, eraseBuffer, TableType
    <2> QED
      BY <2>1 DEF ReadMore, getBuffer, poolVars, epollVars
  <1>2. in # <<>>
    BY <1>1 DEF ReadResult
  <1>3. /\ c \in Conns /\ sock[c].st = "open" /\ fd \in Fds
        /\ Reads(t, fd) /\ holder[w] = t /\ t \in Tasks
        /\ sock[c] \in Sockets(Units) /\ in \in Seq(Units)
        /\ buf \in Seq(Units) /\ requests[c] \in Seq(Seq(Units))
        /\ \A d \in Conns \ {c} : sock[d].fd # fd
    BY <1>1, ReaderFacts
  <1>4. /\ Ordered(c, sock[c].put, in) /\ Ordered(c, sock[c].put, buf) /\ Before(buf, in)
        /\ \A k \in 1..Len(requests[c]) :
             /\ Ordered(c, sock[c].put, requests[c][k])
             /\ Before(requests[c][k], in) /\ Before(requests[c][k], buf)
             /\ \A j \in 1..(k - 1) : Before(requests[c][j], requests[c][k])
    BY <1>3 DEF HttpInv, ArrivedInv, MessageInv, BufferInv, getBuffer
  <1> HIDE DEF c
  <1>5. /\ Append(buf, h) \in Seq(Units) /\ rest \in Seq(Units)
        /\ Ordered(c, sock[c].put, Append(buf, h)) /\ Ordered(c, sock[c].put, rest)
        /\ Before(Append(buf, h), rest)
        /\ \A r \in Seq(Units) : Before(r, buf) /\ Before(r, in) => Before(r, Append(buf, h))
        /\ \A r \in Seq(Units) : Before(r, in) => Before(r, rest)
    <2> HIDE DEF in, buf
    <2> QED
      BY <1>2, <1>3, <1>4, MoveOrdered
  <1>6. /\ left \in Seq(Units) /\ Ordered(c, sock[c].put, left) /\ Before(left, rest)
        /\ \A k \in 1..Len(requests[c]) :
             Before(requests[c][k], left) /\ Before(requests[c][k], rest)
    <2>1. \A k \in 1..Len(requests[c]) : requests[c][k] \in Seq(Units)
      BY <1>3
    <2>2. <<>> \in Seq(Units)
      OBVIOUS
    <2> HIDE DEF in, buf, h, rest
    <2>3. CASE fits
      BY <1>4, <1>5, <2>1, <2>3
    <2>4. CASE ~fits
      BY <1>4, <1>5, <2>1, <2>2, <2>4, EmptyOrdered
    <2> QED
      BY <2>3, <2>4
  <1>7. /\ sock' \in [Conns -> Sockets(Units)]
        /\ \A d \in Conns \ {c} : sock'[d] = sock[d]
        /\ sock'[c].in = rest /\ sock'[c].put = sock[c].put /\ sock'[c].fd = fd
        /\ sock'[c].st = sock[c].st /\ sock'[c].ptr = sock[c].ptr /\ sock'[c].fin = sock[c].fin
    <2> DEFINE r == [sock[c] EXCEPT !.in = rest]
    <2>1. sock' = [sock EXCEPT ![c] = r]
      BY <1>0, <1>1, <1>3 DEF CoreInv, DataType
    <2> HIDE DEF rest
    <2>2. /\ r \in Sockets(Units) /\ r.in = rest /\ r.put = sock[c].put /\ r.fd = fd
          /\ r.st = sock[c].st /\ r.ptr = sock[c].ptr /\ r.fin = sock[c].fin
      BY <1>3, <1>5 DEF Sockets
    <2> HIDE DEF r
    <2>3. sock'[c] = r /\ \A d \in Conns \ {c} : sock'[d] = sock[d]
      BY <1>0, <1>3, <2>1 DEF CoreInv, DataType
    <2>4. sock' \in [Conns -> Sockets(Units)]
      BY <1>0, <1>3, <2>1, <2>2 DEF CoreInv, DataType
    <2> QED
      BY <2>2, <2>3, <2>4
  <1>8. /\ code' \in [Tasks -> Coroutines(Units)]
        /\ \A u \in Frames : SameTask(u)
        /\ code'[Waiter].at = code[Waiter].at
        /\ \A u \in Tasks \ {t} : code'[u] = code[u]
    <2>1. "respond" \in Ats /\ "bad" \in Parts
      BY DEF Ats, Parts
    <2>2. code' = code \/ code' = [code EXCEPT ![t].at = "respond", ![t].part = "bad"]
      BY <1>1
    <2> QED
      BY <1>0, <2>1, <2>2, CodeChange
  <1>9. CoreInv(Units)'
    <2>1. \A d \in Conns : SameEnds(d)
      BY <1>2, <1>7 DEF SameEnds
    <2>2. ended \in {"no", "freed", "thrown", "sigpipe"}
      BY <1>0 DEF CoreInv, EventType
    <2>3. DataType(Units)'
      BY <1>7, <1>8 DEF DataType
    <2>4. Going(w, t, Units)
      BY <1>1, <1>3, <1>8, <2>1, <2>2, <2>3 DEF Going
    <2> QED
      BY <1>0, <2>4, GoingKeeps
  <1>10. /\ uncompletedRequests'[fd] = left
         /\ \A e \in Fds \ {fd} : uncompletedRequests'[e] = uncompletedRequests[e]
         /\ uncompletedRequests' \in [Fds -> Seq(Units)]
    <2> HIDE DEF left, fd
    <2> QED
      BY <1>0, <1>1, <1>3, <1>6 DEF TableType
  <1>11. TableType'
    BY <1>0, <1>1, <1>10 DEF TableType
  <1>12. TableInv'
    <2>1. \A u \in Frames \ {t} : code'[u] = code[u] /\ frame'[u] = frame[u]
      BY <1>1, <1>8, ConstantsFacts
    <2>2. \A d \in Conns : sock'[d].fd = sock[d].fd
      BY <1>7
    <2>3. uncompletedRequests'[fd] # <<>> => Reading(t)' /\ code'[t].conn = c
      <3> SUFFICES ASSUME left # <<>> PROVE Reading(t)' /\ code'[t].conn = c
        BY <1>10
      <3>1. code' = code
        BY <1>1
      <3> QED
        BY <1>1, <1>3, <3>1 DEF Reads, Reading, c
    <2>4. c = code[t].conn
      BY DEF c
    <2> QED
      BY <1>1, <1>10, <2>1, <2>2, <2>3, <2>4, TableAfter
  <1>13. ArrivedInv' /\ MessageInv' /\ BufferInv'
    <2>1. ASSUME NEW d \in Conns \ {c}
          PROVE  /\ SameUnits(d) /\ requests'[d] = requests[d]
                 /\ sock[d].st = "open" =>
                      uncompletedRequests'[sock[d].fd] = uncompletedRequests[sock[d].fd]
      <3>1. sock[d].st = "open" => sock[d].fd \in Fds \ {fd}
        BY <1>0, <1>3 DEF CoreInv, FdInv
      <3> QED
        BY <1>1, <1>7, <1>10, <3>1 DEF SameUnits
    <2>2. \A s : Ordered(c, sock'[c].put, s) = Ordered(c, sock[c].put, s)
      BY <1>7 DEF Ordered, Own, Rising
    <2>3. sock'[c].in = rest /\ requests'[c] = requests[c] /\ uncompletedRequests'[sock'[c].fd] = left
      BY <1>1, <1>7, <1>10 DEF getBuffer
    <2> HIDE DEF rest, left, in, buf
    <2>4. Ordered(c, sock'[c].put, rest) /\ Ordered(c, sock'[c].put, left)
      BY <1>5, <1>6, <2>2
    <2>5. \A k \in 1..Len(requests[c]) :
            /\ Ordered(c, sock'[c].put, requests[c][k]) /\ Before(requests[c][k], rest)
            /\ \A j \in 1..(k - 1) : Before(requests[c][j], requests[c][k])
      BY <1>4, <1>6, <2>2
    <2>6. Before(left, rest) /\ \A k \in 1..Len(requests[c]) : Before(requests[c][k], left)
      BY <1>6
    <2> QED
      BY <1>3, <2>1, <2>3, <2>4, <2>5, <2>6, OneConnection
  <1> QED
    BY <1>9, <1>11, <1>12, <1>13 DEF HttpInv

(* EAGAIN before the end of a request: the handler polls.                  *)
LEMMA PollKeeps ==
  ASSUME HttpInv, NEW w \in Workers, NEW t \in Frames, ReadAgain(w, t),
         ~Completed(getBuffer(sock[code[t].conn].fd))
  PROVE  HttpInv'
  <1>0. CoreInv(Units)
    BY DEF HttpInv
  <1>1. /\ On(w, t, "handler") /\ code' = [code EXCEPT ![t].at = "yield"]
        /\ UNCHANGED <<binding, queue, holder, frame, events, ready, sock, ended, readVars>>
    BY DEF ReadAgain, poolVars, epollVars
  <1>2. holder[w] = t /\ code[t].at = "run"
    BY <1>1 DEF On
  <1>3. /\ code' \in [Tasks -> Coroutines(Units)]
        /\ \A u \in Frames : SameTask(u)
        /\ code'[Waiter].at = code[Waiter].at
        /\ \A u \in Tasks \ {t} : code'[u] = code[u]
        /\ code'[t].at \in {"run", "yield"}
    <2>1. "yield" \in Ats /\ "bad" \in Parts
      BY DEF Ats, Parts
    <2>2. /\ code' \in [Tasks -> Coroutines(Units)]
          /\ \A u \in Frames : SameTask(u)
          /\ code'[Waiter].at = code[Waiter].at
          /\ \A u \in Tasks \ {t} : code'[u] = code[u]
          /\ code'[t].at = IF code' = code THEN code[t].at ELSE "yield"
      BY <1>0, <1>1, <2>1, CodeChange
    <2> QED
      BY <1>2, <2>2
  <1>4. CoreInv(Units)'
    <2>1. \A d \in Conns : SameEnds(d)
      BY <1>1 DEF SameEnds
    <2>2. ended \in {"no", "freed", "thrown", "sigpipe"}
      BY <1>0 DEF CoreInv, EventType
    <2>3. DataType(Units)'
      BY <1>0, <1>1, <1>3 DEF CoreInv, DataType
    <2>4. Going(w, t, Units)
      BY <1>1, <1>2, <1>3, <2>1, <2>2, <2>3 DEF Going
    <2> QED
      BY <1>0, <2>4, GoingKeeps
  <1>5. \A u \in Frames : Reading(u) => Reading(u)' /\ code'[u].conn = code[u].conn
    <2> SUFFICES ASSUME NEW u \in Frames, Reading(u)
                 PROVE  Reading(u)' /\ code'[u].conn = code[u].conn
      OBVIOUS
    <2>1. code'[u].kind = code[u].kind /\ code'[u].conn = code[u].conn
      BY <1>3 DEF SameTask
    <2>2. code'[u].at # "respond"
      BY <1>3, ConstantsFacts DEF Reading
    <2> QED
      BY <1>1, <2>1, <2>2 DEF Reading
  <1>6. \A d \in Conns : SameUnits(d)
    BY <1>1 DEF SameUnits
  <1> QED
    BY <1>1, <1>4, <1>5, <1>6, BuffersStay

(* A request has been read: its buffer becomes a message.                  *)
LEMMA RequestReadKeeps ==
  ASSUME HttpInv, NEW w \in Workers, NEW t \in Frames, ReadAgain(w, t),
         Completed(getBuffer(sock[code[t].conn].fd))
  PROVE  HttpInv'
  <1> DEFINE c == code[t].conn
             fd == sock[c].fd
             buf == uncompletedRequests[fd]
  <1>0. CoreInv(Units) /\ TableType
    BY DEF HttpInv
  <1>1. /\ On(w, t, "handler")
        /\ uncompletedRequests' = [uncompletedRequests EXCEPT ![fd] = <<>>]
        /\ requests' = [requests EXCEPT ![c] = Append(@, buf)]
        /\ code' = [code EXCEPT ![t].at = "respond", ![t].part = "ok"]
        /\ UNCHANGED <<binding, queue, holder, frame, events, ready, sock, ended>>
    BY DEF ReadAgain, getBuffer, eraseBuffer, poolVars, epollVars
  <1>3. /\ c \in Conns /\ sock[c].st = "open" /\ fd \in Fds
        /\ Reads(t, fd) /\ holder[w] = t /\ t \in Tasks
        /\ buf \in Seq(Units) /\ requests[c] \in Seq(Seq(Units))
        /\ \A d \in Conns \ {c} : sock[d].fd # fd
    BY <1>1, ReaderFacts
  <1> HIDE DEF c
  <1> DEFINE msgs == Append(requests[c], buf)
  <1>4. /\ Ordered(c, sock[c].put, sock[c].in) /\ Ordered(c, sock[c].put, buf)
        /\ Before(buf, sock[c].in)
        /\ \A k \in 1..Len(requests[c]) :
             /\ Ordered(c, sock[c].put, requests[c][k])
             /\ Before(requests[c][k], sock[c].in) /\ Before(requests[c][k], buf)
             /\ \A j \in 1..(k - 1) : Before(requests[c][j], requests[c][k])
    BY <1>3 DEF HttpInv, ArrivedInv, MessageInv, BufferInv, getBuffer
  <1>5. ASSUME NEW k \in 1..Len(msgs)
        PROVE  /\ Ordered(c, sock[c].put, msgs[k]) /\ Before(msgs[k], sock[c].in)
               /\ \A j \in 1..(k - 1) : Before(msgs[j], msgs[k])
    <2> HIDE DEF buf
    <2>1. \A j \in 1..(k - 1) : j \in 1..Len(requests[c]) /\ msgs[j] = requests[c][j]
      BY <1>3
    <2>2. CASE k = Len(requests[c]) + 1
      <3>1. msgs[k] = buf
        BY <1>3, <2>2
      <3> QED
        BY <1>4, <2>1, <3>1
    <2>3. CASE k # Len(requests[c]) + 1
      <3>1. k \in 1..Len(requests[c]) /\ msgs[k] = requests[c][k]
        BY <1>3, <2>3
      <3> QED
        BY <1>4, <2>1, <3>1
    <2> QED
      BY <2>2, <2>3
  <1>6. msgs \in Seq(Seq(Units))
    <2> HIDE DEF buf
    <2> QED
      BY <1>3
  <1>7. /\ requests' \in [Conns -> Seq(Seq(Units))] /\ requests'[c] = msgs
        /\ \A d \in Conns \ {c} : requests'[d] = requests[d]
        /\ uncompletedRequests' \in [Fds -> Seq(Units)]
        /\ uncompletedRequests'[fd] = <<>>
        /\ \A e \in Fds \ {fd} : uncompletedRequests'[e] = uncompletedRequests[e]
    <2>1. requests' = [requests EXCEPT ![c] = msgs]
      BY <1>0, <1>1 DEF TableType
    <2> HIDE DEF msgs, fd
    <2> QED
      BY <1>0, <1>1, <1>3, <1>6, <2>1 DEF TableType
  <1>8. /\ code' \in [Tasks -> Coroutines(Units)]
        /\ \A u \in Frames : SameTask(u)
        /\ code'[Waiter].at = code[Waiter].at
        /\ \A u \in Tasks \ {t} : code'[u] = code[u]
    <2>1. "respond" \in Ats /\ "ok" \in Parts
      BY DEF Ats, Parts
    <2> QED
      BY <1>0, <1>1, <2>1, CodeChange
  <1>9. CoreInv(Units)'
    <2>1. \A d \in Conns : SameEnds(d)
      BY <1>1 DEF SameEnds
    <2>2. ended \in {"no", "freed", "thrown", "sigpipe"}
      BY <1>0 DEF CoreInv, EventType
    <2>3. DataType(Units)'
      BY <1>0, <1>1, <1>8 DEF CoreInv, DataType
    <2>4. Going(w, t, Units)
      BY <1>1, <1>3, <1>8, <2>1, <2>2, <2>3 DEF Going
    <2> QED
      BY <1>0, <2>4, GoingKeeps
  <1>10. TableType'
    BY <1>7 DEF TableType
  <1>11. TableInv'
    <2>1. \A u \in Frames \ {t} : code'[u] = code[u] /\ frame'[u] = frame[u]
      BY <1>1, <1>8, ConstantsFacts
    <2>2. c = code[t].conn
      BY DEF c
    <2>3. \A d \in Conns : sock'[d].fd = sock[d].fd
      BY <1>1
    <2> QED
      BY <1>1, <1>7, <2>1, <2>2, <2>3, TableAfter
  <1>12. ArrivedInv' /\ MessageInv' /\ BufferInv'
    <2>1. ASSUME NEW d \in Conns \ {c}
          PROVE  /\ SameUnits(d) /\ requests'[d] = requests[d]
                 /\ sock[d].st = "open" =>
                      uncompletedRequests'[sock[d].fd] = uncompletedRequests[sock[d].fd]
      <3>1. sock[d].st = "open" => sock[d].fd \in Fds \ {fd}
        BY <1>0, <1>3 DEF CoreInv, FdInv
      <3> QED
        BY <1>1, <1>7, <3>1 DEF SameUnits
    <2>2. sock' = sock /\ requests'[c] = msgs /\ uncompletedRequests'[sock'[c].fd] = <<>>
      BY <1>1, <1>7
    <2>3. \A r : Ordered(c, sock[c].put, <<>>) /\ Before(<<>>, r) /\ Before(r, <<>>)
      BY EmptyOrdered
    <2> HIDE DEF msgs
    <2> QED
      BY <1>3, <1>4, <1>5, <2>1, <2>2, <2>3, OneConnection
  <1> QED
    BY <1>9, <1>10, <1>11, <1>12 DEF HttpInv

(* The end: what was read is dropped.                                      *)
LEMMA EndReadKeeps ==
  ASSUME HttpInv, NEW w \in Workers, NEW t \in Frames, ReadEnd(w, t)
  PROVE  HttpInv'
  <1> DEFINE c == code[t].conn
             fd == sock[c].fd
             b == sock[c].told \/ ReadResult(c) = "reset"
  <1>0. CoreInv(Units) /\ TableType
    BY DEF HttpInv
  <1>1. /\ On(w, t, "handler")
        /\ uncompletedRequests' = [uncompletedRequests EXCEPT ![fd] = <<>>]
        /\ holder' = [holder EXCEPT ![w] = None] /\ frame' = [frame EXCEPT ![t] = "done"]
        /\ UNCHANGED <<binding, queue, code, events, ready, ended, requests>>
    BY DEF ReadEnd, Return, eraseBuffer, epollVars
  <1>2. /\ c \in Conns /\ sock[c].st = "open" /\ fd \in Fds
        /\ Reads(t, fd) /\ holder[w] = t /\ t \in Tasks /\ sock[c] \in Sockets(Units)
        /\ \A d \in Conns \ {c} : sock[d].fd # fd
    BY <1>1, ReaderFacts
  <1>3. /\ sock' \in [Conns -> Sockets(Units)]
        /\ \A d \in Conns : SameEnds(d) /\ sock'[d].in = sock[d].in /\ sock'[d].put = sock[d].put
    <2>1. b \in BOOLEAN
      BY <1>2 DEF Sockets
    <2>2. sock' = [sock EXCEPT ![c].told = b]
      BY <1>0, <1>2 DEF ReadEnd, CoreInv, DataType
    <2> HIDE DEF b, c
    <2> QED
      BY <1>0, <1>2, <2>1, <2>2, ToldChange
  <1> HIDE DEF b, c
  <1>4. /\ uncompletedRequests' \in [Fds -> Seq(Units)]
        /\ uncompletedRequests'[fd] = <<>>
        /\ \A e \in Fds \ {fd} : uncompletedRequests'[e] = uncompletedRequests[e]
    <2> HIDE DEF fd
    <2> QED
      BY <1>0, <1>1, <1>2 DEF TableType
  <1>5. CoreInv(Units)'
    <2>1. ended \in {"no", "freed", "thrown", "sigpipe"}
      BY <1>0 DEF CoreInv, EventType
    <2>2. DataType(Units)'
      BY <1>0, <1>1, <1>3 DEF CoreInv, DataType
    <2>3. \A u \in Frames : SameTask(u)
      BY <1>1 DEF SameTask
    <2>4. Going(w, t, Units)
      BY <1>1, <1>2, <1>3, <2>1, <2>2, <2>3 DEF Going
    <2> QED
      BY <1>0, <2>4, GoingKeeps
  <1>6. TableType'
    BY <1>0, <1>1, <1>4 DEF TableType
  <1>7. TableInv'
    <2>1. \A u \in Frames \ {t} : code'[u] = code[u] /\ frame'[u] = frame[u]
      BY <1>0, <1>1, ConstantsFacts DEF CoreInv, PoolType
    <2>2. c = code[t].conn
      BY DEF c
    <2>3. \A d \in Conns : sock'[d].fd = sock[d].fd
      BY <1>3 DEF SameEnds
    <2> QED
      BY <1>1, <1>4, <2>1, <2>2, <2>3, TableAfter
  <1>8. ArrivedInv' /\ MessageInv' /\ BufferInv'
    <2>1. ASSUME NEW d \in Conns \ {c}
          PROVE  /\ SameUnits(d) /\ requests'[d] = requests[d]
                 /\ sock[d].st = "open" =>
                      uncompletedRequests'[sock[d].fd] = uncompletedRequests[sock[d].fd]
      <3>1. sock[d].st = "open" => sock[d].fd \in Fds \ {fd}
        BY <1>0, <1>2 DEF CoreInv, FdInv
      <3> QED
        BY <1>1, <1>3, <1>4, <3>1 DEF SameUnits, SameEnds
    <2>2. /\ sock'[c].in = sock[c].in /\ sock'[c].put = sock[c].put
          /\ requests' = requests /\ uncompletedRequests'[sock'[c].fd] = <<>>
      BY <1>1, <1>2, <1>3, <1>4 DEF SameEnds
    <2>3. \A r : Ordered(c, sock[c].put, <<>>) /\ Before(<<>>, r) /\ Before(r, <<>>)
      BY EmptyOrdered
    <2>4. /\ Ordered(c, sock[c].put, sock[c].in)
          /\ \A k \in 1..Len(requests[c]) :
               /\ Ordered(c, sock[c].put, requests[c][k])
               /\ Before(requests[c][k], sock[c].in)
               /\ \A j \in 1..(k - 1) : Before(requests[c][j], requests[c][k])
      BY <1>2 DEF HttpInv, ArrivedInv, MessageInv
    <2> QED
      BY <1>2, <2>1, <2>2, <2>3, <2>4, OneConnection
  <1> QED
    BY <1>5, <1>6, <1>7, <1>8 DEF HttpInv

(* A new connection: nothing is left under the descriptor it gets.         *)
LEMMA NewConnectionKeeps ==
  ASSUME HttpInv, NEW w \in Workers, NEW c \in Conns, Accept(w, c), UNCHANGED readVars
  PROVE  HttpInv'
  <1> DEFINE n == NewFrame
             fd == LowestFd
  <1>0. CoreInv(Units) /\ TableType
    BY DEF HttpInv
  <1>1. CoreInv(Units)'
    BY <1>0, AcceptKeeps
  <1>2. /\ fd \in Fds /\ \A d \in Conns : sock[d].fd # fd
        /\ frame[n] = "free"
        /\ \A u \in Tasks \ {n} : code'[u] = code[u] /\ frame'[u] = frame[u]
        /\ \A d \in Conns \ {c} : sock'[d] = sock[d]
        /\ sock'[c].st = "open" /\ sock'[c].fd = fd
        /\ sock'[c].in = sock[c].in /\ sock'[c].put = sock[c].put
    BY <1>0, AcceptIs
  <1>3. sock[c].st = "backlog" /\ uncompletedRequests' = uncompletedRequests /\ requests' = requests
    BY DEF Accept, readVars
  <1> HIDE DEF n, fd
  <1>4. TableType'
    BY <1>0, <1>3 DEF TableType
  <1>5. ASSUME NEW e \in Fds, uncompletedRequests[e] # <<>>
        PROVE  \E t \in Frames : /\ t # n /\ Reads(t, e) /\ code[t].conn \in Conns \ {c}
    <2>1. PICK t \in Frames : Reads(t, e)
      BY <1>5 DEF HttpInv, TableInv, getBuffer
    <2>2. t # n /\ code[t].conn \in Conns /\ sock[code[t].conn].st = "open"
      BY <1>0, <1>2, <2>1 DEF CoreInv, FrameInv, Reads
    <2> QED
      BY <1>3, <2>1, <2>2
  <1>6. TableInv'
    <2> SUFFICES ASSUME NEW e \in Fds, uncompletedRequests'[e] # <<>>
                 PROVE  \E t \in Frames : Reads(t, e)'
      BY DEF TableInv, getBuffer
    <2>1. PICK t \in Frames : t # n /\ Reads(t, e) /\ code[t].conn \in Conns \ {c}
      BY <1>3, <1>5
    <2>2. code'[t] = code[t] /\ frame'[t] = frame[t] /\ sock'[code[t].conn] = sock[code[t].conn]
      BY <1>2, <2>1, ConstantsFacts
    <2>3. Reads(t, e)'
      BY <2>1, <2>2 DEF Reads
    <2> QED
      BY <2>3
  <1>7. uncompletedRequests[fd] = <<>>
    <2> SUFFICES ASSUME uncompletedRequests[fd] # <<>> PROVE FALSE
      OBVIOUS
    <2>1. PICK t \in Frames : Reads(t, fd) /\ code[t].conn \in Conns
      BY <1>2, <1>5
    <2> QED
      BY <1>2, <2>1 DEF Reads
  <1>8. ArrivedInv' /\ MessageInv' /\ BufferInv'
    <2>1. ASSUME NEW d \in Conns \ {c}
          PROVE  /\ SameUnits(d) /\ requests'[d] = requests[d]
                 /\ sock[d].st = "open" =>
                      uncompletedRequests'[sock[d].fd] = uncompletedRequests[sock[d].fd]
      BY <1>2, <1>3 DEF SameUnits
    <2>2. uncompletedRequests'[sock'[c].fd] = <<>>
      BY <1>2, <1>3, <1>7
    <2>3. \A r : Ordered(c, sock[c].put, <<>>) /\ Before(<<>>, r) /\ Before(r, <<>>)
      BY EmptyOrdered
    <2>4. /\ Ordered(c, sock[c].put, sock[c].in)
          /\ \A k \in 1..Len(requests[c]) :
               /\ Ordered(c, sock[c].put, requests[c][k])
               /\ Before(requests[c][k], sock[c].in)
               /\ \A j \in 1..(k - 1) : Before(requests[c][j], requests[c][k])
      BY DEF HttpInv, ArrivedInv, MessageInv
    <2> QED
      BY <1>2, <1>3, <2>1, <2>2, <2>3, <2>4, OneConnection
  <1> QED
    BY <1>1, <1>4, <1>6, <1>8 DEF HttpInv

LEMMA OrderedGrows ==
  ASSUME NEW c \in Conns, NEW p \in Nat, NEW s \in Seq(Units), Ordered(c, p, s)
  PROVE  Ordered(c, p + 1, s)
  <1>1. \A j \in 1..Len(s) : s[j].conn = c /\ s[j].n <= p /\ s[j].n \in Nat
    BY UnitsFacts DEF Ordered, Own
  <1>2. Own(c, p + 1, s)
    BY <1>1 DEF Own
  <1> QED
    BY <1>2 DEF Ordered

(* The peer of c sends a unit.                                             *)
LEMMA UnitSentKeeps ==
  ASSUME HttpInv, NEW c \in Conns, NEW last \in BOOLEAN,
         PeerSend(c, [conn |-> c, n |-> sock[c].put + 1, last |-> last]),
         UNCHANGED readVars
  PROVE  HttpInv'
  <1> DEFINE data == [conn |-> c, n |-> sock[c].put + 1, last |-> last]
             p == sock[c].put
             in == sock[c].in
  <1>0. CoreInv(Units) /\ TableType
    BY DEF HttpInv
  <1>1. /\ p \in Nat /\ in \in Seq(Units) /\ requests[c] \in Seq(Seq(Units))
        /\ sock[c].st = "open" => sock[c].fd \in Fds
    BY <1>0, ConstantsAssumption DEF CoreInv, DataType, Sockets, TableType, FdInv
  <1>2. data \in Units /\ data.conn = c /\ data.n = p + 1
    <2>1. p + 1 \in 1..MaxSends
      BY <1>1, ConstantsAssumption DEF PeerSend
    <2> QED
      BY <2>1 DEF Units
  <1> HIDE DEF data
  <1>3. PeerSend(c, data)
    BY DEF data
  <1>4. CoreInv(Units)'
    BY <1>0, <1>2, <1>3, PeerSendKeeps
  <1>5. /\ \A d \in Conns \ {c} : sock'[d] = sock[d]
        /\ sock'[c].in = Append(in, data) /\ sock'[c].put = p + 1
        /\ sock'[c].st = sock[c].st /\ sock'[c].fd = sock[c].fd
    BY <1>0, <1>2, <1>3, PeerSendIs
  <1>6. UNCHANGED <<frame, code, uncompletedRequests, requests>>
    BY <1>3 DEF PeerSend, readVars
  <1>7. TableType'
    BY <1>0, <1>6 DEF TableType
  <1>8. TableInv'
    <2>1. \A d \in Conns : sock'[d].fd = sock[d].fd
      BY <1>5
    <2> SUFFICES ASSUME NEW e \in Fds, uncompletedRequests'[e] # <<>>
                 PROVE  \E t \in Frames : Reads(t, e)'
      BY DEF TableInv, getBuffer
    <2>2. PICK t \in Frames : Reads(t, e)
      BY <1>6 DEF HttpInv, TableInv, getBuffer
    <2>3. code[t].conn \in Conns
      BY <1>0, <2>2 DEF CoreInv, FrameInv, Reads
    <2>4. Reads(t, e)'
      BY <1>6, <2>1, <2>2, <2>3 DEF Reads
    <2> QED
      BY <2>4
  <1> HIDE DEF p, in
  <1>9. /\ Ordered(c, p, in)
        /\ \A k \in 1..Len(requests[c]) :
             /\ requests[c][k] \in Seq(Units)
             /\ Ordered(c, p, requests[c][k]) /\ Before(requests[c][k], in)
             /\ \A j \in 1..(k - 1) : Before(requests[c][j], requests[c][k])
    <2>1. \A k \in 1..Len(requests[c]) : requests[c][k] \in Seq(Units)
      BY <1>1
    <2> QED
      BY <2>1 DEF HttpInv, ArrivedInv, MessageInv, p, in
  <1>10. /\ Ordered(c, p + 1, Append(in, data))
         /\ \A r \in Seq(Units) : Own(c, p, r) /\ Before(r, in) => Before(r, Append(in, data))
    BY <1>1, <1>2, <1>9, SendOrdered
  <1>11. \A k \in 1..Len(requests[c]) :
           Ordered(c, p + 1, requests[c][k]) /\ Before(requests[c][k], Append(in, data))
    BY <1>1, <1>9, <1>10, OrderedGrows DEF Ordered
  <1>12. sock[c].st = "open" =>
           /\ Ordered(c, p + 1, uncompletedRequests[sock[c].fd])
           /\ Before(uncompletedRequests[sock[c].fd], Append(in, data))
           /\ \A k \in 1..Len(requests[c]) :
                Before(requests[c][k], uncompletedRequests[sock[c].fd])
    <2> SUFFICES ASSUME sock[c].st = "open"
                 PROVE  /\ Ordered(c, p + 1, uncompletedRequests[sock[c].fd])
                        /\ Before(uncompletedRequests[sock[c].fd], Append(in, data))
                        /\ \A k \in 1..Len(requests[c]) :
                             Before(requests[c][k], uncompletedRequests[sock[c].fd])
      OBVIOUS
    <2> DEFINE buf == uncompletedRequests[sock[c].fd]
    <2>1. /\ Ordered(c, p, buf) /\ Before(buf, in) /\ buf \in Seq(Units)
          /\ \A k \in 1..Len(requests[c]) : Before(requests[c][k], buf)
      BY <1>0, <1>1 DEF HttpInv, BufferInv, TableType, getBuffer, p, in
    <2> HIDE DEF buf
    <2>2. Ordered(c, p + 1, buf) /\ Before(buf, Append(in, data))
      BY <1>1, <1>10, <2>1, OrderedGrows DEF Ordered
    <2> QED
      BY <2>1, <2>2 DEF buf
  <1>13. ArrivedInv' /\ MessageInv' /\ BufferInv'
    <2>1. ASSUME NEW d \in Conns \ {c}
          PROVE  /\ SameUnits(d) /\ requests'[d] = requests[d]
                 /\ sock[d].st = "open" =>
                      uncompletedRequests'[sock[d].fd] = uncompletedRequests[sock[d].fd]
      BY <1>5, <1>6 DEF SameUnits
    <2>2. Ordered(c, sock'[c].put, sock'[c].in)
      BY <1>5, <1>10
    <2>3. \A k \in 1..Len(requests'[c]) :
            /\ Ordered(c, sock'[c].put, requests'[c][k])
            /\ Before(requests'[c][k], sock'[c].in)
            /\ \A j \in 1..(k - 1) : Before(requests'[c][j], requests'[c][k])
      BY <1>5, <1>6, <1>9, <1>11
    <2>4. sock'[c].st = "open" =>
            /\ Ordered(c, sock'[c].put, uncompletedRequests'[sock'[c].fd])
            /\ Before(uncompletedRequests'[sock'[c].fd], sock'[c].in)
            /\ \A k \in 1..Len(requests'[c]) :
                 Before(requests'[c][k], uncompletedRequests'[sock'[c].fd])
      BY <1>5, <1>6, <1>12
    <2> QED
      BY <2>1, <2>2, <2>3, <2>4, OneConnection
  <1> QED
    BY <1>4, <1>7, <1>8, <1>13 DEF HttpInv

(* The cleaner: a socket that somebody reads stays open.                   *)
LEMMA CleanRoundKeeps ==
  ASSUME HttpInv, Clean, UNCHANGED readVars
  PROVE  HttpInv'
  <1>0. CoreInv(Units) /\ TableType
    BY DEF HttpInv
  <1>1. CoreInv(Units)'
    BY <1>0, CleanKeepsCore
  <1>2. /\ \A c \in GoneConns : sock'[c].st = "closed" /\ sock'[c].in = <<>>
        /\ \A c \in Conns \ GoneConns : sock'[c] = sock[c]
        /\ \A c \in Conns : sock'[c].put = sock[c].put
    BY <1>0, CleanSockets
  <1>3. /\ frame' = [t \in Tasks |-> IF t \in Cleanable THEN "free" ELSE frame[t]]
        /\ code' = [t \in Tasks |-> IF t \in Cleanable THEN Blank ELSE code[t]]
        /\ uncompletedRequests' = uncompletedRequests /\ requests' = requests
    BY DEF Clean, readVars
  <1>4. TableType'
    BY <1>0, <1>3 DEF TableType
  <1>5. TableInv'
    <2> SUFFICES ASSUME NEW e \in Fds, uncompletedRequests'[e] # <<>>
                 PROVE  \E t \in Frames : Reads(t, e)'
      BY DEF TableInv, getBuffer
    <2>1. PICK t \in Frames : Reads(t, e)
      BY <1>3 DEF HttpInv, TableInv, getBuffer
    <2>2. t \notin Cleanable /\ code[t].conn \in Conns
      BY <1>0, <2>1 DEF Reads, Cleanable, CoreInv, FrameInv
    <2>3. t \in Owners(code[t].conn)
      BY <2>1 DEF Owners, Reads
    <2>4. code[t].conn \notin GoneConns
      BY <2>2, <2>3 DEF GoneConns
    <2>5. code'[t] = code[t] /\ frame'[t] = frame[t] /\ sock'[code[t].conn] = sock[code[t].conn]
      BY <1>2, <1>3, <2>2, <2>4, ConstantsFacts
    <2>6. Reads(t, e)'
      BY <2>1, <2>5 DEF Reads
    <2> QED
      BY <2>6
  <1>6. \A c \in Conns : \A r : /\ Ordered(c, sock[c].put, <<>>)
                               /\ Before(r, <<>>)
    BY EmptyOrdered
  <1>7. ArrivedInv'
    <2> SUFFICES ASSUME NEW c \in Conns PROVE Ordered(c, sock'[c].put, sock'[c].in)
      BY DEF ArrivedInv
    <2> QED
      BY <1>2, <1>6 DEF HttpInv, ArrivedInv
  <1>8. MessageInv'
    <2> SUFFICES ASSUME NEW c \in Conns, NEW k \in 1..Len(requests[c])
                 PROVE  /\ Ordered(c, sock'[c].put, requests[c][k])
                        /\ Before(requests[c][k], sock'[c].in)
                        /\ \A j \in 1..(k - 1) : Before(requests[c][j], requests[c][k])
      BY <1>3 DEF MessageInv
    <2>1. /\ Ordered(c, sock[c].put, requests[c][k])
          /\ Before(requests[c][k], sock[c].in)
          /\ \A j \in 1..(k - 1) : Before(requests[c][j], requests[c][k])
      BY DEF HttpInv, MessageInv
    <2> QED
      BY <1>2, <1>6, <2>1
  <1>9. BufferInv'
    <2> SUFFICES ASSUME NEW c \in Conns, sock'[c].st = "open"
                 PROVE  /\ Ordered(c, sock'[c].put, uncompletedRequests[sock'[c].fd])
                        /\ Before(uncompletedRequests[sock'[c].fd], sock'[c].in)
                        /\ \A k \in 1..Len(requests[c]) :
                             Before(requests[c][k], uncompletedRequests[sock'[c].fd])
      BY <1>3 DEF BufferInv, getBuffer
    <2>1. sock'[c] = sock[c]
      BY <1>2
    <2> QED
      BY <2>1 DEF HttpInv, BufferInv, getBuffer
  <1> QED
    BY <1>1, <1>4, <1>5, <1>7, <1>8, <1>9 DEF HttpInv

-----------------------------------------------------------------------------
(* The theorems.                                                           *)

LEMMA StartHolds ==
  ASSUME Init
  PROVE  HttpInv
  <1>1. CoreInv(Units)
    BY InitKeeps DEF Init
  <1>2. /\ uncompletedRequests = [fd \in Fds |-> <<>>]
        /\ requests = [c \in Conns |-> <<>>]
        /\ sock = [c \in Conns |-> NoSock]
    BY DEF Init, InitCore
  <1>3. TableType
    BY <1>2 DEF TableType
  <1>4. TableInv
    BY <1>2 DEF TableInv, getBuffer
  <1>5. \A c \in Conns : sock[c].in = <<>> /\ sock[c].st # "open" /\ requests[c] = <<>>
    BY <1>2 DEF NoSock
  <1>6. ArrivedInv
    BY <1>5, EmptyOrdered DEF ArrivedInv
  <1>7. MessageInv
    BY <1>5 DEF MessageInv
  <1>8. BufferInv
    BY <1>5 DEF BufferInv
  <1> QED
    BY <1>1, <1>3, <1>4, <1>6, <1>7, <1>8 DEF HttpInv

LEMMA HandlerKeeps ==
  ASSUME HttpInv, NEW w \in Workers, NEW t \in Frames, Handler(w, t)
  PROVE  HttpInv'
  <1>1. ASSUME ReadAgain(w, t) PROVE HttpInv'
    <2>1. CASE Completed(getBuffer(sock[code[t].conn].fd))
      BY <1>1, <2>1, RequestReadKeeps
    <2>2. CASE ~Completed(getBuffer(sock[code[t].conn].fd))
      BY <1>1, <2>2, PollKeeps
    <2> QED
      BY <2>1, <2>2
  <1>2. ASSUME NEW file \in BOOLEAN, NEW close \in BOOLEAN, StartResponse(w, t, file, close)
        PROVE  HttpInv'
    BY <1>2, StartResponseKeeps
  <1>3. ASSUME \/ SendHead(w, t) \/ OpenFail(w, t) \/ OpenFile(w, t)
               \/ SendBody(w, t) \/ SendAgain(w, t) \/ SendError(w, t)
        PROVE  HttpInv'
    BY <1>3, ResponseSteps
  <1>4. ASSUME ResponseThrow(w, t) \/ OpenThrow(w, t) \/ SendSignal(w, t) PROVE HttpInv'
    BY <1>4, ThrowSteps
  <1> QED
    BY <1>1, <1>2, <1>3, <1>4, ReadMoreKeeps, EndReadKeeps DEF Handler

LEMMA LoopKeeps ==
  ASSUME HttpInv, NEW w \in Workers, Loop(w), UNCHANGED readVars
  PROVE  HttpInv'
  <1>1. QuietLoop(w) \/ \E c \in Conns : Accept(w, c)
    BY DEF Loop, QuietLoop
  <1> QED
    BY <1>1, QuietKeeps, NewConnectionKeeps

LEMMA PeerKeeps ==
  ASSUME HttpInv, NEW c \in Conns, Peer(c)
  PROVE  HttpInv'
  <1>1. CASE PeerConnect(c)
    <2>1. "fin" \in {"fin", "rst"} /\ UNCHANGED readVars
      BY DEF Peer
    <2> QED
      BY <1>1, <2>1, PeerQuietKeeps
  <1>2. CASE \E last \in BOOLEAN :
               PeerSend(c, [conn |-> c, n |-> sock[c].put + 1, last |-> last])
    <2>1. UNCHANGED readVars
      BY DEF Peer
    <2> QED
      BY <1>2, <2>1, UnitSentKeeps
  <1>3. CASE \E how \in {"fin", "rst"} : PeerClose(c, how)
    <2>1. PICK how \in {"fin", "rst"} : PeerClose(c, how)
      BY <1>3
    <2>2. UNCHANGED readVars
      BY DEF Peer
    <2> QED
      BY <2>1, <2>2, PeerQuietKeeps
  <1> QED
    BY <1>1, <1>2, <1>3 DEF Peer

(* HttpInv is an invariant of the server, whatever the numbers of workers, *)
(* frames, connections, descriptors and units.                             *)
THEOREM HttpInvariance == Spec => []HttpInv
  <1>1. Init => HttpInv
    BY StartHolds
  <1>2. HttpInv /\ [Next]_vars => HttpInv'
    <2> SUFFICES ASSUME HttpInv, [Next]_vars PROVE HttpInv'
      OBVIOUS
    <2>0. CoreInv(Units)
      BY DEF HttpInv
    <2>1. CASE UNCHANGED vars
      <3>1. UNCHANGED coreVars /\ UNCHANGED readVars
        BY <2>1 DEF vars, readVars
      <3>2. CoreInv(Units)'
        BY <2>0, <3>1, StutterKeeps
      <3>3. UNCHANGED <<frame, code, sock, readVars>>
        BY <3>1 DEF coreVars
      <3> QED
        BY <3>2, <3>3, OutsideKeeps
    <2>2. ASSUME NEW w \in Workers, Worker(w) PROVE HttpInv'
      BY <2>2, LoopKeeps, HandlerKeeps DEF Worker
    <2>3. CASE \E c \in Conns : Peer(c)
      BY <2>3, PeerKeeps
    <2>4. CASE Clean /\ UNCHANGED readVars
      BY <2>4, CleanRoundKeeps
    <2>5. CASE TouchFreed /\ UNCHANGED readVars
      <3>1. CoreInv(Units)'
        BY <2>0, <2>5, TouchFreedKeeps
      <3>2. UNCHANGED <<frame, code, sock, readVars>>
        BY <2>5 DEF TouchFreed
      <3> QED
        BY <3>1, <3>2, OutsideKeeps
    <2> QED
      BY <2>1, <2>2, <2>3, <2>4, <2>5 DEF Next
  <1> QED
    BY <1>1, <1>2, PTL DEF Spec

(* Each variable keeps its type: the type invariant of the server.         *)
THEOREM HttpTypeCorrect == Spec => []TypeOK
  <1>1. HttpInv => TypeOK
    <2> SUFFICES ASSUME HttpInv PROVE TypeOK
      OBVIOUS
    <2>1. CoreInv(Units) /\ TableType
      BY DEF HttpInv
    <2>2. TypeOKCore
      BY <2>1, CoreTypes
    <2>3. \A c \in Conns : sock[c].in \in Seq(Units)
      BY <2>1 DEF CoreInv, DataType, Sockets
    <2> QED
      BY <2>1, <2>2, <2>3 DEF TypeOK, TableType
  <1> QED
    BY <1>1, HttpInvariance, PTL

(* No handler and no response loses a resumption or gets rid of one: what  *)
(* others have added of it waits in its queue or runs.                     *)
THEOREM HttpWakesKept == Spec => []WakesKept
  <1>1. HttpInv => WakesKept
    BY CoreTypes DEF HttpInv
  <1> QED
    BY <1>1, HttpInvariance, PTL

(* A connection on which something has arrived, and whose handler has not  *)
(* run, still has an event to come: edge-triggered, and none is missed.    *)
THEOREM HttpFirstEventComes == Spec => []FirstEventComes
  <1>1. HttpInv => FirstEventComes
    BY CoreTypes DEF HttpInv
  <1> QED
    BY <1>1, HttpInvariance, PTL

(* A message is made of units of its own peer, in order and after those of *)
(* earlier messages, although descriptors go from one connection to the    *)
(* next.                                                                   *)
THEOREM HttpRequestsFromOwnPeer == Spec => []RequestsFromOwnPeer
  <1>1. HttpInv => RequestsFromOwnPeer
    <2> SUFFICES ASSUME HttpInv, NEW c \in Conns
                 PROVE  LET msgs == requests[c] IN
                        /\ \A k \in 1..Len(msgs) :
                             /\ OwnAndAfter(c, <<>>, msgs[k])
                             /\ \A j \in 1..(k - 1) : OwnAndAfter(c, msgs[j], msgs[k])
                             /\ sock[c].st = "open" =>
                                  OwnAndAfter(c, msgs[k], getBuffer(sock[c].fd))
                        /\ sock[c].st = "open" => OwnAndAfter(c, <<>>, getBuffer(sock[c].fd))
      BY DEF RequestsFromOwnPeer
    <2> DEFINE msgs == requests[c]
               buf == getBuffer(sock[c].fd)
               p == sock[c].put
    <2>1. \A r, s : Ordered(c, p, s) /\ Before(r, s) => OwnAndAfter(c, r, s)
      BY DEF Ordered, Own, Rising, Before, OwnAndAfter
    <2>2. \A s : Before(<<>>, s)
      BY DEF Before
    <2>3. \A k \in 1..Len(msgs) :
            /\ Ordered(c, p, msgs[k])
            /\ \A j \in 1..(k - 1) : Before(msgs[j], msgs[k])
      BY DEF HttpInv, MessageInv
    <2>4. sock[c].st = "open" =>
            Ordered(c, p, buf) /\ \A k \in 1..Len(msgs) : Before(msgs[k], buf)
      BY DEF HttpInv, BufferInv
    <2> HIDE DEF p, buf, msgs
    <2>5. /\ \A k \in 1..Len(msgs) :
               /\ OwnAndAfter(c, <<>>, msgs[k])
               /\ \A j \in 1..(k - 1) : OwnAndAfter(c, msgs[j], msgs[k])
               /\ sock[c].st = "open" => OwnAndAfter(c, msgs[k], buf)
          /\ sock[c].st = "open" => OwnAndAfter(c, <<>>, buf)
      BY <2>1, <2>2, <2>3, <2>4
    <2> QED
      BY <2>5 DEF buf, msgs
  <1> QED
    BY <1>1, HttpInvariance, PTL

(* Nothing is left in the table of partial requests under a descriptor     *)
(* that is free, that a file has, or whose handler is done.                *)
THEOREM HttpPartialHasReader == Spec => []PartialHasReader
  <1>1. HttpInv => PartialHasReader
    <2> SUFFICES ASSUME HttpInv, NEW fd \in Fds, getBuffer(fd) # <<>>
                 PROVE  \E c \in Conns : sock[c].fd = fd /\ frame[sock[c].ptr] = "live"
      BY DEF PartialHasReader
    <2>1. PICK t \in Frames : Reads(t, fd)
      BY DEF HttpInv, TableInv
    <2>2. code[t].conn \in Conns /\ sock[code[t].conn].ptr = t
      BY <2>1 DEF Reads, HttpInv, CoreInv, FrameInv, PtrInv
    <2> QED
      BY <2>1, <2>2 DEF Reads
  <1> QED
    BY <1>1, HttpInvariance, PTL

-----------------------------------------------------------------------------
(* The descriptors of files are apart from those of connections.           *)
FileInv ==
  \A t \in Frames, c \in Conns : code[t].file # 0 => code[t].file # sock[c].fd

(* A step in which nobody gets a descriptor.                               *)
NoneTaken ==
  /\ \A t \in Frames : code'[t].file \in {code[t].file, 0}
  /\ \A c \in Conns : sock'[c].fd \in {sock[c].fd, 0}

LEMMA NoneTakenKeeps ==
  ASSUME FileInv, NoneTaken
  PROVE  FileInv'
  BY DEF FileInv, NoneTaken

(* The pool, epollWaitEvent, acceptAll without a connection, and the end   *)
(* of the process.                                                         *)
LEMMA PoolTakesNone ==
  ASSUME DataType(Units),
         \/ \E w \in Workers : QuietLoop(w)
         \/ Clean \/ TouchFreed
  PROVE  NoneTaken
  <1>0. code \in [Tasks -> Coroutines(Units)] /\ sock \in [Conns -> Sockets(Units)]
    BY DEF DataType
  <1>1. ASSUME NEW w \in Workers, QuietLoop(w) PROVE NoneTaken
    <2>1. UNCHANGED sock
      BY <1>1 DEF QuietLoop, RunTask, Yield, EpollWait, Dispatch, AcceptSuspend, AcceptThrow
    <2>2. \A t \in Frames : code'[t].file = code[t].file
      <3>1. CASE RunTask(w) \/ AcceptSuspend(w) \/ AcceptThrow(w)
        BY <3>1 DEF RunTask, AcceptSuspend, AcceptThrow
      <3>2. CASE Yield(w)
        BY <1>0, <3>2 DEF Yield, Coroutines, Tasks
      <3>3. CASE EpollWait(w)
        BY <1>0, <3>3 DEF EpollWait, Coroutines, Tasks
      <3>4. CASE \E s \in Sources : Dispatch(w, s)
        BY <1>0, <3>4 DEF Dispatch, Coroutines, Tasks
      <3> QED
        BY <1>1, <3>1, <3>2, <3>3, <3>4 DEF QuietLoop
    <2> QED
      BY <2>1, <2>2 DEF NoneTaken
  <1>2. CASE Clean
    <2>1. \A t \in Tasks : code'[t] = code[t] \/ code'[t] = Blank
      BY <1>2 DEF Clean
    <2>2. \A c \in Conns : sock'[c].fd \in {sock[c].fd, 0}
      BY <1>0, <1>2 DEF Clean, Sockets
    <2> QED
      BY <2>1, <2>2 DEF NoneTaken, Blank, Tasks
  <1>3. CASE TouchFreed
    BY <1>3 DEF TouchFreed, NoneTaken
  <1> QED
    BY <1>1, <1>2, <1>3

LEMMA PeerTakesNone ==
  ASSUME DataType(Units), NEW c \in Conns, Peer(c)
  PROVE  NoneTaken
  <1>0. sock \in [Conns -> Sockets(Units)]
    BY DEF DataType
  <1>1. UNCHANGED code
    BY DEF Peer, PeerConnect, PeerSend, PeerClose
  <1>2. \A d \in Conns : sock'[d].fd = sock[d].fd
    <2>1. CASE PeerConnect(c)
      BY <1>0, <2>1 DEF PeerConnect, Sockets
    <2>2. ASSUME NEW data, PeerSend(c, data) PROVE \A d \in Conns : sock'[d].fd = sock[d].fd
      BY <1>0, <2>2 DEF PeerSend, Sockets
    <2>3. ASSUME NEW how, PeerClose(c, how) PROVE \A d \in Conns : sock'[d].fd = sock[d].fd
      BY <1>0, <2>3 DEF PeerClose, Sockets
    <2> QED
      BY <2>1, <2>2, <2>3 DEF Peer
  <1> QED
    BY <1>1, <1>2 DEF NoneTaken

(* The handler and the response, but for file.open.                        *)
LEMMA HandlerTakesNone ==
  ASSUME DataType(Units), NEW w \in Workers, NEW t \in Frames,
         Handler(w, t), ~OpenFile(w, t)
  PROVE  NoneTaken
  <1>0. code \in [Tasks -> Coroutines(Units)] /\ sock \in [Conns -> Sockets(Units)]
    BY DEF DataType
  <1> USE DEF NoneTaken
  <1>1. ASSUME NEW fits \in BOOLEAN, ReadMore(w, t, fits) PROVE NoneTaken
    <2>1. \A c \in Conns : sock'[c].fd = sock[c].fd
      BY <1>0, <1>1 DEF ReadMore, Sockets
    <2>2. \A u \in Frames : code'[u].file = code[u].file
      BY <1>0, <1>1 DEF ReadMore, Coroutines, Tasks
    <2> QED
      BY <2>1, <2>2
  <1>2. CASE ReadAgain(w, t)
    <2>1. \A u \in Frames : code'[u].file = code[u].file
      BY <1>0, <1>2 DEF ReadAgain, Coroutines, Tasks
    <2> QED
      BY <1>2, <2>1 DEF ReadAgain
  <1>3. CASE ReadEnd(w, t)
    BY <1>0, <1>3 DEF ReadEnd, Sockets
  <1>4. ASSUME NEW file \in BOOLEAN, NEW close \in BOOLEAN, StartResponse(w, t, file, close)
        PROVE  NoneTaken
    <2>1. PICK new : /\ new.file = 0
                     /\ code' = [code EXCEPT ![t].at = "run", ![t].part = "head", ![NewFrame] = new]
      <3>1. DEFINE r == Spawned("respond", code[t].conn)
                   new == [r EXCEPT !.part = "new", !.size = IF file THEN 1 ELSE 0]
      <3>2. r.file = 0
        BY DEF Spawned, Fresh, Blank
      <3>3. code' = [code EXCEPT ![t].at = "run", ![t].part = "head", ![NewFrame] = new]
        BY <1>4 DEF StartResponse
      <3>4. new.file = 0
        BY <3>2 DEF Spawned, Fresh, Blank
      <3> HIDE DEF r, new
      <3> QED
        BY <3>3, <3>4
    <2>2. \A u \in Frames : code'[u].file \in {code[u].file, 0}
      BY <1>0, <2>1 DEF Coroutines, Tasks
    <2> QED
      BY <1>4, <2>2 DEF StartResponse
  <1>5. CASE ResponseThrow(w, t) \/ OpenThrow(w, t) \/ SendSignal(w, t)
    BY <1>5 DEF ResponseThrow, OpenThrow, SendSignal
  <1>6. ASSUME ResponseReturn(w, t) PROVE \A u \in Frames : code'[u].file \in {code[u].file, 0}
    BY <1>0, <1>6 DEF ResponseReturn, Coroutines, Tasks
  <1>7. CASE SendHead(w, t)
    <2>1. \A u \in Frames : code'[u].file \in {code[u].file, 0}
      <3>1. CASE ResponseReturn(w, t)
        BY <1>6, <3>1
      <3>2. CASE code' = [code EXCEPT ![t].part = "open"]
        BY <1>0, <3>2 DEF Coroutines, Tasks
      <3> QED
        BY <1>7, <3>1, <3>2 DEF SendHead
    <2> QED
      BY <1>7, <2>1 DEF SendHead
  <1>8. CASE OpenFail(w, t) \/ SendBody(w, t)
    BY <1>6, <1>8 DEF OpenFail, SendBody
  <1>9. CASE SendAgain(w, t)
    <2>1. \A u \in Frames : code'[u].file = code[u].file
      BY <1>0, <1>9 DEF SendAgain, Coroutines, Tasks
    <2> QED
      BY <1>9, <2>1 DEF SendAgain
  <1>10. CASE SendError(w, t)
    <2>1. \A c \in Conns : sock'[c].fd = sock[c].fd
      BY <1>0, <1>10 DEF SendError, Sockets
    <2> QED
      BY <1>6, <1>10, <2>1 DEF SendError
  <1> QED
    BY <1>1, <1>2, <1>3, <1>4, <1>5, <1>7, <1>8, <1>9, <1>10 DEF Handler

(* accept and open take a descriptor that neither a connection nor a file  *)
(* has.                                                                    *)
LEMMA AcceptKeepsFiles ==
  ASSUME HttpInv, FileInv, NEW w \in Workers, NEW c \in Conns, Accept(w, c)
  PROVE  FileInv'
  <1>0. code \in [Tasks -> Coroutines(Units)] /\ sock \in [Conns -> Sockets(Units)]
    BY DEF HttpInv, CoreInv, DataType
  <1>1. LowestFd \notin UsedFds
    BY LowestIsFree DEF Accept, FreeFds
  <1>2. \A t \in Frames : code'[t].file \in {code[t].file, 0}
    <2>1. Fresh("handler", c).file = 0
      BY DEF Fresh, Blank
    <2>2. code' = [code EXCEPT ![NewFrame] = Fresh("handler", c)]
      BY DEF Accept
    <2> QED
      BY <1>0, <2>1, <2>2 DEF Tasks
  <1>3. \A d \in Conns : sock'[d].fd \in {sock[d].fd, LowestFd}
    BY <1>0 DEF Accept, Sockets
  <1> QED
    BY <1>1, <1>2, <1>3 DEF FileInv, UsedFds

LEMMA OpenKeepsFiles ==
  ASSUME HttpInv, FileInv, NEW w \in Workers, NEW t \in Frames, OpenFile(w, t)
  PROVE  FileInv'
  <1>0. code \in [Tasks -> Coroutines(Units)]
    BY DEF HttpInv, CoreInv, DataType
  <1>1. LowestFd \notin UsedFds
    BY LowestIsFree DEF OpenFile, FreeFds
  <1>2. \A u \in Frames : code'[u].file \in {code[u].file, LowestFd}
    BY <1>0 DEF OpenFile, Coroutines, Tasks
  <1>3. UNCHANGED sock
    BY DEF OpenFile
  <1> QED
    BY <1>1, <1>2, <1>3 DEF FileInv, UsedFds

(* A handler and the responses it leaves behind send on the descriptor of  *)
(* their own connection, and on no file or later connection that has got   *)
(* the same number.                                                        *)
THEOREM HttpOpsOnOwnDescriptor == Spec => []OpsOnOwnDescriptor
  <1>1. Init => FileInv
    BY DEF Init, InitCore, FileInv, Blank, Tasks, Loops
  <1>2. HttpInv /\ FileInv /\ [Next]_vars => FileInv'
    <2> SUFFICES ASSUME HttpInv, FileInv, [Next]_vars PROVE FileInv'
      OBVIOUS
    <2>0. DataType(Units)
      BY DEF HttpInv, CoreInv
    <2>1. ASSUME NEW w \in Workers, Loop(w) PROVE FileInv'
      <3>1. QuietLoop(w) \/ \E c \in Conns : Accept(w, c)
        BY <2>1 DEF Loop, QuietLoop
      <3> QED
        BY <2>0, <3>1, PoolTakesNone, NoneTakenKeeps, AcceptKeepsFiles
    <2>2. ASSUME NEW w \in Workers, NEW t \in Frames, Handler(w, t) PROVE FileInv'
      BY <2>0, <2>2, HandlerTakesNone, NoneTakenKeeps, OpenKeepsFiles
    <2>3. ASSUME NEW c \in Conns, Peer(c) PROVE FileInv'
      BY <2>0, <2>3, PeerTakesNone, NoneTakenKeeps
    <2>4. CASE Clean \/ TouchFreed
      BY <2>0, <2>4, PoolTakesNone, NoneTakenKeeps
    <2>5. CASE UNCHANGED vars
      BY <2>5 DEF vars, coreVars, FileInv
    <2> QED
      BY <2>1, <2>2, <2>3, <2>4, <2>5 DEF Next, Worker
  <1>3. HttpInv /\ FileInv => OpsOnOwnDescriptor
    <2> SUFFICES ASSUME HttpInv, FileInv, NEW t \in Frames, frame[t] # "free"
                 PROVE  LET c == code[t].conn IN
                        /\ sock[c].st = "open"
                        /\ \A d \in Conns \ {c} : sock[d].st = "open" => sock[d].fd # sock[c].fd
                        /\ \A u \in Frames : code[u].file # sock[c].fd
      BY DEF OpsOnOwnDescriptor
    <2>1. code[t].conn \in Conns /\ sock[code[t].conn].st = "open"
      BY DEF HttpInv, CoreInv, FrameInv
    <2>2. /\ sock[code[t].conn].fd \in Fds
          /\ \A d \in Conns : sock[d].fd = sock[code[t].conn].fd => d = code[t].conn
      BY <2>1 DEF HttpInv, CoreInv, FdInv
    <2>3. sock[code[t].conn].fd # 0
      BY <2>2 DEF Fds
    <2> QED
      BY <2>1, <2>2, <2>3 DEF FileInv
  <1> QED
    BY <1>1, <1>2, <1>3, HttpInvariance, PTL DEF Spec

=============================================================================

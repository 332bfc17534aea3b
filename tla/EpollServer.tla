---------------------------- MODULE EpollServer -----------------------------
(***************************************************************************)
(* What the two epoll demos share: the loop of include/async/Epoll.hpp     *)
(* that turns events into addTask calls, acceptAll and the sockets of      *)
(* include/http/Socket.hpp, and the coroutines they run on the pool.       *)
(* EchoServer and HttpServer add the handlers.                             *)
(*                                                                         *)
(* Of the thread pool the model uses what ThreadPool establishes: a handle *)
(* is bound to one worker and runs from its queue, in order; a resumed     *)
(* coroutine owns cleanWorkMutex in shared mode, so a round of cleanTasks  *)
(* is one step that happens while no worker is inside a coroutine.         *)
(***************************************************************************)
EXTENDS Integers, Sequences, FiniteSets

CONSTANTS
  Workers,         \* the pool's threads
  Frames,          \* addresses for the coroutines of the connections
  Waiter,          \* the frame of epollWaitEvent
  Acceptor,        \* the frame of acceptAll
  Listener,        \* the listening socket, as a source of events
  Conns,           \* connections that peers may open
  None,
  Timed,           \* epoll_wait has a timeout (httptest) or none (epolltest)
  MaxEvents,       \* events one epoll_wait returns (maxevents, 128)
  MaxFds,          \* descriptors the process may have besides its own
  CleanThreshold,  \* bindings below which cleanTasks skips a round (10000)
  MaxSends,        \* bound: what one peer sends
  MaxEntries,      \* bound: entries of acceptAll in its worker's queue
  Resets,          \* bound: whether peers may reset a connection
  AcceptFails      \* bound: whether accept may fail for another reason than
                   \* an empty backlog or a lack of descriptors

Loops == {Waiter, Acceptor}
Tasks == Frames \cup Loops
Sources == Conns \cup {Listener}
Fds == 1..MaxFds

ASSUME ConstantsAssumption ==
  /\ IsFiniteSet(Tasks) /\ IsFiniteSet(Workers) /\ IsFiniteSet(Conns)
  /\ Workers # {}
  /\ Waiter # Acceptor
  /\ Frames \cap Loops = {}
  /\ Listener \notin Conns
  /\ None \notin Tasks \cup Workers \cup Sources
  /\ {MaxFds, CleanThreshold, MaxSends} \subseteq Nat
  /\ {MaxEvents, MaxEntries} \subseteq Nat \ {0}
  /\ {Timed, Resets, AcceptFails} \subseteq BOOLEAN

VARIABLES
  binding,  \* pool: handle -> worker, or None
  queue,    \* pool: handles waiting at each worker
  holder,   \* pool: the coroutine each worker is inside of
  frame,    \* state of each frame: free, live or done
  code,     \* what is in each frame
  events,   \* the events epollWaitEvent has not yet dispatched
  ready,    \* epoll: connections with an edge that was not reported
  sock,     \* each connection: both ends of its socket
  ended     \* "no", or why the process has ended

poolVars == <<binding, queue, holder>>
epollVars == <<events, ready>>
coreVars == <<poolVars, frame, code, epollVars, sock, ended>>

(* What a frame holds: the kind of coroutine and where it continues, its   *)
(* connection, how often others have added it to the pool (history), and   *)
(* the variables of the handlers.                                          *)
Blank == [kind |-> "none", at |-> "none", conn |-> None, wakes |-> 0,
          buf |-> <<>>, size |-> 0, part |-> "head", file |-> 0]

(* A connection: its descriptor and the address registered with it while   *)
(* it is open, what has arrived and was not read, how the peer has closed  *)
(* it and whether an operation has reported that error, what the peer has  *)
(* sent and what it was sent, and whether a send was short (history).      *)
NoSock == [st |-> "none", fd |-> 0, ptr |-> None, in |-> <<>>, fin |-> "no",
           told |-> FALSE, put |-> 0, out |-> <<>>, short |-> FALSE]

(* co_main: the listener is registered with acceptAll, which has not run;  *)
(* epollWaitEvent is added to the pool.                                    *)
InitCore ==
  /\ \E w \in Workers :
       /\ binding = [t \in Tasks |-> IF t = Waiter THEN w ELSE None]
       /\ queue = [v \in Workers |-> IF v = w THEN <<Waiter>> ELSE <<>>]
  /\ holder = [w \in Workers |-> None]
  /\ frame = [t \in Tasks |-> IF t \in Frames THEN "free" ELSE "live"]
  /\ code = [t \in Tasks |->
               CASE t = Waiter -> [Blank EXCEPT !.kind = "wait", !.at = "run"]
                 [] t = Acceptor -> [Blank EXCEPT !.kind = "accept", !.at = "run"]
                 [] OTHER -> Blank]
  /\ events = {}
  /\ ready = {}
  /\ sock = [c \in Conns |-> NoSock]
  /\ ended = "no"

Running == ended = "no"

-----------------------------------------------------------------------------
(* The pool.                                                               *)

Entries(t, w) == Cardinality({i \in 1..Len(queue[w]) : queue[w][i] = t})

(* addTask: a new handle is bound to some worker, a known one goes to its  *)
(* own.  The address is all it looks at.                                   *)
addTask(t) ==
  \E v \in Workers :
    /\ binding[t] \in {None, v}
    /\ binding' = [binding EXCEPT ![t] = v]
    /\ queue' = [queue EXCEPT ![v] = Append(@, t)]

(* runTasks: pop a handle and resume it unless done() says it is done.  Of *)
(* an address whose frame was destroyed, done() reads freed memory and may *)
(* say so too.                                                             *)
RunTask(w) ==
  /\ Running
  /\ holder[w] = None
  /\ queue[w] # <<>>
  /\ queue' = [queue EXCEPT ![w] = Tail(@)]
  /\ holder' = [holder EXCEPT ![w] = IF frame[Head(queue[w])] = "live"
                                     THEN Head(queue[w]) ELSE None]
  /\ UNCHANGED <<binding, frame, code, epollVars, sock, ended>>

(* Or it does not, and resume() or the cleaner's destroy() fails.          *)
TouchFreed ==
  /\ Running
  /\ \/ \E w \in Workers :
          /\ holder[w] = None
          /\ queue[w] # <<>>
          /\ frame[Head(queue[w])] = "free"
     \/ /\ \A w \in Workers : holder[w] = None
        /\ Cardinality({t \in Tasks : binding[t] # None}) >= CleanThreshold
        /\ \E t \in Frames : binding[t] # None /\ frame[t] = "free"
  /\ ended' = "freed"
  /\ UNCHANGED <<poolVars, frame, code, epollVars, sock>>

(* A faulty Yield: a handler is suspended the way acceptAll is, without    *)
(* being added.                                                            *)
YieldLost(w) ==
  LET t == holder[w] IN
  /\ Running
  /\ t # None
  /\ code[t].at = "yield"
  /\ IF t = Waiter THEN addTask(t) ELSE UNCHANGED <<binding, queue>>
  /\ code' = [code EXCEPT ![t].at = "run"]
  /\ holder' = [holder EXCEPT ![w] = None]
  /\ UNCHANGED <<frame, epollVars, sock, ended>>

(* scheduleAwaiter: the coroutine on w adds itself and is suspended.       *)
Yield(w) ==
  LET t == holder[w] IN
  /\ Running
  /\ t # None
  /\ code[t].at = "yield"
  /\ addTask(t)
  /\ code' = [code EXCEPT ![t].at = "run"]
  /\ holder' = [holder EXCEPT ![w] = None]
  /\ UNCHANGED <<frame, epollVars, sock, ended>>

(* The coroutine of this kind that w executes.                             *)
On(w, t, kind) ==
  /\ Running
  /\ holder[w] = t
  /\ code[t].kind = kind
  /\ code[t].at = "run"

(* Creating a coroutine: the allocator returns a free address, which may   *)
(* be bound already, with entries, by an event that came too late.         *)
FreeFrames == {f \in Frames : frame[f] = "free"}
NewFrame == CHOOSE f \in FreeFrames : TRUE

Fresh(kind, c) ==
  [Blank EXCEPT !.kind = kind, !.at = "run", !.conn = c,
                !.wakes = IF binding[NewFrame] = None THEN 0
                          ELSE Entries(NewFrame, binding[NewFrame])]

(* Creating, detaching and adding one.                                     *)
Spawn ==
  /\ FreeFrames # {}
  /\ frame' = [frame EXCEPT ![NewFrame] = "live"]
  /\ addTask(NewFrame)

Spawned(kind, c) == LET new == Fresh(kind, c) IN [new EXCEPT !.wakes = @ + 1]

(* co_return: the frame stays for the cleaner.                             *)
Return(w, t) ==
  /\ frame' = [frame EXCEPT ![t] = "done"]
  /\ holder' = [holder EXCEPT ![w] = None]

(* A faulty Owners: a response uses the socket without a share of it.      *)
OwnersHandler(c) ==
  {t \in Frames : frame[t] # "free" /\ code[t].conn = c /\ code[t].kind = "handler"}

(* The frames that share the socket of c: parameters live as long as the   *)
(* frame, not only until the coroutine is done.                            *)
Owners(c) == {t \in Frames : frame[t] # "free" /\ code[t].conn = c}

(* A round of cleanTasks: all that are done and bound, at once.  The last  *)
(* frame of a connection closes its socket, which leaves the epoll set.    *)
Cleanable == {t \in Frames : binding[t] # None /\ frame[t] = "done"}

(* std::erase_if on a queue: s without the tasks of gone, in order.        *)
Without(s, gone) ==
  LET kept[i \in 0..Len(s)] ==
        IF i = 0 THEN <<>>
        ELSE IF s[i] \in gone THEN kept[i - 1] ELSE Append(kept[i - 1], s[i])
  IN kept[Len(s)]

Clean ==
  /\ Running
  /\ \A w \in Workers : holder[w] = None
  /\ Cardinality({t \in Tasks : binding[t] # None}) >= CleanThreshold
  /\ Cleanable # {}
  /\ binding' = [t \in Tasks |-> IF t \in Cleanable THEN None ELSE binding[t]]
  /\ queue' = [w \in Workers |-> Without(queue[w], Cleanable)]
  /\ frame' = [t \in Tasks |-> IF t \in Cleanable THEN "free" ELSE frame[t]]
  /\ code' = [t \in Tasks |-> IF t \in Cleanable THEN Blank ELSE code[t]]
  /\ LET gone == {c \in Conns : sock[c].st = "open" /\ Owners(c) \subseteq Cleanable} IN
       /\ sock' = [c \in Conns |->
                     IF c \in gone
                     THEN [sock[c] EXCEPT !.st = "closed", !.fd = 0, !.ptr = None, !.in = <<>>]
                     ELSE sock[c]]
       /\ ready' = ready \ gone
  /\ UNCHANGED <<holder, events, ended>>

-----------------------------------------------------------------------------
(* The peers.  What arrives on a socket in the epoll set raises an edge.   *)

Raise(c) == ready' = IF sock[c].st = "open" THEN ready \cup {c} ELSE ready

PeerConnect(c) ==
  /\ Running
  /\ sock[c].st = "none"
  /\ sock' = [sock EXCEPT ![c].st = "backlog"]
  /\ UNCHANGED <<poolVars, frame, code, epollVars, ended>>

PeerSend(c, data) ==
  /\ Running
  /\ sock[c].st \in {"backlog", "open"}
  /\ sock[c].fin = "no"
  /\ sock[c].put < MaxSends
  /\ sock' = [sock EXCEPT ![c].in = Append(@, data), ![c].put = @ + 1]
  /\ Raise(c)
  /\ UNCHANGED <<poolVars, frame, code, events, ended>>

PeerClose(c, how) ==
  /\ Running
  /\ sock[c].st \in {"backlog", "open"}
  /\ <<sock[c].fin, how>> \in {<<"no", "fin">>, <<"no", "rst">>, <<"fin", "rst">>}
  /\ how = "rst" => Resets
  /\ sock' = [sock EXCEPT ![c].fin = how]
  /\ Raise(c)
  /\ UNCHANGED <<poolVars, frame, code, events, ended>>

(* Results of operations on the socket of c when nothing is left to read.  *)
(* A reset is reported by the first operation that meets it; after that a  *)
(* read finds the end and a send raises SIGPIPE.                           *)
ReadResult(c) ==
  CASE sock[c].in # <<>> -> "data"
    [] sock[c].in = <<>> /\ sock[c].fin = "no" -> "again"
    [] sock[c].in = <<>> /\ sock[c].fin = "rst" /\ ~sock[c].told -> "reset"
    [] OTHER -> "eof"

SendResult(c) ==
  CASE sock[c].fin # "rst" -> "sent"
    [] sock[c].fin = "rst" /\ ~sock[c].told -> "reset"
    [] OTHER -> "sigpipe"

-----------------------------------------------------------------------------
(* epollWaitEvent.                                                         *)

(* The sources epoll_wait may report: a connection once for each edge, if  *)
(* there is something to read; the listener as long as someone is waiting. *)
Reportable ==
  {c \in ready : sock[c].in # <<>> \/ sock[c].fin # "no"}
    \cup {s \in {Listener} : \E c \in Conns : sock[c].st = "backlog"}

(* A faulty Registered: acceptAll's own address with every source.         *)
RegisteredAcceptor(s) == IF s \in Sources THEN Acceptor ELSE None

(* The address registered with a source.                                   *)
Registered(s) == IF s = Listener THEN Acceptor ELSE sock[s].ptr

(* What epoll_wait leaves for the next call when evs does not hold all.    *)
Keep(evs) == (Reportable \ evs) \ {Listener}

(* epoll_wait returns: with what there is, or with nothing at a timeout.   *)
EpollWait(w) ==
  /\ On(w, Waiter, "wait")
  /\ Timed \/ Reportable # {}
  /\ \E evs \in SUBSET Reportable :
       /\ \/ evs = Reportable /\ Cardinality(evs) <= MaxEvents
          \/ evs # Reportable /\ Cardinality(evs) = MaxEvents
       /\ events' = evs
       /\ ready' = Keep(evs)
       /\ code' = [code EXCEPT ![Waiter].at = IF evs = {} THEN "yield" ELSE "dispatch"]
  /\ UNCHANGED <<poolVars, frame, sock, ended>>

(* The bound MaxEntries: an entry of acceptAll too many is left out.       *)
TooMany(t) == t = Acceptor /\ \E w \in Workers : Entries(t, w) >= MaxEntries

(* The loop over the events; after the last one, co_await pool.scheduler.  *)
Dispatch(w, s) ==
  LET t == Registered(s) IN
  /\ Running
  /\ holder[w] = Waiter
  /\ code[Waiter].at = "dispatch"
  /\ s \in events
  /\ events' = events \ {s}
  /\ IF TooMany(t) THEN UNCHANGED <<binding, queue>> ELSE addTask(t)
  /\ code' = [code EXCEPT ![t].wakes = IF t \in Frames /\ frame[t] = "live" THEN @ + 1 ELSE @,
                          ![Waiter].at = IF events = {s} THEN "yield" ELSE @]
  /\ UNCHANGED <<holder, frame, ready, sock, ended>>

-----------------------------------------------------------------------------
(* acceptAll.                                                              *)

UsedFds == {sock[c].fd : c \in Conns} \cup {code[t].file : t \in Frames}
FreeFds == Fds \ UsedFds
LowestFd == CHOOSE fd \in FreeFds : \A other \in FreeFds : fd <= other

(* accept succeeds: the handler is created, and its address registered     *)
(* with the connection.  Adding a socket on which something has arrived    *)
(* raises an edge.                                                         *)
Accept(w, c) ==
  /\ On(w, Acceptor, "accept")
  /\ sock[c].st = "backlog"
  /\ FreeFds # {}
  /\ FreeFrames # {}
  /\ sock' = [sock EXCEPT ![c].st = "open", ![c].fd = LowestFd, ![c].ptr = NewFrame]
  /\ frame' = [frame EXCEPT ![NewFrame] = "live"]
  /\ code' = [code EXCEPT ![NewFrame] = Fresh("handler", c)]
  /\ ready' = IF sock[c].in # <<>> \/ sock[c].fin # "no" THEN ready \cup {c} ELSE ready
  /\ UNCHANGED <<poolVars, events, ended>>

(* A faulty AcceptSuspend: acceptAll returns.                              *)
AcceptReturn(w) ==
  /\ On(w, Acceptor, "accept")
  /\ FreeFds = {} \/ \A c \in Conns : sock[c].st # "backlog"
  /\ Return(w, Acceptor)
  /\ UNCHANGED <<binding, queue, code, epollVars, sock, ended>>

(* EAGAIN, EMFILE, ENFILE: suspended until the listener's next event.      *)
AcceptSuspend(w) ==
  /\ On(w, Acceptor, "accept")
  /\ FreeFds = {} \/ \A c \in Conns : sock[c].st # "backlog"
  /\ holder' = [holder EXCEPT ![w] = None]
  /\ UNCHANGED <<binding, queue, frame, code, epollVars, sock, ended>>

(* Any other error is thrown, and nobody catches it.                       *)
AcceptThrow(w) ==
  /\ On(w, Acceptor, "accept")
  /\ AcceptFails
  /\ ended' = "thrown"
  /\ UNCHANGED <<poolVars, frame, code, epollVars, sock>>

-----------------------------------------------------------------------------
TypeOKCore ==
  /\ binding \in [Tasks -> Workers \cup {None}]
  /\ queue \in [Workers -> Seq(Tasks)]
  /\ holder \in [Workers -> Tasks \cup {None}]
  /\ frame \in [Tasks -> {"free", "live", "done"}]
  /\ \A t \in Tasks :
       /\ DOMAIN code[t] = DOMAIN Blank
       /\ code[t].kind \in {"none", "wait", "accept", "handler", "writer", "respond"}
       /\ code[t].at \in {"none", "run", "yield", "dispatch", "respond"}
       /\ code[t].conn \in Conns \cup {None}
       /\ code[t].wakes \in Nat
       /\ code[t].file \in Fds \cup {0}
  /\ events \in SUBSET Sources
  /\ ready \in SUBSET {c \in Conns : sock[c].st = "open"}
  /\ \A c \in Conns :
       /\ DOMAIN sock[c] = DOMAIN NoSock
       /\ sock[c].st \in {"none", "backlog", "open", "closed"}
       /\ sock[c].fd \in Fds \cup {0}
       /\ sock[c].ptr \in Frames \cup {None}
       /\ sock[c].fin \in {"no", "fin", "rst"}
       /\ sock[c].put \in 0..MaxSends
  /\ ended \in {"no", "freed", "thrown", "sigpipe"}

(* A handler, writer or response never loses a resumption and never gets   *)
(* rid of one: as long as it lives, the entries it has in its worker's     *)
(* queue, and the worker that is inside of it, are as many as the addTask  *)
(* calls others made for it.  Since they all poll through the scheduler,   *)
(* each event epollWaitEvent delivers to a handler that runs already stays *)
(* in the queue for good.                                                  *)
WakesKept ==
  \A t \in Frames :
    frame[t] = "live" =>
      code[t].wakes = Cardinality({w \in Workers : holder[w] = t})
                        + (IF binding[t] = None THEN 0 ELSE Entries(t, binding[t]))

(* The descriptor that a handler, writer or response uses is the one its   *)
(* connection was accepted with: as long as the frame exists, and however  *)
(* soon the other frames of the connection are done and destroyed, it is   *)
(* open, no later connection has the same one, and no file does.           *)
OpsOnOwnDescriptor ==
  \A t \in Frames :
    LET c == code[t].conn IN
    frame[t] # "free" =>
      /\ sock[c].st = "open"
      /\ \A d \in Conns \ {c} : sock[d].st = "open" => sock[d].fd # sock[c].fd
      /\ \A u \in Frames : code[u].file # sock[c].fd

(* Registered edge-triggered, a connection is not forgotten before its     *)
(* handler has run: if something has arrived and nobody has added the      *)
(* handler yet, an event is still to come.  (The address may belong to a   *)
(* coroutine of another connection once the handler is gone.)              *)
FirstEventComes ==
  \A c \in Conns :
    /\ Running
    /\ sock[c].st = "open"
    /\ sock[c].in # <<>> \/ sock[c].fin # "no"
    /\ frame[sock[c].ptr] = "live"
    /\ code[sock[c].ptr].conn = c
    /\ code[sock[c].ptr].wakes = 0
    => c \in ready \cup events

(* Every event is for a task: epoll_wait returns no address of a frame the *)
(* cleaner has destroyed.                                                  *)
EventFindsTask == \A s \in events : frame[Registered(s)] # "free"

(* A connection that waits at the listener is accepted, whatever the       *)
(* worker of acceptAll and the worker of epollWaitEvent have to do.        *)
ConnectionAccepted ==
  \A c \in Conns : sock[c].st = "backlog" ~> (sock[c].st # "backlog" \/ ~Running)

=============================================================================

----------------------------- MODULE HttpServer -----------------------------
(***************************************************************************)
(* The epoll HTTP server of demo/httptest.cpp: for each connection         *)
(* httpHandle, which reads requests with httpRequest::readRequest of       *)
(* src/http/Http.cpp and starts a responseHandler for each.  What a peer   *)
(* sends are numbered units; the last one of a request ends with an empty  *)
(* line.  Which response a request gets is the subject of HttpMessage; here*)
(* it has a file or not and closes the connection or not.                  *)
(***************************************************************************)
EXTENDS EpollServer

CONSTANTS
  MaxLen,  \* bound: units of which a request may consist
  Files,   \* bound: whether requests may ask for a file
  Throws   \* bound: whether building a response may throw

ASSUME HttpAssumption ==
  /\ MaxLen \in Nat \ {0}
  /\ {Files, Throws} \subseteq BOOLEAN

VARIABLES
  uncompletedRequests,  \* descriptor -> what was read of a request; that a
                        \* key is absent or its string is empty is the same
  requests              \* history: the messages read from each connection

vars == <<coreVars, uncompletedRequests, requests>>
readVars == <<uncompletedRequests, requests>>

Units == [conn : Conns, n : 1..MaxSends, last : BOOLEAN]

-----------------------------------------------------------------------------
(* readRequest, called by httpHandle.                                      *)

getBuffer(fd) == uncompletedRequests[fd]
eraseBufferNever(fd) == [uncompletedRequests EXCEPT ![fd] = @]
eraseBuffer(fd) == [uncompletedRequests EXCEPT ![fd] = <<>>]

(* The request ends with an empty line.                                    *)
Completed(message) == message # <<>> /\ message[Len(message)].last

(* A read brings more.  A unit is what one read returns, 1024 bytes at     *)
(* most, so the first one fits and after that any may be too much for the  *)
(* 4096 bytes of a request: it is dropped with the rest, and the handler   *)
(* answers with an error.                                                  *)
ReadMore(w, t, fits) ==
  LET c == code[t].conn
      fd == sock[c].fd
  IN
  /\ On(w, t, "handler")
  /\ ReadResult(c) = "data"
  /\ IF fits THEN Len(getBuffer(fd)) < MaxLen ELSE getBuffer(fd) # <<>>
  /\ sock' = [sock EXCEPT ![c].in = Tail(@)]
  /\ uncompletedRequests' = IF fits
                            THEN [uncompletedRequests EXCEPT ![fd] = Append(@, Head(sock[c].in))]
                            ELSE eraseBuffer(fd)
  /\ code' = IF fits THEN code
             ELSE [code EXCEPT ![t].at = "respond", ![t].part = "bad"]
  /\ UNCHANGED <<poolVars, frame, epollVars, ended, requests>>

(* EAGAIN: all that has arrived is one message if it ends with an empty    *)
(* line; else it stays in the table and the handler polls.                 *)
ReadAgain(w, t) ==
  LET c == code[t].conn
      fd == sock[c].fd
  IN
  /\ On(w, t, "handler")
  /\ ReadResult(c) = "again"
  /\ IF Completed(getBuffer(fd))
     THEN /\ uncompletedRequests' = eraseBuffer(fd)
          /\ requests' = [requests EXCEPT ![c] = Append(@, getBuffer(fd))]
          /\ code' = [code EXCEPT ![t].at = "respond", ![t].part = "ok"]
     ELSE /\ UNCHANGED readVars
          /\ code' = [code EXCEPT ![t].at = "yield"]
  /\ UNCHANGED <<poolVars, frame, epollVars, sock, ended>>

(* A faulty ReadEnd: the buffer stays in the table.                        *)
ReadEndKeeps(w, t) ==
  /\ On(w, t, "handler")
  /\ ReadResult(code[t].conn) \in {"eof", "reset"}
  /\ Return(w, t)
  /\ UNCHANGED <<binding, queue, code, epollVars, sock, ended, readVars>>

(* The end or a reset: what was read is dropped and httpHandle is done.    *)
ReadEnd(w, t) ==
  LET c == code[t].conn IN
  /\ On(w, t, "handler")
  /\ ReadResult(c) \in {"eof", "reset"}
  /\ uncompletedRequests' = eraseBuffer(sock[c].fd)
  /\ sock' = [sock EXCEPT ![c].told = @ \/ ReadResult(c) = "reset"]
  /\ Return(w, t)
  /\ UNCHANGED <<binding, queue, code, epollVars, ended, requests>>

(* httpHandle starts a responseHandler; it is done if the request says so. *)
StartResponse(w, t, file, close) ==
  /\ Running
  /\ holder[w] = t
  /\ code[t].at = "respond"
  /\ file => Files
  /\ file \/ close => code[t].part = "ok"
  /\ FreeFrames # {}
  /\ addTask(NewFrame)
  /\ frame' = [frame EXCEPT ![NewFrame] = "live", ![t] = IF close THEN "done" ELSE @]
  /\ holder' = [holder EXCEPT ![w] = IF close THEN None ELSE @]
  /\ code' = [code EXCEPT ![t].at = "run", ![t].part = "head",
                          ![NewFrame] = [Spawned("respond", code[t].conn) EXCEPT
                                           !.part = "new", !.size = IF file THEN 1 ELSE 0]]
  /\ UNCHANGED <<epollVars, sock, ended, readVars>>

-----------------------------------------------------------------------------
(* responseHandler.                                                        *)

(* Building the response throws, and nobody catches it.                    *)
ResponseThrow(w, t) ==
  /\ On(w, t, "respond")
  /\ code[t].part = "new"
  /\ Throws
  /\ ended' = "thrown"
  /\ UNCHANGED <<poolVars, frame, code, epollVars, sock, readVars>>

(* The response ends: the file, a local variable, is closed.               *)
ResponseReturn(w, t) == Return(w, t) /\ code' = [code EXCEPT ![t].file = 0]

(* The header is sent.  (A short send starts the part again.)              *)
SendHead(w, t) ==
  /\ On(w, t, "respond")
  /\ code[t].part \in {"new", "head"}
  /\ SendResult(code[t].conn) = "sent"
  /\ IF code[t].size = 0 THEN ResponseReturn(w, t)
     ELSE /\ code' = [code EXCEPT ![t].part = "open"]
          /\ UNCHANGED <<frame, holder>>
  /\ UNCHANGED <<binding, queue, epollVars, sock, ended, readVars>>

(* The size of what was opened is asked for, which throws for a directory. *)
OpenThrow(w, t) ==
  /\ On(w, t, "respond")
  /\ code[t].part = "open"
  /\ FreeFds # {}
  /\ Throws
  /\ ended' = "thrown"
  /\ UNCHANGED <<poolVars, frame, code, epollVars, sock, readVars>>

(* A faulty OpenFail: that file.open has failed is overlooked.             *)
OpenUnchecked(w, t) ==
  /\ On(w, t, "respond")
  /\ code[t].part = "open"
  /\ code' = [code EXCEPT ![t].part = "body", ![t].file = -1]
  /\ UNCHANGED <<poolVars, frame, epollVars, sock, ended, readVars>>

(* file.open fails, and so does the response, for lack of descriptors too: *)
(* its errors are of system_category, and the errors after which it would  *)
(* be tried again are of generic_category, so none is equal to those.      *)
OpenFail(w, t) ==
  /\ On(w, t, "respond")
  /\ code[t].part = "open"
  /\ ResponseReturn(w, t)
  /\ UNCHANGED <<binding, queue, epollVars, sock, ended, readVars>>

(* Or it takes the lowest descriptor.                                      *)
OpenFile(w, t) ==
  /\ On(w, t, "respond")
  /\ code[t].part = "open"
  /\ FreeFds # {}
  /\ code' = [code EXCEPT ![t].part = "body", ![t].file = LowestFd]
  /\ UNCHANGED <<poolVars, frame, epollVars, sock, ended, readVars>>

SendBody(w, t) ==
  /\ On(w, t, "respond")
  /\ code[t].part = "body"
  /\ SendResult(code[t].conn) = "sent"
  /\ ResponseReturn(w, t)
  /\ UNCHANGED <<binding, queue, epollVars, sock, ended, readVars>>

(* EAGAIN, in either loop.                                                 *)
SendAgain(w, t) ==
  /\ On(w, t, "respond")
  /\ code[t].part # "open"
  /\ SendResult(code[t].conn) = "sent"
  /\ code' = [code EXCEPT ![t].at = "yield", ![t].part = IF @ = "new" THEN "head" ELSE @]
  /\ UNCHANGED <<poolVars, frame, epollVars, sock, ended, readVars>>

SendError(w, t) ==
  LET c == code[t].conn IN
  /\ On(w, t, "respond")
  /\ code[t].part # "open"
  /\ SendResult(c) = "reset"
  /\ sock' = [sock EXCEPT ![c].told = TRUE]
  /\ ResponseReturn(w, t)
  /\ UNCHANGED <<binding, queue, epollVars, ended, readVars>>

SendSignal(w, t) ==
  /\ On(w, t, "respond")
  /\ code[t].part # "open"
  /\ SendResult(code[t].conn) = "sigpipe"
  /\ ended' = "sigpipe"
  /\ UNCHANGED <<poolVars, frame, code, epollVars, sock, readVars>>

-----------------------------------------------------------------------------
Init ==
  /\ InitCore
  /\ uncompletedRequests = [fd \in Fds |-> <<>>]
  /\ requests = [c \in Conns |-> <<>>]

Handler(w, t) ==
  \/ \E fits \in BOOLEAN : ReadMore(w, t, fits)
  \/ ReadAgain(w, t) \/ ReadEnd(w, t)
  \/ \E file, close \in BOOLEAN : StartResponse(w, t, file, close)
  \/ ResponseThrow(w, t) \/ OpenThrow(w, t)
  \/ SendHead(w, t) \/ OpenFail(w, t) \/ OpenFile(w, t)
  \/ SendBody(w, t) \/ SendAgain(w, t) \/ SendError(w, t) \/ SendSignal(w, t)

Loop(w) ==
  \/ RunTask(w)
  \/ Yield(w)
  \/ EpollWait(w)
  \/ \E s \in Sources : Dispatch(w, s)
  \/ \E c \in Conns : Accept(w, c)
  \/ AcceptSuspend(w)
  \/ AcceptThrow(w)

Worker(w) ==
  \/ Loop(w) /\ UNCHANGED readVars
  \/ \E t \in Frames : Handler(w, t)

Peer(c) ==
  /\ \/ PeerConnect(c)
     \/ \E last \in BOOLEAN : PeerSend(c, [conn |-> c, n |-> sock[c].put + 1, last |-> last])
     \/ \E how \in {"fin", "rst"} : PeerClose(c, how)
  /\ UNCHANGED readVars

Next ==
  \/ \E w \in Workers : Worker(w)
  \/ \E c \in Conns : Peer(c)
  \/ Clean /\ UNCHANGED readVars
  \/ TouchFreed /\ UNCHANGED readVars

Spec == Init /\ [][Next]_vars

(* Each worker goes on; a response that tries again and again finds room   *)
(* in the end, because the peer reads; the cleaner, which waits for the    *)
(* lock every 30 seconds, gets it in the end.                              *)
FairSpec ==
  /\ Spec
  /\ \A w \in Workers : WF_vars(Worker(w))
  /\ SF_vars(\E w \in Workers, t \in Frames : SendHead(w, t) \/ SendBody(w, t))
  /\ SF_vars(Clean /\ UNCHANGED readVars)

(* In addition, peers close the connections they have opened.              *)
ClosingSpec ==
  /\ FairSpec
  /\ \A c \in Conns : WF_vars(PeerClose(c, "fin") /\ UNCHANGED readVars)

-----------------------------------------------------------------------------
TypeOK ==
  /\ TypeOKCore
  /\ uncompletedRequests \in [Fds -> Seq(Units)]
  /\ requests \in [Conns -> Seq(Seq(Units))]
  /\ \A c \in Conns : sock[c].in \in Seq(Units)

(* The units in s are of connection c, in the order they were sent, and    *)
(* after those in r.                                                       *)
OwnAndAfter(c, r, s) ==
  \A j \in 1..Len(s) :
    /\ s[j].conn = c
    /\ \A i \in 1..(j - 1) : s[i].n < s[j].n
    /\ \A i \in 1..Len(r) : r[i].n < s[j].n

(* Although the table is keyed by descriptors, which go to other           *)
(* connections, a message is made of units that its own peer has sent, in  *)
(* order and after those of the messages before it, and what is kept under *)
(* the descriptor of a connection comes after all of them.                 *)
RequestsFromOwnPeer ==
  \A c \in Conns :
    LET msgs == requests[c] IN
    /\ \A k \in 1..Len(msgs) :
         /\ OwnAndAfter(c, <<>>, msgs[k])
         /\ \A j \in 1..(k - 1) : OwnAndAfter(c, msgs[j], msgs[k])
         /\ sock[c].st = "open" => OwnAndAfter(c, msgs[k], getBuffer(sock[c].fd))
    /\ sock[c].st = "open" => OwnAndAfter(c, <<>>, getBuffer(sock[c].fd))

(* What the table keeps belongs to a handler that still reads: nothing is  *)
(* left under a descriptor that is free, or used by a file, or whose       *)
(* handler is done.                                                        *)
PartialHasReader ==
  \A fd \in Fds :
    getBuffer(fd) # <<>> =>
      \E c \in Conns : sock[c].fd = fd /\ frame[sock[c].ptr] = "live"

(* readRequest returns the request message: one request, not several.      *)
OneRequestEach ==
  \A c \in Conns : \A k \in 1..Len(requests[c]) :
    Cardinality({i \in 1..Len(requests[c][k]) : requests[c][k][i].last}) = 1

(* A response whose file cannot be opened for lack of descriptors is not   *)
(* given up, as the test of the error in responseHandler intends.          *)
OpenWaits ==
  [][\A t \in Frames :
       frame[t] = "live" /\ code[t].part = "open" /\ FreeFds = {} => frame'[t] # "done"]_vars

(* The responses of a connection do not mix: between the header and the    *)
(* body of one no other sends its header.                                  *)
Within(t, c) ==
  frame[t] = "live" /\ code[t].conn = c /\ code[t].part \in {"open", "body"}
ResponsesApart ==
  \A c \in Conns : Cardinality({t \in Frames : Within(t, c)}) <= 1

(* A response ends, unless the process does: it is sent, or fails.         *)
ResponseEnds ==
  \A t \in Frames :
    (frame[t] = "live" /\ code[t].kind = "respond") ~> (frame[t] # "live" \/ ~Running)

(* The clean thread destroys the tasks that are done.                      *)
DoneDestroyed ==
  \A t \in Frames : frame[t] = "done" ~> (frame[t] = "free" \/ ~Running)

=============================================================================

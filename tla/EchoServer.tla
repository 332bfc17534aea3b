----------------------------- MODULE EchoServer -----------------------------
(***************************************************************************)
(* The echo server of demo/epolltest.cpp: for each connection echoHandle,  *)
(* which collects what it can read into a buffer and hands the buffer to a *)
(* writer of its own, and then polls again through the scheduler.  What a  *)
(* peer sends are numbered units; a read takes one of them.                *)
(***************************************************************************)
EXTENDS EpollServer

CONSTANTS
  ShortSends,  \* whether a send may take less than it was given
  IdleWriters  \* bound: frames that writers of empty buffers may occupy

ASSUME EchoAssumption ==
  /\ ShortSends \in BOOLEAN
  /\ IdleWriters \in Nat

-----------------------------------------------------------------------------
(* echoHandle.                                                             *)

EchoRecv(w, t) ==
  LET c == code[t].conn IN
  /\ On(w, t, "handler")
  /\ ReadResult(c) = "data"
  /\ code' = [code EXCEPT ![t].buf = Append(@, Head(sock[c].in))]
  /\ sock' = [sock EXCEPT ![c].in = Tail(@)]
  /\ UNCHANGED <<poolVars, frame, epollVars, ended>>

(* The bound IdleWriters: a writer of an empty buffer too many, which      *)
(* would send nothing, is left out.                                        *)
Idle == {t \in Frames : /\ frame[t] # "free"
                        /\ code[t].kind = "writer"
                        /\ code[t].buf = <<>>}
LeftOut(t) == code[t].buf = <<>> /\ Cardinality(Idle) >= IdleWriters

WriterOf(t) == [Spawned("writer", code[t].conn) EXCEPT
                  !.buf = code[t].buf, !.size = Len(code[t].buf)]

(* break leaves the inner loop, and the outer one makes a new buffer.      *)
SameBuffer(t) == code[t].buf
NewBuffer(t) == SubSeq(code[t].buf, 1, 0)

(* EAGAIN: the buffer, empty or not, goes to a new writer; then the        *)
(* scheduler, and a new buffer.                                            *)
EchoAgain(w, t) ==
  /\ On(w, t, "handler")
  /\ ReadResult(code[t].conn) = "again"
  /\ IF LeftOut(t)
     THEN /\ UNCHANGED <<binding, queue, frame>>
          /\ code' = [code EXCEPT ![t].at = "yield"]
     ELSE /\ Spawn
          /\ code' = [code EXCEPT ![NewFrame] = WriterOf(t),
                                  ![t].at = "yield", ![t].buf = NewBuffer(t)]
  /\ UNCHANGED <<holder, epollVars, sock, ended>>

(* The end of the stream: a last writer, and the handler is done.          *)
EchoEof(w, t) ==
  /\ On(w, t, "handler")
  /\ ReadResult(code[t].conn) = "eof"
  /\ holder' = [holder EXCEPT ![w] = None]
  /\ IF LeftOut(t)
     THEN /\ frame' = [frame EXCEPT ![t] = "done"]
          /\ UNCHANGED <<binding, queue, code>>
     ELSE /\ FreeFrames # {}
          /\ addTask(NewFrame)
          /\ frame' = [frame EXCEPT ![t] = "done", ![NewFrame] = "live"]
          /\ code' = [code EXCEPT ![NewFrame] = WriterOf(t), ![t].buf = <<>>]
  /\ UNCHANGED <<epollVars, sock, ended>>

(* Any other error: the handler is done, and what it has read is dropped.  *)
EchoError(w, t) ==
  LET c == code[t].conn IN
  /\ On(w, t, "handler")
  /\ ReadResult(c) = "reset"
  /\ Return(w, t)
  /\ sock' = [sock EXCEPT ![c].told = TRUE]
  /\ code' = [code EXCEPT ![t].buf = <<>>]
  /\ UNCHANGED <<binding, queue, epollVars, ended>>

-----------------------------------------------------------------------------
(* writer.                                                                 *)

(* The send takes n of the size units that the loop still counts, from the *)
(* start of the buffer each time: written is a variable of the iteration.  *)
(* Only a send of the whole buffer ends the loop.                          *)
Size(t, n) == code[t].size - n
WriterDone(t, n) == n >= Len(code[t].buf)

WriterSend(w, t, n) ==
  LET c == code[t].conn IN
  /\ On(w, t, "writer")
  /\ SendResult(c) = "sent"
  /\ n \in 0..code[t].size
  /\ n < code[t].size => ShortSends /\ n > 0
  /\ sock' = [sock EXCEPT ![c].out = @ \o SubSeq(code[t].buf, 1, n),
                          ![c].short = @ \/ n < code[t].size]
  /\ code' = [code EXCEPT ![t].size = Size(t, n)]
  /\ IF WriterDone(t, n) THEN Return(w, t) ELSE UNCHANGED <<frame, holder>>
  /\ UNCHANGED <<binding, queue, epollVars, ended>>

(* EAGAIN: the peer does not read fast enough.                             *)
WriterAgain(w, t) ==
  /\ On(w, t, "writer")
  /\ SendResult(code[t].conn) = "sent"
  /\ code[t].size > 0
  /\ code' = [code EXCEPT ![t].at = "yield"]
  /\ UNCHANGED <<poolVars, frame, epollVars, sock, ended>>

WriterError(w, t) ==
  LET c == code[t].conn IN
  /\ On(w, t, "writer")
  /\ SendResult(c) = "reset"
  /\ Return(w, t)
  /\ sock' = [sock EXCEPT ![c].told = TRUE]
  /\ UNCHANGED <<binding, queue, code, epollVars, ended>>

(* send is called without MSG_NOSIGNAL and nothing handles SIGPIPE.        *)
WriterSignal(w, t) ==
  /\ On(w, t, "writer")
  /\ SendResult(code[t].conn) = "sigpipe"
  /\ ended' = "sigpipe"
  /\ UNCHANGED <<poolVars, frame, code, epollVars, sock>>

-----------------------------------------------------------------------------
Init == InitCore

Coroutine(w) ==
  \/ RunTask(w)
  \/ Yield(w)
  \/ EpollWait(w)
  \/ \E s \in Sources : Dispatch(w, s)
  \/ \E c \in Conns : Accept(w, c)
  \/ AcceptSuspend(w)
  \/ AcceptThrow(w)
  \/ \E t \in Frames :
       \/ EchoRecv(w, t) \/ EchoAgain(w, t) \/ EchoEof(w, t) \/ EchoError(w, t)
       \/ \E n \in 0..MaxSends : WriterSend(w, t, n)
       \/ WriterAgain(w, t) \/ WriterError(w, t) \/ WriterSignal(w, t)

Peer(c) ==
  \/ PeerConnect(c)
  \/ PeerSend(c, sock[c].put + 1)
  \/ \E how \in {"fin", "rst"} : PeerClose(c, how)

Next ==
  \/ \E w \in Workers : Coroutine(w)
  \/ \E c \in Conns : Peer(c)
  \/ Clean
  \/ TouchFreed

Spec == Init /\ [][Next]_coreVars

(* Each worker goes on, and a writer that tries again and again finds room *)
(* in the end: the peer reads.                                             *)
FairSpec ==
  /\ Spec
  /\ \A w \in Workers : WF_coreVars(Coroutine(w))
  /\ SF_coreVars(\E w \in Workers, t \in Frames, n \in 1..MaxSends : WriterSend(w, t, n))

-----------------------------------------------------------------------------
(* Where the unit u of connection c is: not yet read, in the buffer of the *)
(* handler or of a writer that has not sent it, or on its way back.        *)
Serving(c) == {t \in Frames : frame[t] = "live" /\ code[t].conn = c}
Positions(s, u) == {i \in 1..Len(s) : s[i] = u}
Places(c, u) ==
  {<<"in", i>> : i \in Positions(sock[c].in, u)}
    \cup {<<"out", i>> : i \in Positions(sock[c].out, u)}
    \cup UNION {{<<t, i>> : i \in Positions(code[t].buf, u)} : t \in Serving(c)}

(* As long as the peer has not reset the connection and no send was short, *)
(* what it sent is neither lost nor doubled, through any number of events, *)
(* polls and writers, and after the sockets and frames are gone.           *)
EachUnitOnce ==
  \A c \in Conns : ~sock[c].short =>
    \A u \in 1..sock[c].put :
      IF sock[c].fin = "rst" THEN Cardinality(Places(c, u)) <= 1
      ELSE Cardinality(Places(c, u)) = 1

(* What the handler has read is sent back although the peer neither sends  *)
(* more nor closes: a writer with a buffer to send gets its turn.          *)
LastWriterServed ==
  \A t \in Frames, c \in Conns :
    (frame[t] = "live" /\ code[t].kind = "writer" /\ code[t].conn = c /\ code[t].buf # <<>>)
      ~> (frame[t] # "live" \/ sock[c].fin # "no" \/ ~Running)

=============================================================================

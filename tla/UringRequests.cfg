\* Two workers serve a connection that sends a request and closes; a ring of
\* one entry, so that sqeBusy happens; short sends.
CONSTANTS
  w1 = w1
  w2 = w2
  f1 = f1
  f2 = f2
  f3 = f3
  f4 = f4
  c1 = c1
  Workers = {w1, w2}
  Frames = {f1, f2, f3, f4}
  Reaper = Reaper
  Acceptor = Acceptor
  Conns = {c1}
  None = None
  SqSize = 1
  MaxReqs = 1
  BodyLen = 2
  ShortSends = TRUE
  AcceptEnds = FALSE
SPECIFICATION Spec
SYMMETRY Symmetry
INVARIANTS
  TypeOK
  CallerWaits
  ResumedOnce
  OpsOnOpenSocket
  EndedIsBound
  SocketOwned

\* A send that the kernel completes with less than it was given.
CONSTANTS
  w1 = w1
  f1 = f1
  f2 = f2
  f3 = f3
  f4 = f4
  c1 = c1
  Workers = {w1}
  Frames = {f1, f2, f3, f4}
  Reaper = Reaper
  Acceptor = Acceptor
  Conns = {c1}
  None = None
  SqSize = 1
  MaxReqs = 1
  BodyLen = 2
  ShortSends = TRUE
  AcceptEnds = FALSE
SPECIFICATION Spec
INVARIANTS
  ResponseWhole

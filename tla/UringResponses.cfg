\* Liveness of responses: one worker, frames enough never to wait for the
\* cleaner, a ring of one entry.
CONSTANTS
  w1 = w1
  f1 = f1
  f2 = f2
  f3 = f3
  f4 = f4
  f5 = f5
  c1 = c1
  Workers = {w1}
  Frames = {f1, f2, f3, f4, f5}
  Reaper = Reaper
  Acceptor = Acceptor
  Conns = {c1}
  None = None
  SqSize = 1
  MaxReqs = 1
  BodyLen = 1
  ShortSends = FALSE
  AcceptEnds = FALSE
SPECIFICATION FairSpec
PROPERTIES
  ResponseEnds

\* Two workers, a multishot accept that ends again and again.
CONSTANTS
  w1 = w1
  w2 = w2
  f1 = f1
  f2 = f2
  f3 = f3
  c1 = c1
  Workers = {w1, w2}
  Frames = {f1, f2, f3}
  Reaper = Reaper
  Acceptor = Acceptor
  Conns = {c1}
  None = None
  SqSize = 2
  MaxReqs = 0
  BodyLen = 0
  ShortSends = FALSE
  AcceptEnds = TRUE
SPECIFICATION FairSpec
PROPERTIES
  ResumesInTurn

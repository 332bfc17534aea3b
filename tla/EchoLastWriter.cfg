SPECIFICATION FairSpec
CONSTANTS
  Workers = {w1, w2}
  Frames = {f1, f2, f3, f4, f5}
  Waiter = waiter
  Acceptor = acceptor
  Listener = listener
  Conns = {c1}
  None = none
  Timed = FALSE
  MaxEvents = 1
  MaxFds = 1
  CleanThreshold = 9
  MaxSends = 1
  MaxEntries = 1
  Resets = FALSE
  AcceptFails = FALSE
  ShortSends = FALSE
  IdleWriters = 1
PROPERTY LastWriterServed
CHECK_DEADLOCK FALSE

SPECIFICATION Spec
CONSTANTS
  Workers = {w1, w2}
  Frames = {f1, f2, f3, f4, f5}
  Waiter = waiter
  Acceptor = acceptor
  Listener = listener
  Conns = {c1}
  None = none
  Timed = FALSE
  MaxEvents = 1
  MaxFds = 1
  CleanThreshold = 4
  MaxSends = 2
  MaxEntries = 1
  Resets = TRUE
  AcceptFails = TRUE
  ShortSends = TRUE
  IdleWriters = 1
INVARIANTS WakesKept EachUnitOnce FirstEventComes
SYMMETRY WorkerSymmetry
CHECK_DEADLOCK FALSE

SPECIFICATION Spec
CONSTANTS
  Workers = {w1, w2}
  Frames = {f1, f2, f3, f4}
  Waiter = waiter
  Acceptor = acceptor
  Listener = listener
  Conns = {c1}
  None = none
  Timed = TRUE
  MaxEvents = 2
  MaxFds = 1
  CleanThreshold = 3
  MaxSends = 2
  MaxEntries = 1
  Resets = FALSE
  AcceptFails = FALSE
  MaxLen = 2
  Files = FALSE
  Throws = FALSE
INVARIANT OneRequestEach
SYMMETRY WorkerSymmetry
CHECK_DEADLOCK FALSE

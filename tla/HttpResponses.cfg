SPECIFICATION Spec
CONSTANTS
  Workers = {w1, w2}
  Frames = {f1, f2, f3, f4}
  Waiter = waiter
  Acceptor = acceptor
  Listener = listener
  Conns = {c1}
  None = none
  Timed = TRUE
  MaxEvents = 1
  MaxFds = 2
  CleanThreshold = 3
  MaxSends = 2
  MaxEntries = 1
  Resets = TRUE
  AcceptFails = TRUE
  MaxLen = 2
  Files = TRUE
  Throws = TRUE
INVARIANTS TypeOK OpsOnOwnDescriptor RequestsFromOwnPeer
SYMMETRY WorkerSymmetry
CHECK_DEADLOCK FALSE

SPECIFICATION ClosingSpec
CONSTANTS
  Workers = {w1}
  Frames = {f1, f2, f3, f4, f5}
  Waiter = waiter
  Acceptor = acceptor
  Listener = listener
  Conns = {c1, c2}
  None = none
  Timed = TRUE
  MaxEvents = 2
  MaxFds = 1
  CleanThreshold = 3
  MaxSends = 1
  MaxEntries = 1
  Resets = FALSE
  AcceptFails = FALSE
  MaxLen = 2
  Files = FALSE
  Throws = FALSE
INVARIANTS RequestsFromOwnPeer OpsOnOwnDescriptor PartialHasReader
PROPERTIES ConnectionAccepted ResponseEnds
CHECK_DEADLOCK FALSE

SPECIFICATION Spec
CONSTANTS
  Users = {u1, u2, u3}
  N = 2
  None = None
INVARIANTS FlagsExact NoSharing
PROPERTY ImplementsBufferSpec

SPECIFICATION Spec
CONSTANTS
  Users = {u1, u2, u3}
  N = 2
  None = None
INVARIANT RunOutMeansNone
SYMMETRY UserSymmetry

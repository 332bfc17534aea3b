\* The constructor may read begin() before any worker has registered.
CONSTANTS
  w1 = w1
  w2 = w2
  t1 = t1
  t2 = t2
  Workers = {w1, w2}
  Main = Main
  Tasks = {t1, t2}
  None = None
  End = End
  CleanThreshold = 1
  MaxAdds = 1
  BeginSeesQueue = FALSE
SPECIFICATION Spec
SYMMETRY Symmetry
INVARIANT AddFindsQueue

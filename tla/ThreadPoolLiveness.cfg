\* Liveness of two workers and two frames under Fairness.
CONSTANTS
  w1 = w1
  w2 = w2
  t1 = t1
  t2 = t2
  Workers = {w1, w2}
  Main = Main
  Tasks = {t1, t2}
  None = None
  End = End
  CleanThreshold = 1
  MaxAdds = 2
  BeginSeesQueue = FALSE
SPECIFICATION FairSpec
PROPERTIES
  TaskServed
  CleanerReleases

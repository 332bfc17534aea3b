\* Two workers, three frames; the cleaner works once two handles are bound.
\* The constructor may read begin() at any time.
CONSTANTS
  w1 = w1
  w2 = w2
  t1 = t1
  t2 = t2
  t3 = t3
  Workers = {w1, w2}
  Main = Main
  Tasks = {t1, t2, t3}
  None = None
  End = End
  CleanThreshold = 2
  MaxAdds = 3
  BeginSeesQueue = FALSE
SPECIFICATION Spec
SYMMETRY Symmetry
INVARIANTS
  TypeOK
  QueueAffinity
  ResumeExclusive
  CleanExcludesResume
  NoDanglingHandle
  NoLostWakeup
  NoCircularWait
PROPERTIES
  ImplementsPoolSpec
  BindingStable

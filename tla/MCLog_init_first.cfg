SPECIFICATION FairSpec
CONSTANTS
  Task = {t1, t2, t3}
  Semaphores = {s1, s2}
  NULL = NULL
  InitLate = FALSE
INVARIANT LinesWhole
PROPERTY WritersReturn

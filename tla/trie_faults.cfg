CONSTANTS
  t1 = t1
  t2 = t2
  t3 = t3
  Threads = {t1, t2}
  Packages <- TwoVersions
  Depth = 4
  Remote = TRUE
  MaxID = 6
  MaxReadFaults = 1
  MaxWriteFaults = 1
  MaxRestarts = 1
SPECIFICATION Spec
SYMMETRY Symmetry
INVARIANTS
  IndexSurvivesFaults
  AnswersSurviveRestarts
CHECK_DEADLOCK FALSE

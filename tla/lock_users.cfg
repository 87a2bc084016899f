CONSTANTS
  t1 = t1
  t2 = t2
  t3 = t3
  Threads = {t1, t2, t3}
SPECIFICATION Spec
INVARIANTS
  TypeOK
  Exclusion
  UnlocksHeld
PROPERTIES
  AnsweredWithoutPath
CHECK_DEADLOCK FALSE

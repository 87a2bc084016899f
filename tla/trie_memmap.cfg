CONSTANTS
  t1 = t1
  t2 = t2
  t3 = t3
  Threads = {t1, t2, t3}
  Packages <- Siblings
  Depth = 4
  Remote = FALSE
  MaxID = 7
  MaxReadFaults = 0
  MaxWriteFaults = 0
  MaxRestarts = 0
SPECIFICATION Spec
SYMMETRY Symmetry
INVARIANTS
  TypeOK
  IndexFindsNode
  AnswersListed
PROPERTIES
  NodesOnlyGrow
  RegistrySpec

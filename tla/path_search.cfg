CONSTANTS
  n1 = n1
  n2 = n2
  n3 = n3
  n4 = n4
  Nodes = {n1, n2, n3}
  NoNode = NoNode
  Graphs <- AllGraphs
  Lengths <- UpTo3
SPECIFICATION Spec
CHECK_DEADLOCK FALSE
INVARIANTS
  TypeOK
  PathSound
  PathShortest
  NearTargetFound
PROPERTIES
  Terminates

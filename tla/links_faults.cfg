CONSTANTS
  t1 = t1
  t2 = t2
  v1 = v1
  v2 = v2
  s1 = s1
  s2 = s2
  Threads = {t1}
  VerbThreads = {v1, v2}
  Evidence <- MCEvidence
  Packages <- TwoVersions
  Depth = 2
  Remote = TRUE
  MaxID = 5
  MaxReadFaults = 1
  MaxWriteFaults = 1
  MaxRestarts = 0
SPECIFICATION LinksSpec
SYMMETRY Symmetry
INVARIANTS
  LinkTypeOK
  NeighborsComplete
  VerbsStable
  IndexFindsAll

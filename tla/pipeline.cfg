SPECIFICATION Spec
CONSTANTS
  c1 = c1
  c2 = c2
  d1 = d1
  d2 = d2
  w1 = w1
  w2 = w2
  k1 = k1
  k2 = k2
  NoDoc = NoDoc
  Docs = {d1, d2}
  Collectors = {c1, c2}
  Workers = {w1, w2}
  Main = w1
  Keys = {k1, k2}
  BufferChannelSize = 1
  MaxEvents = 4
  MaxStarts = 2
  MaxFailures = 1
  KeyOf <- MCKeyOf
  Work <- MCWork
  Predicates <- MCPredicates
INVARIANTS PipeTypeOK SentEmitted EventsReadable VerbsHaveNouns SBOMOnce
           ConnectionsLoseNothing OneReports
PROPERTIES SentAcked CollectReturns
CHECK_DEADLOCK FALSE

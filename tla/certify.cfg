SPECIFICATION Spec
CONSTANTS
  osv = osv
  p1 = p1
  p2 = p2
  p3 = p3
  g = g
  Docs = {p1, p2, p3, g}
  Collectors = {osv}
  GuacPackages = {g}
  Packages <- MCPackages
  BufferChannelSize = 1
  BatchSize = 3
  ServiceBatchSize = 1
  MaxRetries = 2
  Poll = TRUE
  MaxFailures = 2
INVARIANTS CertifyTypeOK AllScanned AllEmitted ScannedOnce BatchBound NoSendOnClosed
PROPERTIES RunEnds
CHECK_DEADLOCK FALSE

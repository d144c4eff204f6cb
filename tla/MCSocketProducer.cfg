SPECIFICATION Spec
CONSTANTS
  r1 = r1
  r2 = r2
  g1 = g1
  g2 = g2
  Nil = Nil
  Readers <- MCReaders
  Streams <- MCStreams
  MaxRetries = 2
  OutCap = 1
INVARIANTS
  ReaderHasConnection
  ConnectedIsRead
  ReturnsClean
PROPERTIES
  BrokenConnectionIsDropped
  ShutdownReturns
CHECK_DEADLOCK FALSE

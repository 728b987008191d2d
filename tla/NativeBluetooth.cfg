SPECIFICATION Spec
CONSTANTS
  None = None
  Senders = {s1}
  Stoppers = {p1}
  Connects = {k1}
  Disconnects = {d1}
  MaxLinks = 2
  MaxGeneration = 3
  MaxStreams = 2
  MaxChunks = 2
CHECK_DEADLOCK FALSE
INVARIANTS
  NoOrphanLink
  WrittenToItsStream
PROPERTIES
  StopCancelsSetup

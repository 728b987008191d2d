SPECIFICATION Spec
CONSTANTS
  None = None
  Callers = {c1, c2}
  Handlers = {h1, h2}
  Tabs = {t1, t2}
  Streams = {x1}
  QueueLimit = 1
  BatchLimit = 1
  MaxCommands = 2
  MaxSessions = 3
  MaxReports = 1
SYMMETRY Symmetry
CHECK_DEADLOCK FALSE
INVARIANTS
  CommandOfSession
  HandedInOrder
  PlaybackIsLive
  StoppingEnds

SPECIFICATION MCSpec
CONSTANTS
  Callers = {c1, c2}
  Stoppers = {p1}
  Streams = {x1}
  Nil = Nil
  Cloud = TRUE
  MaxGeneration = 1
INVARIANTS
  DispatchIsFresh
PROPERTIES
  FenceSpec
  StopReturns

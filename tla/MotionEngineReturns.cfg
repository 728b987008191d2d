SPECIFICATION FairSpec
CONSTANTS
  Requests = {r1, r2}
  None = None
  Operations = {"start", "vibrate", "pause", "stop"}
  Positioned = TRUE
  DenseContent = FALSE
  MaxEpoch = 1
  MaxStops = 1
  MaxEdits = 2
  MaxTries = 2
INVARIANTS
  RunIsAdmitted
PROPERTIES
  EveryCallReturns

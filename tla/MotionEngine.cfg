SPECIFICATION Spec
CONSTANTS
  Requests = {r1, r2}
  None = None
  Operations = {"start", "resume", "target", "refresh", "pause", "stop", "reset"}
  Positioned = TRUE
  DenseContent = FALSE
  MaxEpoch = 2
  MaxStops = 1
  MaxEdits = 2
  MaxTries = 1
SYMMETRY Symmetry
INVARIANTS
  NothingToResume
  StopIsLast
  NoOrphanMotion
  PlanIsCurrent
  NoSkippedChunk

SPECIFICATION Spec
CONSTANTS
  Requests = {r1, r2}
  None = None
  Operations = {"start", "target", "pause"}
  Positioned = FALSE
  DenseContent = FALSE
  MaxEpoch = 2
  MaxStops = 1
  MaxEdits = 3
  MaxTries = 1
SYMMETRY Symmetry
INVARIANTS
  NeverStartsMotion

SPECIFICATION Spec
CONSTANTS
  Commands = {c1, c2}
  Requests = {r1, r2, r3}
  None = None
  MaxReceipts = 2
  MaxGeneration = 2
  MaxSequence = 2
SYMMETRY Symmetry
INVARIANTS
  AppliedOnce
  OneCommandPerSequence
PROPERTIES
  MotionInOrder

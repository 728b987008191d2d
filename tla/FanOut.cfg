SPECIFICATION FairSpec
CONSTANTS
  None = None
  N = 2
  Vibrators = {2}
  Bound = {2}
  Readers = {d1}
  MaxRuns = 2
  MaxFailures = 1
CHECK_DEADLOCK FALSE
INVARIANTS
  StoppedMeansStill
PROPERTIES
  NoHotJoin
  OldWorkIsFenced
  StartNeedsEveryone
  LossIsNoticed

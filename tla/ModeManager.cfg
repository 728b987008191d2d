SPECIFICATION Spec
CONSTANTS
  None = None
  Users = {u1, u2}
  Modes = {"autopilot", "freestyle", "chat"}
  Calls = {"start", "stop", "chatstop", "modestop", "end", "halt", "pause", "resume", "chat", "review", "edge", "return", "status", "settings"}
  MaxRuns = 2
  MaxCalls = 2
  MaxPlans = 2
SYMMETRY Symmetry
INVARIANTS
  NoRevival
PROPERTIES
  WorkIsCurrent
  NewerMotionStands
  ReturnEndsHold

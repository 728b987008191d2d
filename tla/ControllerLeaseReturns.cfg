SPECIFICATION FairSpec
CONSTANTS
  None = None
  Actors = {a1, a2}
  Local = {}
  Session <- OneSession
  Requests = {r1}
  Jobs = {j1, j2}
  Kinds = {"takeover", "loss"}
  TTL = 0
  TicketLife = 1
  MaxTickets = 1
  MaxWaiters = 1
  MaxGeneration = 2
PROPERTIES
  AbandonedMotionStops
  HandoffSettles

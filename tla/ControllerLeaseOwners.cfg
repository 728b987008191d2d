SPECIFICATION Spec
CONSTANTS
  None = None
  Actors = {a1, a2, a3}
  Local = {a1}
  Session <- OwnSession
  Requests = {r1}
  Jobs = {j1, j2}
  Kinds = {"takeover", "bootstrap", "loss", "stop"}
  TTL = 0
  TicketLife = 1
  MaxTickets = 1
  MaxWaiters = 1
  MaxGeneration = 2
SYMMETRY Symmetry
INVARIANTS
  LiveRequestIsOwners
  StrayMotionIsStopped
  SharedStopCovers

SPECIFICATION FairRuntimeSpec
CONSTANTS
  None = None
  Requests = {r1}
  Loads = {a1}
  Clients = {r1,a1}
  Savers = {d1}
  Handlers = {d2}
  MaxCalls = 2
INVARIANTS
  ChatComesFirst
  StreamIsCurrent
  ActiveModelStays
PROPERTIES
  SlotSpec
  ChangesEnd
  ChatGetsSlot

\* An event dismissed while the bridge is between two connections.
CONSTANTS
  e1 = e1
  e2 = e2
  test = test
  p1 = p1
  None = None
  Client <- MCClient
  Event <- OneEvent
  StateOf <- MCStateOf
  TestEvent <- test
  Posters <- OnePoster
  Capacity = 1
  Serial = TRUE
  Expiring = FALSE
  MenuItems = {}
  DisplayOutcomes = {"ok"}
  MaxConns = 2
  MaxClicks = 0
  MaxDeletes = 1
  MaxBeats = 0
SPECIFICATION DeliverySpec
INVARIANT IdleSelfCorrects
CHECK_DEADLOCK FALSE

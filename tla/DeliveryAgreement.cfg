\* The keyboard and the server, changes of the slot overlapping each other.
CONSTANTS
  e1 = e1
  e2 = e2
  test = test
  p1 = p1
  None = None
  Client <- MCClient
  Event <- TwoEvents
  StateOf <- MCStateOf
  TestEvent <- test
  Posters <- OnePoster
  Capacity = 1
  Serial = FALSE
  Expiring = FALSE
  MenuItems = {"dismiss", "reconnect"}
  DisplayOutcomes = {"ok", "unacked"}
  MaxConns = 2
  MaxClicks = 1
  MaxDeletes = 1
  MaxBeats = 0
SPECIFICATION DeliverySpec
INVARIANT DeliveryTypeOK
INVARIANT LastWordIsShown
CHECK_DEADLOCK FALSE

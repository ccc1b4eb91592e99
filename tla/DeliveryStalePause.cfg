\* Toggles of the pause item queued up behind one another.
CONSTANTS
  e1 = e1
  e2 = e2
  test = test
  p1 = p1
  None = None
  Client <- MCClient
  Event <- OneEvent
  StateOf <- MCStateOf
  TestEvent <- test
  Posters <- OnePoster
  Capacity = 1
  Serial = TRUE
  Expiring = FALSE
  MenuItems = {"pause"}
  DisplayOutcomes = {"ok"}
  MaxConns = 1
  MaxClicks = 3
  MaxDeletes = 0
  MaxBeats = 0
SPECIFICATION DeliverySpec
PROPERTY SuppressedWhilePaused
CHECK_DEADLOCK FALSE

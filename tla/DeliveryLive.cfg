\* Lags, a lost connection, an expiry and a heartbeat, under fairness.
CONSTANTS
  e1 = e1
  e2 = e2
  test = test
  p1 = p1
  None = None
  Client <- MCClient
  Event <- TwoEvents
  StateOf <- MCStateOf
  TestEvent <- test
  Posters <- OnePoster
  Capacity = 1
  Serial = TRUE
  Expiring = TRUE
  MenuItems = {}
  DisplayOutcomes = {"ok"}
  MaxConns = 2
  MaxClicks = 0
  MaxDeletes = 0
  MaxBeats = 1
SPECIFICATION FairDelivery
INVARIANT KeyboardAgrees
INVARIANT NothingMissed
PROPERTY LatestIsShown
CHECK_DEADLOCK FALSE

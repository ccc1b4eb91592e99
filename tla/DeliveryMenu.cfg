\* Pauses and tests, writes that fail, and connections lost meanwhile.
CONSTANTS
  e1 = e1
  e2 = e2
  test = test
  p1 = p1
  None = None
  Client <- MCClient
  Event <- OneEvent
  StateOf <- MCStateOf
  TestEvent <- test
  Posters <- OnePoster
  Capacity = 1
  Serial = TRUE
  Expiring = FALSE
  MenuItems = {"pause", "test"}
  DisplayOutcomes = {"ok", "failed"}
  MaxConns = 2
  MaxClicks = 3
  MaxDeletes = 0
  MaxBeats = 0
SPECIFICATION DeliverySpec
INVARIANT PauseIsObeyed
INVARIANT MirrorFollowsMenu
INVARIANT IconNamesKeyboard
INVARIANT IconFollowsPause
CHECK_DEADLOCK FALSE

\* README: "New events replace earlier events from the same work item".
CONSTANTS
  None = None
  RawField <- MCRawField
  Field <- MCField
  NormalizeField <- MCNormalizeField
  DefaultTtl = 2
  MaxTtl = 3
  Requests = {r1, r2}
  Inputs <- MCInputs
  MaxInFlight = 2
  MaxClock = 0
  MaxJumps = 0
SPECIFICATION Spec
INVARIANT NewestOfItem
CHECK_DEADLOCK FALSE

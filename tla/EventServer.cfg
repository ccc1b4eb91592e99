\* Three concurrent requests, and a clock that may be set back.
CONSTANTS
  None = None
  RawField <- MCRawField
  Field <- MCField
  NormalizeField <- MCNormalizeField
  DefaultTtl = 2
  MaxTtl = 3
  Requests = {r1, r2, r3}
  Inputs <- MCInputs
  MaxInFlight = 3
  MaxClock = 1
  MaxJumps = 1
SPECIFICATION Spec
SYMMETRY Symmetry
INVARIANT TypeOK
INVARIANT RankWinner
INVARIANT AckedIsSuperseded
INVARIANT DismissedOnce
INVARIANT DismissedIsGone
PROPERTY ImplementsBoard
CHECK_DEADLOCK FALSE

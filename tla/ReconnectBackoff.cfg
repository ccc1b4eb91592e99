\* Backoff steps 2, 4, 8, 9, with a stable session of 5 ticks.
CONSTANTS
  Base = 2
  Max = 9
  Stable = 5
  MaxU32 = 6
  Horizon = 12
  MaxQueued = 2
SPECIFICATION ReachableSpec
INVARIANT TypeOK
INVARIANT DelayCapped
PROPERTY Spaced
PROPERTY BacksOff
PROPERTY QuitIsObeyed

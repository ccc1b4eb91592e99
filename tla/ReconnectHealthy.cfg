\* A long session ends with a socket error.
CONSTANTS
  Base = 2
  Max = 3
  Stable = 3
  MaxU32 = 3
  Horizon = 3
  MaxQueued = 2
SPECIFICATION Spec
PROPERTY HealthyDropIsPrompt

\* Two events to display, and a broker that may crash twice.
CONSTANTS
  None = None
  Event = {e1, e2}
  MaxCalls = 3
  MaxFaults = 2
SPECIFICATION FairSpec
INVARIANT TypeOK
INVARIANT OkMeansShown
INVARIANT HealsInOneCall
INVARIANT WrittenAtMostTwice
INVARIANT NobodyWaitsInVain
PROPERTY ImplementsDisplayCall
PROPERTY CallAdvances
PROPERTY CallReturns
CHECK_DEADLOCK FALSE

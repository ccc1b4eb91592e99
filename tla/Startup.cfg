\* The bridge, or the two clients, in every environment.
CONSTANTS
  None = None
  Empty = Empty
  Space = Space
  Absent = Absent
  Malformed = Malformed
  Word <- MCWord
  Places = 4
  FirstCommand = 3
  DefaultServer = "default"
  UnknownHost = "unknown"
  Candidates = 2
  BridgeLaunches <- MCBridgeLaunches
  Edits <- MCEdits
  MaxEdits = 1
  Dashed = {"--dashed"}
  StateArg = {"done"}
  Number = {"7"}
  ServerUrl = "url"
  ServerToken = "secret"
  ClientLaunches <- MCClientLaunches
SPECIFICATION StartupSpec
INVARIANT TypeOK
INVARIANT BlankHostWasGiven
INVARIANT RunsOnTheHighestLayer
INVARIANT RefusedForWant
INVARIANT SameRequest
INVARIANT NodeKeepsUp
INVARIANT ZeroMeansDone
CHECK_DEADLOCK FALSE

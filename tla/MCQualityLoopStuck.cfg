CONSTANTS
  Last = 1
  Paths = {a, b}
  Ignored = {}
  Versions = {0, 1}
  Base = 0
  Proposals <- AllContents
  MaxRuns = 3
  MaxKills = 1
  MaxEdits = 0
SPECIFICATION Spec
CHECK_DEADLOCK FALSE
INVARIANT
  AwaitingIsReady

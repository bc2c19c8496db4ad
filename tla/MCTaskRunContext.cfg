SPECIFICATION Spec
CONSTANTS
  Versions = {shipped, edited}
  Original = shipped
  NoTree = NoTree
  MaxRuns = 2
  MaxCrashes = 1
INVARIANT ContextReachesAgent
CHECK_DEADLOCK FALSE

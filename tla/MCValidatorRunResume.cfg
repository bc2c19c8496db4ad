CONSTANTS
  LastCheck = 2
  MaxRuns = 2
  MaxCrashes = 1
SPECIFICATION Spec
CHECK_DEADLOCK FALSE
INVARIANT
  AcceptedIsReviewable

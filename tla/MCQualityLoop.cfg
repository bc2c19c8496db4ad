CONSTANTS
  Last = 2
  Paths = {a, b}
  Ignored = {b}
  Versions = {0, 1, 2}
  Base = 0
  Proposals <- Rewrites
  MaxRuns = 2
  MaxKills = 1
  MaxEdits = 1
SPECIFICATION Spec
CHECK_DEADLOCK FALSE
INVARIANTS
  TypeOK
  FinishedIsCurrent
  OnlyFaultsBlock
PROPERTIES
  PublishedIsClean
  ImplementsBranch

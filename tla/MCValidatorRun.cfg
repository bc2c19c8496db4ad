CONSTANTS
  LastCheck = 2
  MaxRuns = 3
  MaxCrashes = 2
SPECIFICATION Spec
CHECK_DEADLOCK FALSE
INVARIANTS
  TypeOK
  PassIsEarned
  RunsConclude
PROPERTIES
  TrueIsRechecked
  ImplementsContract

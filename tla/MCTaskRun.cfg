SPECIFICATION Spec
CONSTANTS
  Versions = {shipped, edited}
  Original = shipped
  NoTree = NoTree
  MaxRuns = 2
  MaxCrashes = 1
INVARIANT TypeOK
INVARIANT CompletionIsMeasured
INVARIANT SavedVerdictReplays
INVARIANT AgentNeedsValidation
INVARIANT NothingElseBlocks
PROPERTY ImplementsContract
PROPERTY ImplementsEvidence
CHECK_DEADLOCK FALSE

SPECIFICATION FairSpec
CONSTANTS
  Campaigns = {c1, c2}
  patient = c1
  NumTasks = 1
  good = good
  Contents = {good, Partial}
  Partial = Partial
  Absent = Absent
  NoOne = NoOne
  Legal <- LegalContents
  Emitted <- EmittedContents
  MaxRepairs <- RepairAttempts
  Touchable = {1}
  MaxKills = 1
INVARIANTS
  TypeOK
  BudgetSurvives
  RenameTargetIsFree
PROPERTIES
  CampaignSettles
  ImplementsShelf
CHECK_DEADLOCK FALSE

SPECIFICATION FairSpec
CONSTANTS
  Pids = {p1, p2, p3}
  Garbling = {p1}
  Worker = Worker
  NoPid = NoPid
INVARIANTS
  TypeOK
  AnsweredMeansGone
  OnlyOwnTargets
PROPERTY
  RequestEnds
  ImplementsSidecar
CHECK_DEADLOCK FALSE

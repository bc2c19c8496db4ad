SPECIFICATION FairSpec
CONSTANTS
  t1 = t1
  t2 = t2
  Tools = {t1, t2}
  Timeout <- MCTimeout
  Term = 2
  Kill = 1
  Stall = 7
  Health = 6
  Grace = 18
  MaxEvals = 2
INVARIANTS TypeOK QuietGPU GateIsHonest BusyIsNotUnavailable
PROPERTIES EvaluationEnds ImplementsSidecar
CHECK_DEADLOCK FALSE

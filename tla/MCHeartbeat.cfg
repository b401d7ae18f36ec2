SPECIFICATION FairSpec
CONSTANTS
  Callers = {c1}
  Draining = FALSE
  TTL = 3
  Margin = 1
  MaxTime = 9
  MaxNames = 6
  MaxFaults = 2
INVARIANTS
  TypeOK
  GuardMeansAlive
  ClosedLeavesNoRow
PROPERTIES
  DeadRowsStayDead
  Recovers
CHECK_DEADLOCK FALSE

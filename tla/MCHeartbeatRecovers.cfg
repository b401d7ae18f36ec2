SPECIFICATION FairSpec
CONSTANTS
  Callers = {c1, c2}
  Draining = FALSE
  TTL = 2
  Margin = 1
  MaxTime = 3
  MaxNames = 8
  MaxFaults = 1
PROPERTIES
  Recovers
CHECK_DEADLOCK FALSE

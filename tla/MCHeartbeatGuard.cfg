SPECIFICATION Spec
CONSTANTS
  Callers = {c1}
  Draining = TRUE
  TTL = 3
  Margin = 1
  MaxTime = 9
  MaxNames = 4
  MaxFaults = 2
INVARIANTS
  GuardMeansAlive
CHECK_DEADLOCK FALSE

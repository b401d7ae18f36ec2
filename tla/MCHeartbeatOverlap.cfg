SPECIFICATION Spec
CONSTANTS
  Callers = {c1, c2}
  Draining = TRUE
  TTL = 2
  Margin = 1
  MaxTime = 4
  MaxNames = 3
  MaxFaults = 1
SYMMETRY Symmetric
INVARIANTS
  CloseEndsItsRow
PROPERTIES
  OnlyStraysFoolTheGuard
CHECK_DEADLOCK FALSE

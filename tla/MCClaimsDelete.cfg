SPECIFICATION Spec
CONSTANTS
  Name = {a, b}
  Nobody = Nobody
  MaxRecords = 1
  MaxLog = 5
  MaxFaults = 0
  LateWrites = FALSE
SYMMETRY Symmetric
PROPERTIES
  DeleteSparesRuns
CHECK_DEADLOCK FALSE

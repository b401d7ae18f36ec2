SPECIFICATION FairSpec
CONSTANTS
  Name = {a, b}
  Nobody = Nobody
  MaxRecords = 1
  MaxLog = 4
  MaxFaults = 1
  LateWrites = FALSE
PROPERTIES
  ClaimsAreGivenBack
  KeepsOwnership
CHECK_DEADLOCK FALSE

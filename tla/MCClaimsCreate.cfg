SPECIFICATION FairSpec
CONSTANTS
  Name = {a, b}
  Nobody = Nobody
  MaxRecords = 1
  MaxLog = 4
  MaxFaults = 1
  LateWrites = FALSE
PROPERTIES
  EveryClaimIsGivenBack
CHECK_DEADLOCK FALSE

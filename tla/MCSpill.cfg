SPECIFICATION SpillSpec
CONSTANTS
  CacheLimit = 1
  SpillLoads <- MCSpillLoads
INVARIANTS OnlyItsRecordIsRead
CHECK_DEADLOCK FALSE

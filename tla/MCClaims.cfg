SPECIFICATION Spec
CONSTANTS
  Name = {a, b}
  Nobody = Nobody
  MaxRecords = 2
  MaxLog = 4
  MaxFaults = 1
  LateWrites = TRUE
SYMMETRY Symmetric
INVARIANTS
  TypeOK
  FencedWritesAreCurrent
  OneWriterAtATime
  EpochNamesTheHolder
  RunsDoNotOverlap
PROPERTIES
  BusySessionsStayWithLiveHolders
CHECK_DEADLOCK FALSE

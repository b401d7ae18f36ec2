SPECIFICATION Spec
CONSTANTS
  r1 = r1
  r2 = r2
  m1 = m1
  m2 = m2
  i1 = i1
  e1 = e1
  Run = {r1, r2}
  Steer = {m1, m2}
  Interrupt = {i1}
  Edit = {e1}
  MaxActiveRuns = 2
  Loads <- MCLoads
INVARIANTS TypeOK QueuedMessagesWaitOnce LeftoversKeepTheirOrder DrainedMeansSettled StopsReachTheirRun
PROPERTIES KeepsLock DrainWaitsForChanges EverythingEnds
CHECK_DEADLOCK FALSE

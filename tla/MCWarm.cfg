SPECIFICATION Spec
CONSTANTS
  r1 = r1
  r2 = r2
  i1 = i1
  e1 = e1
  A = A
  B = B
  Session = {A, B}
  Run = {r1, r2, i1}
  Edit = {e1}
  SessionOf <- MCSessionOf
  Waits = FALSE
  MaxWarm = 1
  Loads <- MCLoads
INVARIANTS HeldCopiesAreNotCompacted KeptCopiesAreHealthy ActiveSessionsBounded ClosedKeepsNothing
PROPERTIES WarmCallsEnd
CHECK_DEADLOCK FALSE

SPECIFICATION FairSpec
CONSTANTS
  p1 = p1
  p2 = p2
  p3 = p3
  Proc = {p1, p2, p3}
  Existing <- Attached
INVARIANTS
  LockConserved
  OneInitialProcess
  ConnectionsCounted
PROPERTY AcquireTerminates

SPECIFICATION FairSpec
CONSTANTS
  p1 = p1
  p2 = p2
  p3 = p3
  Proc = {p1, p2, p3}
  Faults <- HandledFaults
  MaxUnits = 2
INVARIANTS
  TypeOK
  OneUser
PROPERTY CallsProceed

SPECIFICATION Spec
CONSTANTS
  p1 = p1
  p2 = p2
  p3 = p3
  Proc = {p1, p2}
  Faults <- AllFaults
  MaxUnits = 2
INVARIANTS
  NotLostForGood
  Balanced
CHECK_DEADLOCK FALSE

SPECIFICATION FairSpec
CONSTANTS
  p1 = p1
  p2 = p2
  p3 = p3
  Proc = {p1, p2, p3}
  Existing <- Fresh
INVARIANTS
  TypeOK
  MutualExclusion
PROPERTIES
  ImplementsLock
  ConstructorTerminates

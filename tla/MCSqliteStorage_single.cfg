SPECIFICATION Spec
CONSTANTS
  p1 = p1
  Proc = {p1}
  Watching <- Nobody
  Key <- OneKey
  Copies = {1, 2}
  FirstCopy = 1
  Content = {1, 2}
  Revision <- Revisions
  Validate = TRUE
  HasZone = TRUE
  Faults <- AllFaults
  MaxTombs = 2
INVARIANTS
  TypeOK
  CleanIsStored
  SaveKeepsPromise
PROPERTY StrandedForGood

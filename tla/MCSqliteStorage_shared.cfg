SPECIFICATION Spec
CONSTANTS
  p1 = p1
  p2 = p2
  Proc = {p1, p2}
  Watching = {p2}
  Key <- OneKey
  Copies = {1}
  FirstCopy = 1
  Content = {1, 2}
  Revision <- Revisions
  Validate = TRUE
  HasZone = TRUE
  Faults <- RowFault
  MaxTombs = 2
INVARIANTS
  OneRowPerKey
  SaveKeepsPromise

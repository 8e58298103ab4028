SPECIFICATION FairSpec
CONSTANTS
  p1 = p1
  Proc = {p1}
  Watching <- Nobody
  Key <- TwoKeys
  Copies = {1}
  FirstCopy = 1
  Content = {1, 2}
  Revision <- Revisions
  Validate = TRUE
  HasZone = TRUE
  Faults <- CommitFault
  MaxTombs = 2
PROPERTIES
  ImplementsStore
  SavesReturn

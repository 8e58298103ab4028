SPECIFICATION FairSpec
CONSTANTS
  Row = {1, 2, 3}
  Start <- PlainStart
  End <- PlainEnd
  Day <- Days
  FirstDay = 1
  LastDay = 3
  Paged = {"dates", "future"}
  Whole = {"todos"}
  Ascending = {"future"}
  Matches <- PlainMatches
  Column <- PlainColumn
  Date <- PlainDate
  Cursor0 <- PlainCursor
  Selections <- PlainSelections
  Limits = {1}
  Faults <- NoLock
INVARIANTS
  TypeOK
  RangeLoaded
  FlagsHonest
  CursorCovers
PROPERTIES
  PagingEnds

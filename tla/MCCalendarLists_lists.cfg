CONSTANTS
  DayLength = 4
  Object = {"series", "exception", "event", "older", "step", "newer"}
  Slot = {"exception", "step"}
  Kind <- mcKind
  Uid <- mcUid
  Revision <- mcRevision
  Summary <- mcSummary
  Email = {"ann", "bob"}
  Timings <- mcTimings
  Details <- mcDetails
  LastDay = 4
  Limit = {2, 6}
  MaxEditing = 1

SPECIFICATION Spec

INVARIANTS
  ListsAreCurrent
  NearestDates
  DaysAreExpanded

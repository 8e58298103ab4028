CONSTANTS
  DayLength = 24
  Zone = {"UTC", "Paris", "Lost"}
  Known = {"UTC", "Paris"}
  Offset <- mcOffset
  Key <- mcKey
  Contents <- mcContents
  Failing = {"Attachments"}
  MaxRowId = 2
  MaxFaults = 1

SPECIFICATION Spec

INVARIANTS
  TypeOK
  LoadedIsWritten
  LoadedIsFound
  RoundTripStable
  NoTombBesideLive

PROPERTY NewRowStartsEmpty

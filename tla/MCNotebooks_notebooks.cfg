CONSTANTS
  Notebook = {"n1", "n2"}
  ReadOnly = {}
  i1 = i1
  i2 = i2
  Incidence = {i1, i2}
  NotebookOf <- mcNotebookOf
  None = None
  MaxTroubles = 1

SPECIFICATION Spec

INVARIANTS
  TypeOK
  RegistryAgrees
  OneDefaultRow
  NoOrphans
  AlarmsFollowVisibility

SYMMETRY Symmetry

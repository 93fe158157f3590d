SPECIFICATION Spec
CONSTANTS
  j1 = j1
  j2 = j2
  k1 = k1
  d1 = d1
  d2 = d2
  Jobs = {j1, j2}
  Keys = {k1}
  Digests = {d1, d2}
  Keep = 1
  MaxEvents = 2
  MaxDeaths = 2
  None = None
SYMMETRY Symmetry
INVARIANTS
  AlwaysLoadable
  NamesAreUnique
  AcknowledgedSurvives
  NoGhostJobs
PROPERTIES
  ImplementsRecords
CHECK_DEADLOCK FALSE

SPECIFICATION Spec
CONSTANTS
  p1 = p1
  p2 = p2
  Procs = {p1, p2}
  Tables = {1, 2}
  Rows = {0, 1}
  Fresh <- EmptyTables
  Legacy <- OldTables
  None = None
  MaxLog = 3
  MaxFaults = 2
  MaxLosses = 1
INVARIANTS
  CommittedIsReadable
PROPERTY
  ImplementsLog
CHECK_DEADLOCK FALSE

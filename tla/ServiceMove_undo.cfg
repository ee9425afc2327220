SPECIFICATION Spec
CONSTANTS
  j1 = j1
  j2 = j2
  j3 = j3
  Job = {j1, j2, j3}
  NoJob = NoJob
  MaxFaults = 0
CHECK_DEADLOCK FALSE
SYMMETRY Symm
INVARIANTS UndoStopsDest

SPECIFICATION Spec
CONSTANTS
  j1 = j1
  j2 = j2
  j3 = j3
  w1 = w1
  w2 = w2
  h1 = h1
  Job = {j1, j2}
  Worker = {w1, w2}
  Host = {h1}
  JobType = {"os_patch", "host_reboot", "host_bootstrap"}
  NoJob = NoJob
  WaitLimit = 1
  MaxFaults = 1
CHECK_DEADLOCK FALSE
SYMMETRY Symm
INVARIANTS TypeOK LaneExclusive BootstrapAlone

SPECIFICATION FairSpec
CONSTANTS
  j1 = j1
  j2 = j2
  j3 = j3
  w1 = w1
  w2 = w2
  h1 = h1
  Job = {j1, j2}
  Worker = {w1}
  Host = {h1}
  JobType = {"template_deploy"}
  NoJob = NoJob
  WaitLimit = 2
  MaxFaults = 0
CHECK_DEADLOCK FALSE
PROPERTIES WaitIsBounded

SPECIFICATION SweptSpec
CONSTANTS
  j1 = j1
  j2 = j2
  j3 = j3
  w1 = w1
  w2 = w2
  h1 = h1
  Job = {j1}
  Worker = {w1, w2}
  Host = {h1}
  JobType = {"template_deploy", "host_bootstrap"}
  NoJob = NoJob
  WaitLimit = 1
  MaxFaults = 2
CHECK_DEADLOCK FALSE
PROPERTIES Settles RefinesJobRow

SPECIFICATION FairSpec
CONSTANTS
  w1 = w1
  w2 = w2
  Worker = {w1, w2}
  Host = {1, 2}
  Uuid = {1, 2, 3}
  NoToken = NoToken
  Ttl = 1
  RunLimit = 1
  MaxOutages = 0
  MaxKills = 1
PROPERTIES SomeTaskRuns KeysAreFreed

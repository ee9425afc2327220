SPECIFICATION Spec
CONSTANTS
  w1 = w1
  w2 = w2
  Worker = {w1, w2}
  Host = {1, 2}
  Uuid = {1, 2, 3, 4}
  NoToken = NoToken
  Ttl = 1
  RunLimit = 1
  MaxOutages = 1
  MaxKills = 1
SYMMETRY Symm
INVARIANTS TypeOK MutualExclusion
PROPERTIES OwnKeyOnly NothingLeftBehind RefinesMutex

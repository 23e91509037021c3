SPECIFICATION Spec
CONSTANTS
  w1 = w1
  w2 = w2
  a = a
  b = b
  Watcher <- MCWatcher
  Key <- MCKey
  Noise = {}
  Fault = {}
  MaxRaised = 3
  Capacity = 1
  Window = 2
  MaxTime = 2
  Covers <- MCCovers
  TypeOf <- MCTypeOf
  Hits <- MCHits
  Configs <- MCConfigs
  StartConfig <- Nested
SYMMETRY WatcherSymmetry
INVARIANTS
  HistoryCovers
  DecidedInOrder
  ReceivedHasOneFate
  CountersAccountForEvents
  LiveFollowsHistory
CHECK_DEADLOCK FALSE

SPECIFICATION WatcherFairSpec
CONSTANTS
  w1 = w1
  w2 = w2
  Watcher <- MCWatcher
  Key = {k1}
  Noise = {noise}
  Fault = {fault}
  MaxRaised = 3
INVARIANTS
  InOrder
  Conserved
PROPERTIES
  EverythingLeaves
CHECK_DEADLOCK FALSE

SPECIFICATION WatcherSpec
CONSTANTS
  w1 = w1
  w2 = w2
  Watcher <- MCWatcher
  Key = {k1}
  Noise = {noise}
  Fault = {fault}
  MaxRaised = 2
INVARIANTS
  AllEventsPreserved
CHECK_DEADLOCK FALSE

SPECIFICATION FairSpec
CONSTANTS
  w1 = w1
  w2 = w2
  a = a
  b = b
  Watcher = {w1}
  Key = {a}
  Noise = {}
  Fault = {fault}
  MaxRaised = 3
  Capacity = 1
  Window = 2
  MaxTime = 1
  Covers <- MCCovers
  TypeOf <- MCTypeOf
  Hits <- MCHits
  Configs <- LiveConfigs
  StartConfig <- Scripting
PROPERTY
  SentIsDecided
CHECK_DEADLOCK FALSE

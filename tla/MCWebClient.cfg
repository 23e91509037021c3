SPECIFICATION FairSpec
CONSTANTS
  PerPage = 2
  Capacity = 1
  Stamp <- Stamps
  Matching = {1, 2, 4}
  FirstRows = 2
  MaxRows = 4
  MaxShows = 2
  MaxLoads = 2
  MaxTroubles = 1
INVARIANTS
  LineKept
  LiveInOrder
  ViewExact
PROPERTIES
  Reconnects
CHECK_DEADLOCK FALSE

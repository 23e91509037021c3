SPECIFICATION Spec
CONSTANTS
  k1 = k1
  k2 = k2
  Key <- MCKey
  Window <- MCWindow
  MaxTime <- MCMaxTime
INVARIANTS
  PassesApart
PROPERTIES
  SuppressedOnlyIfRecent
  TableIsFresh
  ImplementsHold

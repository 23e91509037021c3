SPECIFICATION Spec
CONSTANTS
  r1 = r1
  r2 = r2
  Recorder <- MCRecorder
  Event <- MCEvent
  Rates <- MCRates
  Config <- MCConfig
  MaxEvents = 3
  MaxTime = 3
INVARIANTS
  NothingMiscounted
  ChartHangsTogether
  WindowExact
  RecentKept
PROPERTIES
  ScrapesGrow
CONSTRAINT Apart
ACTION_CONSTRAINT TimelyTick
SYMMETRY RecorderSymmetry

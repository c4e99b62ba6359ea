SPECIFICATION NetworkFairSpec
CONSTANTS
  Off = Off
  Dim = Dim
  Full = Full
  Keep = Keep
  NaN = NaN
  None = None
  NotGiven = NotGiven
  NonFinite <- NaN
  NoRate <- None
  Level <- MCLevel
  DemoPattern <- MCDemoPattern
  HasPin <- MCHasPin
  GpioOutcome <- MCReliable
  RefreshMs <- MCRefreshMs
  RateUnit = 1
  SettleMs = 10
  PulseMs = 200
  NumArcs = 2
  LightsPerArc = 1
  Rate <- MCFrameRate
  Library <- MCLibrary
  ColourRequest <- MCColourRequest
  Batch <- MCNothing
  LossSets <- MCLossSets
  Stalls <- MCOnTime
  Oversleeps <- MCOnTime
INVARIANTS
  NetworkTypeOK
  ShutterSeesItsFrame
  ExactRefreshes
PROPERTIES
  FinishedMeansAllShot
  CaptureEnds
  UpdateReachesWire

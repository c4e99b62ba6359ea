SPECIFICATION NetworkSpec
CONSTANTS
  Off = Off
  Dim = Dim
  Full = Full
  Keep = Keep
  NaN = NaN
  None = None
  NotGiven = NotGiven
  NonFinite <- NaN
  NoRate <- None
  Level <- MCLevel
  DemoPattern <- MCDemoPattern
  HasPin <- MCHasPin
  GpioOutcome <- MCReliable
  RefreshMs <- MCRefreshMs
  RateUnit = 1
  SettleMs = 10
  PulseMs = 500
  NumArcs = 1
  LightsPerArc = 2
  Rate <- MCTimingRate
  Library <- MCNoLibrary
  ColourRequest <- MCNothing
  Batch <- MCNothing
  LossSets <- MCNoLoss
  Stalls <- MCStalls
  Oversleeps <- MCOversleeps
PROPERTY
  EdgePerTrigger

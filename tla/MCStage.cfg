SPECIFICATION StageSpec
CONSTANTS
  NumArcs = 2
  LightsPerArc = 2
  RefreshMs = 100
  RateUnit = 1
  Off = Off
  Dim = Dim
  Full = Full
  Keep = Keep
  NaN = NaN
  None = None
  NonFinite <- NaN
  NoRate <- None
  Level <- MCLevel
  DemoPattern <- MCDemoPattern
  Rate <- MCRate
  Library <- MCLibrary
  ColourRequest <- MCColourRequest
  Batch <- MCBatch
INVARIANTS
  TypeOK
  SessionTracksCursor
  OlatOneLight
  PlaybackShowsFrame
PROPERTY
  ContractSpec

SPECIFICATION ApiSpec
CONSTANTS
  NumArcs = 1
  LightsPerArc = 1
  RefreshMs = 100
  RateUnit = 1
  Off = Off
  Full = Full
  Keep = Keep
  NaN = NaN
  None = None
  NonFinite <- NaN
  NoRate <- None
  NotGiven <- None
  i = i
  j = j
  Absent = Absent
  Partial = Partial
  Level <- MCLevel
  DemoPattern <- MCDemoPattern
  Rate <- MCRate
  Library <- MCLibrary
  ColourRequest <- MCColourRequest
  Batch <- MCNothing
  h1 = h1
  h2 = h2
  Handler <- MCHandler
  Id = {i, j}
  InitialFiles <- MCInitialFiles
  FlushOutcome = {TRUE}
  IoOutcome = {TRUE}
  Index <- MCIndex
  RawBatch <- MCRawBatch
  StoreRequest = {"list", "get", "upload", "delete", "play"}
SYMMETRY MCSymmetry
INVARIANTS
  ApiTypeOK
  LockNeverPoisoned
  UploadsFinish
PROPERTY
  UploadsCanBePlayed

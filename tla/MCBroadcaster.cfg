SPECIFICATION BroadcasterFairSpec
CONSTANTS
  arc0C = arc0C
  arc0W = arc0W
  arc1C = arc1C
  arc1W = arc1W
  spare = spare
  name = name
  Text = {arc0C, arc0W, arc1C, arc1W, spare, name}
  Words <- MCWords
  NumArcs = 1
  LightsPerArc = 2
  UniverseSize = 13
  SequenceModulus = 2
  HasGpioPin = TRUE
  MaxRetries = 3
  Interfaces <- MCInterfaces
  Installations <- MCInstallations
  Noise <- MCNoise
  Look <- MCLook
CHECK_DEADLOCK FALSE
INVARIANTS
  TypeOK
  BroadcasterTypeOK
  OneUniversePerSupply
  HeardAsSent
  SoundStageStarts
  OnlyServedSupplies
  ShowsOneLook
PROPERTIES
  UniversesServed
  DiscoveryEnds

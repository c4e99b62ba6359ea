SPECIFICATION SessionFairSpec
CONSTANTS
  FrameCount = {0, 1}
  Client = {"ann"}
  Capacity = 2
INVARIANTS
  SessionTypeOK
  ViewIsCurrent
PROPERTIES
  NoEventSkipped
  ViewSettles

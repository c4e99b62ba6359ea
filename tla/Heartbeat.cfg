SPECIFICATION FairSpec
CONSTANTS
  Tracked = {"a", "b"}
  Strangers = {"c"}
  Interval = 9
  MaxDelay = 2
  Limit = 20
  CheckEvery = 1
  MaxLate = 1
INVARIANTS
  TypeOK
  LossNoticed
PROPERTIES
  NoFalseAlarm
  ReportsTakenBack

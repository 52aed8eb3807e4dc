SPECIFICATION Spec
CONSTANTS
  Ids <- ThreeIds
  Kind <- McKind
  Timeout <- McTimeout
  WatchdogMax = 2
  Word32 = 1024
  Word64 = 4096
  RolloverFloor = 1000
  FirstTime = 100
  Corrections <- Forward
  MaxCorrected = 1
  MaxTime = 7
CHECK_DEADLOCK FALSE
INVARIANTS
  FiresWhenSilent
  FiresInTime

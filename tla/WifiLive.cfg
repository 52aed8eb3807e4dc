SPECIFICATION FairSpec
CONSTANTS
  TestSsids <- Guest
  Air <- Everywhere
  EventMax = 2
  MaxTests = 1
  MaxRpc = 0
  MaxResets = 0
  MaxFaults = 1
PROPERTIES
  UpAgain
  TestEnds

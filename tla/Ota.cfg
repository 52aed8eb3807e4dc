SPECIFICATION FairSpec
CONSTANTS
  SectorSize = 2
  MinFirmware = 3
  MaxFirmware = 4
  OtaMaxRetries = 1
  Replies <- AllReplies
  Digests <- NewOnly
  PacketMax = 2
  MaxUpdates = 2
  MaxLookups = 1
  MaxResets = 1
  MaxFaults = 1
CHECK_DEADLOCK FALSE
INVARIANTS
  TimerArmed
  WriterInStep
  CurrentBoots
PROPERTIES
  RunningSlotKept
  StagesOnlyWhole
  ImplementsTrialBoot
  UpdateEnds

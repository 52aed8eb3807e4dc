SPECIFICATION FairSpec
CONSTANTS
  QueueSize = 10
  BackoffMax = 2
  SumsToEtx = {}
  MaxEnergy = 1
  MaxFaults = 1
INVARIANTS
  TimerArmed
PROPERTIES
  EnergyFresh
  MeterIsRead

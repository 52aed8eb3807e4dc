SPECIFICATION FairSpec
CONSTANTS
  QueueSize = 12
  Serial = 7
  FirstEnergy = 13
  RpcSteps = 1
  MaxEnergy = 14
  MaxFaults = 1
INVARIANTS
  SubscribesAsItself
PROPERTIES
  EnergyForward
  EventuallySubscribed
  KeepsUp

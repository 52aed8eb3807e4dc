SPECIFICATION Spec
CONSTANTS
  TestSsids <- Guest
  Air <- Everywhere
  EventMax = 2
  MaxTests = 1
  MaxRpc = 1
  MaxResets = 1
  MaxFaults = 1
INVARIANTS
  AutoConnectReturns
  MqttIsTold
PROPERTIES
  ScannerLives

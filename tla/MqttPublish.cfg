SPECIFICATION FairSpec
CONSTANTS
  SendTimeout = 1
  ReconnectTimeout = 1
  ConnectTimeout = 1
  KeepAlive = 2
  TaskQueueSize = 2
  QueueMax = 2
  InBufMax = 2
  IdMax = 2
  DnsMax = 1
  HostIsIp = FALSE
  AppCalls <- Publishes
  DownQoS = {}
  MaxCalls = 3
  MaxDown = 0
  MaxFaults = 1
  MaxRestarts = 0
INVARIANTS
  TypeOK
  InFlightIsHead
  OneExchange
  NoLoss
PROPERTIES
  EventuallyConnected
  EventuallyDelivered

SPECIFICATION Spec
CONSTANTS
  SendTimeout = 1
  ReconnectTimeout = 1
  ConnectTimeout = 1
  KeepAlive = 2
  TaskQueueSize = 2
  QueueMax = 2
  InBufMax = 1
  IdMax = 2
  DnsMax = 1
  HostIsIp = TRUE
  AppCalls <- Mixed
  DownQoS = {1, 2}
  MaxCalls = 2
  MaxDown = 1
  MaxFaults = 1
  MaxRestarts = 1
INVARIANTS
  WaitHasTimeout
PROPERTIES
  Delivers

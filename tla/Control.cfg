SPECIFICATION FairSpec
CONSTANTS
  MaxFlashErrors = 1
  Stored = {"test", "open", "start_ap"}
  Commands = {"close", "off", "set_ssid_pwd", "clear_cron", "reconnect", "stop_ap"}
  Limits = {2}
  Deltas = {1}
  CronJobsMax = 2
  FirstEnergy = 0
  MaxEnergy = 1
  MaxCalls = 1
  MaxMishaps = 1
INVARIANTS
  SettingsAreSaved
  ClosedIsClosed
  ApFollowsSetting
PROPERTIES
  RestartKeepsSettings
  

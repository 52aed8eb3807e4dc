SPECIFICATION Spec
CONSTANTS
  Minute = 4
  Nights <- SpringNights
  FromHour = 22
  Hours = 5
  Jobs <- TestJobs
  MaxSlips = 2
  MaxUpdates = 1
CHECK_DEADLOCK FALSE
INVARIANTS
  Punctual
  RunsOnLocalTime
PROPERTIES
  NoMinuteSkipped

SPECIFICATION Spec
CONSTANTS
  Minute = 4
  Nights <- AutumnNights
  FromHour = 22
  Hours = 5
  Jobs <- TestJobs
  MaxSlips = 0
  MaxUpdates = 0
INVARIANT RunsOnLocalTime
CHECK_DEADLOCK FALSE

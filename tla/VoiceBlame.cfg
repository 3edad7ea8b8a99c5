CONSTANTS
  MaxTries = 1
  MaxFaults = 1
  Poll = 2
  Timeout = 1
  MaxStrikes = 2
SPECIFICATION Spec
PROPERTIES OutageIsForgiven
CHECK_DEADLOCK FALSE

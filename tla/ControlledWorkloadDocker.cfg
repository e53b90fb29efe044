SPECIFICATION FairSpec
CHECK_DEADLOCK FALSE
CONSTANTS
  Providers = {"docker"}
  MaxFaults = 2
PROPERTIES
  KillAnswers

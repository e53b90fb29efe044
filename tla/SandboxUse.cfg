SPECIFICATION UseSpec
CHECK_DEADLOCK FALSE
CONSTANTS
  Providers = {"daytona", "docker", "modal", "compose"}
  MaxFaults = 3
  MaxAttempts = 3
INVARIANTS
  HandleIsGood
  CommandIsHonest
  NoCommandLeft
PROPERTIES
  ImplementsContract
  CallsSettle

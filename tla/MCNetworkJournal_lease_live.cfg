SPECIFICATION FairSpec
CONSTANTS
  None = None
  Endpoints <- OneEndpoint
  Count = 1
  Arping = TRUE
  Ethtool = TRUE
  MaxStages = 1
  MaxFailures = 3
  MaxCrashes = 0
  Expiry = TRUE
PROPERTIES
  UncommittedIsUndone
CHECK_DEADLOCK FALSE

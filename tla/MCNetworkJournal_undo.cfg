SPECIFICATION Spec
CONSTANTS
  None = None
  Endpoints <- BothEndpoints
  Count = 2
  Arping = TRUE
  Ethtool = TRUE
  MaxStages = 1
  MaxFailures = 3
  MaxCrashes = 1
  Expiry = FALSE
INVARIANTS
  JournalCoversChanges
  NoInterfaceIsLost
  RollbackFailsOnlyForCause
PROPERTIES
  CommitsWhatIsInPlace
CHECK_DEADLOCK FALSE

SPECIFICATION FairSpec
CONSTANTS
  AddressBits = 4
  MaxClients = 2
  Interval = 500
  MaxEvents = 2
  Case <- Cases
INVARIANTS
  LateOperationsWereChecked
  FinalReportIsComplete
  DesiredFollowsProfile
  SourcesAreUsable
PROPERTIES
  RunEnds
CHECK_DEADLOCK FALSE

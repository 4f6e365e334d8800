SPECIFICATION FairSpec
CONSTANTS
  None = None
  Agent = {a1}
  StartReq = {r1}
  StopReq = {}
  PauseReq = {p1}
  MaxGen = 2
  MaxFaults = 1
INVARIANTS
  NoRunIsLeftBehind
PROPERTIES
  SettledRunIsLeftAlone
  StartReturns
  ActiveRunIsReleased
  FailedRunQuiesces
CHECK_DEADLOCK FALSE

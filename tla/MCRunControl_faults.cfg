SPECIFICATION Spec
CONSTANTS
  None = None
  Agent = {a1, a2}
  StartReq = {r1}
  StopReq = {s1}
  PauseReq = {}
  MaxGen = 2
  MaxFaults = 1
SYMMETRY Symmetry
INVARIANTS
  NoRunIsLeftBehind
  CompletedNeedsBothReports
  FinishedRunIsStopped
  ActiveRunHasBothEndpoints
PROPERTIES
  SettledRunIsLeftAlone
CHECK_DEADLOCK FALSE

SPECIFICATION ElapsingSpec
CONSTANTS
  None = None
  Agent = {a1, a2}
  StartReq = {r1}
  StopReq = {}
  PauseReq = {}
  MaxGen = 2
  MaxFaults = 1
PROPERTIES
  BrokenConnectionIsNoticed
CHECK_DEADLOCK FALSE

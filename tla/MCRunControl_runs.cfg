SPECIFICATION Spec
CONSTANTS
  None = None
  Agent = {a1}
  StartReq = {r1, r2}
  StopReq = {}
  PauseReq = {}
  MaxGen = 2
  MaxFaults = 1
SYMMETRY Symmetry
INVARIANTS
  TypeOK
  OneRunPerConnection
PROPERTIES
  HoldsOneSlot
  StartsWhatItNames
CHECK_DEADLOCK FALSE

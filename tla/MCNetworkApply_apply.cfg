SPECIFICATION FairSpec
CONSTANTS
  None = None
  n1 = n1
  n2 = n2
  r1 = r1
  r2 = r2
  nic1 = nic1
  o1 = o1
  o2 = o2
  Node = {n1, n2}
  Revision = {r1}
  Nic = {nic1}
  Op = {o1}
  NodesOf <- OneRevision
  NicOf <- OneNic
  RevisionOf <- OneOp
  ApplyReq = {a1}
  TeardownReq = {t1}
  ReconcileReq = {}
  MaxFaults = 1
INVARIANTS
  CommitsFollowStages
  CompletedIsInPlace
PROPERTIES
  UncommittedIsReleased
CHECK_DEADLOCK FALSE

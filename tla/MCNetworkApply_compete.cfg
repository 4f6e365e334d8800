SPECIFICATION Spec
CONSTANTS
  None = None
  n1 = n1
  n2 = n2
  r1 = r1
  r2 = r2
  nic1 = nic1
  o1 = o1
  o2 = o2
  Node = {n1}
  Revision = {r1, r2}
  Nic = {nic1}
  Op = {o1, o2}
  NodesOf <- TwoOnOneNode
  NicOf <- SameNic
  RevisionOf <- OtherRevision
  ApplyReq = {a1, a2}
  TeardownReq = {}
  ReconcileReq = {c1}
  MaxFaults = 1
SYMMETRY Symmetry
INVARIANTS
  TypeOK
  InterfaceHeldOnce
  CompletedIsInPlace
CHECK_DEADLOCK FALSE

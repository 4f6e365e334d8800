SPECIFICATION Spec
CONSTANTS
  None = None
  Content = {capture, bytes}
  Capturable = {capture}
  Upload = {u1, u2, u3}
  Scenario = {s1}
  Run = {r1}
  Retention = TRUE
  MaxFaults = 2
SYMMETRY Symmetry
INVARIANTS
  ServedRowHasFile
  ReferencedIsKept
PROPERTIES
  AnsweredWithItsBytes
CHECK_DEADLOCK FALSE

SPECIFICATION Spec
SYMMETRY RequestSymmetry
CONSTANTS
  f1 = f1
  ann = ann
  bob = bob
  dan = dan
  i1 = i1
  d1 = d1
  r1 = r1
  r2 = r2
  Finding = {f1}
  Actor = {ann, dan}
  RoleOf <- MC_TwoRoles
  Owner = {ann}
  Implementer = {ann}
  Identity = {i1}
  Treatment = {"mitigate", "accept"}
  Digest = {d1}
  Request = {r1, r2}
  None = None
  MaxEvents = 10
INVARIANTS
  OnlyAcceptanceSkipsVerification
CHECK_DEADLOCK FALSE

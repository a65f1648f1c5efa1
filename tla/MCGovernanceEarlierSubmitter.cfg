SPECIFICATION Spec
CONSTANTS
  f1 = f1
  ann = ann
  bob = bob
  dan = dan
  i1 = i1
  d1 = d1
  r1 = r1
  r2 = r2
  Finding = {f1}
  Actor = {ann, bob, dan}
  RoleOf <- MC_ThreeRoles
  Owner = {ann}
  Implementer = {dan}
  Identity = {i1}
  Treatment = {"mitigate", "accept"}
  Digest = {d1}
  Request = {r1}
  None = None
  MaxEvents = 10
PROPERTIES
  NoSubmitterVerifies
CHECK_DEADLOCK FALSE

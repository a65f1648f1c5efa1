SPECIFICATION Spec
SYMMETRY BridgeSymmetry
CONSTANTS
  f1 = f1
  ann = ann
  bob = bob
  Incident = {f1}
  Person = {ann, bob}
  Bundle <- MC_Bundle
  JmlRequest <- MC_JmlRequest
  Bridge = {b1, b2}
  JmlBridge = {j1, j2}
  None = None
  MaxChanges = 2
  MaxFaults = 1
INVARIANTS
  AuditedOnce
  DeliveredIsLogged
  EventsExplainFindings
  RecordsAreChanges
PROPERTIES
  ReplayNeverReverts

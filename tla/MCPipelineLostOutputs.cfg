SPECIFICATION Spec
CONSTANTS
  p1 = p1
  h1 = h1
  Payload = {p1}
  Input = {h1}
  InputOf <- MC_OnePayload
  Worker = {w1, w2}
  None = None
  MaxAttempts = 2
INVARIANTS
  CompletedJobHasOutputs
CHECK_DEADLOCK FALSE

SPECIFICATION FairSpec
CONSTANTS
  p1 = p1
  h1 = h1
  Payload = {p1}
  Input = {h1}
  InputOf <- MC_OnePayload
  Worker = {w1, w2}
  None = None
  MaxAttempts = 3
INVARIANTS
  OneExecutor
  CompletedRunHasResults
  OneLedgerRecord
PROPERTIES
  OnlyTheHolderSettles
  JobsSettle
CHECK_DEADLOCK FALSE

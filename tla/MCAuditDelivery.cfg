SPECIFICATION FairSpec
CONSTANTS
  Finding = {f1}
  Worker = {w1, w2}
  None = None
  MaxSequence = 3
  MaxAttempts = 2
PROPERTIES
  LeaseIsExclusive
  OrderedSpec
  Settles
CHECK_DEADLOCK FALSE

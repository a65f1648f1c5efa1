SPECIFICATION FairSpec
CONSTANTS
  Payload = {p1, p2}
  Posture = {p1}
  Thread = {t1, t2}
  Worker = {w1}
  Server = Server
  Operator = Operator
  None = None
  MaxFaults = 1
INVARIANTS
  CommittedIsPublished
  AnsweredIsKept
  QueuedIsProcessable
PROPERTIES
  RestartHeals
  PublishedIsQueued

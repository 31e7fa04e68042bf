SPECIFICATION Spec
CONSTANTS
  r1 = r1
  r2 = r2
  good = good
  bad = bad
  Replicas <- MCReplicas
  Messages <- MCMessages
  Malformed <- MCMalformed
  HandlerAttempts = 3
  PublishAttempts = 3
  WriterCopies = 1
  MaxTopic = 1
  MaxChurn = 0
INVARIANT FailuresReachDlq
CHECK_DEADLOCK FALSE

SPECIFICATION Spec
CONSTANTS
  r1 = r1
  r2 = r2
  good = good
  bad = bad
  Replicas <- MCReplicas
  Messages <- MCMessages
  Malformed <- MCMalformed
  HandlerAttempts = 3
  PublishAttempts = 2
  WriterCopies = 1
  MaxTopic = 2
  MaxChurn = 3
SYMMETRY Symmetry
INVARIANT NothingSkipped
INVARIANT IInv
PROPERTY CommitRegressesOnlyAfterChurn
PROPERTY NoRedeliveryInCalm
CHECK_DEADLOCK FALSE

SPECIFICATION Spec
CONSTANTS
  r1 = r1
  r2 = r2
  c1 = c1
  Replicas <- MCReplicas
  Customers = {c1}
  NotJson = NotJson
  HandlerAttempts = 2
  PublishAttempts = 1
  WriterCopies = 1
  MaxTopic = 1
  MaxChurn = 2
SYMMETRY Symmetry
INVARIANT IInv
INVARIANT BoundedDuplicates
INVARIANT CommittedMeansPushed
CHECK_DEADLOCK FALSE

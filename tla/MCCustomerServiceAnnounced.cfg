SPECIFICATION Spec
CONSTANTS
  r1 = r1
  r2 = r2
  l1 = l1
  l2 = l2
  i1 = i1
  i2 = i2
  Replicas <- MCReplicas
  Leads <- MCLeads
  NotJson = NotJson
  Ids <- MCIds
  HandlerAttempts = 3
  PublishAttempts = 3
  WriterCopies = 1
  MaxTopic = 1
  MaxChurn = 0
INVARIANT AnnouncedOrDeadLettered
CHECK_DEADLOCK FALSE

SPECIFICATION Spec
CONSTANTS
  r1 = r1
  r2 = r2
  l1 = l1
  l2 = l2
  i1 = i1
  i2 = i2
  Replicas <- MCReplicas
  Leads <- MCLeads
  NotJson = NotJson
  Ids <- MCIds
  HandlerAttempts = 2
  PublishAttempts = 2
  WriterCopies = 1
  MaxTopic = 2
  MaxChurn = 1
SYMMETRY Symmetry
INVARIANT OneCustomerPerLead
INVARIANT ConvertedIffCustomer
INVARIANT OneAnnouncementPerLead
INVARIANT IInv
INVARIANT CommittedMeansConverted
CHECK_DEADLOCK FALSE

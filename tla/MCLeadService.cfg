SPECIFICATION LiveSpec
CONSTANTS
  l1 = l1
  l2 = l2
  g1 = g1
  g2 = g2
  Leads <- MCLeads
  Readers <- MCReaders
  PublishAttempts = 2
  WriterCopies = 1
INVARIANT IInv
INVARIANT CreatedMeansAnnounced
INVARIANT NeverAhead
PROPERTY EventuallyFresh

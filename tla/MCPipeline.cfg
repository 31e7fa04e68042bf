SPECIFICATION LiveSpec
CONSTANTS
  l1 = l1
  i1 = i1
  r1 = r1
  r2 = r2
  n1 = n1
  Leads = {l1}
  Ids = {i1}
  Converters <- MCConverters
  Notifiers = {n1}
  NotJson = NotJson
  HandlerAttempts = 2
  NotifierAttempts = 1
  PublishAttempts = 1
  WriterCopies = 1
  MaxTopic = 2
  MaxChurn = 1
  MaxNotifierChurn = 0
INVARIANT ForeignKeys
INVARIANT BoundedForTheUser
INVARIANT NobodyForgotten
PROPERTY Composition
PROPERTY ImplementsCrm
PROPERTY ReachesTheUser
CHECK_DEADLOCK FALSE

SPECIFICATION LiveSpec
CONSTANTS
  q1 = q1
  q2 = q2
  Requests <- MCRequests
  StartAttempts = 3
  HandlerAttempts = 3
  MaxConns = 2
  MaxFetches = 3
INVARIANT IInv
INVARIANT StoppingLosesNothing
INVARIANT DrainedBeforeClose
PROPERTY StartsUnlessHung
PROPERTY StopsInTheEnd
CHECK_DEADLOCK FALSE

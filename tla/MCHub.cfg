SPECIFICATION LiveSpec
INVARIANT IInv
INVARIANT NoPanic
INVARIANT NoGap
CONSTANTS
  c1 = c1
  c2 = c2
  Clients <- MCClients
  SendCap = 2
  BroadcastCap = 1
  MaxMessages = 3
PROPERTY BrokenIsRemoved
PROPERTY DroppedIsClosed
PROPERTY FeedDrains
CHECK_DEADLOCK FALSE

SPECIFICATION ListSpec
CONSTANTS
  w1 = w1
  w2 = w2
  w3 = w3
  w4 = w4
  u1 = u1
  u2 = u2
  Rows <- MCRows
  Users <- MCUsers
  NoUser = NoUser
  Owner <- MCOwner
  Asking <- MCAsking
  MaxLimit = 2
  DefaultLimit = 1
  MaxClock = 4
SYMMETRY Symmetry
INVARIANT NoRowMissed
INVARIANT RepeatsBounded
CHECK_DEADLOCK FALSE

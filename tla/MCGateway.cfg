SPECIFICATION Spec
CONSTANTS
  r1 = r1
  r2 = r2
  r3 = r3
  anna = anna
  Anna = Anna
  none = none
  short = short
  p1 = p1
  p2 = p2
  Nobody = Nobody
  Requests <- MCRequests
  Calls = {c1}
  c1 = c1
  Spellings <- MCSpellings
  Normal <- MCNormal
  Invalid <- MCInvalid
  Passwords <- MCPasswords
  Weak <- MCWeak
SYMMETRY Symmetry
INVARIANT IInv
INVARIANT OneUserPerAddress
INVARIANT RegisteredCanLogin
INVARIANT ActsForOwner
CHECK_DEADLOCK FALSE

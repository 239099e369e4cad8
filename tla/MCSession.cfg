SPECIFICATION Spec
CONSTANTS
  None = None
  Browsers = {b1, b2}
  Users = {u1, u2}
  Tokens = {k1, k2, k3}
  Logins = {l1, l2, l3}
  Expire = 3
  MaxTime = 5
SYMMETRY Symmetry
INVARIANTS TypeOK ResolvedWasAuthenticated SessionLastsAsItsCookie
PROPERTIES LiveSessionIsKept LoginGivesSession
CHECK_DEADLOCK FALSE

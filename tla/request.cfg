SPECIFICATION FairSpec
CONSTANTS
  r1 = r1
  r2 = r2
  r3 = r3
  s1 = s1
  s2 = s2
  None = None
  Requests = {r1, r2, r3}
  Sessions = {s1}
  Kinds = {"read", "write", "pin", "resolve", "stream", "logout"}
  PoolSize = 2
INVARIANTS TypeOK NoWorkAfterLogout JobFindsItsPage
PROPERTY RequestsEndUnlessHeld
CHECK_DEADLOCK FALSE

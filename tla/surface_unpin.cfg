SPECIFICATION Spec
CONSTANTS
  u1 = u1
  u2 = u2
  r1 = r1
  r2 = r2
  r3 = r3
  j1 = j1
  s1 = s1
  s2 = s2
  n1 = n1
  None = None
  Users = {u1, u2}
  Requests = {r1}
  Jobs = {}
  Seeds = {s1, s2}
  Followers <- Mutual
  Notes = {}
  Ops = {"unpin"}
PROPERTY PinDeletionCascades
CHECK_DEADLOCK FALSE

SPECIFICATION Spec
CONSTANTS
  c1 = c1
  c2 = c2
  a1 = a1
  a2 = a2
  s1 = s1
  m1 = m1
  m2 = m2
  n1 = n1
  n2 = n2
  n3 = n3
  None = None
  Mailboxes = {m1}
  Solicits = {1}
  Redeems = {c1, c2}
  Admins = {a1, a2}
  Seeds = {}
  AutoProvision = {}
  Handles = {n1}
  Candidates <- SameName
  Roster <- OneMember
INVARIANT RevokedLinkStaysUnusable
CHECK_DEADLOCK FALSE

SPECIFICATION FairSpec
CONSTANTS
  c1 = c1
  c2 = c2
  a1 = a1
  a2 = a2
  s1 = s1
  m1 = m1
  m2 = m2
  n1 = n1
  n2 = n2
  n3 = n3
  None = None
  Mailboxes = {m1, m2}
  Solicits = {1}
  Redeems = {c1}
  Admins = {a1}
  Seeds = {s1}
  AutoProvision = {1}
  Handles = {n1, n2, n3}
  Candidates <- SameNames
  Roster <- OneMember
PROPERTY EveryRequestAnswered
CHECK_DEADLOCK FALSE

SPECIFICATION InboxFairSpec
CONSTANTS
  u1 = u1
  s1 = s1
  p1 = p1
  p2 = p2
  g1 = g1
  c1 = c1
  c2 = c2
  None = None
  Users = {u1}
  Streams = {s1}
  Publishers = {p1, p2}
  Pages = {g1}
  Capacity = 1
  Calls = {c1, c2}
  Viewer = u1
  Old = {p1}
  CreatedAt <- Times
  Limit = 1
INVARIANTS InboxTypeOK MarkedIsRead NothingMissed
PROPERTIES FirstReadKept MarksAnswer
CHECK_DEADLOCK FALSE

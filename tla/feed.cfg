SPECIFICATION Spec
CONSTANTS
  a = a
  b = b
  c = c
  v = v
  x = x
  y = y
  g = g
  h = h
  c1 = c1
  Earlier = Earlier
  Nobody = Nobody
  None = None
  Rows = {a, b, c}
  Times = 1
  Calls = {c1}
  Followers = {v}
  Followees = {v, x, y}
  Roster <- Team
  Viewer = v
  Author <- Authors
  Source <- Pages
  Old = {a}
  Limit = 1
  MaxRevision = 1
INVARIANTS TypeOK WalkDescends WalkMissesThePivots
PROPERTY FeedNotModifiedIsExact
CHECK_DEADLOCK FALSE

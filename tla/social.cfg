SPECIFICATION GraphFairSpec
CONSTANTS
  v = v
  x = x
  c1 = c1
  c2 = c2
  c3 = c3
  Earlier = Earlier
  Nobody = Nobody
  Calls = {c1, c2, c3}
  Followers = {v, x}
  Followees = {v, x}
  Roster <- EachOther
INVARIANTS GraphTypeOK AnswersHold
PROPERTY CallsAnswer
CHECK_DEADLOCK FALSE

SPECIFICATION Spec
CONSTANTS
  r1 = r1
  r2 = r2
  h = h
  g = g
  x = x
  t = t
  Link = Link
  Garbled = Garbled
  None = None
  Requests = {r1, r2}
  Spellings <- Addresses
  Redirect <- Sends
  Trackers = {2}
  Texts = {x, Link}
  Special = {Link}
  VideoHosts = {g}
  VideoPaths = {"/film"}
  Pages <- Answers
SYMMETRY Interchangeable
INVARIANTS TypeOK SamePageSameRow RowsNameThemselves
PROPERTY MetadataNeverLost
CHECK_DEADLOCK FALSE

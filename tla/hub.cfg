SPECIFICATION FairSpec
CONSTANTS
  u1 = u1
  u2 = u2
  s1 = s1
  s2 = s2
  s3 = s3
  p1 = p1
  p2 = p2
  p3 = p3
  g1 = g1
  None = None
  Users = {u1}
  Streams = {s1, s2}
  Publishers = {p1, p2}
  Pages = {g1}
  Capacity = 1
INVARIANTS TypeOK PageEventsInOrder CommittedReachesOpenStreams
PROPERTIES LogKept PublishEndsUnlessAbandoned
CHECK_DEADLOCK FALSE

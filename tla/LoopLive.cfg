SPECIFICATION FairSpec
CONSTANTS
  None = None
  m1 = m1
  p1 = p1
  o1 = o1
  x1 = x1
  t1 = t1
  Ids = {m1, o1}
  Requests = {r1, r2}
  MaxFaults = 1
  Bodies <- LiveBodies
PROPERTIES Answered StoredIsAnnounced
CHECK_DEADLOCK FALSE

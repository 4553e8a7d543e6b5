SPECIFICATION Spec
CONSTANTS
  None = None
  m1 = m1
  p1 = p1
  o1 = o1
  x1 = x1
  t1 = t1
  Ids = {m1, o1, x1, t1}
  Requests = {r1, r2, r3, r4}
  MaxFaults = 2
  Bodies <- ChainBodies
SYMMETRY Symmetry
INVARIANTS
  TypeOK AnnouncedOnce AckedIsDone EventsHaveEntities BroadcastIsLogged CountersFollowLog
CHECK_DEADLOCK FALSE

SPECIFICATION NodeSpec
CONSTANTS
  None = None
  m1 = m1
  Ids = {m1}
  Requests = {r1, r2, r3}
  Clients = {c1, c2}
  MaxFaults = 1
  MaxClients = 2
  KeepAlive = FALSE
  PageSize = 2
  Bodies <- NodeBodies
SYMMETRY Symmetry
INVARIANTS FeedsAreWindows NothingMissed
CHECK_DEADLOCK FALSE

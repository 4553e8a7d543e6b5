SPECIFICATION FairShutdownSpec
CONSTANTS
  Clients = {c1, c2}
  MaxClients = 1
  KeepAlive = TRUE
  Messages = {msg}
  Requests = {r1, r2}
  Signals = {s1, s2}
  Attempts = 2
  WorkerEnabled = TRUE
INVARIANTS WithinLimit PlacesAreHeld PoolOutlivesClients
PROPERTIES PlacesAreFreed ExitsClean ShutdownEnds

SPECIFICATION Spec
CONSTANTS
  Requests = {r1, r2}
  ImportIds = {1}
  RefreshOnWrite = TRUE
  Attempts = 2
  MaxStalls = 1
  MaxFaults = 0
INVARIANT ValidIsAccepted
CHECK_DEADLOCK FALSE

SPECIFICATION FairSpec
CONSTANTS
  Requests = {r1, r2}
  ImportIds = {2}
  RefreshOnWrite = TRUE
  Attempts = 2
  MaxStalls = 1
  MaxFaults = 2
INVARIANTS FoundUnlessCrossed EventsAreBounded
PROPERTIES ImplementsLedger AnsweredIsLogged
CHECK_DEADLOCK FALSE

SPECIFICATION FairSpec
CONSTANTS
  Migrators = {a, b, c}
  NumFiles = 2
  MaxFaults = 2
INVARIANTS SchemaIsPrefix UpIsMigrated
PROPERTY AllComeUp
CHECK_DEADLOCK FALSE

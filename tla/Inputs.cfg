SPECIFICATION Spec
CONSTANTS
  Amounts <- ManyAmounts
  Limits <- SomeLimits
  Absent = Absent
  Bad = Bad
  Precision = 15
  MaxCents = 800
  PublicLimit = 120
  Available = 150
  MaxFaults = 3
INVARIANTS CentsAreNearest LimitsAreHonoured
CHECK_DEADLOCK FALSE

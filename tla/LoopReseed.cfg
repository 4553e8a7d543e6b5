SPECIFICATION ReseedSpec
CONSTANTS
  None = None
  m1 = m1
  p1 = p1
  o1 = o1
  x1 = x1
  Ids = {m1, p1, o1, x1}
  Requests = {r1, r2}
  MaxFaults = 1
  Runs = {k1, k2}
  Bodies <- ReseedBodies
  SeedRows <- DemoRows
VIEW Read
SYMMETRY Symmetry
INVARIANTS ReferentialIntegrity SeedIsComplete FreshAckedIsDone OrphansStraddle
           MismatchesStraddle RepeatsStraddle
CHECK_DEADLOCK FALSE

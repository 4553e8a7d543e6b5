SPECIFICATION Spec
CONSTANTS
  Handshakes = {h1, h2, h3}
  Lists = {l1}
  Nodes = {local, peer}
  Local = local
  None = None
  MaxTime = 2
  MaxFaults = 2
SYMMETRY Symmetry
INVARIANTS AnsweredStays ListsAreCurrent
PROPERTY LastSeenMovesOn
CHECK_DEADLOCK FALSE

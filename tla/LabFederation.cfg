SPECIFICATION LabSpec
CONSTANTS
  None = None
  Runs = {"lab", "federation"}
  Relaying = {"federation"}
  Ids <- RunStep
  Requests <- RunStep
  Bodies <- ScriptBodies
  MaxRuns = 1
  MaxFaults = 2
INVARIANTS PeerLagsByOne FinishedIsComplete
CHECK_DEADLOCK FALSE

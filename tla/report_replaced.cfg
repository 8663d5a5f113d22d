\* A worker replaces a report that was ingested.
CONSTANTS
  Procs = {}
  Phases = {1}
  Goals = {1}
  PhaseOf <- TwoThenOne
  NewReports <- ThreeReports
  First = {"pending"}
  MaxCrashes = 0
  Slots = 1
  CanWait = TRUE
  MaxRounds = 4
  MaxCalls = 2
SPECIFICATION FairDriverSpec
PROPERTIES
  CorrectionsAreIngested
CHECK_DEADLOCK FALSE

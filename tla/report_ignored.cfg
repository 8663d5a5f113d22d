\* The default wait_timeout_seconds, which is no wait at all.
CONSTANTS
  Procs = {}
  Phases = {1}
  Goals = {1}
  PhaseOf <- TwoThenOne
  NewReports <- ThreeReports
  First = {"pending"}
  MaxCrashes = 0
  Slots = 1
  CanWait = FALSE
  MaxRounds = 4
  MaxCalls = 2
SPECIFICATION FairDriverSpec
PROPERTIES
  ReportsArePickedUp
CHECK_DEADLOCK FALSE

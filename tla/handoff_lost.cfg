\* A script's task is closed and archived, then another needs the user.
CONSTANTS
  Procs = {}
  Phases = {1, 2}
  Goals = {1, 2, 3}
  PhaseOf <- TwoThenOne
  NewReports <- ThreeReports
  First = {"pending"}
  MaxCrashes = 0
  Slots = 1
  CanWait = TRUE
  MaxRounds = 4
  MaxCalls = 2
SPECIFICATION DriverSpec
PROPERTIES
  UserIsAsked
CHECK_DEADLOCK FALSE

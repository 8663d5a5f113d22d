\* A driver that takes an active goal up again while another waits, and
\* does not look at reports.
CONSTANTS
  Procs = {}
  Phases = {1, 2}
  Goals = {1, 2, 3}
  PhaseOf <- TwoThenOne
  NewReports <- TwoReports
  First = {"absent", "pending"}
  MaxCrashes = 0
  Slots = 2
  CanWait = FALSE
  MaxRounds = 4
  MaxCalls = 2
SPECIFICATION DriverSpec
INVARIANTS
  AlwaysWaitsForSomebody
CHECK_DEADLOCK FALSE

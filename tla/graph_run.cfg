\* Two phases, the second possibly appended late; up to two goals at a time;
\* one crash of the driver.
CONSTANTS
  Procs = {}
  Phases = {1, 2}
  Goals = {1, 2, 3}
  PhaseOf <- TwoThenOne
  NewReports <- TwoReports
  First = {"absent", "pending"}
  MaxCrashes = 1
  Slots = 2
  CanWait = TRUE
  MaxRounds = 4
  MaxCalls = 2
SPECIFICATION FairDriverSpec
INVARIANTS
  DriverTypeOK
  WaitsForSomebody
  LaunchedOnce
PROPERTIES
  TerminalMeansDone
  HandoffMeansAsked
  EveryReportIsIngested
  EveryGoalIsWorkedOn
CHECK_DEADLOCK FALSE

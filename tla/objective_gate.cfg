\* One command after another on an objective of two phases, either of which
\* may be appended late, or listed with another status, with a crash.
CONSTANTS
  Procs = {p1}
  Phases = {1, 2}
  Goals = {1, 2, 3}
  PhaseOf <- TwoThenOne
  NewReports <- SampleReports
  First = {"absent", "pending", "blocked", "active", "done"}
  MaxCrashes = 1
SPECIFICATION FairSpec
INVARIANTS
  EntriesFollowPlans
  OnePhaseAtATime
  TasksInPhaseOrder
  StopMeansIdle
PROPERTIES
  EveryPhaseGetsItsTurn

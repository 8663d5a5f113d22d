\* One goal after another, no crash.
CONSTANTS
  Procs = {p1}
  Phases = {1, 2}
  Goals = {1, 2, 3}
  PhaseOf <- TwoThenOne
  NewReports <- SampleReports
  First = {"absent", "pending", "blocked"}
  MaxCrashes = 0
SPECIFICATION Spec
INVARIANT
  DecisionReachesUser

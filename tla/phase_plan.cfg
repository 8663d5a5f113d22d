\* One command after another on two goals, with and without room for
\* both, a crash and a reopened task.
CONSTANTS
  Procs = {p1}
  Goals = {1, 2}
  a = a
  b = b
  Areas = {a, b}
  Lanes <- SomeLanes
  Outcomes <- SampleOutcomes
  Limits = {1, 2}
  Listed = {"pending", "active"}
  MaxCrashes = 1
  MaxReopens = 1
SPECIFICATION FairSpec
INVARIANTS
  GoalsKeepApart
  WorkersKeepApart
  TaskHasAGoal
PROPERTIES
  EveryGoalGetsItsTurn

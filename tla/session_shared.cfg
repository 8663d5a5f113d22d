\* Two graph runs and one released session; commands go on after one of
\* them was overtaken.
CONSTANTS
  Procs = {p1, p2}
  Operators = {p2}
  Tasks = {"t1", "t2", "t3"}
  Sessions = {1}
  Reuse = {"t1", "t2", "t3"}
  Launched = {}
  MaxEvents = 1
  GoOn = TRUE
SPECIFICATION Spec
INVARIANTS
  OneTaskPerSession
CHECK_DEADLOCK FALSE

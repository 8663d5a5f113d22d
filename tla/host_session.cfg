\* Two processes, two tasks that may share two sessions, one with a
\* launcher; two commands by hand or crashes.
CONSTANTS
  Procs = {p1, p2}
  Operators = {p2}
  Tasks = {"t1", "t2"}
  Sessions = {1, 2}
  Reuse = {"t1", "t2"}
  Launched = {"t2"}
  MaxEvents = 2
  GoOn = FALSE
SPECIFICATION Spec
INVARIANTS
  SessionServesItsTask
  OwnReports
  SessionsComeBack
CHECK_DEADLOCK FALSE

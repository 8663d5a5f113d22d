\* Two workers of one task, a status refresh and a hand-run acquire beside
\* the graph, one crash of the sweep.
CONSTANTS
  Workers = {1, 2}
  Tasks = {t1}
  None = None
  Assigners = {a1}
  Readers = {r1}
  HandAcquires = TRUE
  Leases = {2}
  MaxClock = 2
  MaxCrashes = 1
SPECIFICATION Spec
INVARIANTS
  TypeOK
PROPERTIES
  ClosedStaysClosed

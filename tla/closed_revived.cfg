\* One worker, one status refresh.
CONSTANTS
  Workers = {1}
  Tasks = {t1}
  None = None
  Assigners = {a1}
  Readers = {r1}
  HandAcquires = FALSE
  Leases = {1}
  MaxClock = 1
  MaxCrashes = 0
SPECIFICATION Spec
PROPERTY ClosedIsFinal

\* Two graph runs assign a worker to one task; nothing else interferes.
CONSTANTS
  Workers = {1, 2}
  Tasks = {t1}
  None = None
  Assigners = {a1, a2}
  Readers = {}
  HandAcquires = FALSE
  Leases = {1}
  MaxClock = 1
  MaxCrashes = 0
SPECIFICATION Spec
INVARIANT OneWorkerPerTask

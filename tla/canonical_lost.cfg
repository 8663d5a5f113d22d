\* The worker that ranks first has a lease that is over when the sweep comes.
CONSTANTS
  Workers = {1, 2}
  Tasks = {t1}
  None = None
  Assigners = {}
  Readers = {}
  HandAcquires = TRUE
  Leases = {1, 2}
  MaxClock = 2
  MaxCrashes = 0
SPECIFICATION Spec
PROPERTY CanonicalIsKept

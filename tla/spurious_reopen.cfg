\* One command after another, no crash.
CONSTANTS
  Procs = {p1}
  Keys = {k1}
  NoKey = NoKey
  NewPackets = {"close_when_validated", "require_commander_review"}
  NewReports <- SampleReports
  StaleAfter = 1
  MaxClock = 2
  MaxCrashes = 0
SPECIFICATION Spec
INVARIANT ReopenedByActivity

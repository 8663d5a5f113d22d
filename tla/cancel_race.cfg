\* Two commands at a time, no crash.
CONSTANTS
  Procs = {p1, p2}
  Keys = {k1}
  NoKey = NoKey
  NewPackets = {"close_when_validated", "require_commander_review"}
  NewReports <- SampleReports
  StaleAfter = 1
  MaxClock = 2
  MaxCrashes = 0
SPECIFICATION Spec
PROPERTY ClosedIsNotCanceled

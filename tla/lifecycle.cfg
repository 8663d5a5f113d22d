\* One command after another, one crash, and time for one stale mark.
CONSTANTS
  Procs = {p1}
  Keys = {k1}
  NoKey = NoKey
  NewPackets = {"close_when_validated", "require_commander_review"}
  NewReports <- SampleReports
  StaleAfter = 1
  MaxClock = 2
  MaxCrashes = 1
SPECIFICATION Spec
INVARIANTS
  AtMostOnce
  TrailTellsTheStatus
  StaleRowIsFlagged
PROPERTIES
  LedgerSpec

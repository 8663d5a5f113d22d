CONSTANTS
  Procs = {p1, p2}
  MaxRetries = 1
  MaxCommands = 2
  MaxLines = 3
  MaxCrashes = 0
SPECIFICATION Spec
PROPERTIES
  AckedStaysAcked
CHECK_DEADLOCK FALSE

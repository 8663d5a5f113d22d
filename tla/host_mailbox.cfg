\* Two processes, two commands sent again at most once, one crash.
CONSTANTS
  Procs = {p1, p2}
  MaxRetries = 1
  MaxCommands = 2
  MaxLines = 3
  MaxCrashes = 1
SPECIFICATION FairSpec
INVARIANTS
  NoCommandLost
PROPERTIES
  EveryCommandArrives
CHECK_DEADLOCK FALSE

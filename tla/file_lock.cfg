\* Three contenders, one crash, one sleep before the deadline.
CONSTANTS
  Procs = {p1, p2, p3}
  NoProc = NoProc
  NoFile = NoFile
  Patience = 1
  MaxCrashes = 1

SPECIFICATION FairSpec
INVARIANTS
  ExclusiveUnlessTakenOver
PROPERTIES
  AbandonedLockIsReclaimed

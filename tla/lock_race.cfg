\* Two contenders, no crash.
CONSTANTS
  Procs = {p1, p2}
  NoProc = NoProc
  NoFile = NoFile
  Patience = 1
  MaxCrashes = 0
SPECIFICATION Spec
INVARIANT MutualExclusion

\* Two goals with a lane each, one command after another.
CONSTANTS
  Procs = {p1}
  Goals = {1, 2}
  a = a
  b = b
  Areas = {a, b}
  Lanes <- OwnLanes
  Outcomes <- SampleOutcomes
  Limits = {2}
  Listed = {"pending"}
  MaxCrashes = 0
  MaxReopens = 0
SPECIFICATION Spec
INVARIANT OneOwnerPerWriteSet

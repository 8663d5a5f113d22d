\* One starter, up to two daemons one after the other, two replies and a stop
\* command within two seconds, one exception or kill.
CONSTANTS
  Pids = {1, 2}
  Starters = {s1}
  Outcomes = {"idle", "waiting_user"}
  Keep = Keep
  MaxReplies = 2
  MaxStops = 1
  MaxSeconds = 1
  MaxFaults = 1
SPECIFICATION FairDaemonSpec
INVARIANTS
  DaemonTypeOK
  OneDaemon
  DownMeansDown
PROPERTIES
  StopStops
  EveryReplyIsHeard
CHECK_DEADLOCK FALSE

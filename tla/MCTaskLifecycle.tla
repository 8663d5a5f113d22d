------------------------- MODULE MCTaskLifecycle -------------------------
(* TaskLifecycle with one report for each way a task goes on. *)
EXTENDS TaskLifecycle

SampleReport(status, mode) ==
  [status |-> status, needsCommander |-> FALSE, needsUser |-> FALSE,
   ready |-> FALSE, grade |-> IF status = "done" THEN "closed" ELSE status,
   mode |-> mode]

Finished   == SampleReport("done", "close")
Obstructed == SampleReport("blocked", "followup")

SampleReports == {Finished, Obstructed}
==========================================================================

---------------------------- MODULE MCGraphRun ----------------------------
(* GraphRun with two goals in the first phase and one in the second, and a *)
(* report that closes its task, one that asks the user and one that is     *)
(* blocked.                                                                *)
EXTENDS GraphRun

Report(status, user, grade, mode) ==
  [status |-> status, needsCommander |-> FALSE, needsUser |-> user,
   ready |-> FALSE, grade |-> grade, mode |-> mode]

ThreeReports ==
  {Report("done", FALSE, "closed", "close"),
   Report("done", TRUE, "partial", "wait_user"),
   Report("blocked", FALSE, "blocked", "followup")}

\* Without the blocked one, for the larger run.
TwoReports == {r \in ThreeReports : r.status = "done"}

TwoThenOne == [g \in Goals |-> IF g <= 2 THEN 1 ELSE 2]
==========================================================================

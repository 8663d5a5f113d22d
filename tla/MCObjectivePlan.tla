------------------------- MODULE MCObjectivePlan -------------------------
(* ObjectivePlan with two goals in the first phase and one in the second,  *)
(* and one report of each kind.                                            *)
EXTENDS ObjectivePlan

Report(status, user, ready, grade, mode) ==
  [status |-> status, needsCommander |-> FALSE, needsUser |-> user,
   ready |-> ready, grade |-> grade, mode |-> mode]

SampleReports ==
  {Report("done", FALSE, FALSE, "closed", "close"),
   Report("done", TRUE, FALSE, "partial", "wait_user"),
   Report("done", FALSE, TRUE, "closed", "close"),
   Report("done", FALSE, FALSE, "partial", "close")}

TwoThenOne == [g \in Goals |-> IF g <= 2 THEN 1 ELSE 2]
==========================================================================

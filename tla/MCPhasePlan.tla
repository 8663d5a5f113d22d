-------------------------- MODULE MCPhasePlan --------------------------
(* PhasePlan with one outcome for each way a goal is settled, and equal,   *)
(* disjoint and missing owned paths.                                       *)
EXTENDS PhasePlan

CONSTANTS a, b

Delivered(grade) ==
  [status |-> "done", needsCommander |-> FALSE, needsUser |-> FALSE,
   ready |-> FALSE, grade |-> grade, mode |-> "close"]

SampleOutcomes ==
  {[life |-> "closed", report |-> Delivered("closed")],
   [life |-> "closed", report |-> Delivered("partial")],
   [life |-> "canceled", report |-> NoReport]}

OwnLanes  == {{a}, {b}}
SomeLanes == OwnLanes \cup {{}}
==========================================================================

---------------------------- MODULE TaskPhase ----------------------------
(***************************************************************************)
(* What the harness derives from a task directory: governance of the       *)
(* worker's report, the decision gates, the closed-loop phase, the         *)
(* commander recommendation and the controller handoff.  Pure operators;   *)
(* refresh_status and build_checkpoint of commander_harness.py evaluate    *)
(* them on the packet, the report and the lifecycle record they read.      *)
(***************************************************************************)

Lifecycles == {"active", "stale", "canceled", "closed", "archived"}
Policies   == {"close_when_validated", "require_commander_review",
               "return_for_user_delivery"}
Grades     == {"closed", "partial", "blocked"}
Modes      == {"close", "followup", "split", "wait_user"}

\* A packet is its closure policy; there may be none.
NoPacket == "none"
Packets  == Policies \cup {NoPacket}

(***************************************************************************)
(* The fields of a report the derivations read.  "unset" is a field of an  *)
(* old report.json, written before the field became required; the flags    *)
(* of such a report read as FALSE.                                         *)
(***************************************************************************)
Unset    == "unset"
Reports  == [status : {"done", "blocked", "need_split"},
             needsCommander : BOOLEAN, needsUser : BOOLEAN, ready : BOOLEAN,
             grade : Grades \cup {Unset}, mode : Modes \cup {Unset}]
NoReport == [status |-> "none",
             needsCommander |-> FALSE, needsUser |-> FALSE, ready |-> FALSE,
             grade |-> Unset, mode |-> Unset]

\* A report that passes REPORT_SCHEMA_PATH, as every ingested one does.
SchemaReports == {r \in Reports : r.grade # Unset /\ r.mode # Unset}

Stuck(r) == r.status \in {"blocked", "need_split"}

\* result_grade: the worker's own, or the default for what it reported.
ResultGrade(r) ==
  IF r = NoReport \/ r.grade # Unset THEN r.grade
  ELSE IF r.status = "done" /\ ~r.needsCommander /\ ~r.needsUser THEN "closed"
  ELSE IF Stuck(r) THEN "blocked"
  ELSE "partial"

\* continuation_mode: the worker's own, or the default.
ContinuationMode(r) ==
  IF r = NoReport \/ r.mode # Unset THEN r.mode
  ELSE IF r.needsUser THEN "wait_user"
  ELSE IF r.status = "need_split" THEN "split"
  ELSE IF r.status = "done" /\ (r.ready \/ ~r.needsCommander) THEN "close"
  ELSE "followup"

\* Mutant: the closure policy is not consulted.
CommanderGateIgnoringPolicy(packet, r) ==
  \/ r.needsCommander
  \/ Stuck(r)
  \/ ContinuationMode(r) \in {"followup", "split"}

CommanderRequired(packet, r) ==
  \/ r.needsCommander
  \/ Stuck(r)
  \/ ContinuationMode(r) \in {"followup", "split"}
  \/ packet = "require_commander_review" /\ r.status = "done"

UserRequired(r) == r.needsUser \/ ContinuationMode(r) = "wait_user"

\* Mutant: any finished task is recommended for closing.
RecommendationOnDone(packet, r) ==
  IF r.status = "done" THEN "ready_to_close"
  ELSE IF UserRequired(r) THEN "pending_user"
  ELSE IF Stuck(r) \/ CommanderRequired(packet, r)
    THEN "needs_commander_decision"
  ELSE IF packet # NoPacket THEN "awaiting_report"
  ELSE "missing_packet"

\* commander_recommendation of an active task.
Recommendation(packet, r) ==
  IF UserRequired(r) THEN "pending_user"
  ELSE IF r.status = "done" /\ ContinuationMode(r) = "close"
    THEN "ready_to_close"
  ELSE IF Stuck(r) \/ CommanderRequired(packet, r)
    THEN "needs_commander_decision"
  ELSE IF r.status = "done" THEN "ready_to_close"
  ELSE IF packet # NoPacket THEN "awaiting_report"
  ELSE "missing_packet"

\* Mutant: the delivery flag is looked at only once the task could close.
PhaseCheckingReadyLast(packet, r) ==
  IF UserRequired(r) THEN "pending_user"
  ELSE IF r.status = "need_split" \/ ContinuationMode(r) = "split"
    THEN "needs_commander_decision"
  ELSE IF r.status = "blocked" \/ ResultGrade(r) = "blocked" THEN "blocked"
  ELSE IF r.status = "done" /\ CommanderRequired(packet, r)
    THEN "needs_commander_decision"
  ELSE IF r.status = "done" THEN "ready_to_close"
  ELSE IF r.ready THEN "ready_for_user_delivery"
  ELSE IF packet # NoPacket THEN "awaiting_report"
  ELSE "missing_packet"

\* The phase of an active task: the first rule of the ladder that applies.
ActivePhase(packet, r) ==
  IF UserRequired(r) THEN "pending_user"
  ELSE IF r.ready /\ r.status = "done" THEN "ready_for_user_delivery"
  ELSE IF r.status = "need_split" \/ ContinuationMode(r) = "split"
    THEN "needs_commander_decision"
  ELSE IF r.status = "blocked" \/ ResultGrade(r) = "blocked" THEN "blocked"
  ELSE IF r.status = "done" /\ CommanderRequired(packet, r)
    THEN "needs_commander_decision"
  ELSE IF r.status = "done" THEN "ready_to_close"
  ELSE IF packet # NoPacket THEN "awaiting_report"
  ELSE "missing_packet"

\* current_phase: any other lifecycle status hides the report.
Phase(life, packet, r) ==
  IF life = "active" THEN ActivePhase(packet, r) ELSE life

\* controller_handoff, as build_checkpoint finally sets it.
Handoff(phase) ==
  CASE phase = "pending_user"            -> "request_user_decision"
    [] phase = "ready_for_user_delivery" -> "return_final_result"
    [] phase = "awaiting_report"         -> "wait_external_result"
    [] OTHER                             -> "continue"

\* _classify_goal_completion.
Classify(t) ==
  IF ResultGrade(t.report) = "closed" THEN "done"
  ELSE IF Stuck(t.report) \/ ResultGrade(t.report) \in {"blocked", "partial"}
    THEN "blocked"
  ELSE IF t.life = "canceled" THEN "canceled"
  ELSE "done"
==========================================================================

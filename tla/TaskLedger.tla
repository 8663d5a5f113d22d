--------------------------- MODULE TaskLedger ---------------------------
(***************************************************************************)
(* One task as its commander sees it: the lifecycle status, the packet and *)
(* the report on disk, and whether sub-agents are still open.  Every       *)
(* command is one atomic step, guarded by the phase derived at that very   *)
(* moment.  TaskLifecycle shows how far the scripts, which take a snapshot *)
(* first and write later, implement this.                                  *)
(***************************************************************************)
EXTENDS TaskPhase

CONSTANTS
  NewReports,  \* the reports workers hand in
  OldReports   \* reports of tasks that predate the governance fields

ASSUME NewReportsAssumption == NewReports \subseteq SchemaReports
ASSUME OldReportsAssumption == OldReports \subseteq Reports

VARIABLES
  life,        \* lifecycle_status
  packet,      \* closure policy of packet.json, or NoPacket
  report,      \* report.json, or NoReport
  openAgents   \* active_subagents holds an open sub-agent

vars == <<life, packet, report, openAgents>>

phase == Phase(life, packet, report)

(***************************************************************************)
(* A fresh task directory, or one taken over from before the governance    *)
(* fields existed: a packet without a closure_policy counts as             *)
(* close_when_validated (build_dispatch_governance).                       *)
(***************************************************************************)
Init ==
  /\ life = "active"
  /\ openAgents = FALSE
  /\ \/ packet = NoPacket /\ report = NoReport
     \/ packet = "close_when_validated" /\ report \in OldReports

\* dispatch_task: a new packet; the lifecycle is not consulted and a report
\* that is already there stays.
Dispatch(policy) ==
  /\ packet' = policy
  /\ UNCHANGED <<life, report, openAgents>>

\* ingest_worker_report: needs a packet and nothing else.
Ingest(r) ==
  /\ packet # NoPacket
  /\ report' = r
  /\ UNCHANGED <<life, packet, openAgents>>

\* close_task (the phase is ready_to_close only if the task is active).
Close ==
  /\ phase = "ready_to_close"
  /\ ~openAgents
  /\ life' = "closed"
  /\ UNCHANGED <<packet, report, openAgents>>

\* archive_task.
Archive ==
  /\ life = "closed"
  /\ life' = "archived"
  /\ UNCHANGED <<packet, report, openAgents>>

\* Mutant: a closed task may still be canceled.
CancelAnything ==
  /\ life # "canceled"
  /\ ~openAgents
  /\ life' = "canceled"
  /\ UNCHANGED <<packet, report, openAgents>>

\* commander_cancel.
Cancel ==
  /\ life \in {"active", "stale"}
  /\ ~openAgents
  /\ life' = "canceled"
  /\ UNCHANGED <<packet, report, openAgents>>

\* commander_reopen, and commander_reconcile when it sees new activity.
Reopen ==
  /\ life \in {"stale", "canceled"}
  /\ life' = "active"
  /\ UNCHANGED <<packet, report, openAgents>>

\* commander_reconcile, and the pool sweep, on an inactive task.
MarkStale ==
  /\ life = "active"
  /\ life' = "stale"
  /\ UNCHANGED <<packet, report, openAgents>>

\* set_active_subagent_state: no guard either.
SetAgents(open) ==
  /\ openAgents' = open
  /\ UNCHANGED <<life, packet, report>>

Next ==
  \/ \E policy \in Policies : Dispatch(policy)
  \/ \E r \in NewReports : Ingest(r)
  \/ Close
  \/ Archive
  \/ Cancel
  \/ Reopen
  \/ MarkStale
  \/ \E open \in BOOLEAN : SetAgents(open)

Spec == Init /\ [][Next]_vars

----------------------------------------------------------------------------

\* Type invariant.
TypeOK ==
  /\ life \in Lifecycles
  /\ packet \in Packets
  /\ report \in NewReports \cup OldReports \cup {NoReport}
  /\ openAgents \in BOOLEAN

(***************************************************************************)
(* What stops the conversation is what the handoff rules name: a final     *)
(* result is returned only for a finished report flagged for delivery and  *)
(* with no user question open; waiting for an external result means there  *)
(* is a packet and no report; an open user question on an active task      *)
(* always stops (build_checkpoint).                                        *)
(***************************************************************************)
HandoffContract ==
  LET handoff == Handoff(phase) IN
  /\ handoff = "return_final_result" =>
       report.ready /\ report.status = "done" /\ ~UserRequired(report)
  /\ handoff = "wait_external_result" =>
       life = "active" /\ packet # NoPacket /\ report = NoReport
  /\ handoff = "request_user_decision" <=>
       life = "active" /\ UserRequired(report)
  /\ life = "active" /\ report.ready /\ report.status = "done" =>
       handoff # "continue"

(***************************************************************************)
(* status.json carries a recommendation and a phase, which two ladders     *)
(* with different rule orders derive from one report.  They agree on who   *)
(* is waited for.  They differ on closing: the phase offers it exactly if  *)
(* the recommendation does and nothing is to be delivered, blocked or to   *)
(* be decided; and where the phase waits for the commander, so does the    *)
(* recommendation, unless the worker said done and close, which it takes   *)
(* at its word (derive_base_commander_recommendation against               *)
(* derive_closed_loop_phase).                                              *)
(***************************************************************************)
LaddersCompared ==
  LET recommendation == Recommendation(packet, report) IN
  life = "active" =>
    /\ \A waiting \in {"pending_user", "awaiting_report", "missing_packet"} :
         recommendation = waiting <=> phase = waiting
    /\ phase = "ready_to_close" <=>
         /\ recommendation = "ready_to_close"
         /\ ~report.ready
         /\ ResultGrade(report) # "blocked"
         /\ ~CommanderRequired(packet, report)
    /\ phase = "needs_commander_decision" =>
         recommendation =
           IF report.status = "done" /\ ContinuationMode(report) = "close"
           THEN "ready_to_close" ELSE "needs_commander_decision"

(***************************************************************************)
(* A task is closed only with a finished, unblocked report, no decision    *)
(* gate open, nothing to deliver, no review owed under its closure policy, *)
(* and no open sub-agent (close_task).                                     *)
(***************************************************************************)
ClosedSettled ==
  [][life # "closed" /\ life' = "closed" =>
       /\ report.status = "done"
       /\ ResultGrade(report) # "blocked"
       /\ ~UserRequired(report)
       /\ ~CommanderRequired(packet, report)
       /\ packet # "require_commander_review"
       /\ ~report.ready
       /\ ~openAgents]_vars

(***************************************************************************)
(* A closed task is only ever archived and an archived one never changes   *)
(* status again: cancel, reopen, reconcile and the sweep all refuse.       *)
(***************************************************************************)
ClosedIsTerminal ==
  [][/\ life = "closed" => life' \in {"closed", "archived"}
     /\ life = "archived" => life' = "archived"]_life

(***************************************************************************)
(* The written rule for stopping on the user: only a report that sets      *)
(* needs_user_decision may produce request_user_decision.                  *)
(***************************************************************************)
UserStopIsExplicit ==
  Handoff(phase) = "request_user_decision" => report.needsUser
==========================================================================

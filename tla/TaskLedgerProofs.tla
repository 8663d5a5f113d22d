------------------------ MODULE TaskLedgerProofs ------------------------
(***************************************************************************)
(* The contract of phases and commands for any reports that workers hand   *)
(* in and any old-style reports that directories hold from before.         *)
(***************************************************************************)
EXTENDS TaskLedger, TLAPS

USE NewReportsAssumption, OldReportsAssumption

\* A report is never found without the packet it answers.
Answers == report # NoReport => packet # NoPacket

LInv == TypeOK /\ Answers

\* NoReport is told from any report by its status.
LEMMA ReportStatus ==
  ASSUME TypeOK
  PROVE  /\ report.status \in {"done", "blocked", "need_split", "none"}
         /\ report.status = "none" <=> report = NoReport
         /\ report = NoReport \/ report \in Reports
BY DEF TypeOK, Reports, SchemaReports, NoReport

\* NoPacket is none of the policies a dispatch can carry.
LEMMA PoliciesArePackets == Policies \subseteq Packets /\ NoPacket \notin Policies
BY DEF Policies, Packets, NoPacket

\* Every command keeps the invariant.
LEMMA LedgerInductive == LInv /\ [Next]_vars => LInv'
<1> SUFFICES ASSUME LInv, [Next]_vars PROVE LInv'
  OBVIOUS
<1> USE DEF LInv, TypeOK, Answers
<1>1. ASSUME NEW policy \in Policies, Dispatch(policy) PROVE LInv'
  BY <1>1, PoliciesArePackets DEF Dispatch
<1>2. ASSUME NEW r \in NewReports, Ingest(r) PROVE LInv'
  BY <1>2 DEF Ingest
<1>3. CASE Close
  BY <1>3 DEF Close, Lifecycles
<1>4. CASE Archive
  BY <1>4 DEF Archive, Lifecycles
<1>5. CASE Cancel
  BY <1>5 DEF Cancel, Lifecycles
<1>6. CASE Reopen
  BY <1>6 DEF Reopen, Lifecycles
<1>7. CASE MarkStale
  BY <1>7 DEF MarkStale, Lifecycles
<1>8. ASSUME NEW open \in BOOLEAN, SetAgents(open) PROVE LInv'
  BY <1>8 DEF SetAgents
<1>9. CASE UNCHANGED vars
  BY <1>9 DEF vars
<1>10. QED
  BY <1>1, <1>2, <1>3, <1>4, <1>5, <1>6, <1>7, <1>8, <1>9 DEF Next

\* Whatever the commands, the state is well formed and a report answers a
\* packet (ingest_worker_report asks for one).
THEOREM LedgerInvariance == Spec => []LInv
<1>1. Init => LInv
  BY PoliciesArePackets
     DEF Init, LInv, TypeOK, Answers, Lifecycles, Policies, Packets, NoPacket
<1>2. QED
  BY <1>1, LedgerInductive, PTL DEF Spec

\* Every task state is one the derivations are defined on.
THEOREM TypeCorrect == Spec => []TypeOK
BY LedgerInvariance, PTL DEF LInv

(***************************************************************************)
(* What each rule of the phase ladder says of an active task's report.     *)
(***************************************************************************)
LEMMA PhaseLadder ==
  ASSUME TypeOK, life = "active"
  PROVE  /\ phase = "pending_user" <=> UserRequired(report)
         /\ phase = "ready_for_user_delivery" <=>
              ~UserRequired(report) /\ report.ready /\ report.status = "done"
         /\ phase \in {"awaiting_report", "missing_packet"} =>
              report.status = "none"
         /\ phase = "awaiting_report" => packet # NoPacket
         /\ phase = "ready_to_close" =>
              /\ report.status = "done"
              /\ ~report.ready
              /\ ResultGrade(report) # "blocked"
              /\ ~UserRequired(report)
              /\ ~CommanderRequired(packet, report)
<1>1. report.status \in {"done", "blocked", "need_split", "none"}
  BY ReportStatus
<1>2. QED
  BY <1>1 DEF phase, Phase, ActivePhase

\* An inactive task's phase is its lifecycle status: the controller goes on.
LEMMA InactiveGoesOn ==
  ASSUME TypeOK, life # "active"
  PROVE  Handoff(phase) = "continue" /\ phase # "ready_to_close"
<1>1. phase \in {"stale", "canceled", "closed", "archived"}
  BY DEF phase, Phase, TypeOK, Lifecycles
<1>2. QED
  BY <1>1 DEF Handoff

(***************************************************************************)
(* The conversation stops only for what the handoff rules name, whatever   *)
(* reports come in.                                                        *)
(***************************************************************************)
THEOREM HandoffIsSound == Spec => []HandoffContract
<1>1. ASSUME LInv PROVE HandoffContract
  <2>1. CASE life # "active"
    <3>1. Handoff(phase) = "continue"
      BY <1>1, <2>1, InactiveGoesOn DEF LInv
    <3>2. QED
      BY <2>1, <3>1 DEF HandoffContract
  <2>2. CASE life = "active"
    <3>1. /\ Handoff(phase) = "request_user_decision" <=> phase = "pending_user"
          /\ Handoff(phase) = "return_final_result" <=>
               phase = "ready_for_user_delivery"
          /\ Handoff(phase) = "wait_external_result" <=>
               phase = "awaiting_report"
          /\ Handoff(phase) = "continue" =>
               phase \notin {"pending_user", "ready_for_user_delivery"}
      BY DEF Handoff
    <3>2. phase = "awaiting_report" => report = NoReport /\ packet # NoPacket
      BY <1>1, <2>2, PhaseLadder, ReportStatus DEF LInv
    <3>3. QED
      BY <1>1, <2>2, <3>1, <3>2, PhaseLadder DEF LInv, HandoffContract
  <2>3. QED
    BY <2>1, <2>2
<1>2. QED
  BY <1>1, LedgerInvariance, PTL

(***************************************************************************)
(* The two ladders behind status.json agree on who is waited for.  A task  *)
(* the recommendation would close is ready_to_close unless a result is to  *)
(* be delivered, the grade is blocked or the commander must decide; only   *)
(* then they differ (derive_base_commander_recommendation against          *)
(* derive_closed_loop_phase).                                              *)
(***************************************************************************)
THEOREM LaddersAreCompared == Spec => []LaddersCompared
<1>1. ASSUME LInv, life = "active" PROVE LaddersCompared
  <2>1. /\ report.status \in {"done", "blocked", "need_split", "none"}
        /\ report.status = "none" => report = NoReport
    BY <1>1, ReportStatus DEF LInv
  <2>2. report = NoReport =>
          /\ ContinuationMode(report) = Unset
          /\ ResultGrade(report) = Unset
          /\ ~report.needsCommander
    BY DEF ContinuationMode, ResultGrade, NoReport
  <2>3. CASE report.status = "none"
    BY <1>1, <2>1, <2>2, <2>3
       DEF LaddersCompared, phase, Phase, ActivePhase, Recommendation,
           CommanderRequired, Stuck, Unset, NoReport
  <2>4. CASE report.status # "none"
    BY <1>1, <2>1, <2>4
       DEF LaddersCompared, phase, Phase, ActivePhase, Recommendation,
           CommanderRequired, Stuck
  <2>5. QED
    BY <2>3, <2>4
<1>2. LInv => LaddersCompared
  BY <1>1 DEF LaddersCompared
<1>3. QED
  BY <1>2, LedgerInvariance, PTL

(***************************************************************************)
(* A task is closed only when everything about it is settled.              *)
(***************************************************************************)
THEOREM OnlySettledTasksClose == Spec => ClosedSettled
<1>1. ASSUME LInv, Next, life # "closed", life' = "closed"
      PROVE  /\ report.status = "done"
             /\ ResultGrade(report) # "blocked"
             /\ ~UserRequired(report)
             /\ ~CommanderRequired(packet, report)
             /\ packet # "require_commander_review"
             /\ ~report.ready
             /\ ~openAgents
  <2>1. Close
    BY <1>1 DEF Next, Dispatch, Ingest, Archive, Cancel, Reopen, MarkStale,
       SetAgents
  <2>2. life = "active"
    BY <1>1, <2>1, InactiveGoesOn DEF Close, LInv
  <2>3. /\ report.status = "done" /\ ~report.ready
        /\ ResultGrade(report) # "blocked"
        /\ ~UserRequired(report) /\ ~CommanderRequired(packet, report)
    BY <1>1, <2>1, <2>2, PhaseLadder DEF Close, LInv
  <2>4. QED
    BY <2>1, <2>3 DEF Close, CommanderRequired
<1>2. LInv /\ [Next]_vars =>
        [life # "closed" /\ life' = "closed" =>
           /\ report.status = "done"
           /\ ResultGrade(report) # "blocked"
           /\ ~UserRequired(report)
           /\ ~CommanderRequired(packet, report)
           /\ packet # "require_commander_review"
           /\ ~report.ready
           /\ ~openAgents]_vars
  BY <1>1
<1>3. QED
  BY <1>2, LedgerInvariance, PTL DEF Spec, ClosedSettled

(***************************************************************************)
(* No command leads a closed task anywhere but to the archive.             *)
(***************************************************************************)
THEOREM ClosedTasksStayClosed == Spec => ClosedIsTerminal
<1>1. ASSUME LInv, [Next]_vars
      PROVE  [/\ life = "closed" => life' \in {"closed", "archived"}
              /\ life = "archived" => life' = "archived"]_life
  <2>1. CASE Close
    BY <1>1, <2>1, InactiveGoesOn DEF Close, LInv
  <2>2. CASE Next /\ ~Close
    BY <2>2 DEF Next, Dispatch, Ingest, Archive, Cancel, Reopen, MarkStale,
       SetAgents
  <2>3. QED
    BY <1>1, <2>1, <2>2 DEF vars
<1>2. QED
  BY <1>1, LedgerInvariance, PTL DEF Spec, ClosedIsTerminal
==========================================================================

---------------------------- MODULE StopGate ----------------------------
(***************************************************************************)
(* May the commander stop?  commander_stop_gate.py classifies every task,  *)
(* phase plan, objective plan and task-card entry it finds, and one report *)
(* is made of the results.  Pure operators.                                *)
(***************************************************************************)
EXTENDS TaskPhase

UserHandoffs == {"request_user_decision", "return_final_result"}
UserGates    == UserHandoffs \cup {"pending_user", "blocked"}
Waits        == {"wait_external_result", "must_continue",
                 "phase_goals_remaining", "objective_phases_remaining"}
TerminalLife == {"closed", "archived", "canceled"}

Allows(outcome) == [stop |-> TRUE, outcome |-> outcome]
Blocks(outcome) == [stop |-> FALSE, outcome |-> outcome]
\* Mutant: whatever lets the commander stop counts as a user gate.
AsksUserAlways(r) == r.stop

AsksUser(r) == r.stop /\ r.outcome \in UserGates

\* Mutant: the lifecycle is looked at before the open sub-agents.
TaskResultEndedFirst(t) ==
  IF t.life \in TerminalLife THEN Allows("runtime_task_terminal")
  ELSE IF t.agents THEN Blocks("active_subagents")
  ELSE IF Handoff(t.phase) \in UserHandoffs THEN Allows(Handoff(t.phase))
  ELSE IF Handoff(t.phase) = "wait_external_result"
    THEN Blocks("wait_external_result")
  ELSE Blocks("must_continue")

\* classify_runtime_snapshot: t is [life, phase, agents].
TaskResult(t) ==
  IF t.agents THEN Blocks("active_subagents")
  ELSE IF Handoff(t.phase) \in UserHandoffs THEN Allows(Handoff(t.phase))
  ELSE IF Handoff(t.phase) = "wait_external_result"
    THEN Blocks("wait_external_result")
  ELSE IF t.life \in TerminalLife THEN Allows("runtime_task_terminal")
  ELSE Blocks("must_continue")

\* classify_task_card, of the status an entry of the card states.
CardResult(status) ==
  IF status \in {"pending_user", "blocked"} THEN Allows(status)
  ELSE Blocks("must_continue")

\* classify_phase_plan_summary.
PhaseResult(s) ==
  IF s.status \in {"blocked", "pending_user"} THEN Allows(s.status)
  ELSE IF s.remaining THEN Blocks("phase_goals_remaining")
  ELSE Allows("phase_terminal")

\* classify_objective_plan_summary.
ObjectiveResult(s, preferUser) ==
  IF s.current \in {"blocked", "pending_user"} THEN Allows(s.current)
  ELSE IF s.remaining /\ preferUser THEN Allows("objective_waits_on_user_handoff")
  ELSE IF s.remaining THEN Blocks("objective_phases_remaining")
  ELSE Allows("objective_terminal")

\* Without a task id only results of interest are kept.
OfInterest(results) == {r \in results : ~r.stop \/ r.outcome \in UserHandoffs}

(***************************************************************************)
(* build_stop_gate_report of the tasks' results, the statuses on the task  *)
(* card, the phase and objective summaries, and whether the commander has  *)
(* local changes outside its documents.                                    *)
(***************************************************************************)
GateReport(tasks, card, phases, objectives, strayed) ==
  LET own      == tasks \cup {CardResult(c) : c \in card}
                        \cup {PhaseResult(s) : s \in phases}
      asked    == \E r \in own : AsksUser(r)
      all      == own \cup {ObjectiveResult(s, asked) : s \in objectives}
      blockers == {r.outcome : r \in {b \in all : ~b.stop}}
                    \cup IF strayed THEN {"commander_write_violation"} ELSE {}
      gates    == {r \in all : AsksUser(r)}
  IN [stop |-> blockers = {},
      outcome |->
        IF blockers # {} THEN "must_continue"
        ELSE IF gates # {} THEN "user_handoff_allowed"
        ELSE IF all = {} THEN "no_active_work"
        ELSE "all_tracked_work_terminal",
      mode |->
        IF "wait_external_result" \in blockers /\ blockers \subseteq Waits
          THEN "wait_external_result"
        ELSE IF blockers # {} THEN "commander_internal"
        ELSE IF gates # {} THEN "user_handoff"
        ELSE "terminal"]
==========================================================================

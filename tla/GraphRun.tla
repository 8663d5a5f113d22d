----------------------------- MODULE GraphRun -----------------------------
(***************************************************************************)
(* The commander graph and its drivers.  A cycle of the daemon (or a call  *)
(* of host control) runs run_until_objective_handoff, which runs           *)
(* run_until_handoff, which invokes the graph once per round: restore,     *)
(* audit, stop gate and decide, then promote, assign and dispatch a goal,  *)
(* or ingest, close and archive the task a report came for.                *)
(*                                                                         *)
(* There is one driver; workers write their reports while it runs, and the *)
(* commander settles tasks by hand and appends phases.  ObjectivePlan has  *)
(* the plans, the tasks and the gate; a promotion is one step here.  Every *)
(* run has a thread of its own, as with the daemon's defaults.             *)
(***************************************************************************)
EXTENDS ObjectivePlan

CONSTANTS
  CanWait,    \* is wait_timeout_seconds positive?
  Slots,      \* parallel_dispatch_limit of the phases
  MaxRounds,  \* max_graph_rounds
  MaxCalls    \* max_objective_rounds

ASSUME DriverAssumption ==
         /\ None \notin Goals
         /\ CanWait \in BOOLEAN
         /\ Slots \in Nat \ {0}
         /\ MaxRounds \in Nat \ {0} /\ MaxCalls \in Nat \ {0}

VARIABLES
  kind,     \* who works on each goal: a worker window, a local script, or
            \* nobody, if the dispatch governance refuses its packet
  file,     \* the worker_report.json of each task
  open,     \* goals with a worker window at work
  leased,   \* goals with an active worker lease
  launches, \* history: times each goal was handed to a worker
  stuck,    \* history: goals nobody will work on, see below
  at,       \* the graph node the driver is in front of
  graph,    \* the state of the graph thread
  pending,  \* the report the next round is invoked with
  round,    \* rounds of this call of run_until_handoff
  calls,    \* calls of run_until_handoff in this run
  before,   \* what the previous round left, for the signature
  config,   \* the task id in the daemon's runtime configuration
  outcome   \* the driver_status and stop_reason of the last run

driverVars == <<kind, file, open, leased, launches, stuck, at, graph, pending,
                round, calls, before, config, outcome>>
world    == <<kind, file, open, leased, launches, stuck>>
counters == <<round, calls, before, config>>
plans    == <<objective, filed, goal, task>>

UserPhases == {"pending_user", "ready_for_user_delivery"}
Nodes      == {"idle", "round", "promotePhase", "promoteGoal", "assign",
               "dispatch", "ingest", "close", "archive", "handoff", "after",
               "finish"}
Invalid    == [NoReport EXCEPT !.status = "invalid"]
NoMessage  == [goal |-> None, body |-> NoReport]
Nothing    == [goal |-> None, phase |-> "none"]
Empty      == [task |-> None, packet |-> None, report |-> NoMessage,
               stop |-> FALSE, cont |-> FALSE, mode |-> "none",
               ingest |-> Nothing, closure |-> Nothing]
NoOutcome  == [status |-> "none", reason |-> "none"]
Asking     == {"user_handoff", "attention"}

Settle == objective' = Reconciled(objective) /\ goal' = Judged
Still  == UNCHANGED <<run, crashes, clobbered, declared>>

DriverInit ==
  /\ Init
  /\ kind \in [Goals -> {"window", "script", "refused"}]
  /\ file = [g \in Goals |-> NoReport]
  /\ open = {} /\ leased = {} /\ stuck = {}
  /\ launches = [g \in Goals |-> 0]
  /\ at = "idle"
  /\ graph = Empty /\ pending = NoMessage
  /\ round = 0 /\ calls = 0 /\ before = <<>> /\ config = None
  /\ outcome = NoOutcome

----------------------------------------------------------------------------
(* A run begins *)

\* The primary active phase plan: the one updated last.
Current(q) == q \in filed /\ ~Over(q)
ActiveIn(q)  == {g \in GoalsOf(q) : Judged[g] = "active"}
PendingIn(q) == {g \in GoalsOf(q) : Judged[g] = "pending"}

\* _ready_parallel_goals, of goals that own different paths.
ReadyIn(q) ==
  {g \in PendingIn(q) :
     Cardinality({h \in PendingIn(q) : h < g}) < Slots - Cardinality(ActiveIn(q))}

\* Goals become active and get their packets and tasks.
Promoted(S) ==
  /\ goal' = [g \in Goals |-> IF g \in S THEN "active" ELSE Judged[g]]
  /\ task' = [g \in Goals |->
       IF g \in S /\ task[g].life = "none"
       THEN [task[g] EXCEPT !.life = "active"] ELSE task[g]]

\* The daemon cycle fills all free slots of the phase
\* (promote_ready_phase_goals), with nobody to work on the goals.
Prefilled(q) ==
  /\ Current(q)
  /\ ReadyIn(q) # {}
  /\ Promoted(ReadyIn(q))
  /\ stuck' = stuck \cup ReadyIn(q)
  /\ objective' = Reconciled(objective)
  /\ UNCHANGED filed
  /\ Still

\* A run of host control, or nothing to promote.
NoPrefill ==
  /\ Settle
  /\ UNCHANGED <<filed, task, stuck>>
  /\ Still

\* _pick_task_id: the first with a result, or else the first.
Picked(g, S) ==
  LET results == {h \in S : PhaseOfTask(h) # "awaiting_report"} IN
  Lowest(g, IF results # {} THEN results ELSE S)

\* _resolve_runtime_task_id: an active goal of the current phase, else the
\* configured task.
Resolved(g) ==
  \/ \E q \in Phases : Current(q) /\ Picked(g, ActiveIn(q))
  \/ /\ \A q \in Phases : Current(q) => ActiveIn(q) = {}
     /\ g = config

\* A cycle of the daemon, unless it waits for a resume command, or a call of
\* host control.
StartRun ==
  /\ at = "idle"
  /\ outcome.status \notin Asking
  /\ \/ \E q \in Phases, g \in Goals :
          /\ Prefilled(q)
          /\ Picked(g, ActiveIn(q) \cup ReadyIn(q))
          /\ graph' = [Empty EXCEPT !.task = g]
     \/ NoPrefill /\ \E g \in Goals \cup {None} :
          Resolved(g) /\ graph' = [Empty EXCEPT !.task = g]
  /\ at' = "round"
  /\ pending' = NoMessage
  /\ round' = 1 /\ calls' = 1 /\ before' = <<>>
  /\ outcome' = NoOutcome
  /\ UNCHANGED <<kind, file, open, leased, launches, config>>

\* A resume command; the user's words end up in the intent binding.
Resume ==
  /\ at = "idle"
  /\ outcome.status \in Asking
  /\ outcome' = NoOutcome
  /\ UNCHANGED <<plans, world, at, graph, pending, counters>>
  /\ Still

----------------------------------------------------------------------------
(* A round *)

Promotable == {q \in Phases : Current(q) /\ ReadyIn(q) # {}}
NextPhases ==
  LET ob == Reconciled(objective) IN
  {q \in Phases : ob.status = "active" /\ Having(ob, {"active"}) = {}
                    /\ Lowest(q, Having(ob, {"pending"}))}

TheGate(g) == IF g = None THEN Gate({}, FALSE) ELSE GateFor(g, {}, FALSE)

\* decide_next_node.
Route(report, packet, gate) ==
  IF report # NoMessage THEN "ingest"
  ELSE IF packet # None THEN "assign"
  ELSE IF Promotable # {} THEN "promoteGoal"
  ELSE IF NextPhases # {} THEN "promotePhase"
  ELSE "after"

\* run_once or resume_once up to the decision; deliver_result and
\* continue_internal leave what the gate said.
BeginRound ==
  /\ at = "round"
  /\ LET gate   == TheGate(graph.task)
         report == IF pending # NoMessage THEN pending ELSE graph.report IN
     /\ graph' = [graph EXCEPT !.report = report, !.stop = gate.stop,
                               !.cont = ~gate.stop, !.mode = gate.mode]
     /\ at' = Route(report, graph.packet, gate)
  /\ pending' = NoMessage
  /\ Settle
  /\ UNCHANGED <<filed, task, world, counters, outcome>>
  /\ Still

\* promote_objective_phase_node.
PromotePhase ==
  /\ at = "promotePhase"
  /\ \E q \in NextPhases :
       /\ objective' = [status |-> "active", current |-> q,
                        entry |-> [Reconciled(objective).entry
                                     EXCEPT ![q] = "active"]]
       /\ filed' = filed \cup {q}
       /\ graph' = [graph EXCEPT !.task = None]
  /\ goal' = Judged
  /\ at' = "promoteGoal"
  /\ UNCHANGED <<task, world, pending, counters, outcome>>
  /\ Still

\* Mutant: the promoted goal is not assigned.
PromoteOnly ==
  /\ at = "promoteGoal"
  /\ \E g \in Goals :
       /\ Current(PhaseOf[g])
       /\ PromoteGoal(g)
       /\ graph' = [graph EXCEPT !.task = g]
  /\ at' = "after"
  /\ UNCHANGED <<world, pending, counters, outcome>>

\* promote_phase_goal_node: the packet of the goal that is promoted.
PromoteNext ==
  /\ at = "promoteGoal"
  /\ \E g \in Goals :
       /\ Current(PhaseOf[g])
       /\ PromoteGoal(g)
       /\ graph' = [graph EXCEPT !.task = g, !.packet = g]
  /\ at' = "assign"
  /\ UNCHANGED <<world, pending, counters, outcome>>

\* With a slot left beside an active goal: the packet of the first active one,
\* and the pending goal stays.
TakeUpAgain ==
  /\ at = "promoteGoal"
  /\ \E q \in Promotable, g \in Goals :
       /\ Lowest(g, ActiveIn(q))
       /\ graph' = [graph EXCEPT !.task = g, !.packet = g]
  /\ goal' = Judged
  /\ at' = "assign"
  /\ UNCHANGED <<objective, filed, task, world, pending, counters, outcome>>
  /\ Still

----------------------------------------------------------------------------
(* Assign and dispatch *)

\* Mutant: the lease of another run is not looked at.
AssignAnyway ==
  /\ at = "assign"
  /\ LET g == graph.packet IN
     IF kind[g] = "refused"
     THEN /\ graph' = [graph EXCEPT !.task = g, !.cont = TRUE,
                                    !.mode = "commander_internal"]
          /\ stuck' = stuck \cup {g}
          /\ at' = "after"
          /\ UNCHANGED leased
     ELSE /\ leased' = leased \cup {g}
          /\ graph' = [graph EXCEPT !.task = g]
          /\ at' = "dispatch"
          /\ UNCHANGED stuck
  /\ UNCHANGED <<plans, kind, file, open, launches, pending, counters, outcome>>
  /\ Still

\* assign_worker_node, and dispatch_worker_node if nobody was assigned: the
\* packet stays in the thread.
Assign ==
  /\ at = "assign"
  /\ LET g == graph.packet IN
     IF kind[g] = "refused"
     THEN /\ graph' = [graph EXCEPT !.task = g, !.cont = TRUE,
                                    !.mode = "commander_internal"]
          /\ stuck' = stuck \cup {g}
          /\ at' = "after"
          /\ UNCHANGED leased
     ELSE IF g \in leased
     THEN /\ graph' = [graph EXCEPT !.task = g, !.cont = TRUE,
                                    !.mode = "wait_external_result"]
          /\ at' = "after"
          /\ UNCHANGED <<leased, stuck>>
     ELSE /\ leased' = leased \cup {g}
          /\ graph' = [graph EXCEPT !.task = g]
          /\ at' = "dispatch"
          /\ UNCHANGED stuck
  /\ UNCHANGED <<plans, kind, file, open, launches, pending, counters, outcome>>
  /\ Still

\* dispatch_worker_node with an external window: it is launched, or the
\* launch fails and the worker keeps its lease.
DispatchWindow ==
  /\ at = "dispatch"
  /\ LET g == graph.packet IN
     /\ kind[g] = "window"
     /\ \/ /\ open' = open \cup {g}
           /\ launches' = [launches EXCEPT ![g] = @ + 1]
           /\ graph' = [graph EXCEPT !.packet = None, !.cont = TRUE,
                                     !.mode = "wait_external_result"]
           /\ UNCHANGED stuck
        \/ /\ graph' = [graph EXCEPT !.packet = None, !.cont = TRUE,
                                     !.mode = "commander_internal"]
           /\ stuck' = stuck \cup {g}
           /\ UNCHANGED <<open, launches>>
  /\ at' = "after"
  /\ UNCHANGED <<plans, kind, file, leased, pending, counters, outcome>>
  /\ Still

\* The local-script provider returns its report at once; if its changes are
\* out of bounds, the report is dropped and the packet stays.
DispatchScript ==
  /\ at = "dispatch"
  /\ LET g == graph.packet IN
     /\ kind[g] = "script"
     /\ launches' = [launches EXCEPT ![g] = @ + 1]
     /\ \/ /\ \E r \in NewReports :
                graph' = [graph EXCEPT !.packet = None,
                                       !.report = [goal |-> g, body |-> r]]
           /\ at' = "ingest"
           /\ UNCHANGED stuck
        \/ /\ graph' = [graph EXCEPT !.cont = TRUE, !.mode = "commander_internal"]
           /\ stuck' = stuck \cup {g}
           /\ at' = "after"
  /\ UNCHANGED <<plans, kind, file, open, leased, pending, counters, outcome>>
  /\ Still

----------------------------------------------------------------------------
(* Ingest, close, archive, hand off *)

\* The node after ingest_worker_node and close_task_node.
NodeAfter(phase) ==
  CASE phase \in UserPhases -> "handoff"
    [] phase = "ready_to_close" -> "close"
    [] phase = "closed"     -> "archive"
    [] OTHER                -> "after"

\* Mutant: the report is filed, but the task's status is not refreshed.
IngestUnseen ==
  /\ at = "ingest"
  /\ graph.report.body # Invalid
  /\ LET g     == graph.report.goal
         r     == graph.report.body
         phase == Phase(task[g].life, Packet, r) IN
     /\ open' = open \ {g}
     /\ graph' = [graph EXCEPT !.task = g, !.report = NoMessage,
                               !.ingest = [goal |-> g, phase |-> phase]]
     /\ at' = NodeAfter(phase)
  /\ UNCHANGED <<plans, kind, file, leased, launches, stuck, pending, counters,
                 outcome>>
  /\ Still

\* continue_internal_node falls back on what the gate said.
Ingest ==
  /\ at = "ingest"
  /\ graph.report.body # Invalid
  /\ LET g     == graph.report.goal
         r     == graph.report.body
         phase == Phase(task[g].life, Packet, r) IN
     /\ task' = [task EXCEPT ![g].report = r]
     /\ open' = open \ {g}
     /\ graph' = [graph EXCEPT !.task = g, !.report = NoMessage,
                               !.ingest = [goal |-> g, phase |-> phase]]
     /\ at' = NodeAfter(phase)
  /\ UNCHANGED <<objective, filed, goal, kind, file, leased, launches, stuck,
                 pending, counters, outcome>>
  /\ Still

\* A report that fails validation ends the driver with an exception.
RejectReport ==
  /\ at = "ingest"
  /\ graph.report.body = Invalid
  /\ at' = "idle"
  /\ outcome' = [status |-> "error", reason |-> "invalid_report"]
  /\ UNCHANGED <<plans, world, graph, pending, counters>>
  /\ Still

Close ==
  /\ at = "close"
  /\ LET g == graph.ingest.goal IN
     /\ task' = [task EXCEPT ![g].life = "closed"]
     /\ graph' = [graph EXCEPT !.closure = [goal |-> g, phase |-> "closed"]]
  /\ at' = "archive"
  /\ UNCHANGED <<objective, filed, goal, world, pending, counters, outcome>>
  /\ Still

\* archive_task_node: the task of the last closure in this thread first.
Archive ==
  /\ at = "archive"
  /\ LET g == IF graph.closure # Nothing THEN graph.closure.goal
              ELSE graph.ingest.goal IN
     /\ task' = [task EXCEPT ![g].life = "archived"]
     /\ graph' = [graph EXCEPT !.task = g]
  /\ at' = "after"
  /\ UNCHANGED <<objective, filed, goal, world, pending, counters, outcome>>
  /\ Still

\* user_handoff_node: likewise.
HandOff ==
  /\ at = "handoff"
  /\ LET source == IF graph.closure # Nothing THEN graph.closure
                   ELSE graph.ingest IN
     graph' = IF source.phase \in UserPhases
              THEN [graph EXCEPT !.task = source.goal, !.cont = FALSE,
                                 !.mode = "user_handoff"]
              ELSE [graph EXCEPT !.cont = TRUE, !.mode = "commander_internal"]
  /\ at' = "after"
  /\ UNCHANGED <<plans, world, pending, counters, outcome>>
  /\ Still

----------------------------------------------------------------------------
(* After a round *)

\* Mutant: the worker's own file is not looked at.
CandidateAttached(g) ==
  IF g = None THEN NoReport ELSE task[g].report

\* find_task_report_candidate: once a report was ingested it is attached to
\* the session, before the worker's file.
Candidate(g) ==
  IF g = None THEN NoReport
  ELSE IF task[g].report # NoReport THEN task[g].report
  ELSE file[g]

EndCall(status, reason) ==
  /\ at' = "finish"
  /\ outcome' = [status |-> status, reason |-> reason]
  /\ UNCHANGED <<pending, round>>

\* Mutant: one round too many.
NextRoundMore(report) ==
  IF round <= MaxRounds
  THEN /\ at' = "round"
       /\ round' = round + 1
       /\ pending' = report
       /\ UNCHANGED outcome
  ELSE /\ EndCall("max_rounds_exhausted", "max_rounds_exhausted")

\* The for-loop of run_until_handoff.
NextRound(report) ==
  IF round < MaxRounds
  THEN /\ at' = "round"
       /\ round' = round + 1
       /\ pending' = report
       /\ UNCHANGED outcome
  ELSE /\ EndCall("max_rounds_exhausted", "max_rounds_exhausted")

Signature == <<graph, objective, goal>>

\* run_until_handoff after an invocation of the graph.
StopHere ==
  /\ at = "after"
  /\ \/ graph.stop /\ EndCall("stopped", graph.mode)
     \/ /\ ~graph.stop /\ ~graph.cont
        /\ EndCall("completed_without_handoff", "continuation_not_required")
  /\ UNCHANGED <<plans, world, graph, calls, before, config>>
  /\ Still

MustGoOn(mode) ==
  /\ at = "after"
  /\ ~graph.stop /\ graph.cont
  /\ (graph.mode = "wait_external_result") = (mode = "wait")

FoundIt(g) == [goal |-> g, body |-> Candidate(g)]

\* _wait_for_worker_report finds a report ...
ReportArrives ==
  /\ MustGoOn("wait")
  /\ CanWait
  /\ Candidate(graph.task) # NoReport
  /\ NextRound(FoundIt(graph.task))
  /\ UNCHANGED <<plans, world, graph, calls, before, config>>
  /\ Still

\* ... or the time is up, which it always is if wait_timeout_seconds is 0.
WaitEnds ==
  /\ MustGoOn("wait")
  /\ CanWait => Candidate(graph.task) = NoReport
  /\ EndCall("waiting_external_result", "wait_timeout_or_missing_report")
  /\ UNCHANGED <<plans, world, graph, calls, before, config>>
  /\ Still

\* _load_existing_report, as long as the thread ingested nothing.
PickUpReport ==
  /\ MustGoOn("internal")
  /\ graph.ingest = Nothing
  /\ Candidate(graph.task) # NoReport
  /\ NextRound(FoundIt(graph.task))
  /\ UNCHANGED <<plans, world, graph, calls, before, config>>
  /\ Still

\* Nothing to pick up: another round, unless it was like the one before.
\* The signature contains updated_at, so it may differ for that alone.
GoOnInternally ==
  /\ MustGoOn("internal")
  /\ graph.ingest # Nothing \/ Candidate(graph.task) = NoReport
  /\ \/ before = Signature /\ EndCall("paused_no_progress", graph.mode)
     \/ NextRound(NoMessage)
  /\ before' = Signature
  /\ UNCHANGED <<plans, world, graph, calls, config>>
  /\ Still

----------------------------------------------------------------------------
(* run_until_objective_handoff and the daemon's verdict *)

Remaining ==
  LET ob == Reconciled(objective) IN
  ob.status = "active" /\ Having(ob, EntryStatus \ (Settled \cup {"absent"})) # {}

Final(status, reason) ==
  /\ at' = "idle"
  /\ outcome' = [status |-> status, reason |-> reason]
  /\ config' = IF graph.task # None THEN graph.task ELSE config
  /\ UNCHANGED <<pending, round, calls, before, graph>>

\* The daemon's _derive_cycle_outcome: what it waits for a resume with.
Verdict ==
  IF outcome.status = "waiting_external_result" THEN <<"waiting", outcome.reason>>
  ELSE IF graph.mode = "user_handoff" \/ outcome.reason = "user_handoff"
    THEN <<"user_handoff", "user_handoff">>
  ELSE IF outcome.status \in {"paused_no_progress", "max_rounds_exhausted"}
    THEN <<"attention", outcome.status>>
  ELSE <<"done", outcome.reason>>

\* May another call follow?
CameToAnEnd ==
  \/ outcome.status = "stopped" /\ outcome.reason = "terminal"
  \/ outcome.status = "completed_without_handoff"

\* Mutant: a terminal call ends the run, whatever phases remain.
FinishAtOnce ==
  /\ at = "finish"
  /\ Settle
  /\ Final(Verdict[1], Verdict[2])
  /\ UNCHANGED <<filed, task, world>>
  /\ Still

\* A call that came to an end of everything is followed by another while
\* the objective has phases left, unless it ended like the one before.
Finish ==
  /\ at = "finish"
  /\ Settle
  /\ IF ~CameToAnEnd \/ ~Remaining
     THEN Final(Verdict[1], Verdict[2])
     ELSE \/ calls > 1 /\ Final("attention", "paused_no_progress")
          \/ /\ calls = MaxCalls
             /\ Final("attention", "max_objective_rounds_exhausted")
          \/ /\ calls < MaxCalls
             /\ at' = "round"
             /\ calls' = calls + 1 /\ round' = 1 /\ before' = <<>>
             /\ graph' = [graph EXCEPT !.packet = None, !.report = NoMessage]
             /\ UNCHANGED <<pending, outcome, config>>
  /\ UNCHANGED <<filed, task, world>>
  /\ Still

----------------------------------------------------------------------------
(* Everybody else *)

\* The worker in a window writes its report or corrects an invalid one; a
\* valid one it may replace by another as long as its task is not settled,
\* whether it was ingested or not.
WorkerWrites(g) ==
  /\ \/ g \in open /\ file[g] \in {NoReport, Invalid}
     \/ file[g] \in NewReports /\ task[g].life = "active"
  /\ \E r \in NewReports \cup {x \in {Invalid} : file[g] = NoReport} :
       /\ r # file[g]
       /\ file' = [file EXCEPT ![g] = r]
  /\ UNCHANGED <<plans, kind, open, leased, launches, stuck, at, graph, pending,
                 counters, outcome>>
  /\ Still

\* The commander cancels a task once the driver asked.
CommanderCancels(g) ==
  /\ at = "idle"
  /\ outcome.status \in Asking
  /\ task[g].life = "active"
  /\ task' = [task EXCEPT ![g].life = "canceled"]
  /\ UNCHANGED <<objective, filed, goal, driverVars>>
  /\ Still

\* append_objective_phase, at any time.
CommanderAppends ==
  /\ \E q \in Phases :
       /\ Lowest(q, Having(objective, {"absent"}))
       /\ \E status \in First \ {"absent"} :
            /\ objective' = [objective EXCEPT !.status = "active",
                                              !.entry[q] = status]
            /\ declared' = declared \cup TakenBy(q, status)
  /\ UNCHANGED <<filed, goal, task, run, crashes, clobbered, driverVars>>

\* The driver process dies; all but the files is gone.  A packet that was
\* not dispatched and a report of a script that was not ingested are lost.
Lost == {graph.packet} \cup
          {g \in Goals : g = graph.report.goal /\ kind[g] = "script"}

DriverDies ==
  /\ at # "idle"
  /\ crashes < MaxCrashes
  /\ crashes' = crashes + 1
  /\ at' = "idle"
  /\ outcome' = NoOutcome
  /\ stuck' = stuck \cup (Lost \cap Goals)
  /\ UNCHANGED <<plans, kind, file, open, leased, launches, graph, pending,
                 counters, run, clobbered, declared>>

----------------------------------------------------------------------------

Drive ==
  \/ StartRun
  \/ BeginRound
  \/ PromotePhase
  \/ PromoteNext
  \/ TakeUpAgain
  \/ Assign
  \/ DispatchWindow
  \/ DispatchScript
  \/ Ingest
  \/ RejectReport
  \/ Close
  \/ Archive
  \/ HandOff
  \/ StopHere
  \/ ReportArrives
  \/ WaitEnds
  \/ PickUpReport
  \/ GoOnInternally
  \/ Finish

DriverNext ==
  \/ Drive
  \/ Resume
  \/ \E g \in Goals : WorkerWrites(g) \/ CommanderCancels(g)
  \/ CommanderAppends
  \/ DriverDies

allVars == <<vars, driverVars>>

DriverSpec == DriverInit /\ [][DriverNext]_allVars

(***************************************************************************)
(* Runs keep going and keep being started, workers answer, and a user who  *)
(* is asked resumes.                                                       *)
(***************************************************************************)
FairDriverSpec ==
  /\ DriverSpec
  /\ WF_at(Drive) /\ WF_outcome(Resume)
  /\ \A g \in Goals : WF_file(file[g] \notin NewReports /\ WorkerWrites(g))

----------------------------------------------------------------------------

Message == [goal : Goals \cup {None}, body : NewReports \cup {NoReport, Invalid}]
Result  == [goal : Goals \cup {None}, phase : Lifecycles \cup UserPhases \cup
              {"none", "needs_commander_decision", "blocked", "ready_to_close"}]

\* Type invariant.
DriverTypeOK ==
  /\ TypeOK
  /\ kind \in [Goals -> {"window", "script", "refused"}]
  /\ file \in [Goals -> NewReports \cup {NoReport, Invalid}]
  /\ open \in SUBSET Goals /\ leased \in SUBSET Goals /\ stuck \in SUBSET Goals
  /\ launches \in [Goals -> Nat]
  /\ at \in Nodes
  /\ graph \in [task : Goals \cup {None}, packet : Goals \cup {None},
                report : Message, stop : BOOLEAN, cont : BOOLEAN,
                mode : {"none", "commander_internal", "wait_external_result",
                        "user_handoff", "terminal"},
                ingest : Result, closure : Result]
  /\ pending \in Message
  /\ round \in 0..MaxRounds /\ calls \in 0..MaxCalls
  /\ config \in Goals \cup {None}
  /\ DOMAIN outcome = {"status", "reason"}

(***************************************************************************)
(* A run that ends as terminal leaves nothing to do: every goal of every   *)
(* phase plan is settled and no phase is left in the objective, even if    *)
(* the commander appended one after the stop gate had spoken.              *)
(***************************************************************************)
TerminalMeansDone ==
  [][at # "idle" /\ at' = "idle" /\ outcome'.reason = "terminal"
       => /\ \A g \in Goals : PhaseOf[g] \in filed => goal'[g] \in Settled
          /\ Having(objective', {"pending", "active"}) = {}]_allVars

(***************************************************************************)
(* The user is only handed something that waits for the user.              *)
(***************************************************************************)
HandoffMeansAsked ==
  [][at # "idle" /\ at' = "idle" /\ outcome'.status = "user_handoff"
       => \E g \in Goals : PhaseOfTask(g) \in UserPhases]_allVars

(***************************************************************************)
(* A driver that reports to wait for an external result waits for          *)
(* somebody: a worker window, or a goal that is known to be stuck; at      *)
(* least if goals are worked on one by one or it is given time to look.    *)
(* Without, one that takes an active goal up again may wait for nobody.    *)
(***************************************************************************)
WaitsForSomebody ==
  /\ Slots = 1 \/ CanWait
  /\ at = "idle" /\ outcome.status = "waiting"
  => \E g \in Goals : task[g].life = "active" /\ (g \in open \/ g \in stuck)

\* Not so: whatever the limit, and without waiting.
AlwaysWaitsForSomebody ==
  at = "idle" /\ outcome.status = "waiting"
    => \E g \in Goals : task[g].life = "active" /\ (g \in open \/ g \in stuck)

(***************************************************************************)
(* No goal gets a second worker window and no script runs twice, whether   *)
(* its driver dies or its report is refused.                               *)
(***************************************************************************)
LaunchedOnce == \A g \in Goals : launches[g] <= 1

(***************************************************************************)
(* If it is given time to wait (wait_timeout_seconds is 0.0 by default, and *)
(* then a driver that waits does not look), the driver takes up every      *)
(* valid report: again and again there is no active task left that has one *)
(* on file and none ingested.  A later correction need not be seen.        *)
(***************************************************************************)
ReportsArePickedUp ==
  []<>(\A g \in Goals :
         file[g] \in NewReports =>
           task[g].report # NoReport \/ task[g].life # "active")
EveryReportIsIngested == CanWait => ReportsArePickedUp

\* Not so: the last word of a worker is what the commander decides on.
CorrectionsAreIngested ==
  CanWait =>
    []<>(\A g \in Goals :
           file[g] \in NewReports =>
             task[g].report = file[g] \/ task[g].life # "active")

(***************************************************************************)
(* Every active goal finds somebody to work on it, unless it is one of     *)
(* those the code forgets about.                                           *)
(***************************************************************************)
EveryGoalIsWorkedOn ==
  []<>(\A g \in Goals :
         goal[g] = "active" =>
           g \in open \/ g \in stuck \/ task[g].report # NoReport
             \/ task[g].life = "canceled")

(***************************************************************************)
(* The user handoff node delivers what needs the user to the user.         *)
(***************************************************************************)
UserIsAsked ==
  [][at = "handoff" /\ at' = "after" => graph'.mode = "user_handoff"]_allVars
==========================================================================

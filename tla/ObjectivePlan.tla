-------------------------- MODULE ObjectivePlan --------------------------
(***************************************************************************)
(* An objective plan (objectives/<id>.json): phases in file order, at most *)
(* one of them current, each with a phase plan file of its own once it was *)
(* promoted; the goals of those phases and their tasks; and what the stop  *)
(* gate says of all of it.                                                 *)
(*                                                                         *)
(* Every objective command loads the plan and writes it back whole,        *)
(* without a lock.  A promotion writes it twice and creates the phase plan *)
(* in between; it may die anywhere.  The commands on a phase plan are      *)
(* atomic here (PhasePlan has their steps), with one goal active at a time.*)
(***************************************************************************)
EXTENDS StopGate, Integers, FiniteSets

CONSTANTS
  Procs,      \* processes that work on the objective
  Phases,     \* phase ids, numbered in file order
  Goals,      \* goal ids, numbered in file order
  PhaseOf,    \* the phase of each goal
  NewReports, \* the reports workers hand in
  First,      \* statuses a phase may be listed with
  MaxCrashes  \* bound on crashes, for TLC

EntryStatus == {"absent", "pending", "active", "done", "blocked", "canceled"}

ASSUME PhasesAssumption  == Phases \subseteq Nat \ {0} /\ IsFiniteSet(Phases)
ASSUME GoalsAssumption   == /\ Goals \subseteq Nat /\ IsFiniteSet(Goals)
                            /\ PhaseOf \in [Goals -> Phases]
ASSUME ReportsAssumption == NewReports \subseteq SchemaReports
ASSUME FirstAssumption   == First \subseteq EntryStatus
ASSUME BoundAssumption   == MaxCrashes \in Nat

VARIABLES
  objective, \* the objective plan file
  filed,     \* phases whose phase plan file exists
  goal,      \* the status of each goal in it
  task,      \* the task directory of each goal
  run,       \* what each process is in the middle of
  crashes,   \* crashes so far
  clobbered, \* history: a write was not based on the plan it replaced
  declared   \* history: phases that were listed as active or done

vars == <<objective, filed, goal, task, run, crashes, clobbered, declared>>

None      == 0
Idle      == [pc |-> "idle"]
NoTask    == [life |-> "none", report |-> NoReport, agents |-> FALSE]
Objective == [status : {"active", "completed"}, current : Phases \cup {None},
              entry : [Phases -> EntryStatus]]
GoalStatus == {"pending", "active", "done", "blocked", "canceled"}
Commands  == {"status", "promote", "edit"}

GoalsOf(q)    == {g \in Goals : PhaseOf[g] = q}
Having(ob, S) == {q \in Phases : ob.entry[q] \in S}
Lowest(n, S)  == n \in S /\ \A m \in S : n <= m
Settled       == {"done", "canceled"}
Taken         == {"active", "done"}

\* What a phase listed with this status adds to those listed as taken.
TakenBy(q, status) == IF status \in Taken THEN {q} ELSE {}

Init ==
  /\ objective \in [status : {"active"}, current : {None},
                    entry : [Phases -> First]]
  /\ \A q, r \in Phases : q < r /\ objective.entry[q] = "absent"
                           => objective.entry[r] = "absent"
  /\ filed = {}
  /\ goal = [g \in Goals |-> "pending"]
  /\ task = [g \in Goals |-> NoTask]
  /\ run = [p \in Procs |-> Idle]
  /\ crashes = 0
  /\ clobbered = FALSE
  /\ declared = Having(objective, Taken)

----------------------------------------------------------------------------
(* Reconciling *)

\* reconcile_phase_plan, on every phase plan file there is ...
Judged ==
  [g \in Goals |->
     IF PhaseOf[g] \in filed /\ goal[g] = "active"
          /\ task[g].life \in TerminalLife
     THEN Classify(task[g]) ELSE goal[g]]

\* ... and on that of one phase only.
JudgedOf(q) == [g \in Goals |-> IF PhaseOf[g] = q THEN Judged[g] ELSE goal[g]]

\* Mutant: a canceled goal keeps its phase open.
OverWhenAllDone(q) == q \in filed /\ \A g \in GoalsOf(q) : Judged[g] = "done"

\* The phase plan's status is completed.
Over(q) == q \in filed /\ \A g \in GoalsOf(q) : Judged[g] \in Settled

\* The current phase follows its phase plan.
EntriesJudged(ob) ==
  [q \in Phases |->
     IF q # ob.current \/ q \notin filed THEN ob.entry[q]
     ELSE IF Over(q) THEN "done" ELSE "active"]

\* reconcile_objective_plan.
Reconciled(ob) ==
  LET entry  == EntriesJudged(ob)
      kept   == IF ob.current # None /\ Over(ob.current)
                THEN None ELSE ob.current
      active == {q \in Phases : entry[q] = "active"}
      open   == {q \in Phases : entry[q] \notin Settled \cup {"absent"}}
  IN [status  |-> IF open = {} THEN "completed" ELSE "active",
      current |-> IF kept # None \/ active = {} THEN kept
                  ELSE CHOOSE q \in active : Lowest(q, active),
      entry   |-> entry]

----------------------------------------------------------------------------
(* Commands on the objective *)

Begin(p, cmd) ==
  /\ run[p] = Idle
  /\ run' = [run EXCEPT ![p] = [pc |-> "loaded", cmd |-> cmd,
                                copy |-> objective]]
  /\ UNCHANGED <<objective, filed, goal, task, crashes, clobbered, declared>>

\* The plan is replaced; `basis` is what the new one was made from.
Write(new, basis) ==
  /\ objective' = new
  /\ clobbered' = (clobbered \/ objective # basis)

\* A status view ends with its summary, which reconciles every phase plan;
\* a promotion goes on from it.
StoreReconciled(p) ==
  /\ run[p].pc = "loaded"
  /\ run[p].cmd \in {"status", "promote"}
  /\ LET new == Reconciled(run[p].copy) IN
     /\ Write(new, run[p].copy)
     /\ run' = [run EXCEPT ![p] =
          IF run[p].cmd = "status" THEN Idle
          ELSE [pc |-> "summary", seen |-> new]]
  /\ goal' = Judged
  /\ UNCHANGED <<filed, task, crashes, declared>>

\* Without --objective-id a completed objective is not looked at further.
NoActiveObjective(p) ==
  /\ run[p].pc = "summary"
  /\ run[p].seen.status = "completed"
  /\ run' = [run EXCEPT ![p] = Idle]
  /\ UNCHANGED <<objective, filed, goal, task, crashes, clobbered, declared>>

\* The promotion loads the plan a second time.
Reload(p) ==
  /\ run[p].pc = "summary"
  /\ run' = [run EXCEPT ![p] = [pc |-> "reloaded", seen |-> run[p].seen,
                                copy |-> objective]]
  /\ UNCHANGED <<objective, filed, goal, task, crashes, clobbered, declared>>

AlreadyActive(p) ==
  /\ run[p].pc = "reloaded"
  /\ \E q \in Phases : /\ Lowest(q, Having(run[p].seen, {"active"}))
                       /\ goal' = JudgedOf(q)
  /\ run' = [run EXCEPT ![p] = Idle]
  /\ UNCHANGED <<objective, filed, task, crashes, clobbered, declared>>

\* Nothing to promote: the objective counts as completed.
CompleteObjective(p) ==
  /\ run[p].pc = "reloaded"
  /\ Having(run[p].seen, {"active", "pending"}) = {}
  /\ objective' = [run[p].copy EXCEPT !.status = "completed"]
  /\ clobbered' = (clobbered \/ objective # run[p].copy
                             \/ objective # run[p].seen)
  /\ goal' = Judged
  /\ run' = [run EXCEPT ![p] = Idle]
  /\ UNCHANGED <<filed, task, crashes, declared>>

\* Mutant: the active phase is not looked at.
MakePhasePlanBeside(p) ==
  /\ run[p].pc = "reloaded"
  /\ \E q \in Phases :
       /\ Lowest(q, Having(run[p].seen, {"pending"}))
       /\ filed' = filed \cup {q}
       /\ goal' = JudgedOf(q)
       /\ run' = [run EXCEPT ![p] = [pc |-> "filed", target |-> q,
                    seen |-> run[p].seen, copy |-> run[p].copy]]
  /\ UNCHANGED <<objective, task, crashes, clobbered, declared>>

\* Mutant: the last pending phase is taken.
MakeLastPhasePlan(p) ==
  /\ run[p].pc = "reloaded"
  /\ Having(run[p].seen, {"active"}) = {}
  /\ \E q \in Having(run[p].seen, {"pending"}) :
       /\ \A r \in Having(run[p].seen, {"pending"}) : r <= q
       /\ filed' = filed \cup {q}
       /\ goal' = JudgedOf(q)
       /\ run' = [run EXCEPT ![p] = [pc |-> "filed", target |-> q,
                    seen |-> run[p].seen, copy |-> run[p].copy]]
  /\ UNCHANGED <<objective, task, crashes, clobbered, declared>>

\* Mutant: the objective plan is written before the phase plan exists.
MakePhasePlanLate(p) ==
  /\ run[p].pc = "reloaded"
  /\ Having(run[p].seen, {"active"}) = {}
  /\ \E q \in Phases :
       /\ Lowest(q, Having(run[p].seen, {"pending"}))
       /\ run' = [run EXCEPT ![p] = [pc |-> "filed", target |-> q,
                    seen |-> run[p].seen, copy |-> run[p].copy]]
  /\ UNCHANGED <<filed, goal, objective, task, crashes, clobbered, declared>>

\* The first pending phase gets its plan file, or keeps the one it has ...
MakePhasePlan(p) ==
  /\ run[p].pc = "reloaded"
  /\ Having(run[p].seen, {"active"}) = {}
  /\ \E q \in Phases :
       /\ Lowest(q, Having(run[p].seen, {"pending"}))
       /\ filed' = filed \cup {q}
       /\ goal' = JudgedOf(q)
       /\ run' = [run EXCEPT ![p] = [pc |-> "filed", target |-> q,
                    seen |-> run[p].seen, copy |-> run[p].copy]]
  /\ UNCHANGED <<objective, task, crashes, clobbered, declared>>

\* ... and then becomes the current one.
StorePromoted(p) ==
  /\ run[p].pc = "filed"
  /\ LET q == run[p].target IN
       objective' = [status |-> "active", current |-> q,
                     entry |-> [run[p].copy.entry EXCEPT ![q] = "active"]]
  /\ clobbered' = (clobbered \/ objective # run[p].copy
                             \/ objective # run[p].seen)
  /\ goal' = Judged
  /\ run' = [run EXCEPT ![p] = Idle]
  /\ UNCHANGED <<filed, task, crashes, declared>>

\* append_objective_phase, at the end of the list, with the status it is
\* given.
AppendPhase(p) ==
  /\ run[p].pc = "loaded"
  /\ run[p].cmd = "edit"
  /\ LET ob == run[p].copy IN \E q \in Phases :
       /\ Lowest(q, Having(ob, {"absent"}))
       /\ \A r \in Phases \ Having(ob, {"absent"}) : r < q
       /\ \E status \in First \ {"absent"} :
            /\ Write([ob EXCEPT !.status = "active", !.entry[q] = status], ob)
            /\ declared' = declared \cup TakenBy(q, status)
  /\ run' = [run EXCEPT ![p] = Idle]
  /\ UNCHANGED <<filed, goal, task, crashes>>

\* rewrite_objective_phase of a phase that is not active: new wording in an
\* otherwise unchanged plan.
RewritePhase(p) ==
  /\ run[p].pc = "loaded"
  /\ run[p].cmd = "edit"
  /\ Having(run[p].copy, EntryStatus \ {"absent", "active"}) # {}
  /\ Write(run[p].copy, run[p].copy)
  /\ run' = [run EXCEPT ![p] = Idle]
  /\ UNCHANGED <<filed, goal, task, crashes, declared>>

\* Both refuse: an unknown or a known id, an active phase, another theme.
RefuseEdit(p) ==
  /\ run[p].pc = "loaded"
  /\ run[p].cmd = "edit"
  /\ run' = [run EXCEPT ![p] = Idle]
  /\ UNCHANGED <<objective, filed, goal, task, crashes, clobbered, declared>>

Crash(p) ==
  /\ run[p] # Idle
  /\ crashes < MaxCrashes
  /\ crashes' = crashes + 1
  /\ run' = [run EXCEPT ![p] = Idle]
  /\ UNCHANGED <<objective, filed, goal, task, clobbered, declared>>

----------------------------------------------------------------------------
(* Goals and tasks *)

\* promote_next_phase_goal on a reconciled phase plan, and the dispatch.
PromoteGoal(g) ==
  /\ PhaseOf[g] \in filed
  /\ \A h \in GoalsOf(PhaseOf[g]) : Judged[h] # "active"
  /\ Lowest(g, {h \in GoalsOf(PhaseOf[g]) : Judged[h] = "pending"})
  /\ goal' = [Judged EXCEPT ![g] = "active"]
  /\ task' = [task EXCEPT ![g].life = IF @ = "none" THEN "active" ELSE @]
  /\ UNCHANGED <<objective, filed, run, crashes, clobbered, declared>>

Packet == "close_when_validated"
PhaseOfTask(g) == Phase(task[g].life, Packet, task[g].report)

TaskReports(g) ==
  /\ task[g].life = "active"
  /\ \E r \in NewReports : task' = [task EXCEPT ![g].report = r]
  /\ UNCHANGED <<objective, filed, goal, run, crashes, clobbered, declared>>

\* close_task, archive_task and commander_cancel.
TaskEnds(g) ==
  /\ task[g].life = "active"
  /\ ~task[g].agents
  /\ \E life \in {"closed", "canceled"} :
       /\ life = "closed" => PhaseOfTask(g) = "ready_to_close"
       /\ task' = [task EXCEPT ![g].life = life]
  /\ UNCHANGED <<objective, filed, goal, run, crashes, clobbered, declared>>

SetAgents(g) ==
  /\ task[g].life # "none"
  /\ task' = [task EXCEPT ![g].agents = ~@]
  /\ UNCHANGED <<objective, filed, goal, run, crashes, clobbered, declared>>

----------------------------------------------------------------------------

Advance(p) ==
  \/ StoreReconciled(p)
  \/ NoActiveObjective(p)
  \/ Reload(p)
  \/ AlreadyActive(p)
  \/ CompleteObjective(p)
  \/ MakePhasePlan(p)
  \/ StorePromoted(p)
  \/ AppendPhase(p)
  \/ RewritePhase(p)
  \/ RefuseEdit(p)

Next ==
  \/ \E p \in Procs :
       \/ \E cmd \in Commands : Begin(p, cmd)
       \/ Advance(p)
       \/ Crash(p)
  \/ \E g \in Goals :
       PromoteGoal(g) \/ TaskReports(g) \/ TaskEnds(g) \/ SetAgents(g)

Spec == Init /\ [][Next]_vars

(***************************************************************************)
(* The graph keeps promoting phases and goals, commands end, and the       *)
(* commander sees every task through in the end.                           *)
(***************************************************************************)
FairSpec ==
  /\ Spec
  /\ \A p \in Procs :
       /\ WF_vars(StoreReconciled(p)) /\ WF_vars(AlreadyActive(p))
       /\ WF_vars(MakePhasePlan(p)) /\ WF_vars(StorePromoted(p))
       /\ WF_vars(CompleteObjective(p)) /\ WF_vars(Reload(p))
       /\ WF_vars(Advance(p)) /\ SF_vars(Begin(p, "promote"))
  /\ \A g \in Goals :
       WF_vars(PromoteGoal(g)) /\ SF_vars(TaskEnds(g))
         /\ WF_vars(task[g].agents /\ SetAgents(g))

----------------------------------------------------------------------------
(* What the stop gate sees *)

\* A phase plan is listed unless it is completed; its status is never
\* anything but active or completed.
PhaseSummaries ==
  {[status |-> "active",
    remaining |-> \E g \in GoalsOf(q) : Judged[g] \notin Settled] :
     q \in {r \in filed : ~Over(r)}}

\* An objective is listed unless it is completed.
ObjectiveSummaries ==
  LET ob == Reconciled(objective) IN
  IF ob.status = "completed" THEN {}
  ELSE {[current |->
           IF ob.current = None THEN "none"
           ELSE IF ob.current \notin filed THEN ob.entry[ob.current]
           ELSE IF Over(ob.current) THEN "completed" ELSE "active",
         remaining |-> TRUE]}

Snapshot(g) ==
  [life |-> task[g].life, phase |-> PhaseOfTask(g), agents |-> task[g].agents]

TaskResults ==
  {TaskResult(Snapshot(g)) : g \in {h \in Goals : task[h].life # "none"}}

\* The gate without and with a task id.
Gate(card, strayed) ==
  GateReport(OfInterest(TaskResults), card, PhaseSummaries,
             ObjectiveSummaries, strayed)
GateFor(g, card, strayed) ==
  GateReport({TaskResult(Snapshot(g))}, card, PhaseSummaries,
             ObjectiveSummaries, strayed)

----------------------------------------------------------------------------

RunStates ==
  {Idle}
    \cup [pc : {"loaded"}, cmd : Commands, copy : Objective]
    \cup [pc : {"summary"}, seen : Objective]
    \cup [pc : {"reloaded"}, seen : Objective, copy : Objective]
    \cup [pc : {"filed"}, target : Phases, seen : Objective, copy : Objective]

\* Type invariant.
TypeOK ==
  /\ objective \in Objective
  /\ filed \in SUBSET Phases
  /\ goal \in [Goals -> GoalStatus]
  /\ task \in [Goals -> [life : TerminalLife \cup {"none", "active"},
                         report : NewReports \cup {NoReport},
                         agents : BOOLEAN]]
  /\ run \in [Procs -> RunStates]
  /\ crashes \in 0..MaxCrashes
  /\ clobbered \in BOOLEAN
  /\ declared \in SUBSET Phases

(***************************************************************************)
(* Wherever a promotion dies, an active or finished phase has its plan     *)
(* file, and a finished one has only settled goals in it, which no copy of *)
(* the objective that was loaded earlier and is written later undoes;      *)
(* phases somebody listed as active or done aside.                         *)
(***************************************************************************)
EntriesFollowPlans ==
  \A q \in Phases \ declared :
    /\ objective.entry[q] \in {"active", "done"} => q \in filed
    /\ objective.entry[q] = "done" => \A g \in GoalsOf(q) : goal[g] \in Settled

(***************************************************************************)
(* One phase at a time: of the phases nobody listed as active or done, the *)
(* current one, if any, is active and no other is, and none of them is     *)
(* taken up while an earlier one waits (promote_next_objective_phase).     *)
(***************************************************************************)
OnePhaseAtATime ==
  ~clobbered =>
    /\ Having(objective, {"active"}) \ declared
         = {objective.current} \ ({None} \cup declared)
    /\ \A q \in Having(objective, Taken) \ declared,
          r \in Having(objective, {"pending"}) : q < r

(***************************************************************************)
(* Work is done in the order of the objective: a task of a later phase     *)
(* exists only if every earlier phase is over, blocked or canceled; a plan *)
(* file that a crashed promotion left behind does not let its goals run    *)
(* ahead of an earlier phase.                                              *)
(***************************************************************************)
TasksInPhaseOrder ==
  ~clobbered =>
    \A g \in Goals, q \in Phases :
      task[g].life # "none" /\ q < PhaseOf[g]
        => objective.entry[q] \notin {"pending", "active"}

(***************************************************************************)
(* When the gate lets the commander stop, whatever the task card says,     *)
(* then nothing is running or could be started: every task has ended or    *)
(* waits for the user, no sub-agent is open, no goal of any phase plan     *)
(* remains, and phases remain only if the user was asked something.        *)
(***************************************************************************)
StopMeansIdle ==
  \A card \in SUBSET {"pending_user", "open"} :
    Gate(card, FALSE).stop =>
      /\ \A g \in Goals :
           /\ ~task[g].agents
           /\ task[g].life = "active" =>
                task[g].report.needsUser \/ task[g].report.ready
                  \/ task[g].report.mode = "wait_user"
           /\ PhaseOf[g] \in filed => Judged[g] \in Settled
      /\ Having(Reconciled(objective), {"pending", "active"}) # {} =>
           Gate(card, FALSE).outcome = "user_handoff_allowed"

(***************************************************************************)
(* Every pending phase has its turn, unless a phase before it ends up with *)
(* a blocked goal, which nothing promotes again, or was listed as active,  *)
(* and so has no phase plan to be worked through.                          *)
(***************************************************************************)
EveryPhaseGetsItsTurn ==
  \A q \in Phases :
    objective.entry[q] = "pending" ~>
      \/ objective.entry[q] # "pending"
      \/ crashes > 0
      \/ clobbered
      \/ \E g \in Goals : goal[g] = "blocked"
      \/ Having(objective, {"active"}) \cap declared # {}

(***************************************************************************)
(* The documented way to stop for a user's decision: when a report asks    *)
(* for one and nothing else is left to do, the gate opens.                 *)
(***************************************************************************)
DecisionReachesUser ==
  \A g \in Goals :
    /\ Handoff(PhaseOfTask(g)) = "request_user_decision"
    /\ ~task[g].agents
    /\ \A h \in Goals \ {g} : Judged[h] \in Settled /\ ~task[h].agents
    => GateFor(g, {}, FALSE).stop
==========================================================================

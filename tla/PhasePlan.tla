--------------------------- MODULE PhasePlan ---------------------------
(***************************************************************************)
(* A phase plan (phases/<phase_id>.json): goals in file order, each with   *)
(* the paths its worker may write, and the promotion of pending goals to   *)
(* active ones whose task is then dispatched.                              *)
(*                                                                         *)
(* Every command loads the plan and writes it back whole, without a lock.  *)
(* A promotion does so twice, first to reconcile the active goals with     *)
(* their tasks and then to activate, and only then dispatches the tasks    *)
(* one by one.  It may die in between.                                     *)
(*                                                                         *)
(* Goals are numbered in file order.  A goal's owned paths are the areas   *)
(* below them: of two paths one contains the other exactly if the areas    *)
(* meet.  A goal keeps its task_id.                                        *)
(***************************************************************************)
EXTENDS TaskPhase, Integers, FiniteSets

CONSTANTS
  Procs,      \* processes that work on the plan
  Goals,      \* goal ids, numbered in file order
  Areas,      \* disjoint parts of the source tree
  Lanes,      \* the sets of owned paths goals may have
  Outcomes,   \* how tasks end: [life, report]
  Limits,     \* values of parallel_dispatch_limit
  Listed,     \* statuses a goal may be listed with
  MaxCrashes, \* bound on crashes, for TLC
  MaxReopens  \* bound on reopened tasks, for TLC

Terminal   == {"closed", "archived", "canceled"}
GoalStatus == {"absent", "pending", "active", "done", "blocked", "canceled"}

ASSUME GoalsAssumption    == Goals \subseteq Nat /\ IsFiniteSet(Goals)
ASSUME LanesAssumption    == Lanes \subseteq SUBSET Areas
ASSUME OutcomesAssumption ==
         Outcomes \subseteq [life : Terminal, report : Reports \cup {NoReport}]
ASSUME LimitsAssumption   == Limits \subseteq Nat \ {0}
ASSUME ListedAssumption   == Listed \subseteq GoalStatus \ {"absent"}
ASSUME BoundsAssumption   == MaxCrashes \in Nat /\ MaxReopens \in Nat

VARIABLES
  plan,      \* the plan file
  task,      \* the task directory of each goal
  run,       \* what each process is in the middle of
  crashes,   \* crashes so far
  reopens,   \* tasks reopened so far
  clobbered, \* history: a write was not based on the plan it replaced
  relaned    \* history: an active goal was edited, or one listed as active

vars == <<plan, task, run, crashes, reopens, clobbered, relaned>>

PhaseStatus == {"active", "completed"}
Plan == [status : PhaseStatus, limit : Limits,
         goal : [Goals -> [status : GoalStatus, lanes : Lanes]]]
Commands == {"status", "next", "ready", "readySome", "append", "rewrite"}

\* The lanes of a task are those of its packet.
NoTask == [life |-> "none", report |-> NoReport, lanes |-> {}]
Idle   == [pc |-> "idle"]

Having(pl, S)  == {g \in Goals : pl.goal[g].status \in S}
Active(pl)     == Having(pl, {"active"})
Pending(pl)    == Having(pl, {"pending"})
Open(g)        == task[g].life = "active"
LanesOf(pl, g) == pl.goal[g].lanes

First(g, S) == g \in S /\ \A h \in S : g <= h

Init ==
  /\ plan \in [status : {"active"}, limit : Limits,
               goal : [Goals -> [status : {"absent", "pending"},
                                 lanes : Lanes]]]
  /\ task = [g \in Goals |-> NoTask]
  /\ run = [p \in Procs |-> Idle]
  /\ crashes = 0
  /\ reopens = 0
  /\ clobbered = FALSE
  /\ relaned = FALSE

----------------------------------------------------------------------------
(* Which goals are ready *)

\* One of two workers may touch what the other owns.
Collide(pl, g, h) ==
  LanesOf(pl, h) = {} \/ LanesOf(pl, g) \cap LanesOf(pl, h) # {}

\* Mutant: only goals selected in the same round are compared.
SelectedAmongThemselves(pl, S) ==
  \A g \in Goals : g \in S <=>
    LET before == {h \in S : h < g} IN
    /\ g \in Pending(pl)
    /\ LanesOf(pl, g) # {}
    /\ Cardinality(before) < pl.limit - Cardinality(Active(pl))
    /\ \A h \in before : ~Collide(pl, g, h)

(***************************************************************************)
(* S is what the scan over the pending goals selects: a goal that owns     *)
(* paths, if a slot is left and it collides neither with an active goal    *)
(* nor with one selected before it.                                        *)
(***************************************************************************)
Selected(pl, S) ==
  \A g \in Goals : g \in S <=>
    LET before == {h \in S : h < g} IN
    /\ g \in Pending(pl)
    /\ LanesOf(pl, g) # {}
    /\ Cardinality(before) < pl.limit - Cardinality(Active(pl))
    /\ \A h \in Active(pl) \cup before : ~Collide(pl, g, h)

\* Mutant: goals without owned paths are never ready.
ReadyOnlyWithPaths(pl, S) == Selected(pl, S)

\* _ready_parallel_goals: a goal that owns no paths runs alone, and only if
\* no other is ready.
Ready(pl, S) ==
  \/ Selected(pl, S) /\ (Active(pl) # {} \/ S # {})
  \/ /\ Selected(pl, {})
     /\ Active(pl) = {}
     /\ IF Pending(pl) = {} THEN S = {} ELSE \E g \in Goals :
          First(g, Pending(pl)) /\ S = {g}

----------------------------------------------------------------------------
(* Reconciling *)

\* Mutant: any task that is there counts as ended.
EndedOnceStarted(t) == t.life # "none"

Ended(t) == t.life \in Terminal

\* Active goals follow their tasks; a missing directory is passed over.
GoalsJudged(pl) ==
  [g \in Goals |->
     IF g \in Active(pl) /\ Ended(task[g])
     THEN [pl.goal[g] EXCEPT !.status = Classify(task[g])] ELSE pl.goal[g]]

\* reconcile_phase_plan.
Reconciled(pl) ==
  LET judged == [pl EXCEPT !.goal = GoalsJudged(pl)]
  IN  [judged EXCEPT !.status =
         IF Having(judged, {"pending", "active", "blocked"}) = {}
         THEN "completed" ELSE "active"]

----------------------------------------------------------------------------
(* Commands *)

\* A command loads the plan.
Begin(p, cmd) ==
  /\ run[p] = Idle
  /\ run' = [run EXCEPT ![p] = [pc |-> "loaded", cmd |-> cmd, copy |-> plan]]
  /\ UNCHANGED <<plan, task, crashes, reopens, clobbered, relaned>>

\* The plan is replaced; `basis` is what the new one was made from.
Write(new, basis) ==
  /\ plan' = new
  /\ clobbered' = (clobbered \/ plan # basis)

\* A status view stops here; a promotion goes on from its summary.
StoreReconciled(p) ==
  /\ run[p].pc = "loaded"
  /\ run[p].cmd \in {"status", "next", "ready", "readySome"}
  /\ LET new == Reconciled(run[p].copy) IN
     /\ Write(new, run[p].copy)
     /\ run' = [run EXCEPT ![p] =
          IF run[p].cmd = "status" THEN Idle
          ELSE [pc |-> "summary", cmd |-> run[p].cmd, seen |-> new]]
  /\ UNCHANGED <<task, crashes, reopens, relaned>>

\* Without --phase-id a completed phase is not looked at any further.
NoActivePhase(p) ==
  /\ run[p].pc = "summary"
  /\ run[p].seen.status = "completed"
  /\ run' = [run EXCEPT ![p] = Idle]
  /\ UNCHANGED <<plan, task, crashes, reopens, clobbered, relaned>>

\* The promotion loads the plan a second time.
Reload(p) ==
  /\ run[p].pc = "summary"
  /\ run' = [run EXCEPT ![p] = [pc |-> "reloaded", cmd |-> run[p].cmd,
                                seen |-> run[p].seen, copy |-> plan]]
  /\ UNCHANGED <<plan, task, crashes, reopens, clobbered, relaned>>

GoOn(p, from, todo) ==
  run' = [run EXCEPT ![p] =
    IF todo = {} THEN Idle
    ELSE [pc |-> "dispatch", copy |-> from, todo |-> todo]]

Activated(pl, S) ==
  [status |-> "active", limit |-> pl.limit,
   goal |-> [g \in Goals |-> IF g \in S
               THEN [pl.goal[g] EXCEPT !.status = "active"] ELSE pl.goal[g]]]

\* promote_next_phase_goal with an active goal: dispatch its task again.
RedispatchActive(p) ==
  /\ run[p].pc = "reloaded"
  /\ run[p].cmd = "next"
  /\ \E g \in Goals :
       First(g, Active(run[p].seen)) /\ GoOn(p, run[p].copy, {g})
  /\ UNCHANGED <<plan, task, crashes, reopens, clobbered, relaned>>

\* ... with nothing to promote: the phase counts as completed.
CompletePhase(p) ==
  /\ run[p].pc = "reloaded"
  /\ run[p].cmd = "next"
  /\ Active(run[p].seen) = {}
  /\ Ready(run[p].seen, {})
  /\ plan' = [run[p].copy EXCEPT !.status = "completed"]
  /\ clobbered' = (clobbered \/ plan # run[p].copy \/ plan # run[p].seen)
  /\ run' = [run EXCEPT ![p] = Idle]
  /\ UNCHANGED <<task, crashes, reopens, relaned>>

\* ... and otherwise, with the first ready goal of the summary.
PromoteNext(p) ==
  /\ run[p].pc = "reloaded"
  /\ run[p].cmd = "next"
  /\ Active(run[p].seen) = {}
  /\ \E S \in SUBSET Goals : \E g \in S :
       /\ Ready(run[p].seen, S)
       /\ First(g, S)
       /\ plan' = Activated(run[p].copy, {g})
       /\ GoOn(p, run[p].copy, {g})
  /\ clobbered' = (clobbered \/ plan # run[p].copy \/ plan # run[p].seen)
  /\ UNCHANGED <<task, crashes, reopens, relaned>>

\* Mutant: the tasks are dispatched, but the plan is not written.
PromoteUnsaved(p) ==
  /\ run[p].pc = "reloaded"
  /\ run[p].cmd \in {"ready", "readySome"}
  /\ \E S \in SUBSET Goals :
       Ready(run[p].copy, S) /\ GoOn(p, run[p].copy, S)
  /\ UNCHANGED <<plan, task, crashes, reopens, clobbered, relaned>>

\* promote_ready_phase_goals: all ready goals of the plan as it is now, or
\* the first few under --max-promotions.
PromoteReady(p) ==
  /\ run[p].pc = "reloaded"
  /\ run[p].cmd \in {"ready", "readySome"}
  /\ \E S \in SUBSET Goals, few \in SUBSET Goals :
       /\ Ready(run[p].copy, S)
       /\ few \subseteq S
       /\ run[p].cmd = "ready" => few = S
       /\ \A g \in few, h \in S : h < g => h \in few
       /\ IF few = {} THEN UNCHANGED <<plan, clobbered>>
          ELSE Write(Activated(run[p].copy, few), run[p].copy)
       /\ GoOn(p, run[p].copy, few)
  /\ UNCHANGED <<task, crashes, reopens, relaned>>

\* dispatch_task for the next promoted goal: a new packet; a task that was
\* there before keeps its status and report.
DispatchGoal(p) ==
  /\ run[p].pc = "dispatch"
  /\ \E g \in Goals :
       /\ First(g, run[p].todo)
       /\ task' = [task EXCEPT
            ![g].life  = IF @ = "none" THEN "active" ELSE @,
            ![g].lanes = LanesOf(run[p].copy, g)]
       /\ GoOn(p, run[p].copy, run[p].todo \ {g})
  /\ UNCHANGED <<plan, crashes, reopens, clobbered, relaned>>

\* append_phase_goal, at the end of the list, with the status it is given.
AppendGoal(p) ==
  /\ run[p].pc = "loaded"
  /\ run[p].cmd = "append"
  /\ \E g \in Goals, lanes \in Lanes, status \in Listed :
       /\ g \in Having(run[p].copy, {"absent"})
       /\ \A h \in Goals \ Having(run[p].copy, {"absent"}) : h < g
       /\ Write([run[p].copy EXCEPT
                   !.status = "active",
                   !.goal[g] = [status |-> status, lanes |-> lanes]],
                run[p].copy)
       /\ relaned' = (relaned \/ status = "active")
  /\ run' = [run EXCEPT ![p] = Idle]
  /\ UNCHANGED <<task, crashes, reopens>>

\* rewrite_phase_goal: any goal, whatever its status.
RewriteGoal(p) ==
  /\ run[p].pc = "loaded"
  /\ run[p].cmd = "rewrite"
  /\ \E g \in Goals \ Having(run[p].copy, {"absent"}), lanes \in Lanes :
       /\ Write([run[p].copy EXCEPT !.goal[g].lanes = lanes], run[p].copy)
       /\ relaned' = (relaned \/ g \in Active(run[p].copy))
  /\ run' = [run EXCEPT ![p] = Idle]
  /\ UNCHANGED <<task, crashes, reopens>>

\* append and rewrite refuse an unknown or a known goal id.
RefuseEdit(p) ==
  /\ run[p].pc = "loaded"
  /\ run[p].cmd \in {"append", "rewrite"}
  /\ run' = [run EXCEPT ![p] = Idle]
  /\ UNCHANGED <<plan, task, crashes, reopens, clobbered, relaned>>

Crash(p) ==
  /\ run[p] # Idle
  /\ crashes < MaxCrashes
  /\ crashes' = crashes + 1
  /\ run' = [run EXCEPT ![p] = Idle]
  /\ UNCHANGED <<plan, task, reopens, clobbered, relaned>>

----------------------------------------------------------------------------
(* The tasks, as TaskLifecycle moves them *)

TaskEnds(g) ==
  /\ Open(g)
  /\ \E o \in Outcomes :
       task' = [task EXCEPT ![g].life = o.life, ![g].report = o.report]
  /\ UNCHANGED <<plan, run, crashes, reopens, clobbered, relaned>>

TaskReopens(g) ==
  /\ task[g].life = "canceled"
  /\ reopens < MaxReopens
  /\ reopens' = reopens + 1
  /\ task' = [task EXCEPT ![g].life = "active"]
  /\ UNCHANGED <<plan, run, crashes, clobbered, relaned>>

----------------------------------------------------------------------------

Advance(p) ==
  \/ StoreReconciled(p)
  \/ NoActivePhase(p)
  \/ Reload(p)
  \/ RedispatchActive(p)
  \/ CompletePhase(p)
  \/ PromoteNext(p)
  \/ PromoteReady(p)
  \/ DispatchGoal(p)
  \/ AppendGoal(p)
  \/ RewriteGoal(p)
  \/ RefuseEdit(p)

Next ==
  \/ \E p \in Procs :
       \/ \E cmd \in Commands : Begin(p, cmd)
       \/ Advance(p)
       \/ Crash(p)
  \/ \E g \in Goals : TaskEnds(g) \/ TaskReopens(g)

Spec == Init /\ [][Next]_vars

(***************************************************************************)
(* Commands end, workers and the commander see tasks through, and the      *)
(* daemon, whose every cycle starts with promote_ready_phase_goals, keeps  *)
(* running whatever else is run in between.                                *)
(***************************************************************************)
FairSpec ==
  /\ Spec
  /\ \A p \in Procs : WF_vars(Advance(p)) /\ SF_vars(Begin(p, "ready"))
  /\ \A g \in Goals : WF_vars(TaskEnds(g))

----------------------------------------------------------------------------

RunStates ==
  {Idle}
    \cup [pc : {"loaded"}, cmd : Commands, copy : Plan]
    \cup [pc : {"summary"}, cmd : Commands, seen : Plan]
    \cup [pc : {"reloaded"}, cmd : Commands, seen : Plan, copy : Plan]
    \cup [pc : {"dispatch"}, copy : Plan, todo : SUBSET Goals]

\* Type invariant.
TypeOK ==
  /\ plan \in Plan
  /\ task \in [Goals -> [life : Terminal \cup {"none", "active"},
                         report : Reports \cup {NoReport},
                         lanes : Lanes \cup {{}}]]
  /\ run \in [Procs -> RunStates]
  /\ crashes \in 0..MaxCrashes
  /\ reopens \in 0..MaxReopens
  /\ clobbered \in BOOLEAN
  /\ relaned \in BOOLEAN

(***************************************************************************)
(* Goals that are active together own paths, and none inside another's: a  *)
(* goal that owns none is active alone.  Only an edit of an active goal,   *)
(* or a goal listed as active by hand, can undo this                       *)
(* (_ready_parallel_goals, lost updates aside).                            *)
(***************************************************************************)
GoalsKeepApart ==
  ~clobbered /\ ~relaned =>
    \A g, h \in Active(plan) : g # h => ~Collide(plan, g, h)

\* No more goals are active than parallel_dispatch_limit allows, unless one
\* was listed as active.
WithinLimit == ~clobbered /\ ~relaned => Cardinality(Active(plan)) <= plan.limit

(***************************************************************************)
(* The same for the workers at work: of two open tasks neither may write   *)
(* what the other owns, unless an active goal was edited or put in by hand *)
(* or a canceled task reopened.                                            *)
(***************************************************************************)
WorkersKeepApart ==
  ~clobbered /\ ~relaned /\ reopens = 0 =>
    \A g, h \in Goals : g # h /\ Open(g) /\ Open(h) =>
      task[h].lanes # {} /\ task[g].lanes \cap task[h].lanes = {}

(***************************************************************************)
(* A task is only ever dispatched for a goal the plan on disk has already  *)
(* activated, wherever a promotion dies.                                   *)
(***************************************************************************)
TaskHasAGoal ==
  ~clobbered =>
    \A g \in Having(plan, {"absent", "pending"}) : task[g].life = "none"

(***************************************************************************)
(* A completed phase has no goal left that is pending or active (it may    *)
(* have blocked ones: promote_next_phase_goal does not look at them).      *)
(***************************************************************************)
CompletedIsIdle ==
  ~clobbered /\ plan.status = "completed" =>
    Having(plan, {"pending", "active"}) = {}

(***************************************************************************)
(* Goals move forward: a settled goal is never taken up or judged again,   *)
(* and an active one never goes back to pending, whatever happens to the   *)
(* tasks (reconcile and both promotions).                                  *)
(***************************************************************************)
GoalsMoveForward ==
  [][~clobbered' => \A g \in Goals :
       LET was == plan.goal[g].status  is == plan'.goal[g].status IN
       /\ was \in {"done", "blocked", "canceled"} => is = was
       /\ was = "active" => is \notin {"absent", "pending"}]_plan

(***************************************************************************)
(* No pending goal waits for ever, however goals collide, tasks end and    *)
(* edits come in, unless an active goal without a task stays in the way,   *)
(* which a promotion that died or somebody who listed it left behind.      *)
(***************************************************************************)
EveryGoalGetsItsTurn ==
  \/ <>[](\E h \in Active(plan) : task[h].life = "none")
  \/ \A g \in Goals : g \in Pending(plan) ~> g \notin Pending(plan)

(***************************************************************************)
(* The documented rule: a set of files has one owner at a time.            *)
(***************************************************************************)
OneOwnerPerWriteSet ==
  \A g, h \in Goals : g # h /\ Open(g) /\ Open(h) =>
    task[g].lanes \cap task[h].lanes = {}
==========================================================================

------------------------- MODULE PhasePlanProofs -------------------------
(***************************************************************************)
(* Promotion of phase goals for any number of processes, goals and lanes.  *)
(***************************************************************************)
EXTENDS PhasePlan, TLAPS

USE GoalsAssumption, LanesAssumption, OutcomesAssumption, LimitsAssumption,
    ListedAssumption, BoundsAssumption

\* What a process in each stage carries along.
LEMMA RunShape ==
  ASSUME TypeOK, NEW p \in Procs
  PROVE  /\ run[p] = Idle \/ run[p].pc \in {"loaded", "summary", "reloaded",
                                            "dispatch"}
         /\ run[p].pc = "loaded" =>
              run[p].cmd \in Commands /\ run[p].copy \in Plan
         /\ run[p].pc = "summary" =>
              run[p].cmd \in Commands /\ run[p].seen \in Plan
         /\ run[p].pc = "reloaded" =>
              /\ run[p].cmd \in Commands
              /\ run[p].seen \in Plan
              /\ run[p].copy \in Plan
         /\ run[p].pc = "dispatch" =>
              run[p].copy \in Plan /\ run[p].todo \in SUBSET Goals
<1>1. run[p] \in RunStates
  BY DEF TypeOK
<1>2. QED
  BY <1>1 DEF RunStates, Idle

\* An ended task settles its goal.
LEMMA ClassifySettles ==
  ASSUME NEW t PROVE Classify(t) \in {"done", "blocked", "canceled"}
BY DEF Classify

(***************************************************************************)
(* reconcile_phase_plan leaves limit and lanes alone and settles active    *)
(* goals only.                                                             *)
(***************************************************************************)
LEMMA ReconciledGoals ==
  ASSUME NEW pl \in Plan
  PROVE  /\ Reconciled(pl) \in Plan
         /\ \A g \in Goals :
              /\ LanesOf(Reconciled(pl), g) = LanesOf(pl, g)
              /\ \/ Reconciled(pl).goal[g].status = pl.goal[g].status
                 \/ /\ pl.goal[g].status = "active"
                    /\ Reconciled(pl).goal[g].status
                         \in {"done", "blocked", "canceled"}
<1> DEFINE gs == GoalsJudged(pl)
           judged == [pl EXCEPT !.goal = gs]
<1>1. /\ gs \in [Goals -> [status : GoalStatus, lanes : Lanes]]
      /\ \A g \in Goals :
           /\ gs[g].lanes = pl.goal[g].lanes
           /\ \/ gs[g].status = pl.goal[g].status
              \/ /\ pl.goal[g].status = "active"
                 /\ gs[g].status \in {"done", "blocked", "canceled"}
  BY ClassifySettles DEF GoalsJudged, Plan, GoalStatus, Active, Having
<1>2. /\ Reconciled(pl).goal = gs
      /\ Reconciled(pl) \in Plan
  <2> HIDE DEF gs
  <2>1. judged \in Plan /\ judged.goal = gs
    BY <1>1 DEF Plan
  <2>2. Reconciled(pl) = [judged EXCEPT !.status =
           IF Having(judged, {"pending", "active", "blocked"}) = {}
           THEN "completed" ELSE "active"]
    BY DEF Reconciled, gs
  <2> HIDE DEF judged
  <2>3. QED
    BY <2>1, <2>2 DEF Plan, PhaseStatus
<1>3. QED
  BY <1>1, <1>2 DEF LanesOf

\* Activation changes the status of the promoted goals and nothing else.
LEMMA ActivatedGoals ==
  ASSUME NEW pl \in Plan, NEW S \in SUBSET Goals
  PROVE  /\ Activated(pl, S) \in Plan
         /\ \A g \in Goals :
              /\ LanesOf(Activated(pl, S), g) = LanesOf(pl, g)
              /\ Activated(pl, S).goal[g].status =
                   IF g \in S THEN "active" ELSE pl.goal[g].status
<1>1. [g \in Goals |-> IF g \in S
         THEN [pl.goal[g] EXCEPT !.status = "active"] ELSE pl.goal[g]]
        \in [Goals -> [status : GoalStatus, lanes : Lanes]]
  BY DEF Plan, GoalStatus
<1>2. QED
  BY <1>1 DEF Activated, Plan, PhaseStatus, LanesOf

\* Only pending goals are ready.
LEMMA ReadyArePending ==
  ASSUME NEW pl \in Plan, NEW S \in SUBSET Goals, Ready(pl, S)
  PROVE  S \subseteq Pending(pl)
<1>1. CASE Selected(pl, S)
  BY <1>1 DEF Selected
<1>2. CASE S = {}
  BY <1>2
<1>3. CASE \E g \in Goals : First(g, Pending(pl)) /\ S = {g}
  BY <1>3 DEF First
<1>4. QED
  BY <1>1, <1>2, <1>3 DEF Ready

----------------------------------------------------------------------------
(* Type correctness *)

\* Where a promotion goes after it has decided what to dispatch.
LEMMA GoOnType ==
  ASSUME TypeOK, NEW p \in Procs, NEW from \in Plan,
         NEW todo \in SUBSET Goals, GoOn(p, from, todo)
  PROVE  run' \in [Procs -> RunStates]
BY DEF TypeOK, GoOn, RunStates, Idle

\* Every action keeps the type invariant.
LEMMA TypeInductive == TypeOK /\ [Next]_vars => TypeOK'
<1> SUFFICES ASSUME TypeOK, [Next]_vars PROVE TypeOK'
  OBVIOUS
<1>1. ASSUME NEW p \in Procs, NEW cmd \in Commands, Begin(p, cmd)
      PROVE  TypeOK'
  BY <1>1 DEF TypeOK, Begin, RunStates
<1>2. ASSUME NEW p \in Procs, StoreReconciled(p) PROVE TypeOK'
  <2>1. run[p].cmd \in Commands /\ Reconciled(run[p].copy) \in Plan
    BY <1>2, RunShape, ReconciledGoals DEF StoreReconciled
  <2>2. run' \in [Procs -> RunStates]
    BY <1>2, <2>1 DEF StoreReconciled, TypeOK, RunStates, Idle
  <2>3. QED
    BY <1>2, <2>1, <2>2 DEF StoreReconciled, Write, TypeOK
<1>3. ASSUME NEW p \in Procs,
             NoActivePhase(p) \/ RefuseEdit(p) \/ Crash(p)
      PROVE  TypeOK'
  BY <1>3 DEF NoActivePhase, RefuseEdit, Crash, TypeOK, RunStates
<1>4. ASSUME NEW p \in Procs, Reload(p) PROVE TypeOK'
  <2>1. run[p].cmd \in Commands /\ run[p].seen \in Plan
    BY <1>4, RunShape DEF Reload
  <2>2. run' \in [Procs -> RunStates]
    BY <1>4, <2>1 DEF Reload, TypeOK, RunStates
  <2>3. QED
    BY <1>4, <2>2 DEF Reload, TypeOK
<1>5. ASSUME NEW p \in Procs, RedispatchActive(p) PROVE TypeOK'
  <2>1. run[p].copy \in Plan
    BY <1>5, RunShape DEF RedispatchActive
  <2>2. run' \in [Procs -> RunStates]
    BY <1>5, <2>1, GoOnType DEF RedispatchActive
  <2>3. QED
    BY <1>5, <2>2 DEF RedispatchActive, TypeOK
<1>6. ASSUME NEW p \in Procs, CompletePhase(p) PROVE TypeOK'
  <2>1. [run[p].copy EXCEPT !.status = "completed"] \in Plan
    BY <1>6, RunShape DEF CompletePhase, Plan, PhaseStatus
  <2>2. run' \in [Procs -> RunStates]
    BY <1>6 DEF CompletePhase, TypeOK, RunStates
  <2>3. QED
    BY <1>6, <2>1, <2>2 DEF CompletePhase, TypeOK
<1>7. ASSUME NEW p \in Procs, PromoteNext(p) PROVE TypeOK'
  <2>1. PICK g \in Goals : /\ plan' = Activated(run[p].copy, {g})
                           /\ GoOn(p, run[p].copy, {g})
    BY <1>7 DEF PromoteNext
  <2>2. run[p].copy \in Plan
    BY <1>7, RunShape DEF PromoteNext
  <2>3. plan' \in Plan /\ run' \in [Procs -> RunStates]
    BY <2>1, <2>2, GoOnType, ActivatedGoals
  <2>4. QED
    BY <1>7, <2>3 DEF PromoteNext, TypeOK
<1>8. ASSUME NEW p \in Procs, PromoteReady(p) PROVE TypeOK'
  <2>1. PICK few \in SUBSET Goals :
          /\ IF few = {} THEN UNCHANGED <<plan, clobbered>>
             ELSE Write(Activated(run[p].copy, few), run[p].copy)
          /\ GoOn(p, run[p].copy, few)
    BY <1>8 DEF PromoteReady
  <2>2. run[p].copy \in Plan
    BY <1>8, RunShape DEF PromoteReady
  <2>3. plan' \in Plan /\ clobbered' \in BOOLEAN
    <3>1. CASE few = {}
      BY <2>1, <3>1 DEF TypeOK
    <3>2. CASE few # {}
      <4>1. /\ plan' = Activated(run[p].copy, few)
            /\ clobbered' = (clobbered \/ plan # run[p].copy)
        BY <2>1, <3>2 DEF Write
      <4>2. plan' \in Plan
        BY <2>2, <4>1, ActivatedGoals
      <4>3. clobbered' \in BOOLEAN
        BY <4>1 DEF TypeOK
      <4>4. QED
        BY <4>2, <4>3
    <3>3. QED
      BY <3>1, <3>2
  <2>4. run' \in [Procs -> RunStates]
    BY <2>1, <2>2, GoOnType
  <2>5. QED
    BY <1>8, <2>3, <2>4 DEF PromoteReady, TypeOK
<1>9. ASSUME NEW p \in Procs, DispatchGoal(p) PROVE TypeOK'
  <2>1. run[p].copy \in Plan /\ run[p].todo \in SUBSET Goals
    BY <1>9, RunShape DEF DispatchGoal
  <2>2. PICK g \in Goals :
          /\ task' = [task EXCEPT
               ![g].life  = IF @ = "none" THEN "active" ELSE @,
               ![g].lanes = LanesOf(run[p].copy, g)]
          /\ GoOn(p, run[p].copy, run[p].todo \ {g})
    BY <1>9 DEF DispatchGoal
  <2>3. run' \in [Procs -> RunStates]
    BY <2>1, <2>2, GoOnType
  <2>4. LanesOf(run[p].copy, g) \in Lanes
    BY <2>1 DEF LanesOf, Plan
  <2>5. task' \in [Goals -> [life : Terminal \cup {"none", "active"},
                             report : Reports \cup {NoReport},
                             lanes : Lanes \cup {{}}]]
    <3> DEFINE old == task[g]
               new == [old EXCEPT
                         !.life  = IF @ = "none" THEN "active" ELSE @,
                         !.lanes = LanesOf(run[p].copy, g)]
    <3>1. old \in [life : Terminal \cup {"none", "active"},
                   report : Reports \cup {NoReport},
                   lanes : Lanes \cup {{}}]
      BY DEF TypeOK
    <3>2. new \in [life : Terminal \cup {"none", "active"},
                   report : Reports \cup {NoReport},
                   lanes : Lanes \cup {{}}]
      <4> HIDE DEF old
      <4>1. QED
        BY <2>4, <3>1
    <3>3. task' = [task EXCEPT ![g] = new]
      BY <2>2 DEF TypeOK
    <3> HIDE DEF new
    <3>4. QED
      BY <3>2, <3>3 DEF TypeOK
  <2>6. QED
    BY <1>9, <2>3, <2>5 DEF DispatchGoal, TypeOK
<1>10. ASSUME NEW p \in Procs, AppendGoal(p) PROVE TypeOK'
  <2>1. run[p].copy \in Plan
    BY <1>10, RunShape DEF AppendGoal
  <2>2. PICK g \in Goals, lanes \in Lanes, status \in Listed :
          /\ Write([run[p].copy EXCEPT
                      !.status = "active",
                      !.goal[g] = [status |-> status, lanes |-> lanes]],
                   run[p].copy)
          /\ relaned' = (relaned \/ status = "active")
    BY <1>10 DEF AppendGoal
  <2>3. plan' \in Plan
    BY <2>1, <2>2 DEF Write, Plan, PhaseStatus, GoalStatus
  <2>4. run' \in [Procs -> RunStates]
    BY <1>10 DEF AppendGoal, TypeOK, RunStates
  <2>5. QED
    BY <1>10, <2>2, <2>3, <2>4 DEF AppendGoal, Write, TypeOK
<1>11. ASSUME NEW p \in Procs, RewriteGoal(p) PROVE TypeOK'
  <2>1. run[p].copy \in Plan
    BY <1>11, RunShape DEF RewriteGoal
  <2>2. PICK g \in Goals, lanes \in Lanes :
          /\ Write([run[p].copy EXCEPT !.goal[g].lanes = lanes], run[p].copy)
          /\ relaned' = (relaned \/ g \in Active(run[p].copy))
    BY <1>11 DEF RewriteGoal
  <2>3. plan' \in Plan
    BY <2>1, <2>2 DEF Write, Plan
  <2>4. run' \in [Procs -> RunStates]
    BY <1>11 DEF RewriteGoal, TypeOK, RunStates
  <2>5. QED
    BY <1>11, <2>2, <2>3, <2>4 DEF RewriteGoal, Write, TypeOK
<1>12. ASSUME NEW g \in Goals, TaskEnds(g) PROVE TypeOK'
  <2>1. PICK o \in Outcomes :
          task' = [task EXCEPT ![g].life = o.life, ![g].report = o.report]
    BY <1>12 DEF TaskEnds
  <2>2. o.life \in Terminal /\ o.report \in Reports \cup {NoReport}
    OBVIOUS
  <2>3. task' \in [Goals -> [life : Terminal \cup {"none", "active"},
                             report : Reports \cup {NoReport},
                             lanes : Lanes \cup {{}}]]
    BY <2>1, <2>2 DEF TypeOK
  <2>4. QED
    BY <1>12, <2>3 DEF TaskEnds, TypeOK
<1>13. ASSUME NEW g \in Goals, TaskReopens(g) PROVE TypeOK'
  BY <1>13 DEF TaskReopens, TypeOK
<1>14. CASE UNCHANGED vars
  BY <1>14 DEF vars, TypeOK
<1>15. QED
  BY <1>1, <1>2, <1>3, <1>4, <1>5, <1>6, <1>7, <1>8, <1>9, <1>10, <1>11,
     <1>12, <1>13, <1>14 DEF Next, Advance

\* Plan, tasks and processes stay well formed, whatever commands interleave.
THEOREM TypeCorrect == Spec => []TypeOK
<1>1. Init => TypeOK
  <2> SUFFICES ASSUME Init PROVE TypeOK
    OBVIOUS
  <2>1. plan \in Plan
    BY DEF Init, Plan, PhaseStatus, GoalStatus
  <2>2. run \in [Procs -> RunStates]
    BY DEF Init, RunStates
  <2>3. task \in [Goals -> [life : Terminal \cup {"none", "active"},
                            report : Reports \cup {NoReport},
                            lanes : Lanes \cup {{}}]]
    BY DEF Init, NoTask
  <2>4. crashes \in 0..MaxCrashes /\ reopens \in 0..MaxReopens
    BY DEF Init
  <2>5. clobbered \in BOOLEAN /\ relaned \in BOOLEAN
    BY Zenon DEF Init
  <2>6. QED
    BY <2>1, <2>2, <2>3, <2>4, <2>5 DEF TypeOK
<1>2. QED
  BY <1>1, TypeInductive, PTL DEF Spec

----------------------------------------------------------------------------
(* Active goals keep apart *)

Apart(pl) == \A g, h \in Active(pl) : g # h => ~Collide(pl, g, h)

\* A plan in which less is active keeps apart if the larger one does.
LEMMA FewerKeepApart ==
  ASSUME NEW old, NEW new, Apart(old), Active(new) \subseteq Active(old),
         \A g \in Active(new) : LanesOf(new, g) = LanesOf(old, g)
  PROVE  Apart(new)
BY DEF Apart, Collide

\* What was selected fits what is active and each other.
LEMMA SelectedKeepApart ==
  ASSUME NEW pl \in Plan, Apart(pl), NEW S \in SUBSET Goals, Selected(pl, S)
  PROVE  \A g, h \in Active(pl) \cup S : g # h => ~Collide(pl, g, h)
<1>1. \A g \in S : /\ LanesOf(pl, g) # {}
                   /\ \A h \in Active(pl) : ~Collide(pl, g, h)
                   /\ \A h \in S : h < g => ~Collide(pl, g, h)
  BY DEF Selected
<1>2. ASSUME NEW g \in S, NEW h \in Active(pl) \cup S, ~Collide(pl, g, h)
      PROVE  ~Collide(pl, h, g)
  BY <1>1, <1>2 DEF Collide
<1>3. ASSUME NEW g \in S, NEW h \in S, g # h PROVE ~Collide(pl, g, h)
  <2>1. g < h \/ h < g
    BY <1>3
  <2>2. QED
    BY <1>1, <1>2, <2>1
<1>4. QED
  BY <1>1, <1>2, <1>3 DEF Apart

\* All or some of the ready goals can be activated.
LEMMA ReadyKeepApart ==
  ASSUME NEW pl \in Plan, Apart(pl), NEW S \in SUBSET Goals, Ready(pl, S),
         NEW few \in SUBSET S
  PROVE  Apart(Activated(pl, few))
<1> DEFINE new == Activated(pl, few)
<1>1. /\ Active(new) \subseteq Active(pl) \cup few
      /\ \A g \in Goals : LanesOf(new, g) = LanesOf(pl, g)
  <2>1. few \in SUBSET Goals
    OBVIOUS
  <2>2. \A g \in Goals :
          /\ LanesOf(new, g) = LanesOf(pl, g)
          /\ new.goal[g].status =
               IF g \in few THEN "active" ELSE pl.goal[g].status
    BY <2>1, ActivatedGoals
  <2> HIDE DEF new
  <2>3. QED
    BY <2>2 DEF Active, Having
<1>2. \A g, h \in Active(pl) \cup few : g # h => ~Collide(pl, g, h)
  <2>1. CASE Selected(pl, S)
    BY <2>1, SelectedKeepApart
  <2>2. CASE Active(pl) = {} /\ (S = {} \/ \E g \in Goals : S = {g})
    BY <2>2
  <2>3. QED
    BY <2>1, <2>2 DEF Ready
<1>3. Active(new) \subseteq Goals
  BY DEF Active, Having
<1> HIDE DEF new
<1>4. Apart(new)
  BY <1>1, <1>2, <1>3 DEF Apart, Collide
<1>5. QED
  BY <1>4 DEF new

\* Every action keeps active goals apart.
LEMMA ApartInductive ==
  TypeOK /\ GoalsKeepApart /\ [Next]_vars => GoalsKeepApart'
<1> SUFFICES ASSUME TypeOK, GoalsKeepApart, [Next]_vars,
                    ~clobbered', ~relaned'
             PROVE  Apart(plan')
  BY DEF GoalsKeepApart, Apart, Active, Having, Collide, LanesOf
<1>1. ~clobbered /\ ~relaned => Apart(plan)
  BY DEF GoalsKeepApart, Apart
<1>2. CASE UNCHANGED <<plan, clobbered, relaned>>
  BY <1>1, <1>2
<1>3. ASSUME NEW p \in Procs, StoreReconciled(p) PROVE Apart(plan')
  <2>1. /\ ~clobbered /\ ~relaned
        /\ plan = run[p].copy
        /\ plan' = Reconciled(plan)
    BY <1>3 DEF StoreReconciled, Write
  <2>2. plan \in Plan
    BY DEF TypeOK
  <2>3. /\ Active(plan') \subseteq Active(plan)
        /\ \A g \in Active(plan') : LanesOf(plan', g) = LanesOf(plan, g)
    BY <2>1, <2>2, ReconciledGoals DEF Active, Having
  <2>4. QED
    BY <1>1, <2>1, <2>3, FewerKeepApart
<1>4. ASSUME NEW p \in Procs, CompletePhase(p) PROVE Apart(plan')
  <2>1. /\ ~clobbered /\ ~relaned
        /\ plan' = [plan EXCEPT !.status = "completed"]
    BY <1>4 DEF CompletePhase
  <2>2. /\ Active(plan') \subseteq Active(plan)
        /\ \A g \in Active(plan') : LanesOf(plan', g) = LanesOf(plan, g)
    BY <2>1 DEF TypeOK, Plan, Active, Having, LanesOf
  <2>3. QED
    BY <1>1, <2>1, <2>2, FewerKeepApart
<1>5. ASSUME NEW p \in Procs, PromoteNext(p) PROVE Apart(plan')
  <2>1. /\ ~clobbered /\ ~relaned
        /\ plan = run[p].copy
        /\ plan = run[p].seen
    BY <1>5 DEF PromoteNext
  <2>2. PICK S \in SUBSET Goals, g \in Goals :
          /\ Ready(plan, S)
          /\ g \in S
          /\ plan' = Activated(plan, {g})
    BY <1>5, <2>1 DEF PromoteNext
  <2>3. plan \in Plan
    BY DEF TypeOK
  <2>4. QED
    BY <1>1, <2>1, <2>2, <2>3, ReadyKeepApart
<1>6. ASSUME NEW p \in Procs, PromoteReady(p) PROVE Apart(plan')
  <2>1. PICK S \in SUBSET Goals, few \in SUBSET Goals :
          /\ Ready(run[p].copy, S)
          /\ few \subseteq S
          /\ IF few = {} THEN UNCHANGED <<plan, clobbered>>
             ELSE Write(Activated(run[p].copy, few), run[p].copy)
    BY <1>6 DEF PromoteReady
  <2>2. relaned' = relaned
    BY <1>6 DEF PromoteReady
  <2>3. CASE few = {}
    BY <1>1, <2>1, <2>2, <2>3
  <2>4. CASE few # {}
    <3>1. /\ ~clobbered
          /\ plan = run[p].copy
          /\ plan' = Activated(plan, few)
      BY <2>1, <2>4 DEF Write
    <3>2. plan \in Plan
      BY DEF TypeOK
    <3>3. QED
      BY <1>1, <2>1, <2>2, <3>1, <3>2, ReadyKeepApart
  <2>5. QED
    BY <2>3, <2>4
<1>7. ASSUME NEW p \in Procs, AppendGoal(p) PROVE Apart(plan')
  <2>1. PICK g \in Goals, lanes \in Lanes, status \in Listed :
          /\ Write([run[p].copy EXCEPT
                      !.status = "active",
                      !.goal[g] = [status |-> status, lanes |-> lanes]],
                   run[p].copy)
          /\ relaned' = (relaned \/ status = "active")
    BY <1>7 DEF AppendGoal
  <2>2. /\ ~clobbered /\ ~relaned /\ status # "active"
        /\ plan' = [plan EXCEPT
                      !.status = "active",
                      !.goal[g] = [status |-> status, lanes |-> lanes]]
    BY <2>1 DEF Write
  <2>3. /\ Active(plan') \subseteq Active(plan)
        /\ \A h \in Active(plan') : LanesOf(plan', h) = LanesOf(plan, h)
    BY <2>2 DEF TypeOK, Plan, Active, Having, LanesOf
  <2>4. QED
    BY <1>1, <2>2, <2>3, FewerKeepApart
<1>8. ASSUME NEW p \in Procs, RewriteGoal(p) PROVE Apart(plan')
  <2>1. PICK g \in Goals, lanes \in Lanes :
          /\ Write([run[p].copy EXCEPT !.goal[g].lanes = lanes], run[p].copy)
          /\ relaned' = (relaned \/ g \in Active(run[p].copy))
    BY <1>8 DEF RewriteGoal
  <2>2. /\ ~clobbered /\ ~relaned
        /\ g \notin Active(plan)
        /\ plan' = [plan EXCEPT !.goal[g].lanes = lanes]
    BY <2>1 DEF Write
  <2>3. /\ Active(plan') \subseteq Active(plan)
        /\ \A h \in Active(plan') : LanesOf(plan', h) = LanesOf(plan, h)
    BY <2>2 DEF TypeOK, Plan, Active, Having, LanesOf
  <2>4. QED
    BY <1>1, <2>2, <2>3, FewerKeepApart
<1>9. QED
  BY <1>2, <1>3, <1>4, <1>5, <1>6, <1>7, <1>8
     DEF Next, Advance, vars, Begin, NoActivePhase, Reload, RedispatchActive,
         DispatchGoal, RefuseEdit, Crash, TaskEnds, TaskReopens

(***************************************************************************)
(* No two goals that are active together collide, however many processes   *)
(* promote, until an update of the plan file is lost, or an active goal is *)
(* edited or listed by hand.                                               *)
(***************************************************************************)
THEOREM GoalsApart == Spec => []GoalsKeepApart
<1>1. Init => GoalsKeepApart
  BY DEF Init, GoalsKeepApart, Active, Having
<1>2. QED
  BY <1>1, ApartInductive, TypeCorrect, PTL DEF Spec

----------------------------------------------------------------------------
(* Goals move forward, tasks follow *)

\* One goal's step of GoalsMoveForward.
Onward(was, is) ==
  /\ was \in {"done", "blocked", "canceled"} => is = was
  /\ was = "active" => is \notin {"absent", "pending"}

Forward(old, new) ==
  \A g \in Goals : Onward(old.goal[g].status, new.goal[g].status)

\* A goal that is or was active.
TakenUp(pl, g) == pl.goal[g].status \notin {"absent", "pending"}

\* Every command moves the goals of the plan it has read forward.
LEMMA StepsForward ==
  ASSUME TypeOK, [Next]_vars, ~clobbered'
  PROVE  ~clobbered /\ Forward(plan, plan')
<1> USE DEF Onward
<1>1. plan \in Plan
  BY DEF TypeOK
<1>2. CASE UNCHANGED <<plan, clobbered>>
  BY <1>2 DEF Forward
<1>3. ASSUME NEW p \in Procs, StoreReconciled(p)
      PROVE  ~clobbered /\ Forward(plan, plan')
  <2>1. ~clobbered /\ plan' = Reconciled(plan)
    BY <1>3 DEF StoreReconciled, Write
  <2>2. QED
    BY <1>1, <2>1, ReconciledGoals DEF Forward
<1>4. ASSUME NEW p \in Procs, CompletePhase(p)
      PROVE  ~clobbered /\ Forward(plan, plan')
  <2>1. ~clobbered /\ plan' = [plan EXCEPT !.status = "completed"]
    BY <1>4 DEF CompletePhase
  <2>2. QED
    BY <1>1, <2>1 DEF Forward, Plan
<1>5. ASSUME NEW p \in Procs, PromoteNext(p)
      PROVE  ~clobbered /\ Forward(plan, plan')
  <2>1. /\ ~clobbered
        /\ plan = run[p].copy
        /\ plan = run[p].seen
    BY <1>5 DEF PromoteNext
  <2>2. PICK S \in SUBSET Goals, g \in Goals :
          /\ Ready(plan, S)
          /\ g \in S
          /\ plan' = Activated(plan, {g})
    BY <1>5, <2>1 DEF PromoteNext
  <2>3. g \in Pending(plan)
    BY <1>1, <2>2, ReadyArePending
  <2>4. QED
    BY <1>1, <2>1, <2>2, <2>3, ActivatedGoals DEF Forward, Pending, Having
<1>6. ASSUME NEW p \in Procs, PromoteReady(p)
      PROVE  ~clobbered /\ Forward(plan, plan')
  <2>1. PICK S \in SUBSET Goals, few \in SUBSET Goals :
          /\ Ready(run[p].copy, S)
          /\ few \subseteq S
          /\ IF few = {} THEN UNCHANGED <<plan, clobbered>>
             ELSE Write(Activated(run[p].copy, few), run[p].copy)
    BY <1>6 DEF PromoteReady
  <2>2. CASE few = {}
    BY <1>2, <2>1, <2>2
  <2>3. CASE few # {}
    <3>1. /\ ~clobbered
          /\ plan = run[p].copy
          /\ plan' = Activated(plan, few)
      BY <2>1, <2>3 DEF Write
    <3>2. few \subseteq Pending(plan)
      BY <1>1, <2>1, <3>1, ReadyArePending
    <3>3. \A g \in Goals : plan'.goal[g].status =
            IF g \in few THEN "active" ELSE plan.goal[g].status
      BY <1>1, <3>1, ActivatedGoals
    <3>4. QED
      BY <3>1, <3>2, <3>3 DEF Forward, Pending, Having
  <2>4. QED
    BY <2>2, <2>3
<1>7. ASSUME NEW p \in Procs, AppendGoal(p)
      PROVE  ~clobbered /\ Forward(plan, plan')
  <2>1. PICK g \in Goals, lanes \in Lanes, status \in Listed :
          /\ g \in Having(run[p].copy, {"absent"})
          /\ Write([run[p].copy EXCEPT
                      !.status = "active",
                      !.goal[g] = [status |-> status, lanes |-> lanes]],
                   run[p].copy)
    BY <1>7 DEF AppendGoal
  <2>2. /\ ~clobbered
        /\ g \in Having(plan, {"absent"})
        /\ plan' = [plan EXCEPT
                      !.status = "active",
                      !.goal[g] = [status |-> status, lanes |-> lanes]]
    BY <2>1 DEF Write
  <2>3. QED
    BY <1>1, <2>2 DEF Forward, Plan, Having
<1>8. ASSUME NEW p \in Procs, RewriteGoal(p)
      PROVE  ~clobbered /\ Forward(plan, plan')
  <2>1. PICK g \in Goals, lanes \in Lanes :
          Write([run[p].copy EXCEPT !.goal[g].lanes = lanes], run[p].copy)
    BY <1>8 DEF RewriteGoal
  <2>2. ~clobbered /\ plan' = [plan EXCEPT !.goal[g].lanes = lanes]
    BY <2>1 DEF Write
  <2>3. QED
    BY <1>1, <2>2 DEF Forward, Plan
<1>9. QED
  BY <1>2, <1>3, <1>4, <1>5, <1>6, <1>7, <1>8
     DEF Next, Advance, vars, Begin, NoActivePhase, Reload, RedispatchActive,
         DispatchGoal, RefuseEdit, Crash, TaskEnds, TaskReopens

\* reconcile and the promotions never take a goal back, whatever becomes of
\* the tasks, as long as no update of the plan file is lost.
THEOREM GoalsForward == Spec => GoalsMoveForward
<1>1. ASSUME TypeOK, [Next]_vars
      PROVE  [~clobbered' => \A g \in Goals :
                LET was == plan.goal[g].status  is == plan'.goal[g].status IN
                /\ was \in {"done", "blocked", "canceled"} => is = was
                /\ was = "active" => is \notin {"absent", "pending"}]_plan
  BY <1>1, StepsForward DEF Forward, Onward
<1>2. QED
  BY <1>1, TypeCorrect, PTL DEF Spec, GoalsMoveForward

(***************************************************************************)
(* What a promotion holds in its hands was taken up in the plan on disk:   *)
(* the goals it is about to dispatch, and those its summary shows active.  *)
(***************************************************************************)
HeldGoals(p) ==
  IF run[p].pc = "dispatch" THEN run[p].todo
  ELSE IF run[p].pc \in {"summary", "reloaded"} THEN Active(run[p].seen)
  ELSE {}

PInv ==
  /\ TaskHasAGoal
  /\ ~clobbered => \A p \in Procs : \A g \in HeldGoals(p) : TakenUp(plan, g)

\* Steps that touch no process but p.
LEMMA OthersHold ==
  ASSUME TypeOK, NEW p \in Procs, NEW r, run' = [run EXCEPT ![p] = r],
         NEW q \in Procs, q # p
  PROVE  HeldGoals(q)' = HeldGoals(q)
<1>1. run'[q] = run[q]
  BY DEF TypeOK
<1>2. QED
  BY <1>1 DEF HeldGoals, Active, Having

\* What p holds after GoOn, and that the others hold what they held.
LEMMA HeldAfterGoOn ==
  ASSUME TypeOK, NEW p \in Procs, NEW from, NEW todo, GoOn(p, from, todo)
  PROVE  /\ HeldGoals(p)' \subseteq todo
         /\ \A q \in Procs : q # p => HeldGoals(q)' = HeldGoals(q)
<1>1. run'[p] = IF todo = {} THEN Idle
                ELSE [pc |-> "dispatch", copy |-> from, todo |-> todo]
  BY DEF TypeOK, GoOn
<1>2. HeldGoals(p)' \subseteq todo
  BY <1>1 DEF HeldGoals, Idle
<1>3. QED
  BY <1>2, OthersHold DEF GoOn

\* What a process gets to hold in a step is active in the plan after it.
LEMMA NewlyHeld ==
  ASSUME TypeOK, [Next]_vars, ~clobbered', NEW q \in Procs
  PROVE  \A g \in HeldGoals(q)' : g \in HeldGoals(q) \/ g \in Active(plan')
<1>1. ~clobbered
  BY StepsForward
<1>2. CASE HeldGoals(q)' \subseteq HeldGoals(q)
  BY <1>2
<1>3. ASSUME NEW p \in Procs, StoreReconciled(p)
      PROVE  HeldGoals(q)' \subseteq HeldGoals(q) \/
             \A g \in HeldGoals(q)' : g \in HeldGoals(q) \/ g \in Active(plan')
  <2>1. CASE q # p
    BY <1>3, <2>1, OthersHold DEF StoreReconciled
  <2>2. CASE q = p
    <3>1. \/ run'[q] = Idle
          \/ run'[q] = [pc |-> "summary", cmd |-> run[q].cmd, seen |-> plan']
      BY <1>3, <2>2 DEF StoreReconciled, Write, TypeOK
    <3>2. HeldGoals(q)' \subseteq Active(plan')
      BY <3>1 DEF HeldGoals, Idle, Active, Having
    <3>3. QED
      BY <3>2
  <2>3. QED
    BY <2>1, <2>2
<1>4. ASSUME NEW p \in Procs,
             \/ \E cmd \in Commands : Begin(p, cmd)
             \/ NoActivePhase(p) \/ Reload(p) \/ CompletePhase(p)
             \/ AppendGoal(p) \/ RewriteGoal(p) \/ RefuseEdit(p) \/ Crash(p)
      PROVE  HeldGoals(q)' \subseteq HeldGoals(q)
  <2>1. PICK r : /\ run' = [run EXCEPT ![p] = r]
                 /\ \/ r = Idle
                    \/ r.pc = "loaded"
                    \/ /\ run[p].pc = "summary"
                       /\ r.pc = "reloaded"
                       /\ r.seen = run[p].seen
    <3>1. CASE Reload(p)
      <4> DEFINE to == [pc |-> "reloaded", cmd |-> run[p].cmd,
                        seen |-> run[p].seen, copy |-> plan]
      <4>1. run[p].pc = "summary" /\ run' = [run EXCEPT ![p] = to]
        BY <3>1 DEF Reload
      <4>2. to.pc = "reloaded" /\ to.seen = run[p].seen
        OBVIOUS
      <4> HIDE DEF to
      <4>3. QED
        BY <4>1, <4>2
    <3>2. CASE ~Reload(p)
      BY <1>4, <3>2 DEF Begin, NoActivePhase, CompletePhase, AppendGoal,
         RewriteGoal, RefuseEdit, Crash
    <3>3. QED
      BY <3>1, <3>2
  <2>2. CASE q # p
    BY <2>1, <2>2, OthersHold
  <2>3. CASE q = p
    <3>1. run'[q] = r
      BY <2>1, <2>3 DEF TypeOK
    <3>2. QED
      BY <2>1, <2>3, <3>1 DEF HeldGoals, Idle, Active, Having
  <2>4. QED
    BY <2>2, <2>3
<1>5. ASSUME NEW p \in Procs, RedispatchActive(p)
      PROVE  HeldGoals(q)' \subseteq HeldGoals(q)
  <2>1. PICK g \in Active(run[p].seen) : GoOn(p, run[p].copy, {g})
    BY <1>5 DEF RedispatchActive, First
  <2>2. HeldGoals(p) = Active(run[p].seen)
    BY <1>5 DEF RedispatchActive, HeldGoals
  <2>3. QED
    BY <2>1, <2>2, HeldAfterGoOn
<1>6. ASSUME NEW p \in Procs, PromoteNext(p)
      PROVE  HeldGoals(q)' \subseteq HeldGoals(q) \/
             \A g \in HeldGoals(q)' : g \in HeldGoals(q) \/ g \in Active(plan')
  <2>1. PICK g \in Goals : /\ plan' = Activated(run[p].copy, {g})
                           /\ GoOn(p, run[p].copy, {g})
    BY <1>6 DEF PromoteNext
  <2>2. run[p].copy \in Plan
    BY <1>6, RunShape DEF PromoteNext
  <2>3. g \in Active(plan')
    BY <2>1, <2>2, ActivatedGoals DEF Active, Having
  <2>4. QED
    BY <2>1, <2>3, HeldAfterGoOn
<1>7. ASSUME NEW p \in Procs, PromoteReady(p)
      PROVE  HeldGoals(q)' \subseteq HeldGoals(q) \/
             \A g \in HeldGoals(q)' : g \in HeldGoals(q) \/ g \in Active(plan')
  <2>1. PICK few \in SUBSET Goals :
          /\ few # {} => plan' = Activated(run[p].copy, few)
          /\ GoOn(p, run[p].copy, few)
    BY <1>7 DEF PromoteReady, Write
  <2>2. run[p].copy \in Plan
    BY <1>7, RunShape DEF PromoteReady
  <2>3. \A g \in few : g \in Active(plan')
    BY <2>1, <2>2, ActivatedGoals DEF Active, Having
  <2>4. QED
    BY <2>1, <2>3, HeldAfterGoOn
<1>8. ASSUME NEW p \in Procs, DispatchGoal(p)
      PROVE  HeldGoals(q)' \subseteq HeldGoals(q)
  <2>1. PICK g \in Goals : GoOn(p, run[p].copy, run[p].todo \ {g})
    BY <1>8 DEF DispatchGoal
  <2>2. HeldGoals(p) = run[p].todo
    BY <1>8 DEF DispatchGoal, HeldGoals
  <2>3. QED
    BY <2>1, <2>2, HeldAfterGoOn
<1>9. CASE run' = run
  BY <1>2, <1>9 DEF HeldGoals, Active, Having
<1>10. QED
  BY <1>2, <1>3, <1>4, <1>5, <1>6, <1>7, <1>8, <1>9
     DEF Next, Advance, vars, TaskEnds, TaskReopens

\* Every process keeps holding goals that are taken up.
LEMMA HeldAreTakenUp ==
  ASSUME TypeOK, PInv, [Next]_vars, ~clobbered', NEW q \in Procs
  PROVE  \A g \in HeldGoals(q)' : TakenUp(plan', g)
<1>1. ~clobbered /\ Forward(plan, plan')
  BY StepsForward
<1>2. HeldGoals(q) \subseteq Goals
  BY RunShape DEF HeldGoals, Active, Having
<1>3. ASSUME NEW g \in HeldGoals(q) PROVE TakenUp(plan', g)
  <2>1. TakenUp(plan, g) /\ plan.goal[g].status \in GoalStatus
    BY <1>1, <1>2, <1>3 DEF PInv, TypeOK, Plan
  <2>2. QED
    BY <1>1, <1>2, <2>1 DEF Forward, Onward, TakenUp, GoalStatus
<1>4. \A g \in Active(plan') : TakenUp(plan', g)
  BY DEF Active, Having, TakenUp
<1>5. QED
  BY <1>3, <1>4, NewlyHeld

\* A goal that is not taken up has no task.
LEMMA TasksFollow ==
  ASSUME TypeOK, PInv, [Next]_vars, ~clobbered',
         NEW g \in Goals, ~TakenUp(plan', g)
  PROVE  task'[g].life = "none"
<1>1. ~clobbered /\ ~TakenUp(plan, g)
  <2>1. plan.goal[g].status \in GoalStatus
    BY DEF TypeOK, Plan
  <2>2. QED
    BY <2>1, StepsForward DEF Forward, Onward, TakenUp, GoalStatus
<1>2. task[g].life = "none"
  BY <1>1 DEF PInv, TaskHasAGoal, Having, TakenUp
<1>3. ASSUME NEW p \in Procs, DispatchGoal(p) PROVE task'[g] = task[g]
  <2>1. HeldGoals(p) = run[p].todo
    BY <1>3 DEF DispatchGoal, HeldGoals
  <2>2. g \notin run[p].todo
    BY <1>1, <2>1 DEF PInv
  <2>3. QED
    BY <1>3, <2>2 DEF DispatchGoal, First, TypeOK
<1>4. ASSUME NEW h \in Goals, TaskEnds(h) \/ TaskReopens(h)
      PROVE  task'[g] = task[g]
  <2>1. h # g
    BY <1>2, <1>4 DEF TaskEnds, TaskReopens, Open
  <2>2. QED
    BY <1>4, <2>1 DEF TaskEnds, TaskReopens, TypeOK
<1>5. CASE task' = task
  BY <1>2, <1>5
<1>6. QED
  BY <1>2, <1>3, <1>4, <1>5
     DEF Next, Advance, vars, Begin, StoreReconciled, NoActivePhase, Reload,
         RedispatchActive, CompletePhase, PromoteNext, PromoteReady,
         AppendGoal, RewriteGoal, RefuseEdit, Crash

(***************************************************************************)
(* The plan is written before the tasks are dispatched: wherever any of    *)
(* the processes dies, no task is at work for a goal that is still         *)
(* pending, until an update of the plan file is lost.                      *)
(***************************************************************************)
THEOREM TasksFollowThePlan == Spec => []TaskHasAGoal
<1>1. Init => PInv
  BY DEF Init, PInv, TaskHasAGoal, Having, HeldGoals, Idle, NoTask
<1>2. ASSUME TypeOK, PInv, [Next]_vars PROVE PInv'
  <2>1. TaskHasAGoal'
    BY <1>2, TasksFollow DEF TaskHasAGoal, Having, TakenUp
  <2>2. ~clobbered' => \A p \in Procs :
          \A g \in HeldGoals(p)' : TakenUp(plan', g)
    BY <1>2, HeldAreTakenUp
  <2>3. QED
    BY <2>1, <2>2 DEF PInv, TakenUp
<1>3. PInv => TaskHasAGoal
  BY DEF PInv
<1>4. QED
  BY <1>1, <1>2, <1>3, TypeCorrect, PTL DEF Spec

----------------------------------------------------------------------------
(* Workers keep apart *)

Settled(pl) == Having(pl, {"done", "blocked", "canceled"})

\* The lanes p dispatches with are those of the plan on disk.
LanesHeld(p) ==
  run[p].pc \in {"reloaded", "dispatch"} =>
    \A g \in HeldGoals(p) \cap Active(plan) :
      LanesOf(run[p].copy, g) = LanesOf(plan, g)

\* Nobody has begun or is about to begin the task of g.
Untouched(g) == task[g].life = "none" /\ \A p \in Procs : g \notin HeldGoals(p)

(***************************************************************************)
(* As long as nothing is lost, edited or reopened, a goal is settled only  *)
(* once its task has ended, or was listed so and never touched, so that    *)
(* the goal of an open task is active; and that task has the lanes the     *)
(* plan on disk gives it, because every promotion under way carries those  *)
(* of its active goals along.                                              *)
(***************************************************************************)
WInv ==
  ~clobbered /\ ~relaned /\ reopens = 0 =>
    /\ \A g \in Settled(plan) : Ended(task[g]) \/ Untouched(g)
    /\ \A g \in Goals : Open(g) => task[g].lanes = LanesOf(plan, g)
    /\ \A p \in Procs : LanesHeld(p)

\* Only an edit of an active goal changes the lanes of one.
LEMMA LanesStay ==
  ASSUME TypeOK, [Next]_vars, ~clobbered', ~relaned'
  PROVE  ~relaned /\ \A g \in Active(plan) : LanesOf(plan', g) = LanesOf(plan, g)
<1>1. plan \in Plan
  BY DEF TypeOK
<1>2. CASE UNCHANGED <<plan, relaned>>
  BY <1>2
<1>3. ASSUME NEW p \in Procs, StoreReconciled(p)
      PROVE  /\ ~relaned
             /\ \A g \in Active(plan) : LanesOf(plan', g) = LanesOf(plan, g)
  <2>1. ~relaned /\ plan' = Reconciled(plan)
    BY <1>3 DEF StoreReconciled, Write
  <2>2. QED
    BY <1>1, <2>1, ReconciledGoals DEF Active, Having
<1>4. ASSUME NEW p \in Procs, CompletePhase(p)
      PROVE  /\ ~relaned
             /\ \A g \in Active(plan) : LanesOf(plan', g) = LanesOf(plan, g)
  <2>1. ~relaned /\ plan' = [plan EXCEPT !.status = "completed"]
    BY <1>4 DEF CompletePhase
  <2>2. QED
    BY <1>1, <2>1 DEF Plan, LanesOf
<1>5. ASSUME NEW p \in Procs, PromoteNext(p) \/ PromoteReady(p)
      PROVE  /\ ~relaned
             /\ \A g \in Active(plan) : LanesOf(plan', g) = LanesOf(plan, g)
  <2>1. PICK few \in SUBSET Goals :
          UNCHANGED plan \/ plan' = Activated(plan, few)
    <3>1. CASE PromoteNext(p)
      BY <3>1 DEF PromoteNext
    <3>2. CASE PromoteReady(p)
      BY <3>2 DEF PromoteReady, Write
    <3>3. QED
      BY <1>5, <3>1, <3>2
  <2>2. ~relaned
    BY <1>5 DEF PromoteNext, PromoteReady
  <2>3. \A g \in Goals : LanesOf(Activated(plan, few), g) = LanesOf(plan, g)
    BY <1>1, ActivatedGoals
  <2>4. QED
    BY <2>1, <2>2, <2>3 DEF Active, Having
<1>6. ASSUME NEW p \in Procs, AppendGoal(p)
      PROVE  /\ ~relaned
             /\ \A g \in Active(plan) : LanesOf(plan', g) = LanesOf(plan, g)
  <2>1. PICK h \in Goals, lanes \in Lanes, status \in Listed :
          /\ h \in Having(run[p].copy, {"absent"})
          /\ Write([run[p].copy EXCEPT
                      !.status = "active",
                      !.goal[h] = [status |-> status, lanes |-> lanes]],
                   run[p].copy)
          /\ relaned' = (relaned \/ status = "active")
    BY <1>6 DEF AppendGoal
  <2>2. /\ ~relaned
        /\ h \in Having(plan, {"absent"})
        /\ plan' = [plan EXCEPT
                      !.status = "active",
                      !.goal[h] = [status |-> status, lanes |-> lanes]]
    BY <2>1 DEF Write
  <2>3. QED
    BY <1>1, <2>2 DEF Plan, Active, Having, LanesOf
<1>7. ASSUME NEW p \in Procs, RewriteGoal(p)
      PROVE  /\ ~relaned
             /\ \A g \in Active(plan) : LanesOf(plan', g) = LanesOf(plan, g)
  <2>1. PICK h \in Goals, lanes \in Lanes :
          /\ Write([run[p].copy EXCEPT !.goal[h].lanes = lanes], run[p].copy)
          /\ relaned' = (relaned \/ h \in Active(run[p].copy))
    BY <1>7 DEF RewriteGoal
  <2>2. /\ ~relaned
        /\ h \notin Active(plan)
        /\ plan' = [plan EXCEPT !.goal[h].lanes = lanes]
    BY <2>1 DEF Write
  <2>3. QED
    BY <1>1, <2>2 DEF Plan, Active, Having, LanesOf
<1>8. QED
  BY <1>2, <1>3, <1>4, <1>5, <1>6, <1>7
     DEF Next, Advance, vars, Begin, NoActivePhase, Reload, RedispatchActive,
         DispatchGoal, RefuseEdit, Crash, TaskEnds, TaskReopens

\* A goal whose task is at work or about to be is active in the plan.
LEMMA GoalOfOpenTask ==
  ASSUME TypeOK, PInv, WInv, ~clobbered, ~relaned, reopens = 0,
         NEW g \in Goals, ~Ended(task[g]), TakenUp(plan, g), ~Untouched(g)
  PROVE  g \in Active(plan)
<1>1. plan.goal[g].status \in GoalStatus /\ g \notin Settled(plan)
  BY DEF TypeOK, Plan, WInv
<1>2. QED
  BY <1>1 DEF GoalStatus, Settled, Active, Having, TakenUp

\* q goes on with the copy it has, or does nothing.
LEMMA LanesHeldBefore ==
  ASSUME TypeOK, PInv, WInv, [Next]_vars, ~clobbered', ~relaned', reopens = 0,
         NEW q \in Procs, run[q].pc \in {"reloaded", "dispatch"},
         run'[q].copy = run[q].copy, HeldGoals(q)' \subseteq HeldGoals(q)
  PROVE  LanesHeld(q)'
<1>1. ~clobbered /\ Forward(plan, plan')
  BY StepsForward
<1>2. /\ ~relaned
      /\ \A g \in Active(plan) : LanesOf(plan', g) = LanesOf(plan, g)
  BY LanesStay
<1>3. HeldGoals(q) \subseteq Goals
  BY RunShape DEF HeldGoals, Active, Having
<1>4. ASSUME NEW g \in HeldGoals(q)', g \in Active(plan')
      PROVE  LanesOf(run'[q].copy, g) = LanesOf(plan', g)
  <2>1. g \in Goals /\ g \in HeldGoals(q) /\ TakenUp(plan, g)
    BY <1>1, <1>3, <1>4 DEF PInv
  <2>2. plan.goal[g].status \in GoalStatus
    BY <2>1 DEF TypeOK, Plan
  <2>3. g \in Active(plan)
    BY <1>1, <1>4, <2>1, <2>2
       DEF Forward, Onward, TakenUp, Active, Having, GoalStatus
  <2>4. LanesOf(run[q].copy, g) = LanesOf(plan, g)
    BY <1>1, <1>2, <2>1, <2>3 DEF WInv, LanesHeld
  <2>5. QED
    BY <1>2, <2>3, <2>4
<1>5. QED
  BY <1>4 DEF LanesHeld, Active, Having

\* A promotion dispatches with the plan it has just written.
LEMMA LanesHeldAfterActivation ==
  ASSUME TypeOK, NEW p \in Procs, NEW pl \in Plan, NEW few \in SUBSET Goals,
         few # {} => plan' = Activated(pl, few), GoOn(p, pl, few)
  PROVE  LanesHeld(p)'
<1>1. run'[p] = IF few = {} THEN Idle
                ELSE [pc |-> "dispatch", copy |-> pl, todo |-> few]
  BY DEF TypeOK, GoOn
<1>2. CASE few = {}
  BY <1>1, <1>2 DEF LanesHeld, Idle
<1>3. CASE few # {}
  <2>1. \A g \in Goals : LanesOf(plan', g) = LanesOf(pl, g)
    BY <1>3, ActivatedGoals
  <2>2. run'[p].copy = pl
    BY <1>1, <1>3
  <2>3. QED
    BY <2>1, <2>2 DEF LanesHeld, Active, Having
<1>4. QED
  BY <1>2, <1>3

\* Every process keeps dispatching with the lanes on disk.
LEMMA LanesAreHeld ==
  ASSUME TypeOK, PInv, WInv, [Next]_vars, ~clobbered', ~relaned', reopens = 0,
         NEW q \in Procs
  PROVE  LanesHeld(q)'
<1>1. CASE run'[q] = run[q]
  <2>1. HeldGoals(q)' = HeldGoals(q)
    BY <1>1 DEF HeldGoals, Active, Having
  <2>2. CASE run[q].pc \in {"reloaded", "dispatch"}
    BY <1>1, <2>1, <2>2, LanesHeldBefore
  <2>3. CASE run[q].pc \notin {"reloaded", "dispatch"}
    BY <1>1, <2>3 DEF LanesHeld
  <2>4. QED
    BY <2>2, <2>3
<1>2. ASSUME NEW p \in Procs, NEW r, run' = [run EXCEPT ![p] = r],
             r.pc \notin {"reloaded", "dispatch"}
      PROVE  LanesHeld(q)'
  <2>1. run'[q] = run[q] \/ run'[q] = r
    BY <1>2 DEF TypeOK
  <2>2. QED
    BY <1>1, <1>2, <2>1 DEF LanesHeld
<1>3. ASSUME NEW p \in Procs, StoreReconciled(p) PROVE LanesHeld(q)'
  <2>1. \E r : run' = [run EXCEPT ![p] = r] /\ r.pc \in {"idle", "summary"}
    <3>1. CASE run[p].cmd = "status"
      <4>1. run' = [run EXCEPT ![p] = Idle]
        BY <1>3, <3>1 DEF StoreReconciled
      <4>2. Idle.pc = "idle"
        BY DEF Idle
      <4>3. QED
        BY <4>1, <4>2
    <3>2. CASE run[p].cmd # "status"
      <4> DEFINE to == [pc |-> "summary", cmd |-> run[p].cmd,
                        seen |-> Reconciled(run[p].copy)]
      <4>1. run' = [run EXCEPT ![p] = to]
        BY <1>3, <3>2 DEF StoreReconciled
      <4>2. to.pc = "summary"
        OBVIOUS
      <4> HIDE DEF to
      <4>3. QED
        BY <4>1, <4>2
    <3>3. QED
      BY <3>1, <3>2
  <2>2. QED
    BY <1>2, <2>1
<1>4. ASSUME NEW p \in Procs,
             \/ \E cmd \in Commands : Begin(p, cmd)
             \/ NoActivePhase(p) \/ CompletePhase(p) \/ AppendGoal(p)
             \/ RewriteGoal(p) \/ RefuseEdit(p) \/ Crash(p)
      PROVE  LanesHeld(q)'
  <2>1. \E r : run' = [run EXCEPT ![p] = r] /\ r.pc \in {"idle", "loaded"}
    <3>1. ASSUME NEW cmd \in Commands, Begin(p, cmd)
          PROVE  \E r : /\ run' = [run EXCEPT ![p] = r]
                        /\ r.pc \in {"idle", "loaded"}
      <4> DEFINE to == [pc |-> "loaded", cmd |-> cmd, copy |-> plan]
      <4>1. run' = [run EXCEPT ![p] = to]
        BY <3>1 DEF Begin
      <4>2. to.pc = "loaded"
        OBVIOUS
      <4> HIDE DEF to
      <4>3. QED
        BY <4>1, <4>2
    <3>2. CASE run' = [run EXCEPT ![p] = Idle]
      <4>1. Idle.pc = "idle"
        BY DEF Idle
      <4>2. QED
        BY <3>2, <4>1
    <3>3. QED
      BY <1>4, <3>1, <3>2 DEF NoActivePhase, CompletePhase, AppendGoal,
         RewriteGoal, RefuseEdit, Crash
  <2>2. QED
    BY <1>2, <2>1
<1>5. ASSUME NEW p \in Procs, p = q, Reload(p) PROVE LanesHeld(q)'
  <2>1. run'[q].copy = plan /\ plan' = plan
    BY <1>5 DEF Reload, TypeOK
  <2>2. QED
    BY <2>1 DEF LanesHeld
<1>6. ASSUME NEW p \in Procs, p = q, RedispatchActive(p) PROVE LanesHeld(q)'
  <2>1. PICK g \in Active(run[q].seen) : GoOn(q, run[q].copy, {g})
    BY <1>6 DEF RedispatchActive, First
  <2>2. run[q].pc = "reloaded" /\ HeldGoals(q) = Active(run[q].seen)
    BY <1>6 DEF RedispatchActive, HeldGoals
  <2>3. run'[q].copy = run[q].copy
    BY <2>1 DEF GoOn, TypeOK
  <2>4. QED
    BY <2>1, <2>2, <2>3, HeldAfterGoOn, LanesHeldBefore
<1>7. ASSUME NEW p \in Procs, p = q, PromoteNext(p) PROVE LanesHeld(q)'
  <2>1. PICK g \in Goals : /\ plan' = Activated(run[q].copy, {g})
                           /\ GoOn(q, run[q].copy, {g})
    BY <1>7 DEF PromoteNext
  <2>2. run[q].copy \in Plan
    BY <1>7, RunShape DEF PromoteNext
  <2>3. {g} \in SUBSET Goals
    OBVIOUS
  <2>4. {g} # {} => plan' = Activated(run[q].copy, {g})
    BY <2>1
  <2>5. GoOn(q, run[q].copy, {g})
    BY <2>1
  <2>6. QED
    BY <2>2, <2>3, <2>4, <2>5, LanesHeldAfterActivation
<1>8. ASSUME NEW p \in Procs, p = q, PromoteReady(p) PROVE LanesHeld(q)'
  <2>1. PICK few \in SUBSET Goals :
          /\ few # {} => plan' = Activated(run[q].copy, few)
          /\ GoOn(q, run[q].copy, few)
    BY <1>8 DEF PromoteReady, Write
  <2>2. run[q].copy \in Plan
    BY <1>8, RunShape DEF PromoteReady
  <2>3. QED
    BY <2>1, <2>2, LanesHeldAfterActivation
<1>9. ASSUME NEW p \in Procs, p = q, DispatchGoal(p) PROVE LanesHeld(q)'
  <2>1. PICK g \in Goals : GoOn(q, run[q].copy, run[q].todo \ {g})
    BY <1>9 DEF DispatchGoal
  <2>2. run[q].pc = "dispatch" /\ HeldGoals(q) = run[q].todo
    BY <1>9 DEF DispatchGoal, HeldGoals
  <2>3. CASE run[q].todo \ {g} = {}
    <3>1. run'[q] = Idle
      BY <2>1, <2>3 DEF GoOn, TypeOK
    <3>2. QED
      BY <3>1 DEF LanesHeld, Idle
  <2>4. CASE run[q].todo \ {g} # {}
    <3>1. run'[q].copy = run[q].copy
      BY <2>1, <2>4 DEF GoOn, TypeOK
    <3>2. QED
      BY <2>1, <2>2, <3>1, HeldAfterGoOn, LanesHeldBefore
  <2>5. QED
    BY <2>3, <2>4
<1>10. ASSUME NEW p \in Procs, p # q,
              \/ Reload(p) \/ RedispatchActive(p) \/ PromoteNext(p)
              \/ PromoteReady(p) \/ DispatchGoal(p)
       PROVE  LanesHeld(q)'
  <2>1. run'[q] = run[q]
    BY <1>10 DEF Reload, RedispatchActive, PromoteNext, PromoteReady,
       DispatchGoal, GoOn, TypeOK
  <2>2. QED
    BY <1>1, <2>1
<1>11. CASE run' = run
  BY <1>1, <1>11
<1>12. QED
  BY <1>3, <1>4, <1>5, <1>6, <1>7, <1>8, <1>9, <1>10, <1>11
     DEF Next, Advance, vars, TaskEnds, TaskReopens

\* A task that is not begun for a goal that does not become active.
LEMMA UntouchedStays ==
  ASSUME TypeOK, [Next]_vars, ~clobbered', NEW g \in Goals,
         Untouched(g), g \notin Active(plan')
  PROVE  Untouched(g)'
<1>1. \A q \in Procs : g \notin HeldGoals(q)'
  BY NewlyHeld DEF Untouched
<1>2. ASSUME NEW p \in Procs, DispatchGoal(p) PROVE task'[g] = task[g]
  <2>1. g \notin run[p].todo
    BY <1>2 DEF DispatchGoal, HeldGoals, Untouched
  <2>2. QED
    BY <1>2, <2>1 DEF DispatchGoal, First, TypeOK
<1>3. ASSUME NEW h \in Goals, TaskEnds(h) \/ TaskReopens(h)
      PROVE  task'[g] = task[g]
  <2>1. h # g
    BY <1>3 DEF Untouched, TaskEnds, TaskReopens, Open
  <2>2. QED
    BY <1>3, <2>1 DEF TaskEnds, TaskReopens, TypeOK
<1>4. task'[g] = task[g]
  BY <1>2, <1>3
     DEF Next, Advance, vars, Begin, StoreReconciled, NoActivePhase, Reload,
         RedispatchActive, CompletePhase, PromoteNext, PromoteReady,
         AppendGoal, RewriteGoal, RefuseEdit, Crash
<1>5. QED
  BY <1>1, <1>4 DEF Untouched

\* A goal is settled on what its task has come to, or listed so, and stays
\* so.
LEMMA SettledHaveEnded ==
  ASSUME TypeOK, PInv, WInv, [Next]_vars,
         ~clobbered', ~relaned', reopens' = 0, reopens = 0,
         NEW g \in Settled(plan')
  PROVE  Ended(task'[g]) \/ Untouched(g)'
<1>1. /\ ~clobbered
      /\ ~relaned
      /\ g \in Goals
      /\ plan.goal[g].status \in GoalStatus
      /\ plan \in Plan
  BY StepsForward, LanesStay DEF Settled, Having, TypeOK, Plan
<1>2. ASSUME Ended(task[g]) PROVE Ended(task'[g])
  <2>1. ASSUME NEW p \in Procs, DispatchGoal(p) PROVE Ended(task'[g])
    BY <1>1, <1>2, <2>1 DEF DispatchGoal, Ended, Terminal, TypeOK
  <2>2. ASSUME NEW h \in Goals, TaskEnds(h) PROVE Ended(task'[g])
    BY <1>1, <1>2, <2>2 DEF TaskEnds, Open, Ended, Terminal, TypeOK
  <2>3. ASSUME NEW h \in Goals, TaskReopens(h) PROVE Ended(task'[g])
    BY <2>3 DEF TaskReopens
  <2>4. CASE task' = task
    BY <1>2, <2>4
  <2>5. QED
    BY <2>1, <2>2, <2>3, <2>4
       DEF Next, Advance, vars, Begin, StoreReconciled, NoActivePhase, Reload,
           RedispatchActive, CompletePhase, PromoteNext, PromoteReady,
           AppendGoal, RewriteGoal, RefuseEdit, Crash
<1>3. ASSUME Untouched(g) PROVE Untouched(g)'
  BY <1>1, <1>3, UntouchedStays DEF Active, Settled, Having
<1>4. CASE g \in Settled(plan)
  BY <1>1, <1>2, <1>3, <1>4 DEF WInv
<1>5. CASE g \notin Settled(plan)
  <2>1. ASSUME NEW p \in Procs, StoreReconciled(p) PROVE Ended(task[g])
    <3>1. plan' = Reconciled(plan)
      BY <2>1 DEF StoreReconciled, Write
    <3>2. plan'.goal = GoalsJudged(plan)
      <4> DEFINE gs == GoalsJudged(plan)
                 judged == [plan EXCEPT !.goal = gs]
      <4>1. judged.goal = gs /\ judged \in [status : PhaseStatus,
               limit : Limits, goal : {gs}]
        BY <1>1 DEF Plan
      <4>2. plan' = [judged EXCEPT !.status =
              IF Having(judged, {"pending", "active", "blocked"}) = {}
              THEN "completed" ELSE "active"]
        BY <3>1 DEF Reconciled
      <4> HIDE DEF gs, judged
      <4>3. plan'.goal = gs
        BY <4>1, <4>2
      <4>4. QED
        BY <4>3 DEF gs
    <3>3. QED
      BY <1>1, <1>5, <3>2 DEF GoalsJudged, Settled, Having
  <2>2. ASSUME NEW p \in Procs, PromoteNext(p) \/ PromoteReady(p) PROVE FALSE
    <3>1. PICK few \in SUBSET Goals :
            UNCHANGED plan \/ plan' = Activated(plan, few)
      <4>1. CASE PromoteNext(p)
        BY <4>1 DEF PromoteNext
      <4>2. CASE PromoteReady(p)
        BY <4>2 DEF PromoteReady, Write
      <4>3. QED
        BY <2>2, <4>1, <4>2
    <3>2. \A h \in Goals : Activated(plan, few).goal[h].status
                             \in {"active", plan.goal[h].status}
      <4>1. TAKE h \in Goals
      <4>2. Activated(plan, few).goal[h].status =
              IF h \in few THEN "active" ELSE plan.goal[h].status
        BY <1>1, ActivatedGoals
      <4>3. QED
        BY <4>2
    <3>3. QED
      BY <1>1, <1>5, <3>1, <3>2 DEF Settled, Having
  <2>3. ASSUME NEW p \in Procs,
               CompletePhase(p) \/ AppendGoal(p) \/ RewriteGoal(p)
        PROVE  Untouched(g)
    <3>1. CASE CompletePhase(p)
      BY <1>1, <1>5, <3>1 DEF CompletePhase, Plan, Settled, Having
    <3>2. CASE AppendGoal(p)
      <4>1. PICK h \in Goals, lanes \in Lanes, status \in Listed :
              /\ h \in Having(run[p].copy, {"absent"})
              /\ plan' = [run[p].copy EXCEPT
                   !.status = "active",
                   !.goal[h] = [status |-> status, lanes |-> lanes]]
              /\ plan = run[p].copy
        BY <3>2 DEF AppendGoal, Write
      <4>2. g # h => plan'.goal[g].status = plan.goal[g].status
        BY <1>1, <4>1 DEF Plan
      <4>3. ~TakenUp(plan, g)
        BY <1>1, <1>5, <4>1, <4>2 DEF Settled, Having, TakenUp
      <4>4. QED
        BY <1>1, <4>3 DEF PInv, TaskHasAGoal, Untouched, TakenUp, Having
    <3>3. CASE RewriteGoal(p)
      <4>1. PICK h \in Goals, lanes \in Lanes :
              plan' = [plan EXCEPT !.goal[h].lanes = lanes]
        BY <3>3 DEF RewriteGoal, Write
      <4>2. plan'.goal[g].status = plan.goal[g].status
        BY <1>1, <4>1 DEF Plan
      <4>3. QED
        BY <1>1, <1>5, <4>2 DEF Settled, Having
    <3>4. QED
      BY <2>3, <3>1, <3>2, <3>3
  <2>4. CASE UNCHANGED plan
    BY <1>5, <2>4
  <2>5. QED
    BY <1>2, <1>3, <2>1, <2>2, <2>3, <2>4
       DEF Next, Advance, vars, Begin, NoActivePhase, Reload,
           RedispatchActive, DispatchGoal, RefuseEdit, Crash, TaskEnds,
           TaskReopens
<1>6. QED
  BY <1>4, <1>5

\* An open task has the lanes its goal has in the plan.
LEMMA OpenTasksHaveTheirLanes ==
  ASSUME TypeOK, PInv, WInv, [Next]_vars,
         ~clobbered', ~relaned', reopens' = 0, reopens = 0,
         NEW g \in Goals, task'[g].life = "active"
  PROVE  task'[g].lanes = LanesOf(plan', g)
<1>1. /\ ~clobbered
      /\ ~relaned
      /\ \A h \in Active(plan) : LanesOf(plan', h) = LanesOf(plan, h)
  BY StepsForward, LanesStay
<1>2. CASE task'[g] = task[g]
  <2>1. Open(g) /\ ~Ended(task[g]) /\ task[g].lanes = LanesOf(plan, g)
    BY <1>1, <1>2 DEF WInv, Open, Ended, Terminal
  <2>2. TakenUp(plan, g)
    BY <1>1, <2>1 DEF PInv, TaskHasAGoal, TakenUp, Having, Open
  <2>3. g \in Active(plan)
    BY <1>1, <2>1, <2>2, GoalOfOpenTask DEF Untouched, Open
  <2>4. QED
    BY <1>1, <1>2, <2>1, <2>3
<1>3. ASSUME NEW p \in Procs, DispatchGoal(p)
      PROVE  task'[g].lanes = LanesOf(plan', g)
  <2>1. PICK h \in Goals :
          /\ First(h, run[p].todo)
          /\ task' = [task EXCEPT
               ![h].life  = IF @ = "none" THEN "active" ELSE @,
               ![h].lanes = LanesOf(run[p].copy, h)]
    BY <1>3 DEF DispatchGoal
  <2>2. CASE h # g
    BY <1>2, <2>1, <2>2 DEF TypeOK
  <2>3. CASE h = g
    <3>1. ~Ended(task[g]) /\ task'[g].lanes = LanesOf(run[p].copy, g)
      BY <2>1, <2>3 DEF TypeOK, Ended, Terminal
    <3>2. /\ run[p].pc = "dispatch"
          /\ g \in HeldGoals(p)
      BY <1>3, <2>1, <2>3 DEF DispatchGoal, First, HeldGoals
    <3>3. TakenUp(plan, g)
      BY <1>1, <3>2 DEF PInv
    <3>4. g \in Active(plan)
      BY <1>1, <3>1, <3>2, <3>3, GoalOfOpenTask DEF Untouched
    <3>5. LanesOf(run[p].copy, g) = LanesOf(plan, g)
      BY <1>1, <3>2, <3>4 DEF WInv, LanesHeld
    <3>6. QED
      BY <1>1, <3>1, <3>4, <3>5
  <2>4. QED
    BY <2>2, <2>3
<1>4. ASSUME NEW h \in Goals, TaskEnds(h) \/ TaskReopens(h)
      PROVE  task'[g] = task[g]
  <2>1. TaskEnds(h)
    BY <1>4 DEF TaskReopens
  <2>2. PICK o \in Outcomes :
          task' = [task EXCEPT ![h].life = o.life, ![h].report = o.report]
    BY <2>1 DEF TaskEnds
  <2>3. o.life \in Terminal
    OBVIOUS
  <2>4. h # g
    BY <2>2, <2>3 DEF TypeOK, Terminal
  <2>5. QED
    BY <2>2, <2>4 DEF TypeOK
<1>5. CASE task' = task
  BY <1>2, <1>5
<1>6. QED
  BY <1>2, <1>3, <1>4, <1>5
     DEF Next, Advance, vars, Begin, StoreReconciled, NoActivePhase, Reload,
         RedispatchActive, CompletePhase, PromoteNext, PromoteReady,
         AppendGoal, RewriteGoal, RefuseEdit, Crash

\* Only a reopened task counts as one, and none is taken back.
LEMMA ReopensGrow ==
  ASSUME TypeOK, [Next]_vars, reopens' = 0 PROVE reopens = 0
<1>1. reopens \in Nat
  BY DEF TypeOK
<1>2. reopens' \in {reopens, reopens + 1}
  BY DEF Next, Advance, vars, Begin, StoreReconciled, NoActivePhase, Reload,
     RedispatchActive, CompletePhase, PromoteNext, PromoteReady, DispatchGoal,
     AppendGoal, RewriteGoal, RefuseEdit, Crash, TaskEnds, TaskReopens
<1>3. QED
  BY <1>1, <1>2

\* PInv is kept by every action.
LEMMA PInvInductive ==
  ASSUME TypeOK, PInv, [Next]_vars PROVE PInv'
<1>1. TaskHasAGoal'
  BY TasksFollow DEF TaskHasAGoal, Having, TakenUp
<1>2. ~clobbered' => \A p \in Procs :
        \A g \in HeldGoals(p)' : TakenUp(plan', g)
  BY HeldAreTakenUp
<1>3. QED
  BY <1>1, <1>2 DEF PInv, TakenUp

\* WInv is kept by every action.
LEMMA WInvInductive ==
  ASSUME TypeOK, PInv, WInv, [Next]_vars PROVE WInv'
<1> SUFFICES ASSUME ~clobbered', ~relaned', reopens' = 0
             PROVE  /\ \A g \in Settled(plan') : Ended(task'[g]) \/ Untouched(g)'
                    /\ \A g \in Goals : task'[g].life = "active" =>
                         task'[g].lanes = LanesOf(plan', g)
                    /\ \A p \in Procs : LanesHeld(p)'
  BY DEF WInv, Open, Settled, Having, LanesOf, Ended
<1>1. reopens = 0
  BY ReopensGrow
<1>2. QED
  BY <1>1, SettledHaveEnded, OpenTasksHaveTheirLanes, LanesAreHeld

(***************************************************************************)
(* No two workers at work may touch what the other owns, however many      *)
(* processes promote and dispatch, and wherever they die, until an update  *)
(* of the plan file is lost, an active goal edited or listed by hand, or a *)
(* task reopened.                                                          *)
(***************************************************************************)
THEOREM WorkersApart == Spec => []WorkersKeepApart
<1>1. Init => PInv
  BY DEF Init, PInv, TaskHasAGoal, Having, HeldGoals, Idle, NoTask
<1>2. Init => WInv
  BY DEF Init, WInv, Settled, Having, Open, NoTask, LanesHeld, Idle
<1>3. ASSUME TypeOK, PInv, WInv, GoalsKeepApart PROVE WorkersKeepApart
  <2> SUFFICES ASSUME ~clobbered, ~relaned, reopens = 0,
                      NEW g \in Goals, NEW h \in Goals, g # h,
                      Open(g), Open(h)
               PROVE  /\ task[h].lanes # {}
                      /\ task[g].lanes \cap task[h].lanes = {}
    BY DEF WorkersKeepApart
  <2>1. \A i \in {g, h} : ~Ended(task[i]) /\ task[i].lanes = LanesOf(plan, i)
    BY <1>3 DEF WInv, Open, Ended, Terminal
  <2>2. \A i \in {g, h} : TakenUp(plan, i)
    BY <1>3 DEF PInv, TaskHasAGoal, TakenUp, Having, Open
  <2>3. g \in Active(plan) /\ h \in Active(plan)
    BY <1>3, <2>1, <2>2, GoalOfOpenTask DEF Untouched, Open
  <2>4. QED
    BY <1>3, <2>1, <2>3 DEF GoalsKeepApart, Collide
<1>4. QED
  BY <1>1, <1>2, <1>3, PInvInductive, WInvInductive, TypeCorrect, GoalsApart,
     PTL DEF Spec
==========================================================================

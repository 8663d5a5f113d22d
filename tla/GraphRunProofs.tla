-------------------------- MODULE GraphRunProofs --------------------------
(***************************************************************************)
(* The LangGraph controller, first the objective plan it advances (Spec)   *)
(* and then the driver over it (DriverSpec), for any number of phases,     *)
(* goals, processes, rounds, crashes and deaths of the driver.             *)
(***************************************************************************)
EXTENDS GraphRun, FiniteSetTheorems, WellFoundedInduction, TLAPS

----------------------------------------------------------------------------
(***************************************************************************)
(* The phases of an objective agree with the phase plan files.             *)
(*                                                                         *)
(* A command writes back an objective it loaded earlier, so EntriesFollow- *)
(* Plans must hold of every copy too, and must survive what others do      *)
(* meanwhile: plan files are never removed, settled goals stay so, and     *)
(* a phase that was listed as active or done stays one that was.           *)
(***************************************************************************)

\* The objective `ob` agrees with the phase plan files.
Follows(ob) ==
  \A q \in Phases \ declared :
    /\ ob.entry[q] \in {"active", "done"} => q \in filed
    /\ ob.entry[q] = "done" => \A g \in GoalsOf(q) : goal[g] \in Settled

Carries(p) ==
  /\ run[p].pc \in {"loaded", "reloaded", "filed"} => Follows(run[p].copy)
  /\ run[p].pc = "filed" => run[p].target \in filed

FInv == TypeOK /\ Follows(objective) /\ \A p \in Procs : Carries(p)

----------------------------------------------------------------------------
(* Lemmas on the operators *)

LEMMA LeastNatural ==
  ASSUME NEW S \in SUBSET Nat, S # {}
  PROVE  \E n \in S : \A m \in S : n <= m
<1> DEFINE Upto == {0..k : k \in S}
<1>1. PICK n \in S : TRUE
  OBVIOUS
<1> DEFINE T == {X \in Upto : X \subseteq 0..n}
<1>2. T \subseteq FiniteSubsetsOf(0..n)
  <2>1. \A k \in S : IsFiniteSet(0..k)
    BY FS_Interval
  <2> QED
    BY <2>1 DEF FiniteSubsetsOf
<1>3. T # {}
  BY <1>1
<1>4. PICK X \in T : \A Y \in T : <<Y, X>> \notin StrictSubsetOrdering(0..n)
  <2> HIDE DEF T
  <2> QED
    BY <1>2, <1>3, FS_StrictSubsetOrderingWellFounded, WFMin
<1>5. PICK k \in S : X = 0..k
  OBVIOUS
<1>6. ASSUME NEW m \in S, m < k
      PROVE  FALSE
  <2>1. 0..m \in T
    BY <1>4, <1>5, <1>6
  <2>2. 0..m \subseteq X /\ k \in X /\ k \notin 0..m
    BY <1>5, <1>6
  <2>3. <<0..m, X>> \in StrictSubsetOrdering(0..n)
    BY <2>1, <2>2 DEF StrictSubsetOrdering
  <2> QED
    BY <1>4, <2>1, <2>3
<1> QED
  BY <1>6

\* Reconciling the phase plans settles active goals and nothing else.
LEMMA JudgedGoals ==
  ASSUME TypeOK
  PROVE  /\ Judged \in [Goals -> GoalStatus]
         /\ \A g \in Goals : goal[g] \in Settled => Judged[g] = goal[g]
         /\ \A q : JudgedOf(q) \in [Goals -> GoalStatus]
         /\ \A q : \A g \in Goals : JudgedOf(q)[g] \in {goal[g], Judged[g]}
<1>1. \A t : Classify(t) \in {"done", "blocked", "canceled"}
  BY DEF Classify
<1>2. /\ Judged \in [Goals -> GoalStatus]
      /\ \A g \in Goals : goal[g] \in Settled => Judged[g] = goal[g]
  BY <1>1 DEF TypeOK, Judged, GoalStatus, Settled
<1>3. ASSUME NEW q
      PROVE  /\ JudgedOf(q) \in [Goals -> GoalStatus]
             /\ \A g \in Goals : JudgedOf(q)[g] \in {goal[g], Judged[g]}
  BY <1>2 DEF TypeOK, JudgedOf
<1> QED
  BY <1>2, <1>3

\* The objective that reconciling makes of `ob`.
LEMMA ReconciledObjective ==
  ASSUME TypeOK, NEW ob \in Objective
  PROVE  /\ Reconciled(ob) \in Objective
         /\ Reconciled(ob).entry = EntriesJudged(ob)
<1> DEFINE entry  == EntriesJudged(ob)
           kept   == IF ob.current # None /\ Over(ob.current)
                     THEN None ELSE ob.current
           active == {q \in Phases : entry[q] = "active"}
           undone == {q \in Phases : entry[q] \notin Settled \cup {"absent"}}
           chosen == CHOOSE q \in active : Lowest(q, active)
<1>1. entry \in [Phases -> EntryStatus]
  BY DEF EntriesJudged, Objective, EntryStatus
<1>2. kept \in Phases \cup {None}
  BY DEF Objective
<1>3. active # {} => chosen \in Phases
  <2>1. active \in SUBSET Nat
    BY PhasesAssumption
  <2> HIDE DEF active
  <2>2. active # {} => \E q \in active : Lowest(q, active)
    BY <2>1, LeastNatural DEF Lowest
  <2>3. active # {} => chosen \in active
    BY <2>2
  <2> QED
    BY <2>3 DEF active
<1>4. Reconciled(ob) =
        [status  |-> IF undone = {} THEN "completed" ELSE "active",
         current |-> IF kept # None \/ active = {} THEN kept ELSE chosen,
         entry   |-> entry]
  BY DEF Reconciled
<1> HIDE DEF entry, kept, active, undone, chosen
<1>5. Reconciled(ob) \in Objective /\ Reconciled(ob).entry = entry
  BY <1>1, <1>2, <1>3, <1>4 DEF Objective
<1> QED
  BY <1>5 DEF entry

\* What a step may do to plan files and goals.
Onward ==
  /\ filed \subseteq filed' /\ declared \subseteq declared'
  /\ \A g \in Goals : goal[g] \in Settled => goal'[g] \in Settled

LEMMA FollowsOn ==
  ASSUME Onward, NEW ob, Follows(ob) PROVE Follows(ob)'
BY DEF Onward, Follows, GoalsOf

----------------------------------------------------------------------------
(* Steps *)

LEMMA InitFollows == Init => FInv
<1> SUFFICES ASSUME Init PROVE FInv
  OBVIOUS
<1>1. objective \in Objective
  BY FirstAssumption DEF Init, Objective
<1>2. run \in [Procs -> RunStates] /\ goal \in [Goals -> GoalStatus]
  BY DEF Init, RunStates, GoalStatus
<1>3. task \in [Goals -> [life : TerminalLife \cup {"none", "active"},
                          report : NewReports \cup {NoReport},
                          agents : BOOLEAN]]
  BY DEF Init, NoTask
<1>4. filed \in SUBSET Phases /\ crashes \in 0..MaxCrashes /\ clobbered \in BOOLEAN
  <2>1. crashes \in 0..MaxCrashes
    BY BoundAssumption DEF Init
  <2> QED
    BY <2>1 DEF Init
<1>5. Follows(objective) /\ declared \in SUBSET Phases
  BY DEF Init, Follows, Having, Taken
<1>6. \A p \in Procs : Carries(p)
  BY DEF Init, Carries, Idle
<1> QED
  BY <1>1, <1>2, <1>3, <1>4, <1>5, <1>6 DEF FInv, TypeOK

\* What a process loaded is typed.
LEMMA RunTyped ==
  ASSUME TypeOK, NEW p \in Procs
  PROVE  /\ run[p] \in RunStates
         /\ run[p].pc \in {"loaded", "reloaded", "filed"} =>
              run[p].copy \in Objective
         /\ run[p].pc \in {"summary", "reloaded", "filed"} =>
              run[p].seen \in Objective
         /\ run[p].pc = "filed" => run[p].target \in Phases
<1>1. run[p] \in RunStates
  BY DEF TypeOK
<1> QED
  BY <1>1 DEF RunStates, Idle

\* A step of process p that leaves the tasks alone: what has to be shown
\* of it.
LEMMA StepOf ==
  ASSUME FInv, NEW p \in Procs, NEW state \in RunStates,
         run' = [run EXCEPT ![p] = state], Onward,
         objective' \in Objective, filed' \in SUBSET Phases,
         goal' \in [Goals -> GoalStatus], task' = task,
         crashes' \in 0..MaxCrashes, clobbered' \in BOOLEAN,
         declared' \in SUBSET Phases,
         Follows(objective)', Carries(p)'
  PROVE  FInv'
<1>1. run' \in [Procs -> RunStates]
  BY DEF FInv, TypeOK
<1>2. TypeOK'
  BY <1>1 DEF FInv, TypeOK
<1>3. ASSUME NEW q \in Procs, q # p PROVE Carries(q)'
  <2>1. run'[q] = run[q] /\ Carries(q)
    BY <1>3 DEF FInv, TypeOK
  <2>2. PICK ob : ob = run[q].copy
    OBVIOUS
  <2>3. run[q].pc \in {"loaded", "reloaded", "filed"} => Follows(ob)'
    BY <2>1, <2>2, FollowsOn DEF Carries
  <2> QED
    BY <2>1, <2>2, <2>3 DEF Carries, Onward
<1> QED
  BY <1>2, <1>3 DEF FInv

\* Plans and goals stay, or the goals are reconciled.
LEMMA OnwardJudged ==
  ASSUME TypeOK, filed \subseteq filed', declared \subseteq declared',
         goal' \in {goal, Judged} \/ \E q \in Phases : goal' = JudgedOf(q)
  PROVE  Onward /\ goal' \in [Goals -> GoalStatus]
<1>1. goal \in [Goals -> GoalStatus]
  BY DEF TypeOK
<1>2. goal' \in [Goals -> GoalStatus]
      /\ \A g \in Goals : goal'[g] \in {goal[g], Judged[g]}
  BY <1>1, JudgedGoals
<1> QED
  BY <1>2, JudgedGoals DEF Onward

LEMMA StepBegin ==
  ASSUME FInv, NEW p \in Procs, NEW cmd \in Commands, Begin(p, cmd)
  PROVE  FInv'
<1>1. PICK ob : ob = objective
  OBVIOUS
<1>2. ob \in Objective /\ Follows(ob)
  BY <1>1 DEF FInv, TypeOK
<1>3. PICK state \in RunStates : state = [pc |-> "loaded", cmd |-> cmd, copy |-> ob]
  BY <1>2 DEF RunStates
<1>4. run' = [run EXCEPT ![p] = state]
      /\ UNCHANGED <<objective, filed, goal, task, crashes, clobbered, declared>>
  BY <1>1, <1>3 DEF Begin
<1>5. TypeOK
  BY DEF FInv
<1>6. Onward
  BY <1>4, <1>5, OnwardJudged
<1>7. Follows(ob)'
  BY <1>2, <1>6, FollowsOn
<1>8. Follows(objective)'
  BY <1>1, <1>4, <1>7
<1>9. Carries(p)'
  <2>1. run'[p] = state
    BY <1>4, <1>5 DEF TypeOK
  <2> QED
    BY <1>3, <1>7, <2>1 DEF Carries
<1> QED
  BY <1>3, <1>4, <1>5, <1>6, <1>8, <1>9, StepOf DEF TypeOK

\* The steps that write nothing but reconciled goals, and end the command.
LEMMA StepEnds ==
  ASSUME FInv, NEW p \in Procs,
         NoActiveObjective(p) \/ AlreadyActive(p) \/ RefuseEdit(p) \/ Crash(p)
  PROVE  FInv'
<1>1. TypeOK
  BY DEF FInv
<1>2. /\ run' = [run EXCEPT ![p] = Idle]
      /\ goal' \in {goal, Judged} \/ \E q \in Phases : goal' = JudgedOf(q)
      /\ UNCHANGED <<objective, filed, task, clobbered, declared>>
  BY DEF NoActiveObjective, AlreadyActive, RefuseEdit, Crash
<1>3. crashes' \in 0..MaxCrashes
  BY <1>1, BoundAssumption
  DEF NoActiveObjective, AlreadyActive, RefuseEdit, Crash, TypeOK
<1>4. Onward /\ goal' \in [Goals -> GoalStatus]
  BY <1>1, <1>2, OnwardJudged
<1>5. PICK ob : ob = objective
  OBVIOUS
<1>6. Follows(objective)'
  <2>1. Follows(ob)'
    BY <1>4, <1>5, FollowsOn DEF FInv
  <2> QED
    BY <1>2, <1>5, <2>1
<1>7. Idle \in RunStates
  BY DEF RunStates
<1>8. Carries(p)'
  <2>1. run'[p] = Idle
    BY <1>1, <1>2 DEF TypeOK
  <2> QED
    BY <2>1 DEF Carries, Idle
<1> QED
  BY <1>1, <1>2, <1>3, <1>4, <1>6, <1>7, <1>8, StepOf DEF TypeOK

\* The reconciled objective agrees with the reconciled goals.
LEMMA StepStoreReconciled ==
  ASSUME FInv, NEW p \in Procs, StoreReconciled(p)
  PROVE  FInv'
<1>1. TypeOK
  BY DEF FInv
<1>2. PICK ob, new : ob = run[p].copy /\ new = Reconciled(ob)
  OBVIOUS
<1>3. run[p].pc = "loaded" /\ ob \in Objective /\ Follows(ob)
  BY <1>1, <1>2, RunTyped DEF StoreReconciled, FInv, Carries
<1>4. PICK state : state = IF run[p].cmd = "status" THEN Idle
                           ELSE [pc |-> "summary", seen |-> new]
  OBVIOUS
<1>5. /\ run' = [run EXCEPT ![p] = state]
      /\ objective' = new /\ goal' = Judged
      /\ UNCHANGED <<filed, task, crashes, declared>>
      /\ clobbered' = (clobbered \/ objective # ob)
  BY <1>2, <1>4 DEF StoreReconciled, Write
<1>6. new \in Objective /\ new.entry = EntriesJudged(ob)
  BY <1>1, <1>2, <1>3, ReconciledObjective
<1>7. state \in RunStates /\ state.pc \in {"idle", "summary"}
  BY <1>4, <1>6 DEF RunStates, Idle
<1>8. Onward /\ goal' \in [Goals -> GoalStatus]
  BY <1>1, <1>5, OnwardJudged
<1>9. Follows(ob)'
  BY <1>3, <1>8, FollowsOn
<1>10. Follows(new)'
  <2>1. ASSUME NEW q \in Phases, q \in filed, Over(q)
        PROVE  \A g \in GoalsOf(q) : goal'[g] \in Settled
    BY <1>5, <2>1 DEF Over
  <2>2. \A q \in Phases : new.entry[q] =
          IF q # ob.current \/ q \notin filed THEN ob.entry[q]
          ELSE IF Over(q) THEN "done" ELSE "active"
    BY <1>6 DEF EntriesJudged
  <2> QED
    BY <1>5, <1>9, <2>1, <2>2 DEF Follows, GoalsOf
<1>11. Follows(objective)'
  BY <1>5, <1>10
<1>12. Carries(p)'
  <2>1. run'[p] = state
    BY <1>1, <1>5 DEF TypeOK
  <2> QED
    BY <1>7, <2>1 DEF Carries
<1>13. clobbered' \in BOOLEAN
  BY <1>5
<1> QED
  BY <1>1, <1>5, <1>6, <1>7, <1>8, <1>11, <1>12, <1>13, StepOf DEF TypeOK

LEMMA StepReload ==
  ASSUME FInv, NEW p \in Procs, Reload(p)
  PROVE  FInv'
<1>1. TypeOK
  BY DEF FInv
<1>2. PICK ob : ob = objective
  OBVIOUS
<1>3. ob \in Objective /\ Follows(ob) /\ run[p].seen \in Objective
  BY <1>1, <1>2, RunTyped DEF FInv, TypeOK, Reload
<1>4. PICK state \in RunStates :
        state = [pc |-> "reloaded", seen |-> run[p].seen, copy |-> ob]
  BY <1>3 DEF RunStates
<1>5. run' = [run EXCEPT ![p] = state]
      /\ UNCHANGED <<objective, filed, goal, task, crashes, clobbered, declared>>
  BY <1>2, <1>4 DEF Reload
<1>6. Onward
  BY <1>1, <1>5, OnwardJudged
<1>7. Follows(ob)'
  BY <1>3, <1>6, FollowsOn
<1>8. Follows(objective)'
  BY <1>2, <1>5, <1>7
<1>9. Carries(p)'
  <2>1. run'[p] = state
    BY <1>1, <1>5 DEF TypeOK
  <2> QED
    BY <1>4, <1>7, <2>1 DEF Carries
<1> QED
  BY <1>1, <1>4, <1>5, <1>6, <1>8, <1>9, StepOf DEF TypeOK

\* A phase is listed with some status.
LEMMA Appended ==
  ASSUME NEW p \in Procs, AppendPhase(p)
  PROVE  /\ run[p].pc = "loaded"
         /\ run' = [run EXCEPT ![p] = Idle]
         /\ UNCHANGED <<filed, goal, task, crashes>>
         /\ \E q \in Phases, s \in EntryStatus :
              /\ Lowest(q, Having(run[p].copy, {"absent"}))
              /\ \A r \in Phases \ Having(run[p].copy, {"absent"}) : r < q
              /\ objective' = [run[p].copy EXCEPT !.status = "active",
                                                 !.entry[q] = s]
              /\ s # "absent"
              /\ declared' = declared \cup TakenBy(q, s)
         /\ clobbered' = (clobbered \/ objective # run[p].copy)
<1>1. \A s \in First \ {"absent"} : s \in EntryStatus /\ s # "absent"
  BY FirstAssumption
<1> QED
  BY <1>1, Zenon DEF AppendPhase, Write

\* A copy is written back, with another status, with a further phase or as
\* it was.
LEMMA StepWritesCopy ==
  ASSUME FInv, NEW p \in Procs,
         CompleteObjective(p) \/ AppendPhase(p) \/ RewritePhase(p)
  PROVE  FInv'
<1>1. TypeOK
  BY DEF FInv
<1>2. PICK ob : ob = run[p].copy
  OBVIOUS
<1>3. run[p].pc \in {"loaded", "reloaded"}
  BY Appended DEF CompleteObjective, RewritePhase
<1>4. ob \in Objective /\ Follows(ob)
  BY <1>1, <1>2, <1>3, RunTyped DEF FInv, Carries
<1>5. /\ run' = [run EXCEPT ![p] = Idle]
      /\ goal' \in {goal, Judged}
      /\ UNCHANGED <<filed, task, crashes>>
      /\ clobbered' \in BOOLEAN
  BY <1>1, Appended DEF CompleteObjective, RewritePhase, Write, TypeOK
<1>6. \/ /\ declared' = declared
         /\ objective' \in {[ob EXCEPT !.status = "completed"], ob}
      \/ \E q \in Phases, s \in EntryStatus :
           /\ objective' = [ob EXCEPT !.status = "active", !.entry[q] = s]
           /\ declared' = declared \cup TakenBy(q, s)
  <2>1. CASE AppendPhase(p)
    <3>1. PICK q \in Phases, s \in EntryStatus :
            /\ objective' = [run[p].copy EXCEPT !.status = "active", !.entry[q] = s]
            /\ declared' = declared \cup TakenBy(q, s)
      BY <2>1, Appended, Zenon
    <3>2. objective' = [ob EXCEPT !.status = "active", !.entry[q] = s]
      BY <1>2, <3>1
    <3> QED
      BY <3>1, <3>2, Zenon
  <2>2. CASE CompleteObjective(p) \/ RewritePhase(p)
    BY <1>2, <2>2 DEF CompleteObjective, RewritePhase, Write
  <2> QED
    BY <2>1, <2>2
<1>7. objective' \in Objective
  <2>1. CASE objective' = [ob EXCEPT !.status = "completed"]
    BY <1>4, <2>1 DEF Objective
  <2>2. ASSUME NEW q \in Phases, NEW s \in EntryStatus,
               objective' = [ob EXCEPT !.status = "active", !.entry[q] = s]
        PROVE  objective' \in Objective
    <3>1. [ob.entry EXCEPT ![q] = s] \in [Phases -> EntryStatus]
      BY <1>4 DEF Objective
    <3>2. objective' = [status |-> "active", current |-> ob.current,
                        entry |-> [ob.entry EXCEPT ![q] = s]]
      BY <1>4, <2>2 DEF Objective
    <3> QED
      BY <1>4, <3>1, <3>2 DEF Objective
  <2> QED
    BY <1>4, <1>6, <2>1, <2>2
<1>8. declared \subseteq declared' /\ declared' \in SUBSET Phases
  BY <1>1, <1>6 DEF TypeOK, TakenBy
<1>9. Onward /\ goal' \in [Goals -> GoalStatus]
  BY <1>1, <1>5, <1>8, OnwardJudged
<1>10. Follows(ob)'
  BY <1>4, <1>9, FollowsOn
<1>11. \A q \in Phases \ declared' :
         objective'.entry[q] = ob.entry[q] \/ objective'.entry[q] \notin Taken
  <2>1. CASE objective' \in {[ob EXCEPT !.status = "completed"], ob}
    BY <1>4, <2>1 DEF Objective
  <2>2. ASSUME NEW q \in Phases, NEW s \in EntryStatus,
               objective' = [ob EXCEPT !.status = "active", !.entry[q] = s],
               declared' = declared \cup TakenBy(q, s),
               NEW r \in Phases \ declared'
        PROVE  objective'.entry[r] = ob.entry[r] \/ objective'.entry[r] \notin Taken
    <3>1. objective'.entry = [ob.entry EXCEPT ![q] = s]
      BY <1>4, <2>2 DEF Objective
    <3>2. objective'.entry[r] = IF r = q THEN s ELSE ob.entry[r]
      BY <1>4, <3>1 DEF Objective
    <3> QED
      BY <2>2, <3>2 DEF TakenBy
  <2> QED
    BY <1>6, <2>1, <2>2
<1>12. Follows(objective)'
  BY <1>10, <1>11 DEF Follows, Taken
<1>13. Carries(p)'
  <2>1. run'[p] = Idle
    BY <1>1, <1>5 DEF TypeOK
  <2> QED
    BY <2>1 DEF Carries, Idle
<1>14. Idle \in RunStates
  BY DEF RunStates
<1> QED
  BY <1>1, <1>5, <1>7, <1>9, <1>12, <1>13, <1>14, <1>8, StepOf DEF TypeOK

\* The phase plan is there before the objective says so.
LEMMA StepMakePhasePlan ==
  ASSUME FInv, NEW p \in Procs, MakePhasePlan(p)
  PROVE  FInv'
<1>1. TypeOK
  BY DEF FInv
<1>2. PICK q \in Phases :
        /\ filed' = filed \cup {q} /\ goal' = JudgedOf(q)
        /\ run' = [run EXCEPT ![p] = [pc |-> "filed", target |-> q,
                     seen |-> run[p].seen, copy |-> run[p].copy]]
  BY DEF MakePhasePlan
<1>3. /\ run[p].pc = "reloaded"
      /\ UNCHANGED <<objective, task, crashes, clobbered, declared>>
  BY DEF MakePhasePlan
<1>4. PICK ob, seen : ob = run[p].copy /\ seen = run[p].seen
  OBVIOUS
<1>5. ob \in Objective /\ seen \in Objective /\ Follows(ob)
  BY <1>1, <1>3, <1>4, RunTyped DEF FInv, Carries
<1>6. PICK state \in RunStates :
        state = [pc |-> "filed", target |-> q, seen |-> seen, copy |-> ob]
  BY <1>5 DEF RunStates
<1>7. run' = [run EXCEPT ![p] = state]
  BY <1>2, <1>4, <1>6
<1>8. Onward /\ goal' \in [Goals -> GoalStatus]
  BY <1>1, <1>2, <1>3, OnwardJudged
<1>9. PICK old : old = objective
  OBVIOUS
<1>10. Follows(ob)' /\ Follows(old)'
  BY <1>5, <1>8, <1>9, FollowsOn DEF FInv
<1>11. Follows(objective)'
  BY <1>3, <1>9, <1>10
<1>12. Carries(p)'
  <2>1. run'[p] = state
    BY <1>1, <1>7 DEF TypeOK
  <2> QED
    BY <1>2, <1>6, <1>10, <2>1 DEF Carries
<1>13. filed' \in SUBSET Phases
  BY <1>1, <1>2 DEF TypeOK
<1> QED
  BY <1>1, <1>3, <1>6, <1>7, <1>8, <1>11, <1>12, <1>13, StepOf DEF TypeOK

LEMMA StepStorePromoted ==
  ASSUME FInv, NEW p \in Procs, StorePromoted(p)
  PROVE  FInv'
<1>1. TypeOK
  BY DEF FInv
<1>2. PICK ob, q : ob = run[p].copy /\ q = run[p].target
  OBVIOUS
<1>3. /\ ob \in Objective /\ Follows(ob) /\ q \in Phases /\ q \in filed
  BY <1>1, <1>2, RunTyped DEF StorePromoted, FInv, Carries
<1>4. /\ run' = [run EXCEPT ![p] = Idle]
      /\ objective' = [status |-> "active", current |-> q,
                       entry |-> [ob.entry EXCEPT ![q] = "active"]]
      /\ goal' = Judged
      /\ UNCHANGED <<filed, task, crashes, declared>>
      /\ clobbered' \in BOOLEAN
  BY <1>1, <1>2 DEF StorePromoted, TypeOK
<1>5. objective' \in Objective
  BY <1>3, <1>4 DEF Objective, EntryStatus
<1>6. Onward /\ goal' \in [Goals -> GoalStatus]
  BY <1>1, <1>4, OnwardJudged
<1>7. Follows(ob)'
  BY <1>3, <1>6, FollowsOn
<1>8. \A r \in Phases :
        \/ objective'.entry[r] = ob.entry[r]
        \/ r = q /\ objective'.entry[r] = "active"
  BY <1>3, <1>4 DEF Objective
<1>9. Follows(objective)'
  BY <1>3, <1>4, <1>7, <1>8 DEF Follows
<1>10. Carries(p)'
  <2>1. run'[p] = Idle
    BY <1>1, <1>4 DEF TypeOK
  <2> QED
    BY <2>1 DEF Carries, Idle
<1>11. Idle \in RunStates
  BY DEF RunStates
<1> QED
  BY <1>1, <1>4, <1>5, <1>6, <1>9, <1>10, <1>11, StepOf DEF TypeOK

\* A step on goals and tasks.
LEMMA StepOnGoals ==
  ASSUME FInv, NEW g \in Goals,
         PromoteGoal(g) \/ TaskReports(g) \/ TaskEnds(g) \/ SetAgents(g)
  PROVE  FInv'
<1>1. TypeOK
  BY DEF FInv
<1>2. UNCHANGED <<objective, filed, run, crashes, clobbered, declared>>
  BY DEF PromoteGoal, TaskReports, TaskEnds, SetAgents
<1>3. task' \in [Goals -> [life : TerminalLife \cup {"none", "active"},
                           report : NewReports \cup {NoReport},
                           agents : BOOLEAN]]
  <2>1. CASE PromoteGoal(g)
    <3>1. task' = [task EXCEPT ![g].life = IF @ = "none" THEN "active" ELSE @]
      BY <2>1 DEF PromoteGoal
    <3> QED
      BY <1>1, <3>1 DEF TypeOK
  <2>2. CASE TaskReports(g)
    BY <1>1, <2>2 DEF TaskReports, TypeOK
  <2>3. CASE TaskEnds(g)
    BY <1>1, <2>3 DEF TaskEnds, TypeOK, TerminalLife
  <2>4. CASE SetAgents(g)
    BY <1>1, <2>4 DEF SetAgents, TypeOK
  <2> QED
    BY <2>1, <2>2, <2>3, <2>4
<1>4. goal' \in [Goals -> GoalStatus]
      /\ \A h \in Goals : goal[h] \in Settled => goal'[h] \in Settled
  <2>1. CASE PromoteGoal(g)
    <3>1. goal' = [Judged EXCEPT ![g] = "active"] /\ Judged[g] = "pending"
      BY <2>1 DEF PromoteGoal, Lowest
    <3>2. goal[g] \notin Settled
      BY <1>1, <3>1, JudgedGoals DEF Settled
    <3> QED
      BY <1>1, <3>1, <3>2, JudgedGoals DEF GoalStatus, Settled
  <2>2. CASE TaskReports(g) \/ TaskEnds(g) \/ SetAgents(g)
    BY <1>1, <2>2 DEF TaskReports, TaskEnds, SetAgents, TypeOK
  <2> QED
    BY <2>1, <2>2
<1>5. Onward
  BY <1>2, <1>4 DEF Onward
<1>6. TypeOK'
  BY <1>1, <1>2, <1>3, <1>4 DEF TypeOK
<1>7. PICK ob : ob = objective
  OBVIOUS
<1>8. Follows(objective)'
  <2>1. Follows(ob)'
    BY <1>5, <1>7, FollowsOn DEF FInv
  <2> QED
    BY <1>2, <1>7, <2>1
<1>9. ASSUME NEW p \in Procs PROVE Carries(p)'
  <2>1. PICK copy : copy = run[p].copy
    OBVIOUS
  <2>2. run[p].pc \in {"loaded", "reloaded", "filed"} => Follows(copy)'
    BY <1>5, <2>1, FollowsOn DEF FInv, Carries
  <2> QED
    BY <1>2, <2>1, <2>2 DEF FInv, Carries
<1> QED
  BY <1>6, <1>8, <1>9 DEF FInv

LEMMA StepFollows == FInv /\ [Next]_vars => FInv'
<1> SUFFICES ASSUME FInv, [Next]_vars PROVE FInv'
  OBVIOUS
<1>1. CASE UNCHANGED vars
  BY <1>1 DEF vars, FInv, TypeOK, RunStates, Follows, Carries
<1> QED
  BY <1>1, StepBegin, StepEnds, StepStoreReconciled, StepReload,
     StepWritesCopy, StepMakePhasePlan, StepStorePromoted, StepOnGoals
  DEF Next, Advance

\* Type correctness (reconcile_objective_plan and the commands on it).
THEOREM TypeCorrect == Spec => []TypeOK
<1>1. FInv => TypeOK
  BY DEF FInv
<1> QED
  BY <1>1, InitFollows, StepFollows, PTL DEF Spec

\* An active or finished phase has its plan file, and a finished one only
\* settled goals in it (promote_next_objective_phase, which may die between
\* the phase plan and the objective).
THEOREM PhasesFollowPlans == Spec => []EntriesFollowPlans
<1>1. FInv => EntriesFollowPlans
  BY DEF FInv, Follows, EntriesFollowPlans
<1> QED
  BY <1>1, InitFollows, StepFollows, PTL DEF Spec

----------------------------------------------------------------------------
(***************************************************************************)
(* One phase at a time, and tasks in the order of the phases.  As long as  *)
(* no write was based on an old plan, each write takes the plan on disk    *)
(* further and never back, so what a promotion saw in the summary is at    *)
(* worst behind: a phase that it saw passed is still passed.               *)
(***************************************************************************)

Passed == {"done", "blocked", "canceled"}

\* The phases that are listed come first (append_objective_phase).
ListedFirst(ob) ==
  \A q, r \in Phases : q < r /\ ob.entry[q] = "absent" => ob.entry[r] = "absent"

\* `new` is as far as `ob`, or further.
Advanced(ob, new) ==
  \A q \in Phases :
    /\ ob.entry[q] \in Passed => new.entry[q] \in Passed
    /\ ob.entry[q] # "absent" => new.entry[q] # "absent"

InOrder(ob) ==
  /\ \A q \in Having(ob, {"active"}) \ declared : q = ob.current
  /\ \A q \in Having(ob, Taken) \ declared, r \in Having(ob, {"pending"}) : q < r
  /\ ob.current # None => ob.entry[ob.current] = "active"

Ready(ob) == ListedFirst(ob) /\ InOrder(ob)

\* A phase gets its plan file once all phases before it have passed.
FiledInOrder ==
  \A q \in filed :
    /\ objective.entry[q] # "absent"
    /\ \A r \in Phases : r < q => objective.entry[r] \in Passed

\* What a promotion goes by.
Saw(p) ==
  /\ run[p].pc \in {"summary", "reloaded", "filed"} =>
       ListedFirst(run[p].seen) /\ Advanced(run[p].seen, objective)
  /\ run[p].pc = "filed" =>
       /\ Having(run[p].seen, {"active"}) = {}
       /\ Lowest(run[p].target, Having(run[p].seen, {"pending"}))

\* A task belongs to a plan file; a task that is not there has no sub-agents.
TasksFiled ==
  \A g \in Goals :
    /\ task[g].life # "none" => PhaseOf[g] \in filed
    /\ task[g].agents => task[g].life # "none"

OInv ==
  /\ TypeOK
  /\ TasksFiled
  /\ ~clobbered => Ready(objective) /\ FiledInOrder /\ \A p \in Procs : Saw(p)

LEMMA AdvancedFurther ==
  ASSUME NEW a, NEW b, NEW c, Advanced(a, b), Advanced(b, c)
  PROVE  Advanced(a, c)
BY DEF Advanced

\* What has to be shown of a step of process p.
LEMMA OrderStep ==
  ASSUME OInv, TypeOK', NEW p \in Procs, NEW state,
         run' = [run EXCEPT ![p] = state], task' = task, filed \subseteq filed',
         clobbered => clobbered',
         ~clobbered' => /\ Ready(objective)'
                        /\ Advanced(objective, objective')
                        /\ FiledInOrder'
                        /\ Saw(p)'
  PROVE  OInv'
<1>1. TasksFiled'
  BY DEF OInv, TasksFiled
<1>2. ASSUME ~clobbered', NEW q \in Procs, q # p PROVE Saw(q)'
  <2>1. run'[q] = run[q] /\ Saw(q)
    BY <1>2 DEF OInv, TypeOK
  <2>2. run[q].pc \in {"summary", "reloaded", "filed"} =>
          Advanced(run[q].seen, objective')
    BY <1>2, <2>1, AdvancedFurther DEF Saw
  <2> QED
    BY <2>1, <2>2 DEF Saw
<1> QED
  BY <1>1, <1>2 DEF OInv

LEMMA AdvancesItself == ASSUME NEW ob PROVE Advanced(ob, ob)
BY DEF Advanced

\* Plan files stay in order while the objective advances.
LEMMA FilesStayInOrder ==
  ASSUME TypeOK, FiledInOrder, Advanced(objective, objective'), filed' = filed
  PROVE  FiledInOrder'
BY DEF FiledInOrder, Advanced, TypeOK

\* A step that leaves objective and plan files alone.
LEMMA OrderStays ==
  ASSUME OInv, UNCHANGED <<objective, filed, clobbered, declared>>
  PROVE  /\ clobbered => clobbered'
         /\ ~clobbered' => /\ Ready(objective)'
                           /\ Advanced(objective, objective')
                           /\ FiledInOrder'
<1>1. Advanced(objective, objective')
  BY AdvancesItself
<1>2. ~clobbered => Ready(objective)' /\ FiledInOrder'
  BY DEF OInv, Ready, ListedFirst, InOrder, Having, FiledInOrder
<1> QED
  BY <1>1, <1>2

\* The steps that begin or end a command, or read the plan again.
LEMMA OrderOnReads ==
  ASSUME OInv, TypeOK', NEW p \in Procs,
         \/ \E cmd \in Commands : Begin(p, cmd)
         \/ NoActiveObjective(p) \/ AlreadyActive(p) \/ RefuseEdit(p)
         \/ Crash(p) \/ Reload(p)
  PROVE  OInv'
<1>1. TypeOK
  BY DEF OInv
<1>2. UNCHANGED <<objective, filed, task, clobbered, declared>>
  BY DEF Begin, NoActiveObjective, AlreadyActive, RefuseEdit, Crash, Reload
<1>3. PICK state : run' = [run EXCEPT ![p] = state]
  BY DEF Begin, NoActiveObjective, AlreadyActive, RefuseEdit, Crash, Reload
<1>4. run'[p] = state
  BY <1>1, <1>3 DEF TypeOK
<1>5. \/ state.pc \in {"idle", "loaded"}
      \/ run[p].pc = "summary" /\ state.pc = "reloaded" /\ state.seen = run[p].seen
  BY <1>1, <1>4
  DEF Begin, NoActiveObjective, AlreadyActive, RefuseEdit, Crash, Reload, Idle, TypeOK
<1>6. ~clobbered => Saw(p)'
  BY <1>2, <1>4, <1>5 DEF OInv, Saw
<1> QED
  BY <1>2, <1>3, <1>6, OrderStays, OrderStep

\* Reconciling the plan on disk finishes the current phase or leaves all
\* as it is.
LEMMA ReconciledInOrder ==
  ASSUME TypeOK, NEW ob \in Objective, Ready(ob)
  PROVE  Ready(Reconciled(ob)) /\ Advanced(ob, Reconciled(ob))
<1> DEFINE entry  == EntriesJudged(ob)
           kept   == IF ob.current # None /\ Over(ob.current)
                     THEN None ELSE ob.current
           active == {q \in Phases : entry[q] = "active"}
           undone == {q \in Phases : entry[q] \notin Settled \cup {"absent"}}
           chosen == CHOOSE q \in active : Lowest(q, active)
<1>1. PICK new : new = Reconciled(ob)
  OBVIOUS
<1>2. new.entry = entry
      /\ new.current = IF kept # None \/ active = {} THEN kept ELSE chosen
  BY <1>1 DEF Reconciled
<1>3. \A q \in Phases :
        \/ entry[q] = ob.entry[q]
        \/ q = ob.current /\ entry[q] \in {"active", "done"}
  BY DEF EntriesJudged
<1>4. \A q \in Phases : q = ob.current => ob.entry[q] = "active"
  BY PhasesAssumption DEF Ready, InOrder, None
<1>5. \A q \in Phases :
        \/ entry[q] = ob.entry[q]
        \/ ob.entry[q] = "active" /\ entry[q] = "done"
  BY <1>3, <1>4
<1>6. active # {} => chosen \in active
  <2>1. active \in SUBSET Nat
    BY PhasesAssumption
  <2> HIDE DEF active
  <2>2. active # {} => \E q \in active : Lowest(q, active)
    BY <2>1, LeastNatural DEF Lowest
  <2> QED
    BY <2>2
<1>7. kept # None => kept \in Phases /\ entry[kept] = "active"
  <2> SUFFICES ASSUME kept # None PROVE kept \in Phases /\ entry[kept] = "active"
    OBVIOUS
  <2>1. kept = ob.current /\ ob.current \in Phases /\ ~Over(ob.current)
    BY DEF Objective
  <2>2. entry[ob.current] \in {ob.entry[ob.current], "active"}
    BY <2>1 DEF EntriesJudged
  <2> QED
    BY <1>4, <2>1, <2>2
<1>8. new.current # None => entry[new.current] = "active"
  <2> HIDE DEF kept, chosen, entry
  <2> QED
    BY <1>2, <1>6, <1>7
<1> HIDE DEF entry, kept, active, undone, chosen
<1>9. Having(new, {"active"}) \subseteq Having(ob, {"active"})
      /\ Having(new, Taken) \subseteq Having(ob, Taken)
      /\ Having(new, {"pending"}) \subseteq Having(ob, {"pending"})
  BY <1>2, <1>5 DEF Having, Taken
<1>10. ASSUME NEW q \in Having(new, {"active"}) \ declared PROVE q = new.current
  <2>1. q = ob.current /\ q \in Phases /\ entry[q] = "active"
    BY <1>2, <1>9, <1>10 DEF Ready, InOrder, Having
  <2>2. q # None
    BY <2>1, PhasesAssumption DEF None
  <2>3. ~Over(q)
    BY <2>1 DEF entry, EntriesJudged, Over
  <2>4. kept = q
    BY <2>1, <2>3 DEF kept
  <2> QED
    BY <1>2, <2>2, <2>4
<1>11. InOrder(new)
  BY <1>2, <1>8, <1>9, <1>10 DEF Ready, InOrder
<1>12. ListedFirst(new) /\ Advanced(ob, new)
  BY <1>2, <1>5 DEF Ready, ListedFirst, Advanced, Passed
<1> QED
  BY <1>1, <1>11, <1>12 DEF Ready

LEMMA OrderOnStoreReconciled ==
  ASSUME OInv, TypeOK', NEW p \in Procs, StoreReconciled(p)
  PROVE  OInv'
<1>1. TypeOK
  BY DEF OInv
<1>2. PICK new : new = Reconciled(run[p].copy)
  OBVIOUS
<1>3. PICK state : state = IF run[p].cmd = "status" THEN Idle
                           ELSE [pc |-> "summary", seen |-> new]
  OBVIOUS
<1>4. /\ run' = [run EXCEPT ![p] = state]
      /\ objective' = new
      /\ UNCHANGED <<filed, task, declared>>
      /\ clobbered' = (clobbered \/ objective # run[p].copy)
  BY <1>2, <1>3 DEF StoreReconciled, Write
<1>5. run'[p] = state
  BY <1>1, <1>4 DEF TypeOK
<1>6. ASSUME ~clobbered'
      PROVE  Ready(objective)' /\ Advanced(objective, objective')
               /\ FiledInOrder' /\ Saw(p)'
  <2>1. ~clobbered /\ new = Reconciled(objective) /\ objective \in Objective
    BY <1>1, <1>2, <1>4, <1>6 DEF TypeOK
  <2>2. Ready(objective) /\ FiledInOrder
    BY <2>1 DEF OInv
  <2>3. Ready(new) /\ Advanced(objective, new)
    BY <1>1, <2>1, <2>2, ReconciledInOrder
  <2>4. Ready(objective)'
    BY <1>4, <2>3 DEF Ready, InOrder, ListedFirst, Having
  <2>5. FiledInOrder'
    BY <1>1, <1>4, <2>2, <2>3, FilesStayInOrder
  <2>6. state.pc = "summary" => state.seen = new
    BY <1>3 DEF Idle
  <2>7. state.pc \in {"idle", "summary"}
    BY <1>3 DEF Idle
  <2>8. Saw(p)'
    BY <1>4, <1>5, <2>3, <2>6, <2>7, AdvancesItself DEF Saw, Ready
  <2> QED
    BY <1>4, <2>3, <2>4, <2>5, <2>8
<1> QED
  BY <1>4, <1>6, OrderStep

\* The plan on disk with another status, with a further phase, or as it was.
LEMMA OrderOnWritesCopy ==
  ASSUME OInv, TypeOK', NEW p \in Procs,
         CompleteObjective(p) \/ AppendPhase(p) \/ RewritePhase(p)
  PROVE  OInv'
<1>1. TypeOK
  BY DEF OInv
<1>2. PICK ob : ob = run[p].copy
  OBVIOUS
<1>3. /\ run' = [run EXCEPT ![p] = Idle]
      /\ UNCHANGED <<filed, task>>
      /\ ~clobbered' => ~clobbered /\ objective = ob
  BY <1>2, Appended DEF CompleteObjective, RewritePhase, Write
<1>4. \/ /\ declared' = declared
         /\ objective' \in {[ob EXCEPT !.status = "completed"], ob}
      \/ \E q \in Phases, s \in EntryStatus :
           /\ Lowest(q, Having(ob, {"absent"}))
           /\ \A r \in Phases \ Having(ob, {"absent"}) : r < q
           /\ objective' = [ob EXCEPT !.status = "active", !.entry[q] = s]
           /\ s # "absent"
           /\ declared' = declared \cup TakenBy(q, s)
  <2>1. CASE AppendPhase(p)
    <3>1. PICK q \in Phases, s \in EntryStatus :
            /\ Lowest(q, Having(run[p].copy, {"absent"}))
            /\ \A r \in Phases \ Having(run[p].copy, {"absent"}) : r < q
            /\ objective' = [run[p].copy EXCEPT !.status = "active", !.entry[q] = s]
            /\ s # "absent"
            /\ declared' = declared \cup TakenBy(q, s)
      BY <2>1, Appended, Zenon
    <3>2. objective' = [ob EXCEPT !.status = "active", !.entry[q] = s]
      BY <1>2, <3>1
    <3>3. /\ Lowest(q, Having(ob, {"absent"}))
          /\ \A r \in Phases \ Having(ob, {"absent"}) : r < q
      BY <1>2, <3>1, Zenon
    <3> QED
      BY <3>1, <3>2, <3>3, Zenon
  <2>2. CASE CompleteObjective(p) \/ RewritePhase(p)
    BY <1>2, <2>2 DEF CompleteObjective, RewritePhase, Write
  <2> QED
    BY <2>1, <2>2
<1>5. ASSUME ~clobbered'
      PROVE  Ready(objective)' /\ Advanced(objective, objective') /\ FiledInOrder'
  <2>1. ~clobbered /\ objective = ob /\ ob \in Objective
    BY <1>1, <1>3, <1>5 DEF TypeOK
  <2>2. Ready(ob) /\ FiledInOrder
    BY <2>1 DEF OInv
  <2>3. CASE /\ declared' = declared
             /\ objective' \in {[ob EXCEPT !.status = "completed"], ob}
    <3>1. objective'.entry = ob.entry /\ objective'.current = ob.current
      BY <2>1, <2>3 DEF Objective
    <3>2. Ready(objective)' /\ Advanced(ob, objective')
      BY <2>2, <2>3, <3>1 DEF Ready, ListedFirst, InOrder, Having, Advanced
    <3> QED
      BY <1>1, <1>3, <2>1, <2>2, <3>2, FilesStayInOrder
  <2>4. ASSUME NEW q \in Phases, NEW s \in EntryStatus, s # "absent",
               Lowest(q, Having(ob, {"absent"})),
               \A r \in Phases \ Having(ob, {"absent"}) : r < q,
               objective' = [ob EXCEPT !.status = "active", !.entry[q] = s],
               declared' = declared \cup TakenBy(q, s)
        PROVE  Ready(objective)' /\ Advanced(ob, objective')
    <3>1. PICK new : new = objective'
      OBVIOUS
    <3>2. new = [status |-> "active", current |-> ob.current,
                 entry |-> [ob.entry EXCEPT ![q] = s]]
      BY <2>1, <2>4, <3>1 DEF Objective
    <3>3. /\ new.current = ob.current
          /\ \A r \in Phases : new.entry[r] = IF r = q THEN s ELSE ob.entry[r]
      BY <2>1, <3>2 DEF Objective
    <3>4. ob.entry[q] = "absent" /\ \A r \in Phases : ob.entry[r] = "absent" => q <= r
      BY <2>4 DEF Lowest, Having
    <3>5. \A r \in Phases : ob.entry[r] # "absent" => r < q
      BY <2>4 DEF Having
    <3>6. /\ Having(new, {"active"}) \ declared' = Having(ob, {"active"}) \ declared
          /\ Having(new, Taken) \ declared' = Having(ob, Taken) \ declared
          /\ Having(new, {"pending"}) \subseteq Having(ob, {"pending"}) \cup {q}
      <4>1. s \in Taken => q \in declared'
        BY <2>4 DEF TakenBy
      <4>2. \A r \in Phases : r # q => (r \in declared' <=> r \in declared)
        BY <2>4 DEF TakenBy
      <4>3. \A r \in Phases : r = q => ob.entry[r] = "absent"
        BY <3>4
      <4> QED
        BY <3>3, <4>1, <4>2, <4>3 DEF Having, Taken
    <3>7. \A r \in Having(ob, Taken) : r < q
      BY <3>5 DEF Having, Taken
    <3>8. new.current # None => new.entry[new.current] = "active"
      BY <2>1, <2>2, <3>3, <3>4 DEF Ready, InOrder, Objective
    <3>9. /\ \A r \in Having(new, {"active"}) \ declared' : r = new.current
          /\ \A r \in Having(new, Taken) \ declared', t \in Having(new, {"pending"}) :
               r < t
      BY <2>2, <3>3, <3>6, <3>7 DEF Ready, InOrder
    <3>10. InOrder(objective)'
      BY <3>1, <3>8, <3>9 DEF InOrder, Having
    <3>11. ListedFirst(new)
      BY <2>4, <3>3, <3>4, <3>5, PhasesAssumption DEF ListedFirst
    <3>12. Advanced(ob, new)
      BY <2>4, <3>3, <3>4 DEF Advanced, Passed
    <3>13. ListedFirst(objective)'
      BY <3>1, <3>11 DEF ListedFirst
    <3> QED
      BY <3>1, <3>10, <3>12, <3>13 DEF Ready
  <2> QED
    BY <1>1, <1>3, <1>4, <2>1, <2>2, <2>3, <2>4, FilesStayInOrder
<1>6. run'[p] = Idle
  BY <1>1, <1>3 DEF TypeOK
<1>7. Saw(p)'
  BY <1>6 DEF Saw, Idle
<1>8. clobbered => clobbered'
  BY Appended DEF CompleteObjective, RewritePhase, Write
<1> QED
  BY <1>3, <1>5, <1>7, <1>8, OrderStep

\* All phases before the first pending one have passed, on disk too.
LEMMA OrderOnMakePhasePlan ==
  ASSUME OInv, TypeOK', NEW p \in Procs, MakePhasePlan(p)
  PROVE  OInv'
<1>1. TypeOK
  BY DEF OInv
<1>2. PICK seen : seen = run[p].seen
  OBVIOUS
<1>3. PICK q \in Phases :
        /\ Lowest(q, Having(seen, {"pending"}))
        /\ filed' = filed \cup {q}
        /\ run' = [run EXCEPT ![p] = [pc |-> "filed", target |-> q,
                     seen |-> seen, copy |-> run[p].copy]]
  BY <1>2 DEF MakePhasePlan
<1>4. /\ run[p].pc = "reloaded" /\ Having(seen, {"active"}) = {}
      /\ UNCHANGED <<objective, task, clobbered, declared>>
  BY <1>2 DEF MakePhasePlan
<1>5. seen \in Objective
  BY <1>1, <1>2, <1>4, RunTyped
<1>6. run'[p] = [pc |-> "filed", target |-> q, seen |-> seen, copy |-> run[p].copy]
  BY <1>1, <1>3 DEF TypeOK
<1>7. ASSUME ~clobbered PROVE FiledInOrder' /\ Saw(p)'
  <2>1. ListedFirst(seen) /\ Advanced(seen, objective) /\ FiledInOrder
    BY <1>2, <1>4, <1>7 DEF OInv, Saw
  <2>2. seen.entry[q] = "pending"
    BY <1>3 DEF Lowest, Having
  <2>3. ASSUME NEW r \in Phases, r < q PROVE seen.entry[r] \in Passed
    <3>1. r \in Nat /\ q \in Nat
      BY PhasesAssumption
    <3>2. seen.entry[r] \notin {"absent", "active", "pending"}
      BY <1>3, <1>4, <2>1, <2>2, <2>3, <3>1 DEF ListedFirst, Lowest, Having
    <3> QED
      BY <1>5, <3>2 DEF Objective, EntryStatus, Passed
  <2>4. /\ objective.entry[q] # "absent"
        /\ \A r \in Phases : r < q => objective.entry[r] \in Passed
    BY <2>1, <2>2, <2>3 DEF Advanced
  <2>5. FiledInOrder'
    BY <1>3, <1>4, <2>1, <2>4 DEF FiledInOrder
  <2> QED
    BY <1>3, <1>4, <1>6, <2>1, <2>5 DEF Saw
<1>8. Advanced(objective, objective') /\ (~clobbered => Ready(objective)')
  BY <1>4, AdvancesItself DEF OInv, Ready, ListedFirst, InOrder, Having
<1> QED
  BY <1>3, <1>4, <1>7, <1>8, OrderStep

\* The plan that is written is the one that was seen, with its first
\* pending phase active and no other.
LEMMA OrderOnStorePromoted ==
  ASSUME OInv, TypeOK', NEW p \in Procs, StorePromoted(p)
  PROVE  OInv'
<1>1. TypeOK
  BY DEF OInv
<1>2. PICK new, q : q = run[p].target
        /\ new = [status |-> "active", current |-> q,
                  entry |-> [run[p].copy.entry EXCEPT ![q] = "active"]]
  OBVIOUS
<1>3. /\ run' = [run EXCEPT ![p] = Idle]
      /\ objective' = new
      /\ UNCHANGED <<filed, task, declared>>
      /\ clobbered' = (clobbered \/ objective # run[p].copy
                                 \/ objective # run[p].seen)
  BY <1>2 DEF StorePromoted
<1>4. q \in Phases
  BY <1>1, <1>2, RunTyped DEF StorePromoted
<1>5. ASSUME ~clobbered'
      PROVE  Ready(objective)' /\ Advanced(objective, objective') /\ FiledInOrder'
  <2>1. PICK ob \in Objective : ob = objective
    BY <1>1 DEF TypeOK
  <2>2. ~clobbered /\ run[p].copy = ob /\ run[p].seen = ob
    BY <1>3, <1>5, <2>1
  <2>3. Ready(ob) /\ FiledInOrder
    BY <2>1, <2>2 DEF OInv
  <2>4. Having(ob, {"active"}) = {} /\ Lowest(q, Having(ob, {"pending"}))
    BY <1>2, <2>2 DEF OInv, Saw, StorePromoted
  <2>5. \A r \in Phases : new.entry[r] = IF r = q THEN "active" ELSE ob.entry[r]
    BY <1>2, <1>4, <2>2 DEF Objective
  <2>6. /\ q \in Having(ob, {"pending"})
        /\ \A r \in Having(ob, {"pending"}) : q <= r
    BY <2>4 DEF Lowest
  <2>7. /\ Having(new, {"active"}) = {q}
        /\ Having(new, Taken) = Having(ob, {"done"}) \cup {q}
        /\ Having(new, {"pending"}) = Having(ob, {"pending"}) \ {q}
    BY <1>4, <2>4, <2>5 DEF Having, Taken
  <2>8. \A r \in Having(ob, {"pending"}) \ {q} : q < r
    BY <2>6, PhasesAssumption DEF Having
  <2>9. Having(ob, {"done"}) \subseteq Having(ob, Taken)
    BY DEF Having, Taken
  <2>10. InOrder(new)
    BY <1>2, <1>4, <2>3, <2>5, <2>7, <2>8, <2>9 DEF Ready, InOrder
  <2>11. ob.entry[q] = "pending"
    BY <2>6 DEF Having
  <2>12. ListedFirst(new) /\ Advanced(ob, new)
    BY <2>3, <2>5, <2>11 DEF Ready, ListedFirst, Advanced, Passed
  <2> QED
    BY <1>1, <1>3, <2>1, <2>3, <2>10, <2>12, FilesStayInOrder
    DEF Ready, ListedFirst, InOrder, Having
<1>6. run'[p] = Idle
  BY <1>1, <1>3 DEF TypeOK
<1>7. Saw(p)'
  BY <1>6 DEF Saw, Idle
<1> QED
  BY <1>3, <1>5, <1>7, OrderStep

\* Tasks are created in phases that have a plan file.
LEMMA OrderOnGoals ==
  ASSUME OInv, TypeOK', NEW g \in Goals,
         PromoteGoal(g) \/ TaskReports(g) \/ TaskEnds(g) \/ SetAgents(g)
  PROVE  OInv'
<1>1. UNCHANGED <<objective, filed, run, clobbered, declared>>
  BY DEF PromoteGoal, TaskReports, TaskEnds, SetAgents
<1>2. TasksFiled'
  <2>1. ASSUME NEW h \in Goals, task'[h].life # "none"
        PROVE  task[h].life # "none" \/ PhaseOf[h] \in filed
    BY <2>1 DEF OInv, TypeOK, PromoteGoal, TaskReports, TaskEnds, SetAgents
  <2>2. ASSUME NEW h \in Goals, task'[h].agents
        PROVE  task'[h].life # "none"
    BY <2>2 DEF OInv, TasksFiled, TypeOK, TerminalLife, PromoteGoal, TaskReports, TaskEnds, SetAgents
  <2> QED
    BY <1>1, <2>1, <2>2 DEF OInv, TasksFiled
<1>3. ~clobbered => \A p \in Procs : Saw(p)'
  BY <1>1 DEF OInv, Saw
<1> QED
  BY <1>1, <1>2, <1>3, OrderStays DEF OInv

LEMMA InitInOrder == Init => OInv
<1> SUFFICES ASSUME Init PROVE OInv
  OBVIOUS
<1>1. TypeOK
  BY InitFollows DEF FInv
<1>2. TasksFiled /\ FiledInOrder /\ \A p \in Procs : Saw(p)
  BY DEF Init, TasksFiled, NoTask, FiledInOrder, Saw, Idle
<1>3. Having(objective, {"active"}) \subseteq declared
      /\ Having(objective, Taken) \subseteq declared
  BY DEF Init, Having, Taken
<1>4. Ready(objective)
  BY <1>3 DEF Init, Ready, ListedFirst, InOrder
<1> QED
  BY <1>1, <1>2, <1>4 DEF OInv

LEMMA StepInOrder == OInv /\ TypeOK' /\ [Next]_vars => OInv'
<1> SUFFICES ASSUME OInv, TypeOK', [Next]_vars PROVE OInv'
  OBVIOUS
<1>1. CASE UNCHANGED vars
  <2>1. UNCHANGED <<objective, filed, task, run, clobbered, declared>>
    BY <1>1 DEF vars
  <2>2. TasksFiled' /\ (~clobbered => \A p \in Procs : Saw(p)')
    BY <2>1 DEF OInv, TasksFiled, Saw
  <2> QED
    BY <2>1, <2>2, OrderStays DEF OInv
<1> QED
  BY <1>1, OrderOnReads, OrderOnStoreReconciled, OrderOnWritesCopy,
     OrderOnMakePhasePlan, OrderOnStorePromoted, OrderOnGoals DEF Next, Advance

\* As long as no write was based on an old plan, the plan on disk only
\* moves on, in order.
THEOREM OrderInvariance == Spec => []OInv
<1>1. OInv /\ TypeOK' /\ [Next]_vars => OInv'
  BY StepInOrder
<1> QED
  BY <1>1, InitInOrder, TypeCorrect, PTL DEF Spec

\* The current phase and no other is active and none is taken up before an
\* earlier one, with any number of promotions and edits under way and wherever
\* they die (promote_next_objective_phase), until a stale plan is written
\* back; phases that were listed as active or done aside.
THEOREM PhasesTakeTurns == Spec => []OnePhaseAtATime
<1>1. ASSUME OInv, ~clobbered
      PROVE  Having(objective, {"active"}) \ declared
               = {objective.current} \ ({None} \cup declared)
  <2>1. \A q \in Having(objective, {"active"}) \ declared : q = objective.current
    BY <1>1 DEF OInv, Ready, InOrder
  <2>2. None \notin Having(objective, {"active"})
    BY PhasesAssumption DEF Having, None
  <2>3. objective.current # None => objective.current \in Having(objective, {"active"})
    BY <1>1 DEF OInv, TypeOK, Objective, Ready, InOrder, Having
  <2> QED
    BY <2>1, <2>2, <2>3
<1>2. OInv => OnePhaseAtATime
  BY <1>1 DEF OInv, Ready, InOrder, OnePhaseAtATime
<1> QED
  BY <1>2, OrderInvariance, PTL

\* A task of a later phase exists only once all earlier phases have passed,
\* although a crashed promotion may leave a plan file behind.
THEOREM TasksFollowPhases == Spec => []TasksInPhaseOrder
<1>1. ASSUME OInv PROVE TasksInPhaseOrder
  BY <1>1 DEF OInv, TasksFiled, FiledInOrder, TasksInPhaseOrder, Passed
<1> QED
  BY <1>1, OrderInvariance, PTL

----------------------------------------------------------------------------
(* What the stop gate lets pass *)

\* The results that build_stop_gate_report looks at, without a task id.
Own(card) ==
  OfInterest(TaskResults) \cup {CardResult(c) : c \in card}
    \cup {PhaseResult(s) : s \in PhaseSummaries}
Asked(card)      == \E r \in Own(card) : AsksUser(r)
AllResults(card) ==
  Own(card) \cup {ObjectiveResult(s, Asked(card)) : s \in ObjectiveSummaries}

LEMMA GateLooksAtAll ==
  ASSUME NEW card, Gate(card, FALSE).stop
  PROVE  /\ \A r \in AllResults(card) : r.stop
         /\ (\E r \in AllResults(card) : AsksUser(r))
              => Gate(card, FALSE).outcome = "user_handoff_allowed"
<1> DEFINE all      == AllResults(card)
           blockers == {r.outcome : r \in {b \in all : ~b.stop}} \cup {}
           gates    == {r \in all : AsksUser(r)}
<1>1. /\ Gate(card, FALSE).stop <=> blockers = {}
      /\ Gate(card, FALSE).outcome =
           IF blockers # {} THEN "must_continue"
           ELSE IF gates # {} THEN "user_handoff_allowed"
           ELSE IF all = {} THEN "no_active_work"
           ELSE "all_tracked_work_terminal"
  BY DEF Gate, GateReport, AllResults, Own, Asked
<1> HIDE DEF blockers, gates
<1>2. blockers = {}
  BY <1>1
<1>3. gates # {} => Gate(card, FALSE).outcome = "user_handoff_allowed"
  BY <1>1, <1>2
<1>4. \A r \in all : r.stop
  BY <1>2 DEF blockers
<1> QED
  BY <1>3, <1>4 DEF gates

\* A task that does not block the gate has ended or waits for the user.
LEMMA TaskLetsStop ==
  ASSUME TypeOK, NEW g \in Goals, task[g].life # "none",
         TaskResult(Snapshot(g)).stop
  PROVE  /\ ~task[g].agents
         /\ task[g].life = "active" =>
              task[g].report.needsUser \/ task[g].report.ready
                \/ task[g].report.mode = "wait_user"
<1>1. PICK life, report : life = task[g].life /\ report = task[g].report
  OBVIOUS
<1>2. PICK t : t = [life |-> life, phase |-> PhaseOfTask(g),
                    agents |-> task[g].agents]
  OBVIOUS
<1>3. TaskResult(t).stop
  BY <1>1, <1>2 DEF Snapshot
<1>4. ~t.agents
  BY <1>3 DEF TaskResult, Blocks
<1>5. life = "active" => Handoff(t.phase) \in UserHandoffs
  BY <1>2, <1>3, <1>4 DEF TaskResult, Blocks, TerminalLife
<1>6. Handoff(t.phase) \in UserHandoffs =>
        t.phase \in {"pending_user", "ready_for_user_delivery"}
  BY DEF Handoff, UserHandoffs
<1>7. life = "active" => t.phase = ActivePhase(Packet, report)
  BY <1>1, <1>2 DEF PhaseOfTask, Phase
<1>8. ActivePhase(Packet, report) = "pending_user" =>
        report.needsUser \/ report.mode = "wait_user"
  BY DEF ActivePhase, UserRequired, ContinuationMode, NoReport, Unset
<1>9. ActivePhase(Packet, report) = "ready_for_user_delivery" => report.ready
  BY DEF ActivePhase
<1> QED
  BY <1>1, <1>2, <1>4, <1>5, <1>6, <1>7, <1>8, <1>9

LEMMA StopIsIdle == OInv => StopMeansIdle
<1> SUFFICES ASSUME OInv, NEW card \in SUBSET {"pending_user", "open"},
                    Gate(card, FALSE).stop
             PROVE  /\ \A g \in Goals :
                         /\ ~task[g].agents
                         /\ task[g].life = "active" =>
                              task[g].report.needsUser \/ task[g].report.ready
                                \/ task[g].report.mode = "wait_user"
                         /\ PhaseOf[g] \in filed => Judged[g] \in Settled
                    /\ Having(Reconciled(objective), {"pending", "active"}) # {} =>
                         Gate(card, FALSE).outcome = "user_handoff_allowed"
  BY DEF StopMeansIdle
<1>1. \A r \in AllResults(card) : r.stop
  BY GateLooksAtAll
<1>2. ASSUME NEW g \in Goals
      PROVE  /\ ~task[g].agents
             /\ task[g].life = "active" =>
                  task[g].report.needsUser \/ task[g].report.ready
                    \/ task[g].report.mode = "wait_user"
  <2>1. CASE task[g].life = "none"
    BY <2>1 DEF OInv, TasksFiled
  <2>2. CASE task[g].life # "none"
    <3>1. TaskResult(Snapshot(g)) \in TaskResults
      BY <2>2 DEF TaskResults
    <3>2. TaskResult(Snapshot(g)).stop
      BY <1>1, <3>1 DEF AllResults, Own, OfInterest
    <3> QED
      BY <2>2, <3>2, TaskLetsStop DEF OInv
  <2> QED
    BY <2>1, <2>2
<1>3. ASSUME NEW g \in Goals, PhaseOf[g] \in filed
      PROVE  Judged[g] \in Settled
  <2>1. PICK q \in filed : q = PhaseOf[g]
    BY <1>3
  <2>2. g \in GoalsOf(q)
    BY <2>1 DEF GoalsOf
  <2>3. CASE Over(q)
    BY <2>2, <2>3 DEF Over
  <2>4. CASE ~Over(q)
    <3>1. PICK s : s = [status |-> "active",
                        remaining |-> \E h \in GoalsOf(q) : Judged[h] \notin Settled]
      OBVIOUS
    <3>2. s \in PhaseSummaries
      BY <2>4, <3>1 DEF PhaseSummaries
    <3>3. PhaseResult(s).stop
      BY <1>1, <3>2 DEF AllResults, Own
    <3>4. ~s.remaining
      BY <3>1, <3>3 DEF PhaseResult, Blocks
    <3> QED
      BY <2>2, <3>1, <3>4
  <2> QED
    BY <2>3, <2>4
<1>4. ASSUME Having(Reconciled(objective), {"pending", "active"}) # {}
      PROVE  Gate(card, FALSE).outcome = "user_handoff_allowed"
  <2>1. Reconciled(objective).status # "completed"
    <3>1. PICK q \in Phases : Reconciled(objective).entry[q] \in {"pending", "active"}
      BY <1>4 DEF Having
    <3>2. EntriesJudged(objective)[q] \in {"pending", "active"}
      BY <3>1 DEF Reconciled
    <3> QED
      BY <3>2 DEF Reconciled, Settled
  <2>2. PICK s \in ObjectiveSummaries : s.remaining
    BY <2>1 DEF ObjectiveSummaries
  <2>3. PICK r \in AllResults(card) : r = ObjectiveResult(s, Asked(card))
    BY <2>2 DEF AllResults
  <2>4. r.stop
    BY <1>1, <2>3
  <2>5. CASE s.current \in {"blocked", "pending_user"}
    <3>1. AsksUser(r)
      BY <2>3, <2>5 DEF ObjectiveResult, Allows, AsksUser, UserGates
    <3> QED
      BY <2>3, <3>1, GateLooksAtAll
  <2>6. CASE s.current \notin {"blocked", "pending_user"}
    <3>1. Asked(card)
      BY <2>2, <2>3, <2>4, <2>6 DEF ObjectiveResult, Blocks
    <3> QED
      BY <3>1, GateLooksAtAll DEF Asked, AllResults
  <2> QED
    BY <2>5, <2>6
<1> QED
  BY <1>2, <1>3, <1>4

\* When the stop gate opens without a task id, nothing runs and nothing
\* could be started, or the user was asked (build_stop_gate_report).
THEOREM StopsAreIdle == Spec => []StopMeansIdle
BY StopIsIdle, OrderInvariance, PTL

----------------------------------------------------------------------------
(***************************************************************************)
(* No goal is handed to a worker twice.  What carries it is the lease: a   *)
(* goal that was launched keeps its lease, and the dispatch node is        *)
(* reached only by taking a lease nobody had.                              *)
(***************************************************************************)

\* The thread is a record that holds a goal's packet, or none.
ThreadOK ==
  /\ DOMAIN graph = {"task", "packet", "report", "stop", "cont", "mode",
                     "ingest", "closure"}
  /\ graph.packet \in Goals \cup {None}

\* A launched goal has its lease; a leased packet in front of the dispatch
\* node is not launched yet.
LeaseGuards ==
  /\ launches \in [Goals -> 0..1]
  /\ \A g \in Goals : launches[g] = 1 => g \in leased
  /\ at \in {"assign", "dispatch"} => graph.packet \in Goals
  /\ at = "dispatch" => graph.packet \in leased /\ launches[graph.packet] = 0

GInv == ThreadOK /\ LeaseGuards

\* What most steps leave alone.
Quiet ==
  /\ UNCHANGED <<launches, leased>>
  /\ DOMAIN graph' = DOMAIN graph
  /\ graph'.packet \in {graph.packet, None}
  /\ at' \notin {"assign", "dispatch"} \/ UNCHANGED <<graph, at>>

LEMMA QuietSteps == GInv /\ Quiet => GInv'
<1> SUFFICES ASSUME GInv, Quiet
             PROVE  GInv'
  OBVIOUS
<1>1. CASE at' \notin {"assign", "dispatch"}
  BY <1>1 DEF GInv, ThreadOK, LeaseGuards, Quiet
<1>2. CASE UNCHANGED <<graph, at>>
  BY <1>2 DEF GInv, ThreadOK, LeaseGuards, Quiet
<1> QED
  BY <1>1, <1>2 DEF Quiet

----------------------------------------------------------------------------
(* The steps that touch a packet, a lease or a launch *)

LEMMA RoundKeeps == GInv /\ BeginRound => GInv'
<1> SUFFICES ASSUME GInv, BeginRound
             PROVE  GInv'
  OBVIOUS
<1> USE DEF GInv, ThreadOK, LeaseGuards
<1>1. /\ DOMAIN graph' = DOMAIN graph /\ graph'.packet = graph.packet
      /\ UNCHANGED <<launches, leased>>
  BY DEF BeginRound, world
<1>2. at' # "dispatch" /\ (at' = "assign" => graph.packet # None)
  <2>1. \A r, p, q : Route(r, p, q) # "dispatch"
                       /\ (Route(r, p, q) = "assign" => p # None)
    BY DEF Route
  <2> QED
    BY <2>1 DEF BeginRound
<1> QED
  BY <1>1, <1>2

LEMMA PromotionKeeps == GInv /\ (PromoteNext \/ TakeUpAgain) => GInv'
<1> SUFFICES ASSUME GInv, PromoteNext \/ TakeUpAgain
             PROVE  GInv'
  OBVIOUS
<1> PICK g \in Goals : graph' = [graph EXCEPT !.task = g, !.packet = g]
  BY DEF PromoteNext, TakeUpAgain
<1>1. DOMAIN graph' = DOMAIN graph /\ graph'.packet = g
  BY DEF GInv, ThreadOK
<1>2. at' = "assign" /\ UNCHANGED <<launches, leased>>
  BY DEF PromoteNext, TakeUpAgain, world
<1> QED
  BY <1>1, <1>2 DEF GInv, ThreadOK, LeaseGuards

LEMMA AssignmentKeeps == GInv /\ Assign => GInv'
<1> SUFFICES ASSUME GInv, Assign
             PROVE  GInv'
  OBVIOUS
<1> DEFINE g == graph.packet
<1>1. g \in Goals /\ UNCHANGED launches
  BY DEF GInv, LeaseGuards, Assign
<1>2. DOMAIN graph' = DOMAIN graph /\ graph'.packet = g
  BY DEF GInv, ThreadOK, Assign
<1>3. CASE at' = "after" /\ UNCHANGED leased
  BY <1>1, <1>2, <1>3 DEF GInv, ThreadOK, LeaseGuards
<1>4. CASE at' = "dispatch" /\ g \notin leased /\ leased' = leased \cup {g}
  <2>1. launches[g] = 0
    BY <1>1, <1>4 DEF GInv, LeaseGuards
  <2> QED
    BY <1>1, <1>2, <1>4, <2>1 DEF GInv, ThreadOK, LeaseGuards
<1> QED
  BY <1>3, <1>4 DEF Assign

LEMMA DispatchKeeps == GInv /\ (DispatchWindow \/ DispatchScript) => GInv'
<1> SUFFICES ASSUME GInv, DispatchWindow \/ DispatchScript
             PROVE  GInv'
  OBVIOUS
<1> DEFINE g == graph.packet
<1>1. g \in Goals /\ g \in leased /\ launches[g] = 0
  BY DEF GInv, LeaseGuards, DispatchWindow, DispatchScript
<1>2. at' \in {"after", "ingest"} /\ UNCHANGED leased
  BY DEF DispatchWindow, DispatchScript
<1>3. DOMAIN graph' = DOMAIN graph /\ graph'.packet \in {g, None}
  BY DEF GInv, ThreadOK, DispatchWindow, DispatchScript
<1>4. \/ UNCHANGED launches
      \/ launches' = [launches EXCEPT ![g] = @ + 1]
  BY DEF DispatchWindow, DispatchScript
<1>5. /\ launches' \in [Goals -> 0..1]
      /\ \A h \in Goals : launches'[h] = 1 => h \in leased
  BY <1>1, <1>4 DEF GInv, LeaseGuards
<1> QED
  BY <1>1, <1>2, <1>3, <1>5 DEF GInv, ThreadOK, LeaseGuards

----------------------------------------------------------------------------
(* The other steps *)

LEMMA RunsAreQuiet ==
  ASSUME GInv, StartRun \/ Resume \/ Finish \/ DriverDies
  PROVE  Quiet
<1> USE DEF GInv, ThreadOK, Quiet
<1>1. CASE StartRun
  <2>1. PICK g \in Goals \cup {None} : graph' = [Empty EXCEPT !.task = g]
    BY <1>1, Zenon DEF StartRun
  <2>2. DOMAIN graph' = DOMAIN graph /\ graph'.packet = None
    BY <2>1 DEF Empty
  <2> QED
    BY <1>1, <2>2 DEF StartRun
<1>2. CASE Resume
  BY <1>2 DEF Resume, world
<1>3. CASE Finish
  BY <1>3 DEF Finish, Final, world
<1>4. CASE DriverDies
  BY <1>4 DEF DriverDies
<1> QED
  BY <1>1, <1>2, <1>3, <1>4

LEMMA NodesAreQuiet ==
  ASSUME GInv, PromotePhase \/ Ingest \/ RejectReport \/ Close \/ Archive
                 \/ HandOff
  PROVE  Quiet
<1> USE DEF GInv, ThreadOK, Quiet
<1>1. CASE PromotePhase
  BY <1>1 DEF PromotePhase, world
<1>2. CASE Ingest
  <2>1. \A phase : NodeAfter(phase) \notin {"assign", "dispatch"}
    BY DEF NodeAfter
  <2> QED
    BY <1>2, <2>1 DEF Ingest
<1>3. CASE RejectReport
  BY <1>3 DEF RejectReport, world
<1>4. CASE Close
  BY <1>4 DEF Close, world
<1>5. CASE Archive
  BY <1>5 DEF Archive, world
<1>6. CASE HandOff
  BY <1>6 DEF HandOff, world
<1> QED
  BY <1>1, <1>2, <1>3, <1>4, <1>5, <1>6

LEMMA RoundEndsAreQuiet ==
  ASSUME GInv, StopHere \/ ReportArrives \/ WaitEnds \/ PickUpReport
                 \/ GoOnInternally
  PROVE  Quiet
<1>1. UNCHANGED <<graph, launches, leased>>
  BY DEF StopHere, ReportArrives, WaitEnds, PickUpReport, GoOnInternally, world
<1>2. at' \in {"round", "finish"}
  BY DEF StopHere, ReportArrives, WaitEnds, PickUpReport, GoOnInternally,
         NextRound, EndCall
<1> QED
  BY <1>1, <1>2 DEF Quiet

LEMMA OthersAreQuiet ==
  ASSUME \/ \E g \in Goals : WorkerWrites(g) \/ CommanderCancels(g)
         \/ CommanderAppends
         \/ UNCHANGED allVars
  PROVE  Quiet
BY DEF Quiet, WorkerWrites, CommanderCancels, CommanderAppends, driverVars,
       allVars

----------------------------------------------------------------------------

LEMMA GInvInit == DriverInit => GInv
BY DEF DriverInit, GInv, ThreadOK, LeaseGuards, Empty

LEMMA GInvNext == GInv /\ [DriverNext]_allVars => GInv'
<1> SUFFICES ASSUME GInv, [DriverNext]_allVars
             PROVE  GInv'
  OBVIOUS
<1>1. CASE Drive
  BY <1>1, QuietSteps, RoundKeeps, PromotionKeeps, AssignmentKeeps,
     DispatchKeeps, RunsAreQuiet, NodesAreQuiet, RoundEndsAreQuiet DEF Drive
<1>2. CASE Resume \/ DriverDies
  BY <1>2, QuietSteps, RunsAreQuiet
<1>3. CASE \/ \E g \in Goals : WorkerWrites(g) \/ CommanderCancels(g)
           \/ CommanderAppends
           \/ UNCHANGED allVars
  BY <1>3, QuietSteps, OthersAreQuiet
<1> QED
  BY <1>1, <1>2, <1>3 DEF DriverNext

(***************************************************************************)
(* The invariant behind LaunchesAreSingle: launched goals keep their lease *)
(* (assign_worker_owner and dispatch_worker_node).                         *)
(***************************************************************************)
THEOREM LaunchInvariance == DriverSpec => []GInv
BY GInvInit, GInvNext, PTL DEF DriverSpec

(***************************************************************************)
(* No goal gets a second worker window and no script runs twice: the       *)
(* lease outlives its driver, its report and every retry of the packet.    *)
(***************************************************************************)
THEOREM LaunchesAreSingle == DriverSpec => []LaunchedOnce
<1>1. GInv => LaunchedOnce
  BY DEF GInv, LeaseGuards, LaunchedOnce
<1> QED
  BY <1>1, LaunchInvariance, PTL

----------------------------------------------------------------------------
(***************************************************************************)
(* The driver's state stays well formed.  The report the ingest node sees  *)
(* is some goal's: it comes with the round, or straight from a script.     *)
(***************************************************************************)

Threads ==
  [task : Goals \cup {None}, packet : Goals \cup {None}, report : Message,
   stop : BOOLEAN, cont : BOOLEAN,
   mode : {"none", "commander_internal", "wait_external_result",
           "user_handoff", "terminal"},
   ingest : Result, closure : Result]

TInv ==
  /\ DriverTypeOK
  /\ at \notin {"idle", "ingest"} => graph.report = NoMessage
  /\ at = "ingest" => graph.report.goal \in Goals /\ graph.report.body # NoReport
  /\ at \notin {"idle", "round"} => pending = NoMessage
  /\ at = "round" /\ pending # NoMessage =>
       pending.goal \in Goals /\ pending.body # NoReport

LEMMA ReportKinds ==
  /\ NoReport \notin NewReports /\ Invalid \notin NewReports
  /\ Invalid # NoReport
  /\ NewReports \subseteq SchemaReports
<1>1. /\ \A r \in SchemaReports : r.status \in {"done", "blocked", "need_split"}
      /\ NoReport.status = "none" /\ Invalid.status = "invalid"
  BY DEF SchemaReports, Reports, NoReport, Invalid
<1> QED
  BY <1>1, ReportsAssumption

\* What ingesting a report makes of its task.
LEMMA IngestedPhase ==
  ASSUME TypeOK, NEW g \in Goals, NEW r \in NewReports
  PROVE  Phase(task[g].life, Packet, r) \in
           Lifecycles \cup UserPhases \cup
             {"none", "needs_commander_decision", "blocked", "ready_to_close"}
<1>1. task[g].life \in TerminalLife \cup {"none", "active"}
  BY DEF TypeOK
<1>2. r.status \in {"done", "blocked", "need_split"}
  BY ReportKinds DEF SchemaReports, Reports
<1>3. ActivePhase(Packet, r) \in
        UserPhases \cup {"needs_commander_decision", "blocked", "ready_to_close"}
  BY <1>2 DEF ActivePhase, UserPhases
<1> QED
  BY <1>1, <1>3 DEF Phase, TerminalLife, Lifecycles

LEMMA GateTyped ==
  ASSUME NEW g
  PROVE  /\ TheGate(g).stop \in BOOLEAN
         /\ TheGate(g).mode \in {"commander_internal", "wait_external_result",
                                 "user_handoff", "terminal"}
BY DEF TheGate, Gate, GateFor, GateReport

\* Reconciling, as a round does before all else.
LEMMA SettleTyped ==
  ASSUME TypeOK, Settle
  PROVE  objective' \in Objective /\ goal' \in [Goals -> GoalStatus]
BY JudgedGoals, ReconciledObjective DEF Settle, TypeOK

LEMMA PromoteTyped ==
  ASSUME TypeOK, NEW g \in Goals, PromoteGoal(g)
  PROVE  /\ goal' \in [Goals -> GoalStatus]
         /\ task' \in [Goals -> [life : TerminalLife \cup {"none", "active"},
                                 report : NewReports \cup {NoReport},
                                 agents : BOOLEAN]]
<1>1. Judged \in [Goals -> GoalStatus]
  BY JudgedGoals
<1> HIDE DEF Judged
<1>2. goal' \in [Goals -> GoalStatus]
  BY <1>1 DEF PromoteGoal, GoalStatus
<1>3. task' = [task EXCEPT ![g].life = IF @ = "none" THEN "active" ELSE @]
  BY DEF PromoteGoal
<1> QED
  BY <1>2, <1>3 DEF TypeOK

\* A cycle of the daemon promotes several goals at once.
LEMMA PromotedTyped ==
  ASSUME TypeOK, NEW S, Promoted(S)
  PROVE  /\ goal' \in [Goals -> GoalStatus]
         /\ task' \in [Goals -> [life : TerminalLife \cup {"none", "active"},
                                 report : NewReports \cup {NoReport},
                                 agents : BOOLEAN]]
<1>1. Judged \in [Goals -> GoalStatus]
  BY JudgedGoals
<1>2. goal' = [g \in Goals |-> IF g \in S THEN "active" ELSE Judged[g]]
  BY DEF Promoted
<1> HIDE DEF Judged
<1>3. goal' \in [Goals -> GoalStatus]
  BY <1>1, <1>2 DEF GoalStatus
<1>4. task' = [g \in Goals |->
                IF g \in S /\ task[g].life = "none"
                THEN [task[g] EXCEPT !.life = "active"] ELSE task[g]]
  BY DEF Promoted
<1> QED
  BY <1>3, <1>4 DEF TypeOK

\* The end of a cycle's promotions, or none.
LEMMA RunStarts ==
  ASSUME StartRun
  PROVE  \/ \E q \in Phases : Prefilled(q)
         \/ NoPrefill
BY Zenon DEF StartRun

\* Plans and tasks stay well formed.
LEMMA PlansStayTyped ==
  ASSUME TInv, [DriverNext]_allVars PROVE TypeOK'
<1> DEFINE Tasks == [Goals -> [life : TerminalLife \cup {"none", "active"},
                               report : NewReports \cup {NoReport},
                               agents : BOOLEAN]]
<1>1. TypeOK
  BY DEF TInv, DriverTypeOK
<1>2. ASSUME objective' \in Objective, filed' \in SUBSET Phases,
             goal' \in [Goals -> GoalStatus], task' \in Tasks,
             UNCHANGED <<run, clobbered>>, crashes' \in 0..MaxCrashes,
             declared' \in SUBSET Phases
      PROVE  TypeOK'
  BY <1>1, <1>2 DEF TypeOK
<1>3. /\ task \in Tasks /\ objective \in Objective /\ filed \in SUBSET Phases
      /\ goal \in [Goals -> GoalStatus] /\ crashes \in 0..MaxCrashes
      /\ declared \in SUBSET Phases
  BY <1>1 DEF TypeOK
<1>4. CASE UNCHANGED plans /\ Still
  BY <1>1, <1>4 DEF plans, Still, TypeOK
<1>5. CASE Settle /\ UNCHANGED <<filed, task>> /\ Still
  BY <1>1, <1>2, <1>3, <1>5, SettleTyped DEF Still
<1>6. ASSUME NEW g \in Goals, PromoteGoal(g) PROVE TypeOK'
  BY <1>1, <1>2, <1>3, <1>6, PromoteTyped DEF PromoteGoal
<1>7. CASE StartRun
  <2>1. CASE NoPrefill
    BY <1>5, <2>1 DEF NoPrefill
  <2>2. ASSUME NEW q \in Phases, Prefilled(q) PROVE TypeOK'
    <3>1. goal' \in [Goals -> GoalStatus] /\ task' \in Tasks
      BY <1>1, <2>2, PromotedTyped DEF Prefilled
    <3>2. objective' \in Objective
      BY <1>1, <1>3, <2>2, ReconciledObjective DEF Prefilled
    <3> QED
      BY <1>2, <1>3, <2>2, <3>1, <3>2 DEF Prefilled, Still
  <2> QED
    BY <1>7, <2>1, <2>2, RunStarts
<1>8. CASE PromotePhase
  <2>1. PICK q \in Phases :
          /\ objective' = [status |-> "active", current |-> q,
                           entry |-> [Reconciled(objective).entry
                                        EXCEPT ![q] = "active"]]
          /\ filed' = filed \cup {q}
    BY <1>8 DEF PromotePhase, NextPhases
  <2>2. Reconciled(objective).entry \in [Phases -> EntryStatus]
    BY <1>1, <1>3, ReconciledObjective DEF Objective
  <2>3. objective' \in Objective
    BY <2>1, <2>2 DEF Objective, EntryStatus
  <2>4. goal' \in [Goals -> GoalStatus]
        /\ UNCHANGED <<task, run, crashes, clobbered, declared>>
    BY <1>1, <1>8, JudgedGoals DEF PromotePhase, Still
  <2> QED
    BY <1>2, <1>3, <2>1, <2>3, <2>4
<1>9. CASE Ingest
  <2>1. PICK g, r : g = graph.report.goal /\ r = graph.report.body
    OBVIOUS
  <2>2. g \in Goals /\ r \in NewReports
    BY <1>9, <2>1 DEF TInv, DriverTypeOK, Message, Ingest
  <2>3. task' = [task EXCEPT ![g].report = r]
    BY <1>9, <2>1 DEF Ingest
  <2>4. task' \in Tasks
    BY <1>3, <2>2, <2>3
  <2> QED
    BY <1>2, <1>3, <1>9, <2>4 DEF Ingest, Still
<1>10. ASSUME NEW g, NEW life \in TerminalLife,
              task' = [task EXCEPT ![g].life = life],
              UNCHANGED <<objective, filed, goal>>, Still
       PROVE  TypeOK'
  <2>1. task' \in Tasks
    BY <1>3, <1>10
  <2> QED
    BY <1>2, <1>3, <1>10, <2>1 DEF Still
<1>11. CASE Close \/ Archive \/ \E g \in Goals : CommanderCancels(g)
  BY <1>10, <1>11 DEF Close, Archive, CommanderCancels, TerminalLife
<1>12. CASE CommanderAppends
  <2>1. PICK q \in Phases, s \in EntryStatus :
          /\ objective' = [objective EXCEPT !.status = "active", !.entry[q] = s]
          /\ declared' = declared \cup TakenBy(q, s)
    BY <1>12, FirstAssumption DEF CommanderAppends
  <2>2. objective' \in Objective
    <3>1. [objective.entry EXCEPT ![q] = s] \in [Phases -> EntryStatus]
      BY <1>3 DEF Objective
    <3>2. objective' = [status |-> "active", current |-> objective.current,
                        entry |-> [objective.entry EXCEPT ![q] = s]]
      BY <1>3, <2>1 DEF Objective
    <3> QED
      BY <1>3, <3>1, <3>2 DEF Objective
  <2>3. declared' \in SUBSET Phases
    BY <1>3, <2>1 DEF TakenBy
  <2> QED
    BY <1>2, <1>3, <1>12, <2>2, <2>3 DEF CommanderAppends
<1>13. CASE DriverDies
  <2>1. crashes' \in 0..MaxCrashes
    BY <1>3, <1>13, BoundAssumption DEF DriverDies
  <2> QED
    BY <1>2, <1>3, <1>13, <2>1 DEF DriverDies, plans
<1>14. CASE UNCHANGED allVars
  BY <1>1, <1>14 DEF allVars, vars, TypeOK
<1>15. CASE TakeUpAgain
  <2>1. goal' \in [Goals -> GoalStatus]
    BY <1>1, <1>15, JudgedGoals DEF TakeUpAgain
  <2> QED
    BY <1>2, <1>3, <1>15, <2>1 DEF TakeUpAgain, Still
<1> QED
  BY <1>4, <1>5, <1>6, <1>7, <1>8, <1>9, <1>11, <1>12, <1>13, <1>14, <1>15
  DEF DriverNext, Drive, Resume, BeginRound, PromoteNext, Assign,
      DispatchWindow, DispatchScript, RejectReport, HandOff, StopHere,
      ReportArrives, WaitEnds, PickUpReport, GoOnInternally, Finish,
      WorkerWrites, plans, Still

\* The fields that only one or two of the steps write.
WorldTyped ==
  /\ kind \in [Goals -> {"window", "script", "refused"}]
  /\ file \in [Goals -> NewReports \cup {NoReport, Invalid}]
  /\ open \in SUBSET Goals /\ leased \in SUBSET Goals /\ stuck \in SUBSET Goals
  /\ launches \in [Goals -> Nat]

CountersTyped ==
  /\ round \in 0..MaxRounds /\ calls \in 0..MaxCalls
  /\ config \in Goals \cup {None}
  /\ DOMAIN outcome = {"status", "reason"}

MessagesKept ==
  /\ at \notin {"idle", "ingest"} => graph.report = NoMessage
  /\ at = "ingest" => graph.report.goal \in Goals /\ graph.report.body # NoReport
  /\ at \notin {"idle", "round"} => pending = NoMessage
  /\ at = "round" /\ pending # NoMessage =>
       pending.goal \in Goals /\ pending.body # NoReport

LEMMA TInvParts ==
  TInv <=> /\ TypeOK /\ WorldTyped /\ CountersTyped /\ MessagesKept
           /\ at \in Nodes /\ graph \in Threads /\ pending \in Message
BY DEF TInv, DriverTypeOK, WorldTyped, CountersTyped, MessagesKept, Threads

LEMMA WorldStaysTyped ==
  ASSUME TInv, GInv, [DriverNext]_allVars PROVE WorldTyped'
<1>1. WorldTyped
  BY TInvParts
<1>2. CASE UNCHANGED world
  BY <1>1, <1>2 DEF world, WorldTyped
<1>3. CASE StartRun
  <2>1. UNCHANGED <<kind, file, open, leased, launches>>
    BY <1>3 DEF StartRun
  <2>2. stuck' = stuck \/ \E q \in Phases : stuck' = stuck \cup ReadyIn(q)
    BY <1>3, RunStarts DEF Prefilled, NoPrefill
  <2>3. \A q \in Phases : ReadyIn(q) \subseteq Goals
    BY DEF ReadyIn, PendingIn, GoalsOf
  <2> QED
    BY <1>1, <2>1, <2>2, <2>3 DEF WorldTyped
<1>4. CASE Assign
  BY <1>1, <1>4 DEF Assign, WorldTyped, GInv, LeaseGuards
<1>5. CASE DispatchWindow \/ DispatchScript
  <2>1. PICK g \in Goals : g = graph.packet
    BY <1>5 DEF DispatchWindow, DispatchScript, GInv, LeaseGuards
  <2>2. /\ launches' \in {launches, [launches EXCEPT ![g] = @ + 1]}
        /\ open' \in {open, open \cup {g}} /\ stuck' \in {stuck, stuck \cup {g}}
        /\ UNCHANGED <<kind, file, leased>>
    BY <1>5, <2>1 DEF DispatchWindow, DispatchScript
  <2> QED
    BY <1>1, <2>2 DEF WorldTyped
<1>6. CASE Ingest
  BY <1>1, <1>6 DEF Ingest, WorldTyped
<1>7. ASSUME NEW g \in Goals, WorkerWrites(g) PROVE WorldTyped'
  BY <1>1, <1>7 DEF WorkerWrites, WorldTyped
<1>8. CASE DriverDies
  BY <1>1, <1>8 DEF DriverDies, WorldTyped
<1> QED
  BY <1>2, <1>3, <1>4, <1>5, <1>6, <1>7, <1>8
  DEF DriverNext, Drive, Resume, BeginRound, PromotePhase, PromoteNext,
      TakeUpAgain, RejectReport, Close, Archive, HandOff, StopHere, ReportArrives,
      WaitEnds, PickUpReport, GoOnInternally, Finish, CommanderCancels,
      CommanderAppends, driverVars, allVars, world

LEMMA CountersStayTyped ==
  ASSUME TInv, [DriverNext]_allVars PROVE CountersTyped'
<1>1. CountersTyped /\ graph \in Threads
  BY TInvParts
<1>2. CASE UNCHANGED <<counters, outcome>>
  BY <1>1, <1>2 DEF counters, CountersTyped
<1>3. CASE StartRun
  BY <1>1, <1>3, DriverAssumption DEF StartRun, CountersTyped, NoOutcome
<1>4. CASE Resume \/ RejectReport \/ DriverDies
  BY <1>1, <1>4 DEF Resume, RejectReport, DriverDies, counters, CountersTyped,
     NoOutcome
<1>5. CASE StopHere \/ ReportArrives \/ WaitEnds \/ PickUpReport \/ GoOnInternally
  <2>1. /\ UNCHANGED <<calls, config>>
        /\ round' = round \/ (round < MaxRounds /\ round' = round + 1)
        /\ outcome' = outcome \/ DOMAIN outcome' = {"status", "reason"}
    BY <1>5 DEF StopHere, ReportArrives, WaitEnds, PickUpReport,
       GoOnInternally, NextRound, EndCall
  <2> QED
    BY <1>1, <2>1, DriverAssumption DEF CountersTyped
<1>6. CASE Finish
  <2>1. graph.task \in Goals \cup {None}
    BY <1>1 DEF Threads
  <2>2. /\ round' \in {round, 1}
        /\ calls' = calls \/ (calls < MaxCalls /\ calls' = calls + 1)
        /\ config' \in {config, graph.task}
        /\ outcome' = outcome \/ DOMAIN outcome' = {"status", "reason"}
    BY <1>6 DEF Finish, Final
  <2> QED
    BY <1>1, <2>1, <2>2, DriverAssumption DEF CountersTyped
<1> QED
  BY <1>2, <1>3, <1>4, <1>5, <1>6
  DEF DriverNext, Drive, BeginRound, PromotePhase, PromoteNext, TakeUpAgain,
      Assign, DispatchWindow, DispatchScript, Ingest, Close, Archive, HandOff,
      WorkerWrites, CommanderCancels, CommanderAppends, driverVars, allVars,
      counters

\* A report that is found is some goal's, and typed.
LEMMA FoundTyped ==
  ASSUME TInv, Candidate(graph.task) # NoReport
  PROVE  /\ graph.task \in Goals
         /\ FoundIt(graph.task) \in Message
         /\ FoundIt(graph.task).goal \in Goals
         /\ FoundIt(graph.task).body # NoReport
<1>1. graph.task \in Goals \cup {None}
  BY TInvParts DEF Threads
<1>2. graph.task \in Goals
  BY <1>1 DEF Candidate
<1>3. Candidate(graph.task) \in NewReports \cup {NoReport, Invalid}
  BY <1>2, TInvParts DEF Candidate, TypeOK, WorldTyped
<1> QED
  BY <1>2, <1>3 DEF FoundIt, Message

\* The thread, its node and the report of the next round.
MachineTyped ==
  /\ at \in Nodes /\ graph \in Threads /\ pending \in Message
  /\ MessagesKept

\* A new run starts from an empty thread.
LEMMA FreshThread ==
  ASSUME NEW g \in Goals \cup {None}
  PROVE  [Empty EXCEPT !.task = g] \in Threads
BY DEF Empty, Threads, NoMessage, Nothing, Message, Result

LEMMA RunMachine ==
  ASSUME TInv, StartRun \/ Resume \/ RejectReport \/ DriverDies \/ Finish
  PROVE  MachineTyped'
<1> USE DEF MachineTyped, MessagesKept, Nodes
<1>1. at \in Nodes /\ graph \in Threads /\ pending \in Message /\ MessagesKept
  BY TInvParts
<1>2. CASE StartRun
  <2>1. PICK g \in Goals \cup {None} : graph' = [Empty EXCEPT !.task = g]
    BY <1>2, Zenon DEF StartRun
  <2>2. graph' \in Threads /\ graph'.report = NoMessage
    BY <2>1, FreshThread DEF Empty
  <2>3. at' = "round" /\ pending' = NoMessage /\ NoMessage \in Message
    BY <1>2 DEF StartRun, NoMessage, Message
  <2> QED
    BY <2>2, <2>3
<1>3. CASE Resume \/ RejectReport \/ DriverDies
  <2>1. UNCHANGED <<graph, pending>> /\ at' = "idle"
    BY <1>3 DEF Resume, RejectReport, DriverDies
  <2> QED
    BY <1>1, <2>1
<1>4. CASE Finish
  <2>1. /\ pending' = pending /\ pending = NoMessage
        /\ graph.report = NoMessage
    BY <1>1, <1>4 DEF Finish, Final
  <2>2. \/ at' = "idle" /\ graph' = graph
        \/ at' = "round" /\ graph' = [graph EXCEPT !.packet = None,
                                                   !.report = NoMessage]
    BY <1>4 DEF Finish, Final
  <2>3. graph' \in Threads /\ graph'.report = NoMessage
    BY <1>1, <2>1, <2>2 DEF Threads
  <2> QED
    BY <1>1, <2>1, <2>2, <2>3
<1> QED
  BY <1>2, <1>3, <1>4

LEMMA BeginRoundMachine ==
  ASSUME TInv, BeginRound PROVE MachineTyped'
<1> USE DEF MachineTyped, MessagesKept
<1>1. graph \in Threads /\ pending \in Message /\ MessagesKept
  BY TInvParts
<1>2. PICK gate, report :
        /\ gate = TheGate(graph.task)
        /\ report = IF pending # NoMessage THEN pending ELSE graph.report
  OBVIOUS
<1>3. /\ graph' = [graph EXCEPT !.report = report, !.stop = gate.stop,
                                !.cont = ~gate.stop, !.mode = gate.mode]
      /\ at' = Route(report, graph.packet, gate)
      /\ pending' = NoMessage /\ at = "round"
  BY <1>2 DEF BeginRound
<1>4. report = pending /\ report \in Message
  BY <1>1, <1>2, <1>3
<1>5. /\ gate.stop \in BOOLEAN
      /\ gate.mode \in {"commander_internal", "wait_external_result",
                        "user_handoff", "terminal"}
  BY <1>2, GateTyped
<1>6. graph' \in Threads /\ graph'.report = report
  <2>1. PICK cont \in BOOLEAN : cont <=> ~gate.stop
    BY <1>5
  <2>2. graph' = [graph EXCEPT !.report = report, !.stop = gate.stop,
                               !.cont = cont, !.mode = gate.mode]
    BY <1>3, <1>5, <2>1
  <2> QED
    BY <1>1, <1>4, <1>5, <2>1, <2>2 DEF Threads
<1>7. /\ Route(report, graph.packet, gate) \in Nodes
      /\ Route(report, graph.packet, gate) # "idle"
      /\ Route(report, graph.packet, gate) # "round"
      /\ Route(report, graph.packet, gate) = "ingest" <=> report # NoMessage
  BY DEF Route, Nodes
<1>8. NoMessage \in Message
  BY DEF NoMessage, Message
<1> QED
  BY <1>1, <1>3, <1>4, <1>6, <1>7, <1>8

LEMMA NodeMachine ==
  ASSUME TInv, GInv,
         PromotePhase \/ PromoteNext \/ TakeUpAgain \/ Assign \/ Close
           \/ Archive \/ HandOff
  PROVE  MachineTyped'
<1> USE DEF MachineTyped, MessagesKept
<1>1. graph \in Threads /\ pending \in Message /\ MessagesKept
  BY TInvParts
<1>2. /\ pending' = pending /\ pending = NoMessage /\ graph.report = NoMessage
      /\ at' \in {"promoteGoal", "assign", "dispatch", "archive", "after"}
  BY <1>1 DEF PromotePhase, PromoteNext, TakeUpAgain, Assign, Close, Archive,
     HandOff
<1>3. CASE PromotePhase \/ PromoteNext \/ TakeUpAgain
  <2>1. \/ graph' = [graph EXCEPT !.task = None]
        \/ \E g \in Goals : graph' = [graph EXCEPT !.task = g, !.packet = g]
    BY <1>3 DEF PromotePhase, PromoteNext, TakeUpAgain
  <2> QED
    BY <1>1, <1>2, <2>1 DEF Threads, Nodes
<1>4. CASE Assign
  <2>1. graph.packet \in Goals
    BY <1>4 DEF Assign, GInv, LeaseGuards
  <2> QED
    BY <1>1, <1>2, <1>4, <2>1 DEF Assign, Threads, Nodes
<1>5. CASE Close
  BY <1>1, <1>2, <1>5 DEF Close, Threads, Result, Lifecycles, Nodes
<1>6. CASE Archive
  BY <1>1, <1>2, <1>6 DEF Archive, Threads, Result, Nodes
<1>7. CASE HandOff
  BY <1>1, <1>2, <1>7 DEF HandOff, Threads, Result, Nodes
<1> QED
  BY <1>3, <1>4, <1>5, <1>6, <1>7

LEMMA DispatchMachine ==
  ASSUME TInv, GInv, DispatchWindow \/ DispatchScript PROVE MachineTyped'
<1> USE DEF MachineTyped, MessagesKept
<1>1. graph \in Threads /\ pending \in Message /\ MessagesKept
  BY TInvParts
<1>2. PICK g \in Goals : g = graph.packet
  BY DEF DispatchWindow, DispatchScript, GInv, LeaseGuards
<1>3. pending' = pending /\ pending = NoMessage /\ graph.report = NoMessage
  BY <1>1 DEF DispatchWindow, DispatchScript
<1>4. CASE DispatchWindow
  BY <1>1, <1>3, <1>4 DEF DispatchWindow, Threads, Nodes
<1>5. CASE DispatchScript
  <2>1. CASE at' = "after" /\ graph' = [graph EXCEPT !.cont = TRUE,
                                          !.mode = "commander_internal"]
    BY <1>1, <1>3, <2>1 DEF Threads, Nodes
  <2>2. ASSUME NEW r \in NewReports, at' = "ingest",
               graph' = [graph EXCEPT !.packet = None,
                                      !.report = [goal |-> g, body |-> r]]
        PROVE  MachineTyped'
    <3>1. PICK m \in Message : m = [goal |-> g, body |-> r]
      BY <1>2 DEF Message
    <3>2. graph' \in Threads /\ graph'.report = m
      BY <1>1, <2>2, <3>1 DEF Threads
    <3> QED
      BY <1>1, <1>2, <1>3, <2>2, <3>1, <3>2, ReportKinds DEF Nodes
  <2> QED
    BY <1>2, <1>5, <2>1, <2>2 DEF DispatchScript
<1> QED
  BY <1>4, <1>5

LEMMA IngestMachine ==
  ASSUME TInv, Ingest PROVE MachineTyped'
<1> USE DEF MachineTyped, MessagesKept
<1>1. graph \in Threads /\ pending \in Message /\ MessagesKept
  BY TInvParts
<1>2. PICK g, r, phase : /\ g = graph.report.goal /\ r = graph.report.body
                         /\ phase = Phase(task[g].life, Packet, r)
  OBVIOUS
<1>3. g \in Goals /\ r \in NewReports
  BY <1>1, <1>2 DEF Ingest, Threads, Message
<1>4. PICK result \in Result : result = [goal |-> g, phase |-> phase]
  BY <1>2, <1>3, IngestedPhase, TInvParts DEF Result
<1>5. graph' = [graph EXCEPT !.task = g, !.report = NoMessage, !.ingest = result]
  BY <1>2, <1>4 DEF Ingest
<1>6. NoMessage \in Message
  BY DEF NoMessage, Message
<1>7. graph' \in Threads /\ graph'.report = NoMessage
  BY <1>1, <1>3, <1>4, <1>5, <1>6 DEF Threads
<1>8. at' \in {"handoff", "close", "archive", "after"}
  BY DEF Ingest, NodeAfter
<1>9. pending' = pending /\ pending = NoMessage
  BY <1>1 DEF Ingest
<1> QED
  BY <1>1, <1>7, <1>8, <1>9 DEF Nodes

LEMMA AfterRoundMachine ==
  ASSUME TInv, StopHere \/ ReportArrives \/ WaitEnds \/ PickUpReport
                 \/ GoOnInternally
  PROVE  MachineTyped'
<1> USE DEF MachineTyped, MessagesKept
<1>1. graph \in Threads /\ pending \in Message /\ MessagesKept
  BY TInvParts
<1>2. graph' = graph /\ graph.report = NoMessage /\ pending = NoMessage
  BY <1>1 DEF StopHere, ReportArrives, WaitEnds, PickUpReport, GoOnInternally,
     MustGoOn
<1>3. \/ at' = "finish" /\ pending' = NoMessage
      \/ at' = "round" /\ pending' = NoMessage
      \/ /\ at' = "round" /\ pending' = FoundIt(graph.task)
         /\ Candidate(graph.task) # NoReport
  BY <1>2 DEF StopHere, ReportArrives, WaitEnds, PickUpReport,
     GoOnInternally, NextRound, EndCall
<1> QED
  BY <1>1, <1>2, <1>3, FoundTyped DEF Nodes

LEMMA MachineStaysTyped ==
  ASSUME TInv, GInv, [DriverNext]_allVars PROVE MachineTyped'
<1>1. CASE Drive
  BY <1>1, RunMachine, BeginRoundMachine, NodeMachine, DispatchMachine,
     IngestMachine, AfterRoundMachine DEF Drive
<1>2. CASE Resume \/ DriverDies
  BY <1>2, RunMachine
<1>3. CASE \/ \E g \in Goals : WorkerWrites(g) \/ CommanderCancels(g)
           \/ CommanderAppends
           \/ UNCHANGED allVars
  <2>1. UNCHANGED <<at, graph, pending>>
    BY <1>3 DEF WorkerWrites, CommanderCancels, CommanderAppends, driverVars,
       allVars
  <2> QED
    BY <2>1, TInvParts DEF MachineTyped, MessagesKept
<1> QED
  BY <1>1, <1>2, <1>3 DEF DriverNext

LEMMA DriverInitTyped == DriverInit => TInv
<1> SUFFICES ASSUME DriverInit PROVE TInv
  OBVIOUS
<1>1. TypeOK
  BY InitFollows DEF DriverInit, FInv
<1>2. WorldTyped
  BY DEF DriverInit, WorldTyped
<1>3. CountersTyped
  BY DriverAssumption DEF DriverInit, CountersTyped, NoOutcome
<1>4. MachineTyped
  BY FreshThread DEF DriverInit, MachineTyped, MessagesKept, Nodes, Empty,
     Threads, NoMessage, Nothing, Message, Result
<1> QED
  BY <1>1, <1>2, <1>3, <1>4, TInvParts DEF MachineTyped

\* A thread, its messages, the plans and the files stay well formed.
LEMMA ThreadInvariance == DriverSpec => []TInv
<1>1. TInv /\ GInv /\ [DriverNext]_allVars => TInv'
  <2> SUFFICES ASSUME TInv, GInv, [DriverNext]_allVars PROVE TInv'
    OBVIOUS
  <2>1. TypeOK' /\ WorldTyped' /\ CountersTyped' /\ MachineTyped'
    BY PlansStayTyped, WorldStaysTyped, CountersStayTyped, MachineStaysTyped
  <2> QED
    BY <2>1 DEF TInv, DriverTypeOK, WorldTyped, CountersTyped, MachineTyped,
       MessagesKept, Threads
<1> QED
  BY <1>1, DriverInitTyped, LaunchInvariance, PTL DEF DriverSpec

\* The driver never gets into a state it cannot read: whatever interleaves
\* and wherever it dies, thread, plans, files and counters stay well formed.
THEOREM DriverTypeCorrect == DriverSpec => []DriverTypeOK
<1>1. TInv => DriverTypeOK
  BY DEF TInv
<1> QED
  BY <1>1, ThreadInvariance, PTL

----------------------------------------------------------------------------
(* What the gate tells the driver *)

\* A worker still has to report on g, and g's report asks for the user.
Awaiting(g)     == task[g].life = "active" /\ task[g].report = NoReport
WaitsForUser(g) == PhaseOfTask(g) \in UserPhases

\* Nobody but the plans and tasks has a say in the driver's gate.
LEMMA GateReportOf ==
  ASSUME NEW tasks, NEW phases, NEW objectives,
         NEW gate, gate = GateReport(tasks, {}, phases, objectives, FALSE)
  PROVE  /\ gate.mode = "wait_external_result" =>
              \E r \in tasks : ~r.stop /\ r.outcome = "wait_external_result"
         /\ /\ \E r \in tasks : ~r.stop /\ r.outcome = "wait_external_result"
            /\ \A r \in tasks : ~r.stop => r.outcome \in Waits
            => gate.mode = "wait_external_result"
         /\ gate.mode \in {"user_handoff", "terminal"} =>
              \A s \in phases : PhaseResult(s).stop
         /\ gate.mode = "user_handoff" =>
              \/ \E r \in tasks : AsksUser(r)
              \/ \E s \in phases : s.status \in {"blocked", "pending_user"}
              \/ \E s \in objectives : s.current \in {"blocked", "pending_user"}
         /\ gate.mode = "terminal" => \A s \in objectives : ~s.remaining
<1> DEFINE ofPhases == {PhaseResult(s) : s \in phases}
           own      == tasks \cup {CardResult(c) : c \in {}} \cup ofPhases
           asked    == \E r \in own : AsksUser(r)
           ofObj    == {ObjectiveResult(s, asked) : s \in objectives}
           all      == own \cup ofObj
           blockers == {r.outcome : r \in {b \in all : ~b.stop}} \cup {}
           gates    == {r \in all : AsksUser(r)}
<1>1. gate.mode =
        IF "wait_external_result" \in blockers /\ blockers \subseteq Waits
          THEN "wait_external_result"
        ELSE IF blockers # {} THEN "commander_internal"
        ELSE IF gates # {} THEN "user_handoff"
        ELSE "terminal"
  BY DEF GateReport
<1>2. own = tasks \cup ofPhases
  OBVIOUS
<1>3. /\ \A r \in ofPhases : ~r.stop => r.outcome = "phase_goals_remaining"
      /\ \A r \in ofPhases : AsksUser(r) =>
           \E s \in phases : s.status \in {"blocked", "pending_user"}
  BY DEF PhaseResult, Allows, Blocks, AsksUser, UserGates, UserHandoffs
<1>4. ASSUME NEW b \in BOOLEAN, NEW s
      PROVE  LET r == ObjectiveResult(s, b) IN
             /\ ~r.stop => r.outcome = "objective_phases_remaining"
             /\ AsksUser(r) => s.current \in {"blocked", "pending_user"}
  BY DEF ObjectiveResult, Allows, Blocks, AsksUser, UserGates, UserHandoffs
<1>5. /\ \A r \in ofObj : ~r.stop => r.outcome = "objective_phases_remaining"
      /\ \A r \in ofObj : AsksUser(r) =>
           \E s \in objectives : s.current \in {"blocked", "pending_user"}
  <2>1. asked \in BOOLEAN
    OBVIOUS
  <2> HIDE DEF asked
  <2> QED
    BY <1>4, <2>1
<1>6. blockers = {r.outcome : r \in {b \in all : ~b.stop}}
  OBVIOUS
<1>7. blockers = {} <=> \A r \in all : r.stop
  BY <1>6
<1>8. gate.mode = "wait_external_result" =>
        \E r \in tasks : ~r.stop /\ r.outcome = "wait_external_result"
  <2> HIDE DEF blockers, ofObj, ofPhases
  <2> SUFFICES ASSUME gate.mode = "wait_external_result"
               PROVE  \E r \in tasks : ~r.stop /\ r.outcome = "wait_external_result"
    OBVIOUS
  <2>1. "wait_external_result" \in blockers
    BY <1>1
  <2>2. PICK r \in all : ~r.stop /\ r.outcome = "wait_external_result"
    BY <1>6, <2>1
  <2> QED
    BY <1>2, <1>3, <1>5, <2>2
<1>9. /\ \E r \in tasks : ~r.stop /\ r.outcome = "wait_external_result"
      /\ \A r \in tasks : ~r.stop => r.outcome \in Waits
      => gate.mode = "wait_external_result"
  <2> HIDE DEF blockers, ofObj, ofPhases
  <2> SUFFICES ASSUME NEW r \in tasks, ~r.stop,
                      r.outcome = "wait_external_result",
                      \A t \in tasks : ~t.stop => t.outcome \in Waits
               PROVE  gate.mode = "wait_external_result"
    OBVIOUS
  <2>1. "wait_external_result" \in blockers
    BY <1>6
  <2>2. \A t \in all : ~t.stop => t.outcome \in Waits
    BY <1>2, <1>3, <1>5 DEF Waits
  <2>3. blockers \subseteq Waits
    BY <1>6, <2>2
  <2> QED
    BY <1>1, <2>1, <2>3
<1>10. gate.mode \in {"user_handoff", "terminal"} => blockers = {}
  <2> HIDE DEF blockers, gates
  <2> QED
    BY <1>1
<1>11. gate.mode = "user_handoff" => gates # {}
  <2> HIDE DEF blockers, gates
  <2> QED
    BY <1>1
<1>12. gate.mode = "terminal" => gates = {}
  <2> HIDE DEF blockers, gates
  <2> QED
    BY <1>1
<1>13. gate.mode \in {"user_handoff", "terminal"} =>
         \A s \in phases : PhaseResult(s).stop
  <2> HIDE DEF blockers
  <2> QED
    BY <1>2, <1>7, <1>10
<1>14. gate.mode = "user_handoff" =>
         \/ \E r \in tasks : AsksUser(r)
         \/ \E s \in phases : s.status \in {"blocked", "pending_user"}
         \/ \E s \in objectives : s.current \in {"blocked", "pending_user"}
  <2> HIDE DEF blockers, ofObj, ofPhases
  <2> QED
    BY <1>2, <1>3, <1>5, <1>11
<1>15. gate.mode = "terminal" => \A s \in objectives : ~s.remaining
  <2> SUFFICES ASSUME gate.mode = "terminal", NEW s \in objectives, s.remaining
               PROVE  FALSE
    OBVIOUS
  <2>1. ~asked
    BY <1>12
  <2>2. PICK r \in all : r = ObjectiveResult(s, asked)
    OBVIOUS
  <2> HIDE DEF blockers, gates, ofObj, ofPhases, asked, all, own
  <2>3. r.stop
    BY <1>7, <1>10
  <2>4. s.current \in {"blocked", "pending_user"}
    BY <2>1, <2>2, <2>3 DEF ObjectiveResult, Blocks
  <2>5. AsksUser(r)
    BY <2>2, <2>4 DEF ObjectiveResult, Allows, AsksUser, UserGates
  <2> QED
    BY <1>12, <2>5 DEF gates
<1> QED
  BY <1>8, <1>9, <1>13, <1>14, <1>15

NoAgents == \A g \in Goals : ~task[g].agents

\* A worker is waited for exactly as long as there is no report.
LEMMA AwaitingPhase ==
  ASSUME TypeOK, NEW g \in Goals
  PROVE  PhaseOfTask(g) = "awaiting_report" <=> Awaiting(g)
<1>1. PICK life, report : life = task[g].life /\ report = task[g].report
  OBVIOUS
<1>2. /\ life \in TerminalLife \cup {"none", "active"}
      /\ report \in NewReports \cup {NoReport}
  BY <1>1 DEF TypeOK
<1>3. ActivePhase(Packet, report) = "awaiting_report" <=> report = NoReport
  <2>1. CASE report = NoReport
    <3>1. /\ report.status = "none" /\ ~report.needsUser /\ ~report.ready
          /\ ContinuationMode(report) = Unset /\ ResultGrade(report) = Unset
      BY <2>1 DEF NoReport, ContinuationMode, ResultGrade
    <3> QED
      BY <2>1, <3>1 DEF ActivePhase, UserRequired, Packet, NoPacket, Unset
  <2>2. CASE report \in NewReports
    <3>1. report.status \in {"done", "blocked", "need_split"}
      BY <2>2, ReportKinds DEF SchemaReports, Reports
    <3> QED
      BY <2>2, <3>1, ReportKinds DEF ActivePhase
  <2> QED
    BY <1>2, <2>1, <2>2
<1>4. PhaseOfTask(g) = IF life = "active" THEN ActivePhase(Packet, report)
                       ELSE life
  BY <1>1 DEF PhaseOfTask, Phase
<1> QED
  BY <1>1, <1>2, <1>3, <1>4 DEF Awaiting, TerminalLife

\* What the gate makes of a task without sub-agents.
LEMMA ResultOfTask ==
  ASSUME TypeOK, NoAgents, NEW g \in Goals,
         NEW r, r = TaskResult(Snapshot(g))
  PROVE  /\ ~r.stop /\ r.outcome = "wait_external_result" <=> Awaiting(g)
         /\ AsksUser(r) => WaitsForUser(g)
<1>1. PICK t : t = Snapshot(g)
  OBVIOUS
<1>2. ~t.agents /\ t.phase = PhaseOfTask(g)
  BY <1>1 DEF Snapshot, NoAgents
<1>3. r = IF Handoff(t.phase) \in UserHandoffs THEN Allows(Handoff(t.phase))
          ELSE IF Handoff(t.phase) = "wait_external_result"
            THEN Blocks("wait_external_result")
          ELSE IF t.life \in TerminalLife THEN Allows("runtime_task_terminal")
          ELSE Blocks("must_continue")
  BY <1>1, <1>2 DEF TaskResult
<1>4. /\ Handoff(t.phase) = "wait_external_result" <=> t.phase = "awaiting_report"
      /\ Handoff(t.phase) \in UserHandoffs <=> t.phase \in UserPhases
  BY DEF Handoff, UserHandoffs, UserPhases
<1>5. ~r.stop /\ r.outcome = "wait_external_result" <=> t.phase = "awaiting_report"
  BY <1>3, <1>4 DEF Allows, Blocks, UserHandoffs
<1>6. AsksUser(r) => t.phase \in UserPhases
  BY <1>3, <1>4 DEF AsksUser, Allows, Blocks, UserGates, UserHandoffs
<1> QED
  BY <1>2, <1>5, <1>6, AwaitingPhase DEF WaitsForUser

\* The tasks whose results make up the driver's gate.
LEMMA TasksOfTheGate ==
  ASSUME NEW g \in Goals \cup {None}
  PROVE  \E tasks :
           /\ TheGate(g) = GateReport(tasks, {}, PhaseSummaries,
                                      ObjectiveSummaries, FALSE)
           /\ g # None => tasks = {TaskResult(Snapshot(g))}
           /\ \A r \in tasks : \E h \in Goals : r = TaskResult(Snapshot(h))
<1>1. CASE g = None
  <2>1. \A r \in OfInterest(TaskResults) :
          \E h \in Goals : r = TaskResult(Snapshot(h))
    BY DEF OfInterest, TaskResults
  <2>2. TheGate(g) = GateReport(OfInterest(TaskResults), {}, PhaseSummaries,
                                ObjectiveSummaries, FALSE)
    BY <1>1 DEF TheGate, Gate
  <2> QED
    BY <1>1, <2>1, <2>2
<1>2. CASE g # None
  <2>1. PICK r : r = TaskResult(Snapshot(g))
    OBVIOUS
  <2>2. TheGate(g) = GateReport({r}, {}, PhaseSummaries, ObjectiveSummaries, FALSE)
    BY <1>2, <2>1 DEF TheGate, GateFor
  <2>3. \A t \in {r} : \E h \in Goals : t = TaskResult(Snapshot(h))
    BY <1>2, <2>1
  <2> DEFINE tasks == {r}
  <2>4. /\ TheGate(g) = GateReport(tasks, {}, PhaseSummaries,
                                   ObjectiveSummaries, FALSE)
        /\ tasks = {TaskResult(Snapshot(g))}
        /\ \A t \in tasks : \E h \in Goals : t = TaskResult(Snapshot(h))
    BY <2>1, <2>2, <2>3
  <2> HIDE DEF tasks
  <2> QED
    BY <2>4
<1> QED
  BY <1>1, <1>2

LEMMA GateOnWait ==
  ASSUME NEW tasks, NEW phases, NEW objectives,
         NEW r, tasks = {r}, ~r.stop, r.outcome = "wait_external_result"
  PROVE  GateReport(tasks, {}, phases, objectives, FALSE).mode =
           "wait_external_result"
<1>1. PICK gate : gate = GateReport(tasks, {}, phases, objectives, FALSE)
  OBVIOUS
<1>2. /\ \E t \in tasks : ~t.stop /\ t.outcome = "wait_external_result"
      /\ \A t \in tasks : ~t.stop => t.outcome \in Waits
  BY DEF Waits
<1>3. gate.mode = "wait_external_result"
  BY <1>1, <1>2, GateReportOf
<1> QED
  BY <1>1, <1>3

LEMMA GateOnTerminal ==
  ASSUME NEW tasks, NEW phases, NEW objectives,
         GateReport(tasks, {}, phases, objectives, FALSE).mode = "terminal"
  PROVE  /\ \A s \in phases : PhaseResult(s).stop
         /\ \A s \in objectives : ~s.remaining
<1>1. PICK gate : gate = GateReport(tasks, {}, phases, objectives, FALSE)
  OBVIOUS
<1>2. gate.mode = "terminal"
  BY <1>1
<1> QED
  BY <1>1, <1>2, GateReportOf

\* The gate waits for an external result if some task does, and with a task
\* id only for that task's.
LEMMA GateWaits ==
  ASSUME TypeOK, NoAgents, NEW g \in Goals \cup {None}
  PROVE  /\ TheGate(g).mode = "wait_external_result" =>
              \E h \in Goals : Awaiting(h) /\ (g # None => h = g)
         /\ g # None /\ Awaiting(g) => TheGate(g).mode = "wait_external_result"
<1>1. PICK tasks : /\ TheGate(g) = GateReport(tasks, {}, PhaseSummaries,
                                              ObjectiveSummaries, FALSE)
                   /\ g # None => tasks = {TaskResult(Snapshot(g))}
                   /\ \A r \in tasks :
                        \E h \in Goals : r = TaskResult(Snapshot(h))
  BY TasksOfTheGate
<1>2. ASSUME TheGate(g).mode = "wait_external_result"
      PROVE  \E h \in Goals : Awaiting(h) /\ (g # None => h = g)
  <2>1. PICK r \in tasks : ~r.stop /\ r.outcome = "wait_external_result"
    BY <1>1, <1>2, GateReportOf
  <2>2. PICK h \in Goals : r = TaskResult(Snapshot(h)) /\ (g # None => h = g)
    BY <1>1, <2>1
  <2> QED
    BY <2>1, <2>2, ResultOfTask
<1>3. ASSUME g # None, Awaiting(g)
      PROVE  TheGate(g).mode = "wait_external_result"
  <2>1. PICK r : r = TaskResult(Snapshot(g)) /\ tasks = {r}
    BY <1>1, <1>3
  <2>2. ~r.stop /\ r.outcome = "wait_external_result"
    BY <1>3, <2>1, ResultOfTask
  <2> QED
    BY <1>1, <2>1, <2>2, GateOnWait
<1> QED
  BY <1>2, <1>3

\* The current phase has its plan file, unless it was listed as active.
CurrentFiled ==
  objective.current # None =>
    objective.current \in filed \/ objective.entry[objective.current] = "active"

LEMMA ReconciledFiled ==
  ASSUME TypeOK, CurrentFiled
  PROVE  LET ob == Reconciled(objective) IN
         ob.current # None => ob.current \in filed \/ ob.entry[ob.current] = "active"
<1> DEFINE entry  == EntriesJudged(objective)
           kept   == IF objective.current # None /\ Over(objective.current)
                     THEN None ELSE objective.current
           active == {q \in Phases : entry[q] = "active"}
           chosen == CHOOSE q \in active : Lowest(q, active)
<1>1. /\ Reconciled(objective).entry = entry
      /\ Reconciled(objective).current =
           IF kept # None \/ active = {} THEN kept ELSE chosen
  BY DEF Reconciled
<1>2. active # {} => chosen \in active
  <2>1. active \in SUBSET Nat
    BY PhasesAssumption
  <2> HIDE DEF active
  <2>2. active # {} => \E q \in active : Lowest(q, active)
    BY <2>1, LeastNatural DEF Lowest
  <2> QED
    BY <2>2
<1>3. kept # None => kept \in filed \/ entry[kept] = "active"
  BY DEF CurrentFiled, EntriesJudged, TypeOK, Objective
<1>4. active # {} => entry[chosen] = "active"
  BY <1>2
<1> HIDE DEF entry, kept, active, chosen
<1> QED
  BY <1>1, <1>3, <1>4

\* A gate that hands over to the user does so for a task.
LEMMA GateAsksUser ==
  ASSUME TypeOK, NoAgents, CurrentFiled, NEW g \in Goals \cup {None},
         TheGate(g).mode = "user_handoff"
  PROVE  \E h \in Goals : WaitsForUser(h)
<1>1. PICK tasks : /\ TheGate(g) = GateReport(tasks, {}, PhaseSummaries,
                                              ObjectiveSummaries, FALSE)
                   /\ \A r \in tasks :
                        \E h \in Goals : r = TaskResult(Snapshot(h))
  BY TasksOfTheGate
<1>2. \A s \in PhaseSummaries : s.status = "active"
  BY DEF PhaseSummaries
<1>3. \A s \in ObjectiveSummaries : s.current \notin {"blocked", "pending_user"}
  BY ReconciledFiled DEF ObjectiveSummaries
<1>4. PICK r \in tasks : AsksUser(r)
  BY <1>1, <1>2, <1>3, GateReportOf
<1>5. PICK h \in Goals : r = TaskResult(Snapshot(h))
  BY <1>1, <1>4
<1> QED
  BY <1>4, <1>5, ResultOfTask

\* A gate that calls everything terminal leaves no goal and no phase.
LEMMA GateIsTerminal ==
  ASSUME TypeOK, NEW g \in Goals \cup {None}, TheGate(g).mode = "terminal"
  PROVE  /\ \A h \in Goals : PhaseOf[h] \in filed => Judged[h] \in Settled
         /\ Promotable = {} /\ NextPhases = {}
<1>1. PICK tasks : TheGate(g) = GateReport(tasks, {}, PhaseSummaries,
                                           ObjectiveSummaries, FALSE)
  BY TasksOfTheGate
<1>2. PICK phases, objectives : /\ phases = PhaseSummaries
                                /\ objectives = ObjectiveSummaries
  OBVIOUS
<1>3. GateReport(tasks, {}, phases, objectives, FALSE).mode = "terminal"
  BY <1>1, <1>2
<1>4. /\ \A s \in phases : PhaseResult(s).stop
      /\ \A s \in objectives : ~s.remaining
  BY <1>3, GateOnTerminal
<1>5. ASSUME NEW h \in Goals, PhaseOf[h] \in filed
      PROVE  Judged[h] \in Settled
  <2>1. PICK q \in filed : q = PhaseOf[h]
    BY <1>5
  <2>2. h \in GoalsOf(q)
    BY <2>1 DEF GoalsOf
  <2>3. CASE Over(q)
    BY <2>2, <2>3 DEF Over
  <2>4. CASE ~Over(q)
    <3>1. PICK s : s = [status |-> "active",
                        remaining |-> \E k \in GoalsOf(q) : Judged[k] \notin Settled]
      OBVIOUS
    <3>2. s \in PhaseSummaries
      BY <2>4, <3>1 DEF PhaseSummaries
    <3>3. ~s.remaining
      BY <1>2, <1>4, <3>1, <3>2 DEF PhaseResult, Blocks
    <3> QED
      BY <2>2, <3>1, <3>3
  <2> QED
    BY <2>3, <2>4
<1>6. Promotable = {}
  <2> SUFFICES ASSUME NEW q \in Promotable PROVE FALSE
    OBVIOUS
  <2>1. PICK h \in GoalsOf(q) : Judged[h] = "pending"
    BY DEF Promotable, ReadyIn, PendingIn
  <2> QED
    BY <1>5, <2>1 DEF Promotable, Current, GoalsOf, Settled
<1>7. NextPhases = {}
  <2>1. Reconciled(objective).status = "completed"
    BY <1>2, <1>4 DEF ObjectiveSummaries
  <2> QED
    BY <2>1 DEF NextPhases
<1> QED
  BY <1>5, <1>6, <1>7
----------------------------------------------------------------------------
(***************************************************************************)
(* Terminal means done: once the gate said so, nothing is promoted until   *)
(* the run ends, so what was settled then is settled still.                *)
(***************************************************************************)

AllSettled == \A g \in Goals : PhaseOf[g] \in filed => goal[g] \in Settled

DoneInv ==
  /\ at \notin {"idle", "round"} /\ graph.mode = "terminal" =>
       AllSettled /\ at \notin {"promotePhase", "promoteGoal"}
  /\ at = "finish" /\ outcome.reason = "terminal" =>
       AllSettled /\ outcome.status \in {"stopped", "paused_no_progress"}

\* How a call of run_until_handoff ends, or goes into another round.
LEMMA RoundEnds ==
  ASSUME TInv, StopHere \/ ReportArrives \/ WaitEnds \/ PickUpReport
                 \/ GoOnInternally
  PROVE  /\ UNCHANGED <<plans, world, graph>> /\ at = "after"
         /\ \/ at' = "round"
            \/ at' = "finish" /\ outcome' \in
                 {[status |-> "stopped", reason |-> graph.mode],
                  [status |-> "completed_without_handoff",
                   reason |-> "continuation_not_required"],
                  [status |-> "waiting_external_result",
                   reason |-> "wait_timeout_or_missing_report"],
                  [status |-> "max_rounds_exhausted",
                   reason |-> "max_rounds_exhausted"],
                  [status |-> "paused_no_progress", reason |-> graph.mode]}
BY DEF StopHere, ReportArrives, WaitEnds, PickUpReport, GoOnInternally,
       MustGoOn, NextRound, EndCall

\* The nodes between the decision and the end of the round.
LEMMA NodesKeepPlans ==
  ASSUME TInv, Assign \/ DispatchWindow \/ DispatchScript \/ Ingest \/ Close
                 \/ Archive \/ HandOff
  PROVE  /\ UNCHANGED <<objective, filed, goal>>
         /\ at \in {"assign", "dispatch", "ingest", "close", "archive", "handoff"}
         /\ at' \in {"after", "dispatch", "ingest", "close", "archive", "handoff"}
         /\ graph'.mode \in {graph.mode, "commander_internal",
                             "wait_external_result", "user_handoff"}
<1>1. graph \in Threads
  BY TInvParts
<1>2. CASE Assign \/ DispatchWindow \/ DispatchScript
  BY <1>1, <1>2 DEF Assign, DispatchWindow, DispatchScript, plans, Threads
<1>3. CASE Ingest
  BY <1>1, <1>3 DEF Ingest, NodeAfter, Threads
<1>4. CASE Close \/ Archive \/ HandOff
  BY <1>1, <1>4 DEF Close, Archive, HandOff, plans, Threads
<1> QED
  BY <1>2, <1>3, <1>4

LEMMA DoneInvNext ==
  ASSUME TInv, DoneInv, [DriverNext]_allVars PROVE DoneInv'
<1>1. graph \in Threads /\ TypeOK
  BY TInvParts
<1>2. CASE at' \in {"idle", "round"}
  BY <1>2 DEF DoneInv
<1>3. CASE BeginRound
  <2>1. PICK gate, report, node :
          /\ gate = TheGate(graph.task)
          /\ report = IF pending # NoMessage THEN pending ELSE graph.report
          /\ node = Route(report, graph.packet, gate)
    OBVIOUS
  <2>2. PICK stop, cont : graph' = [graph EXCEPT !.report = report, !.stop = stop,
                                       !.cont = cont, !.mode = gate.mode]
    BY <1>3, <2>1 DEF BeginRound
  <2>3. at' = node /\ goal' = Judged /\ filed' = filed /\ graph'.mode = gate.mode
    BY <1>1, <1>3, <2>1, <2>2 DEF BeginRound, Settle, Threads
  <2>4. node \in {"ingest", "assign", "promoteGoal", "promotePhase", "after"}
        /\ (node = "promoteGoal" => Promotable # {})
        /\ (node = "promotePhase" => NextPhases # {})
    BY <2>1 DEF Route
  <2>5. ASSUME gate.mode = "terminal"
        PROVE  AllSettled' /\ node \notin {"promotePhase", "promoteGoal"}
    <3>1. graph.task \in Goals \cup {None} /\ TheGate(graph.task).mode = "terminal"
      BY <1>1, <2>1, <2>5 DEF Threads
    <3>2. /\ \A h \in Goals : PhaseOf[h] \in filed => Judged[h] \in Settled
          /\ Promotable = {} /\ NextPhases = {}
      BY <1>1, <3>1, GateIsTerminal
    <3>3. AllSettled'
      BY <2>3, <3>2 DEF AllSettled
    <3> QED
      BY <2>4, <3>2, <3>3
  <2> QED
    BY <2>3, <2>4, <2>5 DEF DoneInv
<1>4. CASE PromotePhase \/ PromoteNext \/ TakeUpAgain
  <2>1. at \in {"promotePhase", "promoteGoal"} /\ at' \in {"promoteGoal", "assign"}
        /\ graph'.mode = graph.mode
    BY <1>1, <1>4 DEF PromotePhase, PromoteNext, TakeUpAgain, Threads
  <2> QED
    BY <2>1 DEF DoneInv
<1>5. CASE Assign \/ DispatchWindow \/ DispatchScript \/ Ingest \/ Close
             \/ Archive \/ HandOff
  BY <1>5, NodesKeepPlans DEF DoneInv, AllSettled
<1>6. CASE StopHere \/ ReportArrives \/ WaitEnds \/ PickUpReport \/ GoOnInternally
  BY <1>6, RoundEnds DEF DoneInv, AllSettled, plans
<1>7. CASE \/ \E g \in Goals : WorkerWrites(g) \/ CommanderCancels(g)
           \/ CommanderAppends
           \/ UNCHANGED allVars
  <2>1. UNCHANGED <<filed, goal, at, graph, outcome>>
    BY <1>7 DEF WorkerWrites, CommanderCancels, CommanderAppends, plans,
       driverVars, allVars, vars
  <2> QED
    BY <2>1 DEF DoneInv, AllSettled
<1> QED
  BY <1>2, <1>3, <1>4, <1>5, <1>6, <1>7
  DEF DriverNext, Drive, StartRun, Resume, RejectReport, Finish, Final, DriverDies

\* What a run that ends as terminal found.
LEMMA TerminalIsDone ==
  ASSUME TInv, DoneInv, [DriverNext]_allVars,
         at # "idle", at' = "idle", outcome'.reason = "terminal"
  PROVE  /\ \A g \in Goals : PhaseOf[g] \in filed => goal'[g] \in Settled
         /\ Having(objective', {"pending", "active"}) = {}
<1>1. at = "finish" /\ Settle /\ (~CameToAnEnd \/ ~Remaining)
      /\ outcome' = [status |-> Verdict[1], reason |-> Verdict[2]]
  <2>1. ~RejectReport /\ ~DriverDies
    BY DEF RejectReport, DriverDies, NoOutcome
  <2>2. Finish
    BY <2>1, NodesKeepPlans, RoundEnds
    DEF DriverNext, Drive, StartRun, Resume, BeginRound, PromotePhase,
        PromoteNext, TakeUpAgain, WorkerWrites, CommanderCancels,
        CommanderAppends, driverVars, allVars, Route
  <2>3. CASE outcome' = [status |-> "attention", reason |-> "paused_no_progress"]
             \/ outcome' = [status |-> "attention",
                            reason |-> "max_objective_rounds_exhausted"]
    BY <2>3
  <2> QED
    BY <2>2, <2>3 DEF Finish, Final
<1>2. Verdict[2] = "terminal"
  BY <1>1
<1>3. outcome.reason = "terminal" /\ ~Remaining
  <2>1. outcome.reason = "terminal"
    BY <1>2 DEF Verdict
  <2>2. outcome.status \in {"stopped", "paused_no_progress"}
    BY <1>1, <2>1 DEF DoneInv
  <2>3. outcome.status = "stopped"
    BY <1>2, <2>2 DEF Verdict
  <2> QED
    BY <1>1, <2>1, <2>3 DEF CameToAnEnd
<1>4. \A g \in Goals : PhaseOf[g] \in filed => goal'[g] \in Settled
  BY <1>1, <1>3 DEF DoneInv, AllSettled, Settle, Judged, Settled
<1>5. objective' = Reconciled(objective) /\ ~Remaining
  BY <1>1, <1>3 DEF Settle
<1>6. Having(objective', {"pending", "active"}) = {}
  <2>1. CASE Reconciled(objective).status = "active"
    BY <1>5, <2>1 DEF Remaining, Having, EntryStatus, Settled
  <2>2. CASE Reconciled(objective).status # "active"
    BY <1>5, <2>2 DEF Reconciled, Having, Settled
  <2> QED
    BY <2>1, <2>2
<1> QED
  BY <1>4, <1>6

(***************************************************************************)
(* A run that ends as terminal leaves no goal of a phase plan unsettled    *)
(* and no phase to take up, even if the commander appended one after the   *)
(* stop gate spoke (run_until_objective_handoff).                          *)
(***************************************************************************)
THEOREM TerminalRunsAreDone == DriverSpec => TerminalMeansDone
<1>1. DriverInit => DoneInv
  BY DEF DriverInit, DoneInv
<1>2. TInv /\ DoneInv /\ [DriverNext]_allVars => DoneInv'
  BY DoneInvNext
<1>3. TInv /\ DoneInv /\ [DriverNext]_allVars
        => [at # "idle" /\ at' = "idle" /\ outcome'.reason = "terminal"
              => /\ \A g \in Goals : PhaseOf[g] \in filed => goal'[g] \in Settled
                 /\ Having(objective', {"pending", "active"}) = {}]_allVars
  BY TerminalIsDone
<1> QED
  BY <1>1, <1>2, <1>3, ThreadInvariance, PTL DEF DriverSpec, TerminalMeansDone
----------------------------------------------------------------------------
(***************************************************************************)
(* Who works on what.  A goal whose report is outstanding has a worker     *)
(* window, is known to be stuck, or is what the driver has in its hands:   *)
(* the packet it assigns, or the report of a script it is about to ingest. *)
(***************************************************************************)

Waited(g) == task[g].life = "active" /\ (g \in open \/ g \in stuck)

\* Goals that were never promoted are new to everybody, the others have a
\* task.
NewGoals ==
  \A g \in Goals :
    IF goal[g] = "pending"
    THEN /\ task[g].life = "none" /\ task[g].report = NoReport
         /\ g \notin leased /\ g \notin stuck
    ELSE task[g].life # "none"

\* Only launched windows write files, and they stay until they are ingested;
\* whatever was ingested came from somebody who was launched.
FilesAreReports ==
  \A g \in Goals :
    /\ g \in open \/ file[g] # NoReport => launches[g] = 1 /\ kind[g] = "window"
    /\ file[g] # NoReport /\ Awaiting(g) => g \in open
    /\ task[g].report # NoReport => launches[g] = 1

\* If goals are worked on one by one, a packet is not one whose window was
\* opened, and stuck only after it was tried in vain.
Sole(g) ==
  /\ kind[g] = "window" => launches[g] = 0
  /\ g \in stuck => at # "dispatch" /\ (kind[g] = "refused" \/ g \in leased)

\* The report of a packet is outstanding, or the driver took up an active
\* goal again whose report is there.
PacketOK ==
  at # "idle" /\ graph.packet # None =>
    /\ goal[graph.packet] # "pending"
    /\ \/ Awaiting(graph.packet)
       \/ Slots # 1 /\ task[graph.packet].report # NoReport
    /\ at = "dispatch" => Awaiting(graph.packet) /\ graph.task = graph.packet
    /\ Slots = 1 => Sole(graph.packet)

\* A report on its way is news, or the one that is on file already.
News(m) ==
  /\ m.goal \in Goals /\ m.body \in NewReports \cup {Invalid}
  /\ goal[m.goal] # "pending" /\ launches[m.goal] = 1
  /\ Slots = 1 => m.goal # graph.packet
  /\ task[m.goal].report \in {NoReport, m.body}

MessagesOK ==
  /\ at = "round" /\ pending # NoMessage =>
       News(pending) /\ pending.goal = graph.task
  /\ at = "ingest" => News(graph.report)

\* What the thread remembers is of tasks with a report; the nodes after the
\* ingestion are reached with what they need.
Reported(m) == m = Nothing \/ (m.goal \in Goals /\ task[m.goal].report # NoReport)

ResultsOK ==
  /\ Reported(graph.ingest) /\ Reported(graph.closure)
  /\ graph.closure # Nothing =>
       /\ task[graph.closure.goal].life \in {"closed", "archived"}
       /\ graph.closure.phase = "closed"
  /\ at \in {"close", "archive", "handoff"} => graph.ingest # Nothing
  /\ at = "close" => PhaseOfTask(graph.ingest.goal) = "ready_to_close"
  /\ at = "archive" => \/ graph.closure # Nothing
                       \/ task[graph.ingest.goal].life = "closed"
  /\ at = "handoff" => WaitsForUser(graph.ingest.goal)

Covered ==
  \A g \in Goals : Awaiting(g) =>
    \/ g \in open \/ g \in stuck
    \/ at = "assign" /\ g = graph.packet /\ g \notin leased
    \/ at = "dispatch" /\ g = graph.packet
    \/ /\ at = "ingest" /\ g = graph.report.goal
       /\ kind[g] = "script" /\ graph.report.body # Invalid

NInv == /\ CurrentFiled /\ NoAgents /\ NewGoals /\ FilesAreReports
        /\ PacketOK /\ MessagesOK /\ ResultsOK /\ Covered

\* Only a promotion makes a goal active, and it makes its task.
LEMMA GoalsJudged ==
  ASSUME TypeOK
  PROVE  \A g \in Goals : Judged[g] = "pending" <=> goal[g] = "pending"
<1>1. \A t : Classify(t) # "pending"
  BY DEF Classify
<1> QED
  BY <1>1 DEF TypeOK, Judged

LEMMA PromotedTask ==
  ASSUME TypeOK, NewGoals, NEW g \in Goals, PromoteGoal(g)
  PROVE  /\ goal[g] = "pending"
         /\ \A h \in Goals : goal'[h] = "pending" <=> h # g /\ goal[h] = "pending"
         /\ \A h \in Goals \ {g} : task'[h] = task[h]
         /\ task'[g].life = "active" /\ task'[g].report = NoReport
         /\ task'[g].agents = task[g].agents
         /\ UNCHANGED <<objective, filed>>
<1>1. Judged \in [Goals -> GoalStatus]
  BY JudgedGoals
<1>2. goal[g] = "pending"
  BY GoalsJudged DEF PromoteGoal, Lowest
<1>3. \A h \in Goals : goal'[h] = IF h = g THEN "active" ELSE Judged[h]
  <2> HIDE DEF Judged
  <2> QED
    BY <1>1 DEF PromoteGoal
<1>4. task' = [task EXCEPT ![g].life = IF @ = "none" THEN "active" ELSE @]
  BY DEF PromoteGoal
<1>5. task[g].life = "none" /\ task[g].report = NoReport
  BY <1>2 DEF NewGoals
<1> QED
  BY <1>2, <1>3, <1>4, <1>5, GoalsJudged DEF PromoteGoal, TypeOK

\* A cycle of the daemon promotes pending goals.
LEMMA PrefilledTasks ==
  ASSUME TypeOK, NewGoals, NEW q \in Phases, Prefilled(q)
  PROVE  \A g \in Goals :
           IF g \in ReadyIn(q)
           THEN /\ goal[g] = "pending" /\ goal'[g] # "pending"
                /\ task'[g].life = "active" /\ task'[g].report = NoReport
                /\ task'[g].agents = task[g].agents /\ g \in stuck'
           ELSE /\ task'[g] = task[g]
                /\ goal'[g] = "pending" <=> goal[g] = "pending"
<1>1. PICK S : S = ReadyIn(q)
  OBVIOUS
<1>2. \A g \in S : goal[g] = "pending"
  BY <1>1, GoalsJudged DEF ReadyIn, PendingIn, GoalsOf
<1>3. /\ goal' = [g \in Goals |-> IF g \in S THEN "active" ELSE Judged[g]]
      /\ task' = [g \in Goals |->
                    IF g \in S /\ task[g].life = "none"
                    THEN [task[g] EXCEPT !.life = "active"] ELSE task[g]]
      /\ stuck' = stuck \cup S
  BY <1>1 DEF Prefilled, Promoted
<1>4. \A g \in Goals : goal'[g] = IF g \in S THEN "active" ELSE Judged[g]
  <2> HIDE DEF Judged
  <2> QED
    BY <1>3
<1>5. ASSUME NEW g \in Goals, g \in S
      PROVE  /\ task'[g].life = "active" /\ task'[g].report = NoReport
             /\ task'[g].agents = task[g].agents
  <2>1. task[g].life = "none" /\ task[g].report = NoReport
    BY <1>2, <1>5 DEF NewGoals
  <2>2. task'[g] = [task[g] EXCEPT !.life = "active"]
    BY <1>3, <1>5, <2>1
  <2> QED
    BY <2>1, <2>2 DEF TypeOK
<1>6. \A g \in Goals \ S : task'[g] = task[g]
  BY <1>3
<1>7. \A g \in S : g \in stuck'
  BY <1>3
<1> QED
  BY <1>1, <1>2, <1>4, <1>5, <1>6, <1>7, GoalsJudged

\* With one slot nothing is ready beside an active goal.
LEMMA OneByOne ==
  ASSUME Slots = 1, NEW q, ReadyIn(q) # {}
  PROVE  ActiveIn(q) = {}
<1>1. IsFiniteSet(ActiveIn(q)) /\ IsFiniteSet(PendingIn(q))
  <2>1. ActiveIn(q) \subseteq Goals /\ PendingIn(q) \subseteq Goals
    BY DEF ActiveIn, PendingIn, GoalsOf
  <2> QED
    BY <2>1, GoalsAssumption, FS_Subset
<1>2. PICK g : Cardinality({h \in PendingIn(q) : h < g})
                 < 1 - Cardinality(ActiveIn(q))
  BY DEF ReadyIn
<1>3. IsFiniteSet({h \in PendingIn(q) : h < g})
  BY <1>1, FS_Subset
<1>4. Cardinality({h \in PendingIn(q) : h < g}) \in Nat
  BY <1>3, FS_CardinalityType
<1>5. Cardinality(ActiveIn(q)) \in Nat
  BY <1>1, FS_CardinalityType
<1>6. Cardinality(ActiveIn(q)) = 0
  BY <1>2, <1>4, <1>5
<1> QED
  BY <1>1, <1>6, FS_EmptySet

\* The goal that is taken up again is active, and so is its task.
LEMMA TakenUp ==
  ASSUME TypeOK, NewGoals, graph \in Threads, TakeUpAgain
  PROVE  /\ Slots # 1
         /\ \E g \in Goals :
              /\ graph' = [graph EXCEPT !.task = g, !.packet = g]
              /\ graph'.packet = g
              /\ goal[g] # "pending" /\ goal'[g] # "pending"
              /\ task[g].life = "active" /\ task'[g] = task[g]
<1>1. PICK q \in Phases, g \in Goals :
        /\ q \in Promotable /\ g \in ActiveIn(q)
        /\ graph' = [graph EXCEPT !.task = g, !.packet = g]
  BY DEF TakeUpAgain, Promotable, Lowest
<1>2. q \in filed /\ ReadyIn(q) # {}
  BY <1>1 DEF Promotable, Current
<1>3. Slots # 1
  BY <1>1, <1>2, OneByOne
<1>4. Judged[g] = "active" /\ PhaseOf[g] = q
  BY <1>1 DEF ActiveIn, GoalsOf
<1>5. goal[g] # "pending" /\ task[g].life \notin TerminalLife
  <2>1. goal[g] # "pending"
    BY <1>4, GoalsJudged
  <2>2. goal[g] = "active" \/ Judged[g] = Classify(task[g])
    BY <1>4 DEF Judged
  <2>3. Classify(task[g]) # "active"
    BY DEF Classify
  <2>4. Judged[g] = IF goal[g] = "active" /\ task[g].life \in TerminalLife
                    THEN Classify(task[g]) ELSE goal[g]
    BY <1>2, <1>4 DEF Judged
  <2> QED
    BY <1>4, <2>1, <2>2, <2>3, <2>4
<1>6. task[g].life = "active"
  BY <1>5 DEF NewGoals, TypeOK
<1>7. graph'.packet = g
  BY <1>1 DEF Threads
<1>8. goal' = Judged /\ task' = task
  BY DEF TakeUpAgain
<1> QED
  BY <1>1, <1>3, <1>4, <1>5, <1>6, <1>7, <1>8

\* What a step can do to the task of a goal.
LEMMA TasksMove ==
  ASSUME TInv, NInv, [DriverNext]_allVars, NEW g \in Goals
  PROVE  /\ task'[g].agents = task[g].agents
         /\ goal'[g] = "pending" => goal[g] = "pending"
         /\ \/ /\ task'[g] = task[g]
               /\ goal'[g] = "pending" <=> goal[g] = "pending"
            \/ /\ goal[g] = "pending" /\ goal'[g] # "pending"
               /\ task'[g].life = "active" /\ task'[g].report = NoReport
               /\ \/ at = "idle" /\ g \in stuck'
                  \/ at = "promoteGoal" /\ at' = "assign" /\ g = graph'.packet
            \/ /\ at = "ingest" /\ g = graph.report.goal
               /\ graph.report.body \in NewReports
               /\ task'[g].report = graph.report.body
               /\ task'[g].life = task[g].life
            \/ /\ task'[g].report = task[g].report
               /\ \/ /\ task'[g].life \in {"closed", "archived"}
                     /\ task[g].report # NoReport
                     /\ at \in {"close", "archive"} /\ ~WaitsForUser(g)
                     /\ task[g].life = "active" =>
                          at = "close" /\ g = graph.ingest.goal
                  \/ /\ task'[g].life = "canceled" /\ task[g].life = "active"
                     /\ at = "idle"
<1> DEFINE Same == /\ task'[g] = task[g]
                   /\ goal'[g] = "pending" <=> goal[g] = "pending"
<1>1. /\ TypeOK /\ graph \in Threads
      /\ task \in [Goals -> [life : TerminalLife \cup {"none", "active"},
                             report : NewReports \cup {NoReport},
                             agents : BOOLEAN]]
      /\ NewGoals /\ MessagesOK /\ ResultsOK
  BY TInvParts DEF NInv, TypeOK
<1>2. CASE UNCHANGED <<goal, task>>
  BY <1>2
<1>3. CASE goal' = Judged /\ UNCHANGED task
  BY <1>1, <1>3, GoalsJudged
<1>4. ASSUME NEW h \in Goals, PromoteGoal(h),
             \/ at = "idle" /\ h \in stuck'
             \/ at = "promoteGoal" /\ at' = "assign" /\ h = graph'.packet
      PROVE  Same \/ /\ g = h /\ goal[g] = "pending" /\ goal'[g] # "pending"
                     /\ task'[g].agents = task[g].agents
                     /\ task'[g].life = "active" /\ task'[g].report = NoReport
  BY <1>1, <1>4, PromotedTask
<1>5. CASE StartRun
  <2>1. CASE \E q \in Phases : Prefilled(q)
    <3>1. PICK q \in Phases : Prefilled(q)
      BY <2>1
    <3>2. at = "idle"
      BY <1>5 DEF StartRun
    <3> QED
      BY <1>1, <3>1, <3>2, PrefilledTasks
  <2>2. CASE NoPrefill
    BY <1>3, <2>2 DEF NoPrefill, Settle
  <2> QED
    BY <1>5, <2>1, <2>2, RunStarts
<1>6. CASE PromoteNext
  <2>1. PICK h \in Goals : PromoteGoal(h) /\ graph' = [graph EXCEPT !.task = h, !.packet = h]
    BY <1>6 DEF PromoteNext
  <2>2. graph'.packet = h
    BY <1>1, <2>1 DEF Threads
  <2> QED
    BY <1>4, <1>6, <2>1, <2>2 DEF PromoteNext
<1>7. CASE Ingest
  <2>1. PICK h, r : h = graph.report.goal /\ r = graph.report.body
    OBVIOUS
  <2>2. h \in Goals /\ r \in NewReports
    BY <1>1, <1>7, <2>1 DEF Ingest, MessagesOK, News
  <2>3. task' = [task EXCEPT ![h].report = r] /\ goal' = goal /\ at = "ingest"
    BY <1>7, <2>1 DEF Ingest
  <2> QED
    BY <1>1, <2>1, <2>2, <2>3
<1>8. ASSUME NEW h \in Goals, NEW life \in TerminalLife,
             task' = [task EXCEPT ![h].life = life], goal' = goal
      PROVE  /\ g # h => task'[g] = task[g]
             /\ g = h => task'[g].life = life /\ task'[g].report = task[g].report
             /\ task'[g].agents = task[g].agents
  BY <1>1, <1>8
<1>9. CASE Close
  <2>1. PICK h : h = graph.ingest.goal
    OBVIOUS
  <2>2. h \in Goals /\ task[h].report # NoReport /\ PhaseOfTask(h) = "ready_to_close"
    BY <1>1, <1>9, <2>1 DEF Close, ResultsOK, Reported
  <2>3. task' = [task EXCEPT ![h].life = "closed"] /\ goal' = goal
    BY <1>9, <2>1 DEF Close
  <2> QED
    BY <1>8, <1>9, <2>2, <2>3 DEF TerminalLife, WaitsForUser, UserPhases, Close
<1>10. CASE Archive
  <2>1. PICK h : h = IF graph.closure # Nothing THEN graph.closure.goal
                     ELSE graph.ingest.goal
    OBVIOUS
  <2>2. /\ h \in Goals /\ task[h].report # NoReport
        /\ task[h].life \in {"closed", "archived"}
    BY <1>1, <1>10, <2>1 DEF Archive, ResultsOK, Reported
  <2>3. task' = [task EXCEPT ![h].life = "archived"] /\ goal' = goal
    BY <1>10, <2>1 DEF Archive
  <2>4. ~WaitsForUser(h)
    BY <2>2 DEF WaitsForUser, UserPhases, PhaseOfTask, Phase
  <2> QED
    BY <1>8, <1>10, <2>2, <2>3, <2>4 DEF TerminalLife, Archive
<1>11. ASSUME NEW h \in Goals, CommanderCancels(h)
       PROVE  \/ Same /\ task'[g].agents = task[g].agents
              \/ /\ task'[g].life = "canceled" /\ task[g].life = "active"
                 /\ task'[g].report = task[g].report /\ goal'[g] = goal[g]
                 /\ at = "idle" /\ task'[g].agents = task[g].agents
  BY <1>8, <1>11 DEF CommanderCancels, TerminalLife
<1>12. CASE PromotePhase \/ TakeUpAgain \/ BeginRound \/ Finish
  BY <1>3, <1>12 DEF PromotePhase, TakeUpAgain, BeginRound, Finish, Settle
<1>13. CASE \/ Resume \/ Assign \/ DispatchWindow \/ DispatchScript
            \/ RejectReport \/ HandOff \/ StopHere \/ ReportArrives \/ WaitEnds
            \/ PickUpReport \/ GoOnInternally \/ CommanderAppends \/ DriverDies
            \/ \E h \in Goals : WorkerWrites(h)
            \/ UNCHANGED allVars
  BY <1>2, <1>13
  DEF Resume, Assign, DispatchWindow, DispatchScript, RejectReport, HandOff,
      StopHere, ReportArrives, WaitEnds, PickUpReport, GoOnInternally,
      CommanderAppends, DriverDies, WorkerWrites, plans, allVars, vars
<1> HIDE DEF Same
<1> QED
  BY <1>5, <1>6, <1>7, <1>9, <1>10, <1>11, <1>12, <1>13
  DEF DriverNext, Drive, Same

\* What a step can do to leases and windows.
LEMMA WorldMoves ==
  ASSUME TInv, GInv, NInv, [DriverNext]_allVars, NEW g \in Goals
  PROVE  /\ kind' = kind
         /\ g \in stuck => g \in stuck'
         /\ g \in stuck' =>
              \/ g \in stuck
              \/ goal'[g] # "pending"
         /\ g \in leased => g \in leased'
         /\ g \in leased' => g \in leased \/ goal'[g] # "pending"
         /\ g \in open' =>
              g \in open \/ (kind[g] = "window" /\ launches'[g] = 1)
         /\ g \in open => \/ g \in open'
                          \/ /\ task'[g].report # NoReport
                             /\ at = "ingest" /\ g = graph.report.goal
         /\ launches'[g] = launches[g] \/ (g = graph.packet /\ launches'[g] = 1)
         /\ launches[g] = 1 => launches'[g] = 1
         /\ file'[g] # NoReport => file[g] # NoReport \/ g \in open
<1>1. /\ graph \in Threads /\ PacketOK /\ MessagesOK /\ WorldTyped
      /\ graph.packet # None /\ at # "idle" => goal[graph.packet] # "pending"
      /\ graph.packet \in Goals \cup {None}
  BY TInvParts DEF NInv, PacketOK, Threads
<1>2. CASE UNCHANGED world
  BY <1>2 DEF world
<1>3. CASE StartRun
  <2>1. UNCHANGED <<kind, file, open, leased, launches>>
    BY <1>3 DEF StartRun
  <2>2. CASE \E q \in Phases : Prefilled(q)
    <3>1. PICK q \in Phases : Prefilled(q)
      BY <2>2
    <3>2. stuck' = stuck \cup ReadyIn(q)
      BY <3>1 DEF Prefilled
    <3>3. g \in ReadyIn(q) => goal'[g] # "pending"
      BY <3>1, PrefilledTasks, TInvParts DEF NInv
    <3> HIDE DEF ReadyIn
    <3> QED
      BY <2>1, <3>2, <3>3
  <2>3. CASE NoPrefill
    BY <2>1, <2>3 DEF NoPrefill
  <2> QED
    BY <1>3, <2>2, <2>3, RunStarts
<1>4. CASE Assign \/ DispatchWindow \/ DispatchScript
  <2>1. PICK p \in Goals : p = graph.packet /\ goal[p] # "pending"
    BY <1>1, <1>4, DriverAssumption DEF Assign, DispatchWindow, DispatchScript,
       GInv, LeaseGuards
  <2>2. CASE Assign
    BY <2>1, <2>2 DEF Assign, plans
  <2>3. CASE DispatchWindow
    <3>1. /\ UNCHANGED <<kind, file, leased, goal>>
          /\ open' = open \/ open' = open \cup {p}
          /\ stuck' = stuck \/ stuck' = stuck \cup {p}
          /\ launches' = launches \/ launches' = [launches EXCEPT ![p] = @ + 1]
      BY <2>1, <2>3 DEF DispatchWindow, plans
    <3>2. launches[p] = 0 /\ kind[p] = "window"
      BY <2>1, <2>3 DEF DispatchWindow, GInv, LeaseGuards
    <3>3. launches' = launches => open' = open
      BY <1>1, <2>1, <2>3, <3>2 DEF DispatchWindow, WorldTyped
    <3>4. launches'[g] = launches[g] \/ (g = p /\ launches'[g] = 1)
      BY <1>1, <3>1, <3>2 DEF WorldTyped
    <3> QED
      BY <1>1, <2>1, <3>1, <3>2, <3>3, <3>4 DEF WorldTyped
  <2>4. CASE DispatchScript
    <3>1. /\ UNCHANGED <<kind, file, leased, goal, open>>
          /\ stuck' = stuck \/ stuck' = stuck \cup {p}
          /\ launches' = [launches EXCEPT ![p] = @ + 1]
      BY <2>1, <2>4 DEF DispatchScript, plans
    <3>2. launches[p] = 0
      BY <2>1, <2>4 DEF DispatchScript, GInv, LeaseGuards
    <3> QED
      BY <1>1, <2>1, <3>1, <3>2 DEF WorldTyped
  <2> QED
    BY <1>4, <2>2, <2>3, <2>4
<1>5. CASE Ingest
  <2>1. PICK h, r : h = graph.report.goal /\ r = graph.report.body
    OBVIOUS
  <2>2. /\ task' = [task EXCEPT ![h].report = r] /\ open' = open \ {h}
        /\ UNCHANGED <<kind, file, leased, launches, stuck>>
    BY <1>5, <2>1 DEF Ingest
  <2>3. h \in Goals /\ r \in NewReports
    BY <1>1, <1>5, <2>1 DEF Ingest, MessagesOK, News
  <2>4. task'[h].report # NoReport /\ at = "ingest"
    BY <1>5, <2>2, <2>3, ReportKinds, TInvParts DEF TypeOK, Ingest
  <2> QED
    BY <2>1, <2>2, <2>4
<1>6. ASSUME NEW h \in Goals, WorkerWrites(h)
      PROVE  file'[g] = file[g] \/ g \in open \/ file[g] # NoReport
  BY <1>1, <1>6, ReportKinds DEF WorkerWrites, WorldTyped
<1>7. CASE \E h \in Goals : WorkerWrites(h)
  BY <1>6, <1>7 DEF WorkerWrites
<1>8. CASE DriverDies
  <2>1. /\ stuck' = stuck \cup (Lost \cap Goals) /\ at # "idle"
        /\ UNCHANGED <<kind, file, open, leased, launches, goal>>
    BY <1>8 DEF DriverDies, plans
  <2>2. \A h \in Lost \cap Goals : h = graph.packet \/ h = graph.report.goal
    BY DEF Lost
  <2>3. \A h \in Lost \cap Goals : goal[h] # "pending"
    <3>1. CASE at = "ingest"
      BY <1>1, <2>1, <2>2, <3>1, DriverAssumption DEF MessagesOK, News
    <3>2. CASE at # "ingest"
      <4>1. graph.report = NoMessage
        BY <2>1, <3>2 DEF TInv
      <4>2. graph.report.goal \notin Goals
        BY <4>1, DriverAssumption DEF NoMessage
      <4> QED
        BY <1>1, <2>1, <2>2, <4>2, DriverAssumption
    <3> QED
      BY <3>1, <3>2
  <2> QED
    BY <2>1, <2>3
<1> QED
  BY <1>2, <1>3, <1>4, <1>5, <1>7, <1>8
  DEF DriverNext, Drive, Resume, BeginRound, PromotePhase, PromoteNext,
      TakeUpAgain, RejectReport, Close, Archive, HandOff, StopHere, ReportArrives,
      WaitEnds, PickUpReport, GoOnInternally, Finish, CommanderCancels,
      CommanderAppends, driverVars, allVars, world

----------------------------------------------------------------------------
(* The conjuncts, one by one *)

LEMMA CurrentFiledNext ==
  ASSUME TInv, NInv, [DriverNext]_allVars PROVE CurrentFiled'
<1>1. TypeOK /\ CurrentFiled
  BY TInvParts DEF NInv
<1>2. CASE UNCHANGED <<objective, filed>>
  BY <1>1, <1>2 DEF CurrentFiled
<1>3. CASE Settle /\ filed' = filed
  BY <1>1, <1>3, ReconciledFiled DEF Settle, CurrentFiled
<1>4. CASE StartRun
  <2>1. objective' = Reconciled(objective) /\ filed' = filed
    BY <1>4, RunStarts DEF Prefilled, NoPrefill, Settle
  <2> QED
    BY <1>1, <2>1, ReconciledFiled DEF CurrentFiled
<1>5. CASE PromotePhase
  <2>1. PICK q \in Phases :
          /\ objective' = [status |-> "active", current |-> q,
                           entry |-> [Reconciled(objective).entry
                                        EXCEPT ![q] = "active"]]
          /\ filed' = filed \cup {q}
    BY <1>5 DEF PromotePhase, NextPhases
  <2>2. Reconciled(objective).entry \in [Phases -> EntryStatus]
    BY <1>1, ReconciledObjective DEF Objective, TypeOK
  <2> QED
    BY <1>1, <2>1, <2>2, ReconciledFiled DEF CurrentFiled
<1>6. CASE CommanderAppends
  <2>1. PICK q \in Phases, status \in EntryStatus :
          /\ objective.entry[q] = "absent"
          /\ objective' = [objective EXCEPT !.status = "active",
                                            !.entry[q] = status]
    BY <1>6, FirstAssumption, Zenon DEF CommanderAppends, Lowest, Having
  <2>2. /\ objective'.current = objective.current
        /\ \A r \in Phases : objective.entry[r] # "absent"
                              => objective'.entry[r] = objective.entry[r]
    BY <1>1, <2>1 DEF TypeOK, Objective
  <2>3. filed' = filed
    BY <1>6 DEF CommanderAppends
  <2> QED
    BY <1>1, <2>2, <2>3 DEF CurrentFiled, TypeOK, Objective
<1> QED
  BY <1>2, <1>3, <1>4, <1>5, <1>6
  DEF DriverNext, Drive, Resume, BeginRound, PromoteNext, PromoteGoal, Assign,
      DispatchWindow, DispatchScript, Ingest, RejectReport, Close, Archive,
      TakeUpAgain, HandOff, StopHere, ReportArrives, WaitEnds, PickUpReport,
      GoOnInternally, Finish, WorkerWrites, CommanderCancels, DriverDies, plans,
      allVars, vars

LEMMA NoAgentsNext ==
  ASSUME TInv, NInv, [DriverNext]_allVars PROVE NoAgents'
BY TasksMove DEF NInv, NoAgents

LEMMA NewGoalsNext ==
  ASSUME TInv, GInv, NInv, [DriverNext]_allVars PROVE NewGoals'
<1> SUFFICES ASSUME NEW g \in Goals
             PROVE  IF goal'[g] = "pending"
                    THEN /\ task'[g].life = "none" /\ task'[g].report = NoReport
                         /\ g \notin leased' /\ g \notin stuck'
                    ELSE task'[g].life # "none"
  BY DEF NewGoals
<1>1. IF goal[g] = "pending"
      THEN /\ task[g].life = "none" /\ task[g].report = NoReport
           /\ g \notin leased /\ g \notin stuck
      ELSE task[g].life # "none"
  BY DEF NInv, NewGoals
<1>2. CASE goal'[g] = "pending"
  <2>1. goal[g] = "pending"
    BY <1>2, TasksMove
  <2>2. ~(at = "ingest" /\ g = graph.report.goal)
    BY <2>1 DEF NInv, MessagesOK, News
  <2>3. task'[g] = task[g]
    BY <1>1, <1>2, <2>1, <2>2, TasksMove
  <2> QED
    BY <1>1, <1>2, <2>1, <2>3, WorldMoves
<1>3. CASE goal'[g] # "pending"
  <2>1. at = "ingest" /\ g = graph.report.goal => goal[g] # "pending"
    BY DEF NInv, MessagesOK, News
  <2>2. task'[g].life # "none"
    BY <1>1, <1>3, <2>1, TasksMove
  <2> QED
    BY <1>3, <2>2
<1> QED
  BY <1>2, <1>3

LEMMA FilesNext ==
  ASSUME TInv, GInv, NInv, [DriverNext]_allVars PROVE FilesAreReports'
<1> SUFFICES ASSUME NEW g \in Goals
             PROVE  /\ g \in open' \/ file'[g] # NoReport =>
                         launches'[g] = 1 /\ kind'[g] = "window"
                    /\ file'[g] # NoReport /\ Awaiting(g)' => g \in open'
                    /\ task'[g].report # NoReport => launches'[g] = 1
  BY DEF FilesAreReports
<1>1. /\ g \in open \/ file[g] # NoReport => launches[g] = 1 /\ kind[g] = "window"
      /\ file[g] # NoReport /\ Awaiting(g) => g \in open
      /\ task[g].report # NoReport => launches[g] = 1
  BY DEF NInv, FilesAreReports
<1>2. launches[g] = 1 => launches'[g] = 1
  BY WorldMoves
<1>4. g \in open' \/ file'[g] # NoReport => launches'[g] = 1 /\ kind'[g] = "window"
  BY <1>1, <1>2, WorldMoves
<1>5. ASSUME file'[g] # NoReport, Awaiting(g)' PROVE g \in open'
  <2>1. CASE Awaiting(g)
    <3>1. g \in open
      BY <1>1, <1>5, <2>1, WorldMoves
    <3> QED
      BY <1>5, <3>1, WorldMoves DEF Awaiting
  <2>2. CASE ~Awaiting(g)
    <3>1. goal[g] = "pending"
      BY <1>5, <2>2, TasksMove, ReportKinds DEF Awaiting
    <3>2. launches[g] # 1
      BY <3>1 DEF NInv, NewGoals, GInv, LeaseGuards
    <3> QED
      BY <1>1, <1>5, <3>2, WorldMoves
  <2> QED
    BY <2>1, <2>2
<1>6. ASSUME task'[g].report # NoReport PROVE launches'[g] = 1
  <2>1. at = "ingest" /\ g = graph.report.goal => launches[g] = 1
    BY DEF NInv, MessagesOK, News
  <2>2. task[g].report # NoReport \/ (at = "ingest" /\ g = graph.report.goal)
    BY <1>6, TasksMove
  <2> QED
    BY <1>1, <1>2, <2>1, <2>2
<1> QED
  BY <1>4, <1>5, <1>6

----------------------------------------------------------------------------
(* The packet *)

\* A task that has a report keeps one; one that is closed stays closed.
LEMMA ReportsStay ==
  ASSUME TInv, GInv, NInv, [DriverNext]_allVars, NEW g \in Goals,
         task[g].report # NoReport
  PROVE  /\ task'[g].report # NoReport
         /\ task[g].life \in {"closed", "archived"} =>
              task'[g].life \in {"closed", "archived"}
         /\ WaitsForUser(g) /\ at # "idle" => WaitsForUser(g)'
<1>1. goal[g] # "pending"
  BY DEF NInv, NewGoals
<1>2. at = "ingest" /\ g = graph.report.goal =>
        task[g].report = graph.report.body
  BY DEF NInv, MessagesOK, News
<1>3. /\ task'[g].report = task[g].report
      /\ \/ task'[g].life = task[g].life
         \/ task'[g].life \in {"closed", "archived"} /\ ~WaitsForUser(g)
         \/ task[g].life = "active" /\ at = "idle"
  BY <1>1, <1>2, TasksMove
<1> QED
  BY <1>3 DEF WaitsForUser, PhaseOfTask

\* The task of a packet waits for its report, or has one.  If goals are
\* worked on one by one, nobody but the driver touches it before.
LEMMA PacketWaits ==
  ASSUME TInv, GInv, NInv, [DriverNext]_allVars, at # "idle",
         NEW g \in Goals, g = graph.packet
  PROVE  /\ goal'[g] # "pending"
         /\ Awaiting(g)' \/ (Slots # 1 /\ task'[g].report # NoReport)
<1>1. goal[g] # "pending"
  BY DriverAssumption DEF NInv, PacketOK
<1>2. goal'[g] # "pending"
  BY <1>1, TasksMove
<1>3. Awaiting(g) \/ (Slots # 1 /\ task[g].report # NoReport)
  BY DriverAssumption DEF NInv, PacketOK
<1>4. CASE task[g].report # NoReport
  BY <1>2, <1>3, <1>4, ReportsStay DEF Awaiting
<1>5. CASE task[g].report = NoReport /\ at = "ingest" /\ g = graph.report.goal
  <2>1. Slots # 1 /\ graph.report.body \in NewReports \cup {Invalid}
    BY <1>5 DEF NInv, MessagesOK, News
  <2>2. \/ task'[g] = task[g]
        \/ task'[g].report = graph.report.body /\ graph.report.body \in NewReports
    BY <1>1, <1>5, TasksMove
  <2> QED
    BY <1>2, <1>3, <1>5, <2>1, <2>2, ReportKinds DEF Awaiting
<1>6. CASE task[g].report = NoReport /\ ~(at = "ingest" /\ g = graph.report.goal)
  <2>1. task'[g] = task[g]
    BY <1>1, <1>6, TasksMove
  <2> QED
    BY <1>2, <1>3, <1>6, <2>1 DEF Awaiting
<1> QED
  BY <1>4, <1>5, <1>6

LEMMA PacketNext ==
  ASSUME TInv, GInv, NInv, [DriverNext]_allVars PROVE PacketOK'
<1>1. /\ graph \in Threads /\ TypeOK /\ NewGoals /\ PacketOK
      /\ graph.packet \in Goals \cup {None} /\ WorldTyped
      /\ launches \in [Goals -> 0..1]
      /\ \A g \in Goals : launches[g] = 1 => g \in leased
  BY TInvParts DEF NInv, Threads, GInv, LeaseGuards
<1>2. CASE at' = "idle" \/ graph'.packet = None
  BY <1>2 DEF PacketOK
<1>3. CASE /\ at \notin {"idle", "dispatch"} /\ graph'.packet = graph.packet
           /\ UNCHANGED <<kind, launches, leased, stuck>> /\ at' # "dispatch"
  <2> SUFFICES ASSUME graph.packet # None PROVE PacketOK'
    BY <1>3 DEF PacketOK
  <2>1. PICK g \in Goals : g = graph.packet
    BY <1>1
  <2>2. Slots = 1 => Sole(g)
    BY <1>1, <1>3, <2>1, DriverAssumption DEF PacketOK
  <2>3. Slots = 1 => Sole(g)'
    BY <1>3, <2>2 DEF Sole
  <2> QED
    BY <1>3, <2>1, <2>3, PacketWaits DEF PacketOK
<1>4. CASE PromoteNext
  <2>1. PICK g \in Goals : PromoteGoal(g) /\ graph' = [graph EXCEPT !.task = g, !.packet = g]
    BY <1>4 DEF PromoteNext
  <2>2. graph'.packet = g /\ at' = "assign" /\ UNCHANGED <<leased, launches, stuck>>
    BY <1>1, <1>4, <2>1 DEF PromoteNext, Threads, world
  <2>3. /\ goal[g] = "pending" /\ goal'[g] # "pending"
        /\ task'[g].life = "active" /\ task'[g].report = NoReport
    BY <1>1, <2>1, PromotedTask
  <2>4. g \notin leased /\ g \notin stuck
    BY <1>1, <2>3 DEF NewGoals
  <2>5. launches[g] = 0
    BY <1>1, <2>4
  <2> QED
    BY <2>2, <2>3, <2>4, <2>5 DEF PacketOK, Sole, Awaiting
<1>5. CASE TakeUpAgain
  <2>1. Slots # 1 /\ at' = "assign"
    BY <1>1, <1>5, TakenUp DEF TakeUpAgain
  <2>2. PICK g \in Goals : /\ graph'.packet = g /\ goal'[g] # "pending"
                           /\ task[g].life = "active" /\ task'[g] = task[g]
    BY <1>1, <1>5, TakenUp
  <2> QED
    BY <2>1, <2>2 DEF PacketOK, Awaiting
<1>6. CASE Assign
  <2>1. PICK g \in Goals : g = graph.packet /\ at = "assign"
    BY <1>6 DEF Assign, GInv, LeaseGuards
  <2>2. /\ goal[g] # "pending"
        /\ Slots = 1 => Sole(g)
        /\ Awaiting(g) \/ (Slots # 1 /\ task[g].report # NoReport)
    BY <1>1, <2>1, DriverAssumption DEF PacketOK
  <2>3. /\ graph'.packet = g /\ graph'.task = g
        /\ UNCHANGED <<goal, task, kind, launches>>
        /\ \/ at' = "after" /\ leased' = leased /\ kind[g] = "refused"
           \/ at' = "after" /\ g \in leased /\ UNCHANGED <<leased, stuck>>
           \/ at' = "dispatch" /\ g \notin leased /\ kind[g] # "refused" /\ stuck' = stuck
    BY <1>1, <1>6, <2>1 DEF Assign, Threads, plans
  <2>4. g \notin leased => Awaiting(g)
    BY <1>1, <2>2 DEF NInv, FilesAreReports
  <2>5. Slots = 1 => Sole(g)'
    BY <2>1, <2>2, <2>3 DEF Sole
  <2> QED
    BY <2>2, <2>3, <2>4, <2>5 DEF PacketOK, Awaiting
<1>7. CASE DispatchWindow
  BY <1>1, <1>2, <1>7 DEF DispatchWindow, Threads
<1>8. CASE DispatchScript
  <2>1. PICK g \in Goals : g = graph.packet
    BY <1>8 DEF DispatchScript, GInv, LeaseGuards
  <2>2. /\ goal[g] # "pending" /\ Awaiting(g) /\ g \in leased
        /\ kind[g] = "script" /\ at = "dispatch"
    BY <1>1, <1>8, <2>1, DriverAssumption
    DEF DispatchScript, PacketOK, GInv, LeaseGuards
  <2>3. CASE at' = "ingest"
    BY <1>1, <1>2, <1>8, <2>3 DEF DispatchScript, Threads
  <2>4. CASE at' # "ingest"
    <3>1. /\ graph'.packet = g /\ at' = "after"
          /\ UNCHANGED <<goal, task, kind, leased>>
      BY <1>1, <1>8, <2>1, <2>4 DEF DispatchScript, Threads, plans
    <3> QED
      BY <2>2, <3>1 DEF PacketOK, Sole, Awaiting
  <2> QED
    BY <2>3, <2>4
<1>9. CASE BeginRound
  <2>1. at = "round" /\ graph'.packet = graph.packet /\ at' # "dispatch"
    BY <1>1, <1>9 DEF BeginRound, Threads, Route
  <2>2. UNCHANGED <<kind, launches, leased, stuck>>
    BY <1>9 DEF BeginRound, world
  <2> QED
    BY <1>3, <2>1, <2>2
<1>10. CASE StartRun \/ Finish
  <2>1. ASSUME StartRun PROVE graph'.packet = None
    <3>1. PICK g \in Goals \cup {None} : graph' = [Empty EXCEPT !.task = g]
      BY <2>1, Zenon DEF StartRun
    <3> QED
      BY <3>1 DEF Empty
  <2> QED
    BY <1>1, <1>2, <1>10, <2>1 DEF Finish, Final, Threads
<1>11. CASE PromotePhase \/ Ingest \/ Close \/ Archive \/ HandOff
  <2>1. Ingest => graph'.packet = graph.packet
    BY <1>1 DEF Ingest, Threads
  <2>2. PromotePhase \/ Close \/ Archive \/ HandOff => graph'.packet = graph.packet
    BY <1>1 DEF PromotePhase, Close, Archive, HandOff, Threads
  <2>3. at \notin {"idle", "dispatch"} /\ at' # "dispatch"
    BY <1>11 DEF PromotePhase, Ingest, Close, Archive, HandOff, NodeAfter
  <2>4. UNCHANGED <<kind, launches, leased, stuck>>
    BY <1>11 DEF PromotePhase, Ingest, Close, Archive, HandOff, world
  <2> QED
    BY <1>3, <1>11, <2>1, <2>2, <2>3, <2>4
<1>12. CASE StopHere \/ ReportArrives \/ WaitEnds \/ PickUpReport \/ GoOnInternally
  BY <1>3, <1>12, RoundEnds DEF world
<1>13. CASE \/ \E g \in Goals : WorkerWrites(g) \/ CommanderCancels(g)
            \/ CommanderAppends
            \/ UNCHANGED allVars
  <2>1. /\ UNCHANGED <<at, graph, stuck, leased, launches, kind>>
        /\ at # "idle" => UNCHANGED <<goal, task>>
    BY <1>13 DEF WorkerWrites, CommanderCancels, CommanderAppends, plans,
       driverVars, allVars, vars
  <2> QED
    BY <1>1, <2>1 DEF PacketOK, Sole, Awaiting
<1> QED
  BY <1>2, <1>4, <1>5, <1>6, <1>7, <1>8, <1>9, <1>10, <1>11, <1>12, <1>13
  DEF DriverNext, Drive, Resume, RejectReport, DriverDies

\* Reports that were found are news.
LEMMA FoundIsNews ==
  ASSUME TInv, GInv, NInv, at = "after", Candidate(graph.task) # NoReport
  PROVE  News(FoundIt(graph.task))
<1>1. PICK g : g = graph.task
  OBVIOUS
<1>2. g \in Goals
  BY <1>1, FoundTyped
<1>3. /\ task[g].report \in NewReports \cup {NoReport}
      /\ file[g] \in NewReports \cup {NoReport, Invalid}
  BY <1>2, TInvParts DEF TypeOK, WorldTyped
<1>4. PICK r : r = Candidate(g)
  OBVIOUS
<1>5. /\ r # NoReport
      /\ r = IF task[g].report # NoReport THEN task[g].report ELSE file[g]
  BY <1>1, <1>2, <1>4, DriverAssumption DEF Candidate
<1>6. r \in NewReports \cup {Invalid} /\ task[g].report \in {NoReport, r}
  BY <1>3, <1>5
<1>7. launches[g] = 1 /\ (task[g].report = NoReport => kind[g] = "window")
  BY <1>2, <1>5 DEF NInv, FilesAreReports
<1>8. goal[g] # "pending"
  BY <1>2, <1>7 DEF NInv, NewGoals, GInv, LeaseGuards
<1>9. Slots = 1 => g # graph.packet
  <2> SUFFICES ASSUME Slots = 1, g = graph.packet PROVE FALSE
    OBVIOUS
  <2>1. Awaiting(g) /\ Sole(g)
    BY <1>2, DriverAssumption DEF NInv, PacketOK
  <2> QED
    BY <1>7, <2>1 DEF Sole, Awaiting
<1>10. FoundIt(graph.task).goal = g /\ FoundIt(graph.task).body = r
  BY <1>1, <1>4 DEF FoundIt
<1> QED
  BY <1>2, <1>6, <1>7, <1>8, <1>9, <1>10 DEF News

LEMMA MessagesNext ==
  ASSUME TInv, GInv, NInv, [DriverNext]_allVars PROVE MessagesOK'
<1>1. /\ graph \in Threads /\ TypeOK /\ MessagesOK /\ pending \in Message
  BY TInvParts DEF NInv
<1>2. CASE at' \notin {"round", "ingest"}
  BY <1>2 DEF MessagesOK
<1>3. CASE at' = "round" /\ pending' = NoMessage
  BY <1>3 DEF MessagesOK
<1>4. CASE BeginRound
  <2>1. at = "round" /\ graph.report = NoMessage
    BY <1>4 DEF BeginRound, TInv
  <2>2. CASE pending = NoMessage
    BY <1>2, <1>4, <2>1, <2>2 DEF BeginRound, Route
  <2>3. CASE pending # NoMessage
    <3>1. News(pending)
      BY <1>1, <2>1, <2>3 DEF MessagesOK
    <3>2. PICK m, stop, cont, mode :
            /\ m = pending
            /\ graph' = [graph EXCEPT !.report = m, !.stop = stop,
                                      !.cont = cont, !.mode = mode]
      BY <1>4, <2>3 DEF BeginRound
    <3>3. graph'.report = m /\ graph'.packet = graph.packet
      BY <1>1, <3>2 DEF Threads
    <3>4. at' = "ingest" /\ goal' = Judged /\ UNCHANGED <<task, launches>>
      BY <1>4, <2>3 DEF BeginRound, Route, Settle, world
    <3>5. News(m)'
      BY <1>1, <3>1, <3>2, <3>3, <3>4, GoalsJudged DEF News
    <3> QED
      BY <3>3, <3>4, <3>5 DEF MessagesOK
  <2> QED
    BY <2>2, <2>3
<1>5. CASE DispatchScript
  <2>1. PICK g \in Goals : g = graph.packet
    BY <1>5 DEF DispatchScript, GInv, LeaseGuards
  <2>2. CASE at' = "ingest"
    <3>1. PICK r \in NewReports :
            graph' = [graph EXCEPT !.packet = None,
                                   !.report = [goal |-> g, body |-> r]]
      BY <1>5, <2>1, <2>2 DEF DispatchScript
    <3>2. PICK m : m = [goal |-> g, body |-> r]
      OBVIOUS
    <3>3. graph'.report = m /\ graph'.packet = None
      BY <1>1, <3>1, <3>2 DEF Threads
    <3>4. goal[g] # "pending" /\ task[g].report = NoReport
      BY <1>5, <2>1, DriverAssumption DEF DispatchScript, NInv, PacketOK, Awaiting
    <3>5. UNCHANGED <<goal, task>>
      BY <1>5 DEF DispatchScript, plans
    <3>6. launches'[g] = 1
      <4>1. launches[g] = 0 /\ launches \in [Goals -> 0..1]
        BY <1>5, <2>1 DEF DispatchScript, GInv, LeaseGuards
      <4>2. launches' = [launches EXCEPT ![g] = @ + 1]
        BY <1>5, <2>1 DEF DispatchScript
      <4> QED
        BY <4>1, <4>2
    <3> QED
      BY <2>2, <3>2, <3>3, <3>4, <3>5, <3>6, DriverAssumption DEF MessagesOK, News
  <2>3. CASE at' # "ingest"
    BY <1>2, <1>5, <2>3 DEF DispatchScript
  <2> QED
    BY <2>2, <2>3
<1>6. CASE StopHere \/ ReportArrives \/ WaitEnds \/ PickUpReport \/ GoOnInternally
  <2>1. /\ UNCHANGED <<goal, task, graph, launches>> /\ at = "after"
        /\ at' \in {"round", "finish"}
    BY <1>6, RoundEnds DEF plans, world
  <2>2. pending = NoMessage
    BY <2>1 DEF TInv
  <2>3. \/ pending' = NoMessage
        \/ pending' = FoundIt(graph.task) /\ Candidate(graph.task) # NoReport
    BY <1>6, <2>2 DEF StopHere, ReportArrives, WaitEnds, PickUpReport,
       GoOnInternally, NextRound, EndCall
  <2>4. CASE pending' = FoundIt(graph.task) /\ Candidate(graph.task) # NoReport
    <3>1. News(FoundIt(graph.task)) /\ FoundIt(graph.task).goal = graph.task
      BY <2>1, <2>4, FoundIsNews DEF FoundIt
    <3>2. PICK m : m = FoundIt(graph.task)
      OBVIOUS
    <3>3. News(m) /\ m.goal = graph.task /\ pending' = m
      BY <2>4, <3>1, <3>2
    <3> QED
      BY <2>1, <3>3 DEF MessagesOK, News
  <2> QED
    BY <1>2, <1>3, <2>1, <2>3, <2>4
<1>7. CASE Finish
  <2>1. pending' = pending /\ pending = NoMessage /\ at' \in {"round", "idle"}
    BY <1>7 DEF Finish, Final, TInv
  <2> QED
    BY <1>2, <1>3, <2>1
<1>8. CASE \/ \E g \in Goals : WorkerWrites(g) \/ CommanderCancels(g)
           \/ CommanderAppends
           \/ UNCHANGED allVars
  <2>1. /\ UNCHANGED <<at, graph, pending, launches>>
        /\ at # "idle" => UNCHANGED <<goal, task>>
    BY <1>8 DEF WorkerWrites, CommanderCancels, CommanderAppends, plans,
       driverVars, allVars, vars
  <2> QED
    BY <1>1, <2>1 DEF MessagesOK, News
<1> QED
  BY <1>2, <1>3, <1>4, <1>5, <1>6, <1>7, <1>8
  DEF DriverNext, Drive, StartRun, Resume, PromotePhase, PromoteNext,
      TakeUpAgain, Assign, DispatchWindow, Ingest, NodeAfter, RejectReport, Close, Archive, HandOff,
      DriverDies

----------------------------------------------------------------------------
(* What the thread remembers *)

LEMMA ReportedStays ==
  ASSUME TInv, GInv, NInv, [DriverNext]_allVars, NEW m, Reported(m)
  PROVE  Reported(m)'
BY ReportsStay DEF Reported

\* The closure of a thread is of a task that is closed or archived.
ClosureOK(m) ==
  Reported(m) /\ (m # Nothing => /\ task[m.goal].life \in {"closed", "archived"}
                                 /\ m.phase = "closed")

LEMMA ClosureStays ==
  ASSUME TInv, GInv, NInv, [DriverNext]_allVars, NEW m, ClosureOK(m)
  PROVE  ClosureOK(m)'
BY ReportsStay DEF ClosureOK, Reported

LEMMA IngestedResults ==
  ASSUME TInv, GInv, NInv, Ingest PROVE ResultsOK'
<1>1. /\ graph \in Threads /\ TypeOK /\ MessagesOK
      /\ ClosureOK(graph.closure)
  BY TInvParts DEF NInv, ResultsOK, ClosureOK
<1>2. PICK g, r, phase : /\ g = graph.report.goal /\ r = graph.report.body
                         /\ phase = Phase(task[g].life, Packet, r)
  OBVIOUS
<1>3. g \in Goals /\ r \in NewReports
  BY <1>1, <1>2 DEF Ingest, MessagesOK, News
<1>4. PICK result : result = [goal |-> g, phase |-> phase]
  OBVIOUS
<1>5. graph' = [graph EXCEPT !.task = g, !.report = NoMessage, !.ingest = result]
  BY <1>2, <1>4 DEF Ingest
<1>6. graph'.ingest = result /\ graph'.closure = graph.closure
  BY <1>1, <1>5 DEF Threads
<1>7. /\ task'[g].report = r /\ r # NoReport
      /\ task'[g].life = task[g].life
  BY <1>1, <1>2, <1>3, ReportKinds DEF Ingest, TypeOK
<1>8. result # Nothing /\ result.goal = g /\ Reported(result)'
  BY <1>3, <1>4, <1>7, DriverAssumption DEF Nothing, Reported
<1>9. PhaseOfTask(g)' = phase
  BY <1>2, <1>7 DEF PhaseOfTask
<1>10. at' = NodeAfter(phase)
  BY <1>2 DEF Ingest
<1>11. phase = "closed" => task'[g].life = "closed"
  <2>1. ActivePhase(Packet, r) # "closed"
    BY DEF ActivePhase
  <2> QED
    BY <1>2, <1>7, <2>1 DEF Phase
<1>12. /\ at' = "close" => phase = "ready_to_close"
       /\ at' = "archive" => phase = "closed"
       /\ at' = "handoff" => phase \in UserPhases
  BY <1>10 DEF NodeAfter
<1>13. PICK m : m = graph.closure
  OBVIOUS
<1>14. ClosureOK(m)'
  <2>1. [DriverNext]_allVars
    BY DEF DriverNext, Drive
  <2> QED
    BY <1>1, <1>13, <2>1, ClosureStays
<1> HIDE DEF Reported
<1> QED
  BY <1>6, <1>8, <1>9, <1>11, <1>12, <1>13, <1>14
  DEF ResultsOK, ClosureOK, WaitsForUser

LEMMA ResultsNext ==
  ASSUME TInv, GInv, NInv, [DriverNext]_allVars PROVE ResultsOK'
<1>1. graph \in Threads /\ TypeOK /\ ResultsOK
  BY TInvParts DEF NInv
<1>2. PICK i, c : i = graph.ingest /\ c = graph.closure
  OBVIOUS
<1>3. Reported(i)' /\ ClosureOK(c)'
  BY <1>1, <1>2, ReportedStays, ClosureStays DEF ResultsOK, ClosureOK
<1>4. CASE /\ graph'.ingest = i /\ graph'.closure = c
           /\ at' \notin {"close", "archive", "handoff"}
  BY <1>3, <1>4 DEF ResultsOK, ClosureOK
<1>5. CASE StartRun
  <2>1. PICK g \in Goals \cup {None} : graph' = [Empty EXCEPT !.task = g]
    BY <1>5, Zenon DEF StartRun
  <2>2. graph'.ingest = Nothing /\ graph'.closure = Nothing /\ at' = "round"
    BY <1>5, <2>1 DEF Empty, StartRun
  <2> QED
    BY <2>2 DEF ResultsOK, Reported
<1>6. CASE BeginRound
  <2>1. at' \in {"ingest", "assign", "promoteGoal", "promotePhase", "after"}
    BY <1>6 DEF BeginRound, Route
  <2>2. graph'.ingest = i /\ graph'.closure = c
    BY <1>1, <1>2, <1>6 DEF BeginRound, Threads
  <2> QED
    BY <1>4, <2>1, <2>2
<1>7. CASE Close
  <2>1. PICK g : g = graph.ingest.goal
    OBVIOUS
  <2>2. /\ graph.ingest # Nothing /\ g \in Goals
        /\ task[g].report # NoReport
    BY <1>1, <1>7, <2>1 DEF Close, ResultsOK, Reported
  <2>3. PICK cl : cl = [goal |-> g, phase |-> "closed"]
    OBVIOUS
  <2>4. /\ graph' = [graph EXCEPT !.closure = cl] /\ at' = "archive"
        /\ task' = [task EXCEPT ![g].life = "closed"]
    BY <1>7, <2>1, <2>3 DEF Close
  <2>5. graph'.closure = cl /\ graph'.ingest = i
    BY <1>1, <1>2, <2>4 DEF Threads
  <2>6. task'[g].life = "closed" /\ task'[g].report # NoReport
    BY <1>1, <2>2, <2>4 DEF TypeOK
  <2>7. cl # Nothing /\ cl.goal = g /\ cl.phase = "closed"
    BY <2>2, <2>3, DriverAssumption DEF Nothing
  <2> QED
    BY <1>2, <1>3, <2>2, <2>4, <2>5, <2>6, <2>7 DEF ResultsOK, Reported
<1>8. CASE Ingest
  BY <1>8, IngestedResults
<1>9. CASE PromotePhase \/ PromoteNext \/ TakeUpAgain \/ Assign \/ Archive \/ HandOff
  BY <1>1, <1>2, <1>4, <1>9
  DEF PromotePhase, PromoteNext, TakeUpAgain, Assign, Archive, HandOff, Threads
<1>10. CASE DispatchWindow \/ DispatchScript \/ Finish
  BY <1>1, <1>2, <1>4, <1>10
  DEF DispatchWindow, DispatchScript, Finish, Final, Threads
<1>11. CASE StopHere \/ ReportArrives \/ WaitEnds \/ PickUpReport \/ GoOnInternally
  BY <1>2, <1>4, <1>11, RoundEnds
<1>12. CASE Resume \/ RejectReport \/ DriverDies
  BY <1>2, <1>4, <1>12 DEF Resume, RejectReport, DriverDies
<1>13. CASE \/ \E g \in Goals : WorkerWrites(g) \/ CommanderCancels(g)
            \/ CommanderAppends
            \/ UNCHANGED allVars
  <2>1. /\ UNCHANGED <<at, graph>>
        /\ at # "idle" => UNCHANGED task
    BY <1>13 DEF WorkerWrites, CommanderCancels, CommanderAppends, plans,
       driverVars, allVars, vars
  <2>2. CASE at = "idle"
    BY <1>2, <1>4, <2>1, <2>2
  <2>3. CASE at # "idle"
    BY <1>1, <2>1, <2>3 DEF ResultsOK, Reported, WaitsForUser, PhaseOfTask
  <2> QED
    BY <2>2, <2>3
<1> QED
  BY <1>5, <1>6, <1>7, <1>8, <1>9, <1>10, <1>11, <1>12, <1>13
  DEF DriverNext, Drive

\* A step that keeps every task and every window leaves it at that, unless
\* the driver lets go of what it has in its hands.
LEMMA CoveredNext ==
  ASSUME TInv, GInv, NInv, [DriverNext]_allVars PROVE Covered'
<1> SUFFICES ASSUME NEW g \in Goals, Awaiting(g)', g \notin open', g \notin stuck'
             PROVE  \/ at' = "assign" /\ g = graph'.packet /\ g \notin leased'
                    \/ at' = "dispatch" /\ g = graph'.packet
                    \/ /\ at' = "ingest" /\ g = graph'.report.goal
                       /\ kind'[g] = "script" /\ graph'.report.body # Invalid
  BY DEF Covered
<1>1. graph \in Threads /\ TypeOK /\ WorldTyped
  BY TInvParts
<1>2. g \notin stuck /\ kind' = kind /\ g \notin open
  BY WorldMoves DEF Awaiting
<1>3. CASE ~Awaiting(g)
  <2>1. /\ goal[g] = "pending" /\ at = "promoteGoal" /\ at' = "assign"
        /\ g = graph'.packet
    BY <1>2, <1>3, TasksMove, ReportKinds DEF Awaiting, NInv, MessagesOK, News
  <2>2. g \notin leased
    BY <2>1 DEF NInv, NewGoals
  <2>3. UNCHANGED leased
    BY <2>1
    DEF DriverNext, Drive, StartRun, Resume, BeginRound, PromotePhase,
        PromoteNext, TakeUpAgain, Assign, DispatchWindow, DispatchScript, Ingest,
        RejectReport, Close, Archive, HandOff, StopHere, ReportArrives, WaitEnds,
        PickUpReport, GoOnInternally, MustGoOn, Finish, WorkerWrites,
        CommanderCancels, CommanderAppends, DriverDies, driverVars, allVars, world
  <2> QED
    BY <2>1, <2>2, <2>3
<1>4. CASE Awaiting(g)
  <2>1. \/ at = "assign" /\ g = graph.packet /\ g \notin leased
        \/ at = "dispatch" /\ g = graph.packet
        \/ /\ at = "ingest" /\ g = graph.report.goal
           /\ kind[g] = "script" /\ graph.report.body # Invalid
    BY <1>2, <1>4 DEF NInv, Covered
  <2>2. CASE Assign
    <3>1. g = graph.packet /\ g \notin leased
      BY <2>1, <2>2 DEF Assign
    <3>3. kind[g] # "refused"
      BY <2>2, <3>1 DEF Assign
    <3>4. at' = "dispatch" /\ graph' = [graph EXCEPT !.task = g]
      BY <2>2, <3>1, <3>3 DEF Assign
    <3> QED
      BY <1>1, <3>1, <3>4 DEF Threads
  <2>3. CASE DispatchWindow
    <3>1. g = graph.packet
      BY <2>1, <2>3 DEF DispatchWindow
    <3>2. g \in open' \/ g \in stuck'
      BY <2>3, <3>1 DEF DispatchWindow
    <3> QED
      BY <3>2
  <2>4. CASE DispatchScript
    <3>1. g = graph.packet /\ kind[g] = "script"
      BY <2>1, <2>4 DEF DispatchScript
    <3>2. PICK r \in NewReports :
            /\ at' = "ingest"
            /\ graph' = [graph EXCEPT !.packet = None,
                                      !.report = [goal |-> g, body |-> r]]
      BY <2>4, <3>1 DEF DispatchScript
    <3>3. PICK m : m = [goal |-> g, body |-> r]
      OBVIOUS
    <3>4. graph'.report = m
      BY <1>1, <3>2, <3>3 DEF Threads
    <3> QED
      BY <1>2, <3>1, <3>2, <3>3, <3>4, ReportKinds
  <2>5. CASE Ingest
    <3>1. PICK r : r = graph.report.body
      OBVIOUS
    <3>2. g = graph.report.goal /\ r \in NewReports
      BY <2>1, <2>5, <3>1 DEF Ingest, NInv, MessagesOK, News
    <3>3. task' = [task EXCEPT ![g].report = r]
      BY <2>5, <3>1, <3>2 DEF Ingest
    <3>4. task'[g].report = r
      BY <1>1, <3>3 DEF TypeOK
    <3> QED
      BY <3>2, <3>4, ReportKinds DEF Awaiting
  <2>6. CASE DriverDies
    <3>1. g \in Lost
      BY <2>1 DEF Lost
    <3> QED
      BY <2>6, <3>1 DEF DriverDies
  <2>7. CASE \/ \E h \in Goals : WorkerWrites(h) \/ CommanderCancels(h)
             \/ CommanderAppends
             \/ UNCHANGED allVars
    <3>1. UNCHANGED <<at, graph, leased>>
      BY <2>7 DEF WorkerWrites, CommanderCancels, CommanderAppends,
         driverVars, allVars
    <3> QED
      BY <1>2, <2>1, <3>1
  <2> QED
    BY <2>1, <2>2, <2>3, <2>4, <2>5, <2>6, <2>7
    DEF DriverNext, Drive, StartRun, Resume, BeginRound, PromotePhase,
        PromoteNext, TakeUpAgain, RejectReport, Close, Archive, HandOff,
        StopHere, ReportArrives, WaitEnds, PickUpReport, GoOnInternally,
        MustGoOn, Finish
<1> QED
  BY <1>3, <1>4

LEMMA NInvInit == DriverInit => NInv
<1> SUFFICES ASSUME DriverInit PROVE NInv
  OBVIOUS
<1>1. \A g \in Goals : /\ task[g].life = "none" /\ task[g].report = NoReport
                       /\ ~task[g].agents /\ file[g] = NoReport
                       /\ goal[g] = "pending"
  BY DEF DriverInit, Init, NoTask
<1>2. CurrentFiled
  BY DEF DriverInit, Init, CurrentFiled
<1>3. graph.packet = None /\ graph.ingest = Nothing /\ graph.closure = Nothing
  BY DEF DriverInit, Empty
<1> QED
  BY <1>1, <1>2, <1>3 DEF DriverInit, NInv, NoAgents, NewGoals, FilesAreReports,
     PacketOK, MessagesOK, ResultsOK, Reported, Covered, Awaiting

(***************************************************************************)
(* Every goal whose report is outstanding has a worker window, is known to *)
(* be stuck, or is in the driver's hands, and a crash moves it from there  *)
(* to the stuck ones; a packet is of a goal that was promoted, a report on *)
(* its way of one that was launched, and if goals are worked on one by one *)
(* never of the packet's goal (the graph nodes and the thread).            *)
(***************************************************************************)
THEOREM HandsInvariance == DriverSpec => []NInv
<1>1. TInv /\ GInv /\ NInv /\ [DriverNext]_allVars => NInv'
  <2> SUFFICES ASSUME TInv, GInv, NInv, [DriverNext]_allVars PROVE NInv'
    OBVIOUS
  <2>1. CurrentFiled' /\ NoAgents' /\ NewGoals' /\ FilesAreReports'
    BY CurrentFiledNext, NoAgentsNext, NewGoalsNext, FilesNext
  <2>2. PacketOK' /\ MessagesOK' /\ ResultsOK' /\ Covered'
    BY PacketNext, MessagesNext, ResultsNext, CoveredNext
  <2> QED
    BY <2>1, <2>2 DEF NInv
<1> QED
  BY <1>1, NInvInit, LaunchInvariance, ThreadInvariance, PTL DEF DriverSpec

----------------------------------------------------------------------------
(***************************************************************************)
(* The user is only handed what waits for the user: the gate says so for   *)
(* a task, or the handoff node does, and nothing takes it back until the   *)
(* run ends.                                                               *)
(***************************************************************************)

UserIsWanted == \E g \in Goals : WaitsForUser(g)

AskInv ==
  /\ at \notin {"idle", "round"} /\ graph.mode = "user_handoff" => UserIsWanted
  /\ at = "finish" /\ outcome.reason = "user_handoff" => UserIsWanted

LEMMA AskedStays ==
  ASSUME TInv, GInv, NInv, [DriverNext]_allVars, at # "idle", UserIsWanted
  PROVE  UserIsWanted'
<1>1. PICK g \in Goals : WaitsForUser(g)
  BY DEF UserIsWanted
<1>2. task[g].report # NoReport
  <2>1. ~Awaiting(g)
    BY <1>1, AwaitingPhase, TInvParts DEF WaitsForUser, UserPhases
  <2>2. task[g].life = "active"
    BY <1>1, TInvParts DEF WaitsForUser, UserPhases, PhaseOfTask, Phase, TypeOK,
       TerminalLife
  <2> QED
    BY <2>1, <2>2 DEF Awaiting
<1> QED
  BY <1>1, <1>2, ReportsStay DEF UserIsWanted

LEMMA AskInvNext ==
  ASSUME TInv, GInv, NInv, AskInv, [DriverNext]_allVars PROVE AskInv'
<1>1. graph \in Threads /\ TypeOK /\ NoAgents /\ CurrentFiled /\ ResultsOK
  BY TInvParts DEF NInv
<1>2. CASE at' \in {"idle", "round"}
  BY <1>2 DEF AskInv
<1>3. CASE BeginRound
  <2>1. PICK gate, report, stop, cont :
          /\ gate = TheGate(graph.task)
          /\ graph' = [graph EXCEPT !.report = report, !.stop = stop,
                                    !.cont = cont, !.mode = gate.mode]
    BY <1>3 DEF BeginRound
  <2>2. graph'.mode = gate.mode /\ task' = task /\ at' # "finish"
    BY <1>1, <1>3, <2>1 DEF BeginRound, Threads, Route
  <2>3. ASSUME gate.mode = "user_handoff" PROVE UserIsWanted
    <3>1. graph.task \in Goals \cup {None}
      BY <1>1 DEF Threads
    <3> QED
      BY <1>1, <2>1, <2>3, <3>1, GateAsksUser DEF UserIsWanted
  <2> QED
    BY <2>2, <2>3 DEF AskInv, UserIsWanted, WaitsForUser, PhaseOfTask
<1>4. CASE HandOff
  <2>1. WaitsForUser(graph.ingest.goal) /\ graph.ingest.goal \in Goals
    BY <1>1, <1>4 DEF HandOff, ResultsOK, Reported
  <2>2. UserIsWanted /\ at # "idle"
    BY <1>4, <2>1 DEF UserIsWanted, HandOff
  <2> QED
    BY <1>4, <2>2, AskedStays DEF AskInv, HandOff
<1>5. CASE /\ at \notin {"idle", "round"} /\ at' # "finish"
           /\ graph'.mode = "user_handoff" => graph.mode = "user_handoff"
  BY <1>5, AskedStays DEF AskInv
<1>6. CASE PromotePhase \/ PromoteNext \/ TakeUpAgain
  BY <1>1, <1>5, <1>6 DEF PromotePhase, PromoteNext, TakeUpAgain, Threads
<1>7. CASE Assign \/ DispatchWindow \/ DispatchScript
  BY <1>1, <1>5, <1>7 DEF Assign, DispatchWindow, DispatchScript, Threads
<1>8. CASE Ingest
  BY <1>1, <1>5, <1>8 DEF Ingest, NodeAfter, Threads
<1>9. CASE Close \/ Archive
  BY <1>1, <1>5, <1>9 DEF Close, Archive, Threads
<1>10. CASE StopHere \/ ReportArrives \/ WaitEnds \/ PickUpReport \/ GoOnInternally
  <2>1. at' = "finish" /\ outcome'.reason = "user_handoff" =>
          graph.mode = "user_handoff"
    BY <1>10, RoundEnds
  <2>2. graph' = graph /\ at = "after"
    BY <1>10, RoundEnds
  <2> QED
    BY <2>1, <2>2, AskedStays DEF AskInv
<1>11. CASE \/ \E g \in Goals : WorkerWrites(g) \/ CommanderCancels(g)
            \/ CommanderAppends
            \/ UNCHANGED allVars
  <2>1. UNCHANGED <<at, graph, outcome>>
    BY <1>11 DEF WorkerWrites, CommanderCancels, CommanderAppends, driverVars,
       allVars
  <2> QED
    BY <2>1, AskedStays DEF AskInv
<1> QED
  BY <1>2, <1>3, <1>4, <1>6, <1>7, <1>8, <1>9, <1>10, <1>11
  DEF DriverNext, Drive, StartRun, Resume, RejectReport, Finish, Final, DriverDies

\* Which of the two the daemon goes by.
LEMMA HandedOver ==
  ASSUME TInv, AskInv, [DriverNext]_allVars,
         at # "idle", at' = "idle", outcome'.status = "user_handoff"
  PROVE  UserIsWanted
<1>1. Finish
  <2>1. ~RejectReport /\ ~DriverDies
    BY DEF RejectReport, DriverDies, NoOutcome
  <2> QED
    BY <2>1, NodesKeepPlans, RoundEnds
    DEF DriverNext, Drive, StartRun, Resume, BeginRound, PromotePhase,
        PromoteNext, TakeUpAgain, WorkerWrites, CommanderCancels,
        CommanderAppends, driverVars, allVars, Route
<1>2. outcome' = [status |-> Verdict[1], reason |-> Verdict[2]]
  <2>1. CASE outcome' = [status |-> "attention", reason |-> "paused_no_progress"]
             \/ outcome' = [status |-> "attention",
                            reason |-> "max_objective_rounds_exhausted"]
    BY <2>1
  <2> QED
    BY <1>1, <2>1 DEF Finish, Final
<1>3. Verdict[1] = "user_handoff"
  BY <1>2
<1>4. graph.mode = "user_handoff" \/ outcome.reason = "user_handoff"
  BY <1>3 DEF Verdict
<1> QED
  BY <1>1, <1>4 DEF Finish, AskInv

(***************************************************************************)
(* A run that ends as a handoff to the user has something that waits for   *)
(* the user (_derive_cycle_outcome).                                       *)
(***************************************************************************)
THEOREM HandoffsAreAsked == DriverSpec => HandoffMeansAsked
<1>1. DriverInit => AskInv
  BY DEF DriverInit, AskInv
<1>2. TInv /\ GInv /\ NInv /\ AskInv /\ [DriverNext]_allVars => AskInv'
  BY AskInvNext
<1>3. TInv /\ AskInv /\ [DriverNext]_allVars
        => [at # "idle" /\ at' = "idle" /\ outcome'.status = "user_handoff"
              => \E g \in Goals : PhaseOfTask(g) \in UserPhases]_allVars
  BY HandedOver DEF UserIsWanted, WaitsForUser
<1> QED
  BY <1>1, <1>2, <1>3, LaunchInvariance, ThreadInvariance, HandsInvariance, PTL
  DEF DriverSpec, HandoffMeansAsked

----------------------------------------------------------------------------
(***************************************************************************)
(* A driver that waits, waits for somebody.  What it waits for is not what *)
(* it has in its hands, unless it waits for a report it is about to find.  *)
(***************************************************************************)

InHand ==
  IF at \in {"assign", "dispatch"} /\ graph.packet \notin stuck THEN graph.packet
  ELSE IF at = "ingest" THEN graph.report.goal
  ELSE IF at = "close" THEN graph.ingest.goal
  ELSE None

SomebodyBut(g) == \E h \in Goals : h # g /\ Waited(h)

\* The report of the task is there when the driver looks for it.
ReportAtHand == CanWait /\ (at = "after" => /\ graph.task \in Goals
                                            /\ task[graph.task].report # NoReport)

\* Why nobody picks up a report of a window that just opened.
NothingYet ==
  at = "after" /\ graph.mode # "wait_external_result" /\ graph.ingest = Nothing
    /\ graph.task \in Goals
    => \/ ~Awaiting(graph.task)
       \/ launches[graph.task] = 0 \/ kind[graph.task] # "window"

WaitInv ==
  Slots = 1 \/ CanWait =>
    /\ NothingYet
    /\ at = "round" /\ pending # NoMessage /\ Awaiting(graph.task) => CanWait
    /\ at \notin {"idle", "round", "finish"} /\ graph.mode = "wait_external_result"
         => SomebodyBut(InHand) \/ ReportAtHand
    /\ at = "finish" /\ outcome.status = "waiting_external_result"
         => SomebodyBut(None)
    /\ WaitsForSomebody

\* Whoever is waited for is still there, unless the driver has it in hand.
LEMMA WaitedStays ==
  ASSUME TInv, GInv, NInv, [DriverNext]_allVars, at # "idle",
         NEW h \in Goals, Waited(h), h # InHand
  PROVE  Waited(h)' /\ goal[h] # "pending"
<1>1. h \in open \/ h \in stuck
  BY DEF Waited
<1>2. goal[h] # "pending"
  BY DEF Waited, NInv, NewGoals
<1>3. ~(at = "ingest" /\ h = graph.report.goal) /\ ~(at = "close" /\ h = graph.ingest.goal)
  BY DEF InHand
<1>4. h \in open' \/ h \in stuck'
  BY <1>1, <1>3, WorldMoves
<1>5. task'[h].life = "active"
  BY <1>2, <1>3, TasksMove DEF Waited
<1> QED
  BY <1>2, <1>4, <1>5 DEF Waited

LEMMA SomebodyStays ==
  ASSUME TInv, GInv, NInv, [DriverNext]_allVars, at # "idle", SomebodyBut(InHand)
  PROVE  /\ SomebodyBut(None)'
         /\ at' \notin {"assign", "dispatch", "ingest", "close"} =>
              SomebodyBut(InHand)'
         /\ InHand' = InHand => SomebodyBut(InHand)'
         /\ at = "promoteGoal" /\ goal[InHand'] = "pending" => SomebodyBut(InHand)'
<1>1. PICK h \in Goals : Waited(h) /\ h # InHand
  BY DEF SomebodyBut
<1>2. Waited(h)' /\ goal[h] # "pending"
  BY <1>1, WaitedStays
<1>3. SomebodyBut(None)'
  BY <1>1, <1>2, DriverAssumption DEF SomebodyBut
<1>4. ASSUME h # InHand' PROVE SomebodyBut(InHand)'
  BY <1>1, <1>2, <1>4 DEF SomebodyBut
<1>5. at' \notin {"assign", "dispatch", "ingest", "close"} => InHand' = None
  BY DEF InHand
<1> QED
  BY <1>1, <1>2, <1>3, <1>4, <1>5, DriverAssumption

----------------------------------------------------------------------------
(* The steps that make or unmake somebody the driver waits for *)

\* The part of WaitInv about the nodes of a round.
WaitsInRound ==
  at \notin {"idle", "round", "finish"} /\ graph.mode = "wait_external_result"
    => SomebodyBut(InHand) \/ ReportAtHand

LEMMA WaitFromGate ==
  ASSUME TInv, GInv, NInv, WaitInv, Slots = 1 \/ CanWait,
         BeginRound
  PROVE  WaitsInRound' /\ NothingYet'
<1>1. /\ graph \in Threads /\ TypeOK /\ NoAgents /\ MessagesOK /\ PacketOK
      /\ graph.task \in Goals \cup {None} /\ graph.packet \in Goals \cup {None}
      /\ graph.report = NoMessage /\ at = "round" /\ WorldTyped
  BY TInvParts DEF NInv, Threads, TInv, BeginRound
<1>2. PICK gate, m, stop, cont :
        /\ gate = TheGate(graph.task) /\ m = pending
        /\ graph' = [graph EXCEPT !.report = m, !.stop = stop,
                                  !.cont = cont, !.mode = gate.mode]
        /\ at' = Route(m, graph.packet, gate)
  BY <1>1 DEF BeginRound
<1>3. /\ graph'.mode = gate.mode /\ graph'.report = m
      /\ graph'.packet = graph.packet /\ graph'.task = graph.task
      /\ UNCHANGED <<task, kind, file, open, leased, launches, stuck>>
  BY <1>1, <1>2 DEF BeginRound, Threads, world
<1>4. /\ at' \in {"ingest", "assign", "promoteGoal", "promotePhase", "after"}
      /\ at' = "ingest" <=> m # NoMessage
      /\ at' = "assign" => graph.packet # None
  BY <1>2 DEF Route
<1>5. ASSUME gate.mode = "wait_external_result" PROVE WaitsInRound'
  <2>1. PICK h \in Goals : Awaiting(h) /\ (graph.task # None => h = graph.task)
    BY <1>1, <1>2, <1>5, GateWaits
  <2>2. Waited(h)'
    <3>1. h \in open \/ h \in stuck
      BY <1>1, <2>1 DEF NInv, Covered
    <3> QED
      BY <1>3, <2>1, <3>1 DEF Waited, Awaiting
  <2>3. CASE at' = "ingest"
    <3>1. m # NoMessage /\ m.goal = graph.task /\ m.goal \in Goals
      BY <1>1, <1>2, <1>4, <2>3 DEF MessagesOK, News
    <3>2. Awaiting(graph.task)
      BY <2>1, <3>1, DriverAssumption
    <3>3. CanWait
      BY <1>1, <1>2, <3>1, <3>2 DEF WaitInv
    <3> QED
      BY <2>3, <3>3 DEF WaitsInRound, ReportAtHand
  <2>4. CASE at' # "ingest"
    <3>1. CASE CanWait /\ at' # "after"
      BY <3>1 DEF WaitsInRound, ReportAtHand
    <3>2. ASSUME ~CanWait, at' = "assign" PROVE graph'.packet \in stuck'
      <4>1. PICK p \in Goals : p = graph.packet
        BY <1>1, <1>4, <3>2
      <4>2. Awaiting(p) /\ Sole(p)
        BY <1>1, <3>2, <4>1, DriverAssumption DEF PacketOK
      <4>3. p \notin open
        BY <4>2 DEF Sole, NInv, FilesAreReports
      <4>4. p \in stuck
        BY <1>1, <4>2, <4>3 DEF NInv, Covered
      <4> QED
        BY <1>3, <4>1, <4>4
    <3>3. CASE ~CanWait \/ at' = "after"
      <4>1. InHand' = None
        BY <1>4, <2>4, <3>2, <3>3 DEF InHand
      <4> QED
        BY <2>1, <2>2, <4>1, DriverAssumption DEF WaitsInRound, SomebodyBut
    <3> QED
      BY <3>1, <3>3
  <2> QED
    BY <2>3, <2>4
<1>6. ASSUME gate.mode # "wait_external_result" PROVE NothingYet'
  <2>1. graph.task \in Goals => ~Awaiting(graph.task)
    BY <1>1, <1>2, <1>6, GateWaits, DriverAssumption
  <2> QED
    BY <1>3, <2>1 DEF NothingYet, Awaiting
<1> QED
  BY <1>3, <1>5, <1>6 DEF WaitsInRound, NothingYet

LEMMA WaitOnPromotion ==
  ASSUME TInv, GInv, NInv, WaitInv, Slots = 1 \/ CanWait,
         PromotePhase \/ PromoteNext \/ TakeUpAgain
  PROVE  WaitsInRound'
<1>1. graph \in Threads /\ TypeOK /\ [DriverNext]_allVars
  BY TInvParts DEF DriverNext, Drive
<1>2. /\ at \in {"promotePhase", "promoteGoal"} /\ graph'.mode = graph.mode
      /\ at' \in {"promoteGoal", "assign"}
  BY <1>1 DEF PromotePhase, PromoteNext, TakeUpAgain, Threads
<1>3. graph.mode = "wait_external_result" => SomebodyBut(InHand) \/ ReportAtHand
  BY <1>2 DEF WaitInv
<1>4. ReportAtHand => ReportAtHand'
  BY <1>2 DEF ReportAtHand
<1>5. CASE PromotePhase
  <2>1. at' = "promoteGoal" /\ at = "promotePhase"
    BY <1>5 DEF PromotePhase
  <2> QED
    BY <1>1, <1>2, <1>3, <1>4, <2>1, SomebodyStays DEF WaitsInRound
<1>6. CASE PromoteNext
  <2>1. PICK g \in Goals : PromoteGoal(g) /\ graph' = [graph EXCEPT !.task = g, !.packet = g]
    BY <1>6 DEF PromoteNext
  <2>2. graph'.packet = g /\ at = "promoteGoal" /\ at' = "assign" /\ stuck' = stuck
    BY <1>1, <1>6, <2>1 DEF PromoteNext, Threads, world
  <2>3. goal[g] = "pending" /\ g \notin stuck
    BY <1>1, <2>1, PromotedTask DEF NInv, NewGoals
  <2>4. InHand' = g
    BY <2>2, <2>3 DEF InHand
  <2> QED
    BY <1>1, <1>2, <1>3, <1>4, <2>2, <2>3, <2>4, SomebodyStays DEF WaitsInRound
<1>7. CASE TakeUpAgain
  <2>1. CanWait
    BY <1>1, <1>7, TakenUp DEF NInv
  <2> QED
    BY <1>2, <2>1 DEF WaitsInRound, ReportAtHand
<1> QED
  BY <1>5, <1>6, <1>7

LEMMA WaitOnAssign ==
  ASSUME TInv, GInv, NInv, WaitInv, Slots = 1 \/ CanWait,
         Assign
  PROVE  WaitsInRound' /\ NothingYet'
<1>1. graph \in Threads /\ TypeOK /\ [DriverNext]_allVars
  BY TInvParts DEF DriverNext, Drive
<1>2. PICK g \in Goals : g = graph.packet
  BY DEF Assign, GInv, LeaseGuards
<1>3. /\ at = "assign"
      /\ Slots = 1 => Sole(g)
      /\ Awaiting(g) \/ (Slots # 1 /\ task[g].report # NoReport)
  BY <1>2, DriverAssumption DEF Assign, NInv, PacketOK
<1>4. /\ graph'.task = g /\ graph'.packet = g
      /\ UNCHANGED <<task, kind, open, launches>>
      /\ \/ /\ at' = "after" /\ kind[g] = "refused"
            /\ graph'.mode = "commander_internal"
         \/ at' = "after" /\ kind[g] # "refused" /\ g \in leased
            /\ stuck' = stuck /\ graph'.mode = "wait_external_result"
         \/ at' = "dispatch" /\ kind[g] # "refused" /\ g \notin leased
            /\ stuck' = stuck /\ graph'.mode = graph.mode
  BY <1>1, <1>2 DEF Assign, Threads, plans
<1>5. CASE at' = "after" /\ graph'.mode = "commander_internal"
  BY <1>4, <1>5 DEF WaitsInRound, NothingYet
<1>6. CASE at' = "after" /\ graph'.mode = "wait_external_result"
  <2>1. CASE Awaiting(g)
    <3>1. g \in open \/ g \in stuck
      BY <1>3, <1>4, <1>6, <2>1 DEF NInv, Covered
    <3>2. Waited(g)' /\ InHand' = None
      BY <1>4, <1>6, <2>1, <3>1 DEF Awaiting, Waited, InHand
    <3>3. SomebodyBut(InHand)'
      BY <3>2, DriverAssumption DEF SomebodyBut
    <3> QED
      BY <1>6, <3>3 DEF WaitsInRound, NothingYet
  <2>2. CASE Slots # 1 /\ task[g].report # NoReport
    BY <1>4, <1>6, <2>2 DEF WaitsInRound, NothingYet, ReportAtHand
  <2> QED
    BY <1>3, <2>1, <2>2
<1>7. CASE at' = "dispatch"
  <2>1. stuck' = stuck /\ graph'.mode = graph.mode
    BY <1>4, <1>7
  <2>2. InHand' = InHand
    BY <1>2, <1>3, <1>4, <1>7, <2>1 DEF InHand
  <2>3. graph.mode = "wait_external_result" => SomebodyBut(InHand) \/ ReportAtHand
    BY <1>3 DEF WaitInv
  <2>4. ReportAtHand => ReportAtHand'
    BY <1>3, <1>7 DEF ReportAtHand
  <2> QED
    BY <1>1, <1>3, <1>7, <2>1, <2>2, <2>3, <2>4, SomebodyStays
    DEF WaitsInRound, NothingYet
<1> QED
  BY <1>4, <1>5, <1>6, <1>7

LEMMA WaitOnDispatch ==
  ASSUME TInv, GInv, NInv, WaitInv, Slots = 1 \/ CanWait,
         DispatchWindow \/ DispatchScript
  PROVE  WaitsInRound' /\ NothingYet'
<1>1. graph \in Threads /\ TypeOK /\ [DriverNext]_allVars /\ WorldTyped
  BY TInvParts DEF DriverNext, Drive
<1>2. PICK g \in Goals : g = graph.packet
  BY DEF DispatchWindow, DispatchScript, GInv, LeaseGuards
<1>3. /\ at = "dispatch" /\ Awaiting(g) /\ launches[g] = 0
      /\ Slots = 1 => g \notin stuck
      /\ g \in leased
  BY <1>2, DriverAssumption
  DEF DispatchWindow, DispatchScript, NInv, PacketOK, Sole, GInv, LeaseGuards
<1>4. CASE at' = "after" /\ graph'.mode = "wait_external_result"
  <2>1. g \in open' /\ task' = task
    BY <1>1, <1>2, <1>4 DEF DispatchWindow, DispatchScript, plans, Threads
  <2>2. Waited(g)' /\ InHand' = None
    BY <1>3, <1>4, <2>1 DEF Waited, Awaiting, InHand
  <2>3. SomebodyBut(InHand)'
    BY <2>2, DriverAssumption DEF SomebodyBut
  <2> QED
    BY <1>4, <2>3 DEF WaitsInRound, NothingYet
<1>5. CASE at' = "after" /\ graph'.mode # "wait_external_result"
  <2>1. graph.task = g
    BY <1>2, <1>3, DriverAssumption DEF NInv, PacketOK
  <2>2. /\ \/ launches' = launches
           \/ kind[g] = "script"
        /\ kind' = kind /\ graph'.task = graph.task
    BY <1>1, <1>2, <1>5 DEF DispatchWindow, DispatchScript, plans, Threads
  <2>3. launches'[g] = 0 \/ kind'[g] # "window"
    BY <1>3, <2>2
  <2> QED
    BY <1>5, <2>1, <2>2, <2>3 DEF WaitsInRound, NothingYet
<1>6. CASE at' = "ingest" /\ CanWait
  BY <1>6 DEF WaitsInRound, NothingYet, ReportAtHand
<1>7. CASE at' = "ingest" /\ ~CanWait
  <2>1. PICK r \in NewReports :
          graph' = [graph EXCEPT !.packet = None,
                                 !.report = [goal |-> g, body |-> r]]
    BY <1>2, <1>7 DEF DispatchWindow, DispatchScript
  <2>2. PICK m : m = [goal |-> g, body |-> r]
    OBVIOUS
  <2>3. graph'.report = m /\ m.goal = g /\ graph'.mode = graph.mode
    BY <1>1, <2>1, <2>2 DEF Threads
  <2>4. InHand = g /\ InHand' = g
    BY <1>2, <1>3, <1>7, <2>3 DEF InHand
  <2>5. graph.mode = "wait_external_result" => SomebodyBut(InHand)
    BY <1>3, <1>7 DEF WaitInv, ReportAtHand
  <2> QED
    BY <1>1, <1>3, <1>7, <2>3, <2>4, <2>5, SomebodyStays
    DEF WaitsInRound, NothingYet
<1> QED
  BY <1>4, <1>5, <1>6, <1>7 DEF DispatchWindow, DispatchScript

LEMMA WaitOnIngest ==
  ASSUME TInv, GInv, NInv, WaitInv, Slots = 1 \/ CanWait,
         Ingest
  PROVE  WaitsInRound' /\ NothingYet'
<1>1. graph \in Threads /\ TypeOK /\ [DriverNext]_allVars
  BY TInvParts DEF DriverNext, Drive
<1>2. PICK g, r, phase : /\ g = graph.report.goal /\ r = graph.report.body
                         /\ phase = Phase(task[g].life, Packet, r)
  OBVIOUS
<1>3. at = "ingest" /\ g \in Goals /\ r \in NewReports
  BY <1>2 DEF Ingest, NInv, MessagesOK, News
<1>4. PICK result : result = [goal |-> g, phase |-> phase]
  OBVIOUS
<1>5. /\ graph' = [graph EXCEPT !.task = g, !.report = NoMessage, !.ingest = result]
      /\ at' = NodeAfter(phase) /\ task' = [task EXCEPT ![g].report = r]
  BY <1>2, <1>4 DEF Ingest
<1>6. /\ graph'.task = g /\ graph'.ingest = result /\ graph'.mode = graph.mode
      /\ result # Nothing /\ result.goal = g
  BY <1>1, <1>3, <1>4, <1>5, DriverAssumption DEF Threads, Nothing
<1>7. task'[g].report # NoReport
  BY <1>1, <1>3, <1>5, ReportKinds DEF TypeOK
<1>8. at' \in {"handoff", "close", "archive", "after"}
  BY <1>5 DEF NodeAfter
<1>9. graph.mode = "wait_external_result" => SomebodyBut(InHand) \/ ReportAtHand
  BY <1>3 DEF WaitInv
<1>10. ReportAtHand => ReportAtHand'
  BY <1>3, <1>6, <1>7 DEF ReportAtHand
<1>11. at' = "close" => InHand' = InHand
  BY <1>2, <1>3, <1>6 DEF InHand
<1>12. SomebodyBut(InHand) => SomebodyBut(InHand)'
  BY <1>1, <1>3, <1>8, <1>11, SomebodyStays
<1> QED
  BY <1>6, <1>9, <1>10, <1>12 DEF WaitsInRound, NothingYet

LEMMA WaitOnClosing ==
  ASSUME TInv, GInv, NInv, WaitInv, Slots = 1 \/ CanWait,
         Close \/ Archive \/ HandOff
  PROVE  WaitsInRound' /\ NothingYet'
<1>1. graph \in Threads /\ TypeOK /\ [DriverNext]_allVars /\ ResultsOK
  BY TInvParts DEF DriverNext, Drive, NInv
<1>2. /\ at \in {"close", "archive", "handoff"} /\ at' \in {"archive", "after"}
      /\ graph.ingest # Nothing /\ graph'.ingest = graph.ingest
  BY <1>1 DEF Close, Archive, HandOff, ResultsOK, Threads
<1>3. NothingYet'
  BY <1>2 DEF NothingYet
<1>4. graph.mode = "wait_external_result" => SomebodyBut(InHand) \/ ReportAtHand
  BY <1>2 DEF WaitInv
<1>5. SomebodyBut(InHand) => SomebodyBut(InHand)'
  BY <1>1, <1>2, SomebodyStays
<1>6. CASE HandOff
  BY <1>1, <1>3, <1>6 DEF HandOff, WaitsInRound, Threads
<1>7. CASE Close
  <2>1. ReportAtHand => ReportAtHand'
    BY <1>7 DEF Close, ReportAtHand
  <2>2. graph'.mode = graph.mode
    BY <1>1, <1>7 DEF Close, Threads
  <2> QED
    BY <1>3, <1>4, <1>5, <2>1, <2>2 DEF WaitsInRound
<1>8. CASE Archive
  <2>1. PICK g : g = IF graph.closure # Nothing THEN graph.closure.goal
                     ELSE graph.ingest.goal
    OBVIOUS
  <2>2. g \in Goals /\ task[g].report # NoReport
    BY <1>1, <1>2, <2>1 DEF ResultsOK, Reported
  <2>3. graph' = [graph EXCEPT !.task = g]
    BY <1>8, <2>1 DEF Archive
  <2>4. graph'.task = g /\ graph'.mode = graph.mode
    BY <1>1, <2>3 DEF Threads
  <2>5. task'[g].report # NoReport
    BY <1>1, <2>2, ReportsStay
  <2>6. ReportAtHand => ReportAtHand'
    BY <2>2, <2>4, <2>5 DEF ReportAtHand
  <2> QED
    BY <1>3, <1>4, <1>5, <2>4, <2>6 DEF WaitsInRound
<1> QED
  BY <1>6, <1>7, <1>8

\* The end of a round: a driver that found no report waits for somebody, one
\* that found a report nobody waits for has looked at a finished task.
LEMMA WaitAfterRound ==
  ASSUME TInv, GInv, NInv, WaitInv, Slots = 1 \/ CanWait,
         StopHere \/ ReportArrives \/ WaitEnds \/ PickUpReport \/ GoOnInternally
  PROVE  WaitInv'
<1>1. graph \in Threads /\ TypeOK /\ [DriverNext]_allVars
  BY TInvParts DEF DriverNext, Drive
<1>2. /\ UNCHANGED <<objective, filed, goal, task, kind, file, open, leased,
                     launches, stuck, graph>>
      /\ at = "after" /\ pending = NoMessage /\ at' \in {"round", "finish"}
  BY RoundEnds DEF TInv, plans, world
<1>3. NothingYet' /\ WaitsInRound' /\ WaitsForSomebody'
  BY <1>2 DEF NothingYet, WaitsInRound, WaitsForSomebody
<1>4. ASSUME at' = "round", pending' # NoMessage, Awaiting(graph.task)'
      PROVE  CanWait
  <2>1. ReportArrives \/ PickUpReport
    BY <1>2, <1>4 DEF StopHere, WaitEnds, GoOnInternally, EndCall, NextRound
  <2>2. CASE ReportArrives
    BY <2>2 DEF ReportArrives
  <2>3. CASE PickUpReport
    <3>1. PICK g \in Goals : g = graph.task
      BY <2>3, FoundTyped DEF PickUpReport
    <3>2. /\ graph.mode # "wait_external_result" /\ graph.ingest = Nothing
          /\ Candidate(g) # NoReport
      BY <2>3, <3>1 DEF PickUpReport, MustGoOn
    <3>3. Awaiting(g)
      BY <1>2, <1>4, <3>1 DEF Awaiting
    <3>4. file[g] # NoReport
      BY <3>1, <3>2, <3>3, DriverAssumption DEF Candidate, Awaiting
    <3>5. launches[g] = 1 /\ kind[g] = "window"
      BY <3>4 DEF NInv, FilesAreReports
    <3> QED
      BY <1>2, <3>1, <3>2, <3>3, <3>5 DEF WaitInv, NothingYet
  <2> QED
    BY <2>1, <2>2, <2>3
<1>5. ASSUME at' = "finish", outcome'.status = "waiting_external_result"
      PROVE  SomebodyBut(None)'
  <2>1. WaitEnds
    BY <1>2, <1>5 DEF StopHere, ReportArrives, PickUpReport, GoOnInternally,
       EndCall, NextRound
  <2>2. graph.mode = "wait_external_result" /\ (CanWait => Candidate(graph.task) = NoReport)
    BY <2>1 DEF WaitEnds, MustGoOn
  <2>3. ~ReportAtHand
    BY <1>2, <2>2, DriverAssumption DEF ReportAtHand, Candidate
  <2>4. SomebodyBut(InHand)
    BY <1>2, <2>2, <2>3 DEF WaitInv
  <2> QED
    BY <1>1, <1>2, <2>4, SomebodyStays
<1> QED
  BY <1>3, <1>4, <1>5 DEF WaitInv, WaitsInRound

LEMMA WaitInvNext ==
  ASSUME TInv, GInv, NInv, WaitInv, [DriverNext]_allVars PROVE WaitInv'
<1> SUFFICES ASSUME Slots = 1 \/ CanWait PROVE WaitInv'
  BY DEF WaitInv
<1>1. ASSUME at' \notin {"idle", "round", "finish"}, WaitsInRound', NothingYet'
      PROVE  WaitInv'
  BY <1>1 DEF WaitInv, WaitsInRound, WaitsForSomebody
<1>2. CASE BeginRound
  BY <1>1, <1>2, WaitFromGate DEF BeginRound, Route
<1>3. CASE PromotePhase \/ PromoteNext \/ TakeUpAgain
  <2>1. at' \in {"promoteGoal", "assign"}
    BY <1>3 DEF PromotePhase, PromoteNext, TakeUpAgain
  <2> QED
    BY <1>1, <1>3, <2>1, WaitOnPromotion DEF NothingYet
<1>4. CASE Assign \/ DispatchWindow \/ DispatchScript \/ Ingest \/ Close
             \/ Archive \/ HandOff
  BY <1>1, <1>4, NodesKeepPlans, WaitOnAssign, WaitOnDispatch, WaitOnIngest,
     WaitOnClosing
<1>5. CASE StopHere \/ ReportArrives \/ WaitEnds \/ PickUpReport \/ GoOnInternally
  BY <1>5, WaitAfterRound
<1>6. CASE StartRun
  <2>1. at' = "round" /\ pending' = NoMessage
    BY <1>6 DEF StartRun
  <2> QED
    BY <2>1 DEF WaitInv, NothingYet, WaitsForSomebody
<1>7. ASSUME at' = "idle", outcome'.status # "waiting" PROVE WaitInv'
  BY <1>7 DEF WaitInv, NothingYet, WaitsForSomebody
<1>8. CASE Resume \/ RejectReport \/ DriverDies
  BY <1>7, <1>8 DEF Resume, RejectReport, DriverDies, NoOutcome
<1>9. CASE Finish
  <2>1. pending' = pending /\ pending = NoMessage /\ at = "finish"
    BY <1>9 DEF Finish, Final, TInv
  <2>2. CASE at' = "round"
    BY <2>1, <2>2 DEF WaitInv, NothingYet, WaitsForSomebody
  <2>3. CASE at' # "round"
    <3>1. /\ at' = "idle" /\ UNCHANGED <<task, open, stuck>>
          /\ outcome'.status = Verdict[1] \/ outcome'.status = "attention"
      BY <1>9, <2>3 DEF Finish, Final, world
    <3>2. CASE outcome.status = "waiting_external_result"
      <4>1. PICK h \in Goals : Waited(h)
        BY <2>1, <3>2 DEF WaitInv, SomebodyBut
      <4> QED
        BY <3>1, <4>1 DEF WaitInv, NothingYet, WaitsForSomebody, Waited
    <3>3. CASE outcome.status # "waiting_external_result"
      BY <1>7, <3>1, <3>3 DEF Verdict
    <3> QED
      BY <3>2, <3>3
  <2> QED
    BY <2>2, <2>3
<1>10. CASE \E g \in Goals : CommanderCancels(g)
  BY <1>7, <1>10 DEF CommanderCancels, driverVars, Asking
<1>11. CASE (\E g \in Goals : WorkerWrites(g)) \/ CommanderAppends \/ UNCHANGED allVars
  <2>1. UNCHANGED <<at, graph, pending, outcome, task, kind, open, launches, stuck>>
    BY <1>11 DEF WorkerWrites, CommanderAppends, plans, driverVars, allVars, vars
  <2> QED
    BY <2>1 DEF WaitInv, NothingYet, WaitsForSomebody, Awaiting, SomebodyBut,
       Waited, InHand, ReportAtHand
<1> QED
  BY <1>2, <1>3, <1>4, <1>5, <1>6, <1>8, <1>9, <1>10, <1>11 DEF DriverNext, Drive

(***************************************************************************)
(* A driver that reports to wait for an external result waits for a worker *)
(* window or for a goal that is known to be stuck, whatever interleaves    *)
(* and wherever drivers died before, if goals are worked on one by one or  *)
(* wait_timeout_seconds is positive (_derive_cycle_outcome).               *)
(***************************************************************************)
THEOREM WaitsAreForSomebody == DriverSpec => []WaitsForSomebody
<1>1. DriverInit => WaitInv
  BY DEF DriverInit, WaitInv, NothingYet, WaitsForSomebody, NoOutcome
<1>2. TInv /\ GInv /\ NInv /\ WaitInv /\ [DriverNext]_allVars => WaitInv'
  BY WaitInvNext
<1>3. WaitInv => WaitsForSomebody
  BY DEF WaitInv, WaitsForSomebody
<1> QED
  BY <1>1, <1>2, <1>3, LaunchInvariance, ThreadInvariance, HandsInvariance, PTL
  DEF DriverSpec
==========================================================================

------------------------ MODULE HostSessionProofs ------------------------
(***************************************************************************)
(* A released session is clean, and no session presents another task's     *)
(* report, for any number of sessions, tasks and processes.                *)
(*                                                                         *)
(* Whatever is written back was read before, so both facts are about the   *)
(* copies as well; and a report or a closing reaches the session of its    *)
(* own task, or the choice of the session was overtaken.                   *)
(***************************************************************************)
EXTENDS HostSession, TLAPS

Ops == {"release", "assign", "report", "close", "stop", "resume",
        "launched", "failed", "heartbeat"}

Clean(r) == r.status = "released_reusable" => r.report = "none" /\ ~r.stopped

CleanCopies == \A p \in Procs : run[p].pc = "store" => Clean(run[p].seen)

\* What is about to be written carries a report of its own task.
OwnTarget ==
  ~outdated =>
    \A p \in Procs :
      run[p].pc = "store" /\ run[p].op \in {"report", "close"} =>
        run[p].seen.task = run[p].task

\* A session that was created has a task, and so has what is done to it.
Work(w, sess) ==
  /\ w.pc \in {"update", "store"} =>
       /\ \A s \in w.todo : sess[s].task \in Tasks
       /\ w.op = "assign" => w.task \in Tasks
  /\ w.pc = "store" => w.seen.task \in Tasks

Named ==
  /\ \A s \in Sessions : session[s] = Absent \/ session[s].task \in Tasks
  /\ \A p \in Procs : Work(run[p], session)

SInv == TypeOK /\ CleanCopies /\ OwnTarget /\ OwnReports /\ Named

----------------------------------------------------------------------------
(* Lemmas on the operators *)

LEMMA PatchedTyped ==
  ASSUME NEW r \in Record, Clean(r), NEW op \in Ops, NEW t \in Tasks \cup {"none"}
  PROVE  Patched(r, op, t) \in Record /\ Clean(Patched(r, op, t))
<1>1. CASE op \in {"release", "assign"}
  BY <1>1 DEF Patched, Released, Record, Status, Active, Clean
<1>2. CASE op \in {"report", "close"}
  BY <1>2 DEF Patched, Record, Status, Active, Clean
<1>3. CASE op \in {"stop", "resume"}
  BY <1>3 DEF Patched, Record, Status, Active, Clean
<1>4. CASE op \in {"launched", "failed"}
  BY <1>4 DEF Patched, Record, Status, Active, Clean
<1>5. CASE op = "heartbeat"
  BY <1>5 DEF Patched
<1> QED
  BY <1>1, <1>2, <1>3, <1>4, <1>5 DEF Ops

LEMMA PatchedOwn ==
  ASSUME NEW r \in Record, NEW op \in Ops, NEW t,
         r.report \in {"none", r.task},
         op \in {"report", "close"} => r.task = t
  PROVE  Patched(r, op, t).report \in {"none", Patched(r, op, t).task}
<1>1. CASE op \in {"release", "assign"}
  BY <1>1 DEF Patched, Released, Record
<1>2. CASE op \in {"report", "close"}
  BY <1>2 DEF Patched, Record
<1>3. CASE op \in {"stop", "resume"}
  BY <1>3 DEF Patched, Record
<1>4. CASE op \in {"launched", "failed"}
  BY <1>4 DEF Patched, Record
<1>5. CASE op = "heartbeat"
  BY <1>5 DEF Patched
<1> QED
  BY <1>1, <1>2, <1>3, <1>4, <1>5 DEF Ops

LEMMA PatchedTask ==
  ASSUME NEW r \in Record, NEW op \in Ops, NEW t
  PROVE  Patched(r, op, t).task = IF op = "assign" THEN t ELSE r.task
<1>1. CASE op \in {"release", "assign"}
  BY <1>1 DEF Patched, Released, Record
<1>2. CASE op \in {"report", "close"}
  BY <1>2 DEF Patched, Record
<1>3. CASE op \in {"stop", "resume"}
  BY <1>3 DEF Patched, Record
<1>4. CASE op \in {"launched", "failed"}
  BY <1>4 DEF Patched, Record
<1>5. CASE op = "heartbeat"
  BY <1>5 DEF Patched
<1> QED
  BY <1>1, <1>2, <1>3, <1>4, <1>5 DEF Ops

LEMMA UpdatingTyped ==
  ASSUME NEW todo \in SUBSET Sessions, NEW op \in Ops, NEW t \in Tasks \cup {"none"}
  PROVE  Updating(todo, op, t) \in RunStates /\ Updating(todo, op, t).pc # "store"
BY DEF Updating, RunStates, Idle, Ops

LEMMA LoadedTyped ==
  ASSUME TypeOK, NEW s \in Sessions, NEW op \in Ops,
         NEW t \in Tasks \cup {"none"}, NEW todo \in SUBSET Sessions
  PROVE  /\ Loaded(s, op, t, todo) \in RunStates
         /\ Clean(Loaded(s, op, t, todo).seen)
<1>1. session[s] \in Record /\ Clean(session[s])
  BY DEF TypeOK, Clean
<1> QED
  BY <1>1 DEF Loaded, RunStates, Ops

\* What a process is in the middle of is typed.
LEMMA RunTyped ==
  ASSUME TypeOK, NEW p \in Procs
  PROVE  /\ run[p] \in RunStates
         /\ run[p].pc = "update" => /\ run[p].todo \in SUBSET Sessions
                                    /\ run[p].op \in Ops
                                    /\ run[p].task \in Tasks \cup {"none"}
         /\ run[p].pc = "store" => /\ run[p].session \in Sessions
                                   /\ run[p].seen \in Record
                                   /\ run[p].todo \in SUBSET Sessions
                                   /\ run[p].op \in Ops
                                   /\ run[p].task \in Tasks \cup {"none"}
         /\ run[p].pc = "chosen" => run[p].session \in Sessions
         /\ run[p].pc \in {"chosen", "create"} => run[p].task \in Tasks
<1>1. run[p] \in RunStates
  BY DEF TypeOK
<1> QED
  BY <1>1 DEF RunStates, Idle, Ops

----------------------------------------------------------------------------
(* Steps *)

LEMMA InitClean == Init => SInv
<1> SUFFICES ASSUME Init PROVE SInv
  OBVIOUS
<1>1. /\ Absent \in Record /\ Absent.status = "absent" /\ Absent.report = "none"
  BY DEF Absent, Record, Status
<1>2. session \in [Sessions -> Record] /\ \A s \in Sessions : session[s] = Absent
  BY <1>1 DEF Init
<1>3. run \in [Procs -> RunStates] /\ \A p \in Procs : run[p].pc = "idle"
  BY DEF Init, RunStates, Idle
<1>4. /\ serving \in [Tasks -> Sessions \cup {None}]
      /\ reported \in SUBSET Tasks /\ ingested \in SUBSET reported
  BY DEF Init
<1>5. crashes \in 0..MaxEvents /\ byHand \in 0..MaxEvents
  BY BoundAssumption DEF Init
<1>6. outdated = FALSE
  BY DEF Init
<1>7. TypeOK
  BY <1>1, <1>2, <1>3, <1>4, <1>5, <1>6 DEF TypeOK
<1>8. CleanCopies /\ OwnTarget
  BY <1>3 DEF CleanCopies, OwnTarget
<1>9. OwnReports
  BY <1>1, <1>2 DEF OwnReports
<1>10. Named
  BY <1>2, <1>3 DEF Named, Work
<1> QED
  BY <1>7, <1>8, <1>9, <1>10 DEF SInv

\* The variables that count and remember, after a step.
Rest ==
  /\ reported \in SUBSET Tasks
  /\ ingested \in SUBSET reported
  /\ serving \in [Tasks -> Sessions \cup {None}]
  /\ outdated \in BOOLEAN
  /\ crashes \in 0..MaxEvents
  /\ byHand \in 0..MaxEvents

\* A step of p that writes no session: what has to be shown of it.
LEMMA StepKeeping ==
  ASSUME SInv, NEW p \in Procs, NEW state \in RunStates,
         run' = [run EXCEPT ![p] = state], session' = session,
         Rest', outdated => outdated', Work(state, session),
         state.pc = "store" =>
           /\ Clean(state.seen)
           /\ ~outdated' /\ state.op \in {"report", "close"}
                => state.seen.task = state.task
  PROVE  SInv'
<1>1. run' \in [Procs -> RunStates] /\ run'[p] = state
      /\ \A q \in Procs : q # p => run'[q] = run[q]
  BY DEF SInv, TypeOK
<1>2. TypeOK'
  BY <1>1 DEF SInv, TypeOK, Rest
<1>3. CleanCopies'
  BY <1>1 DEF SInv, CleanCopies
<1>4. OwnTarget'
  BY <1>1 DEF SInv, OwnTarget
<1>5. OwnReports'
  BY DEF SInv, OwnReports
<1>6. Named'
  BY <1>1 DEF SInv, Named
<1> QED
  BY <1>2, <1>3, <1>4, <1>5, <1>6 DEF SInv

\* A step of p that writes session s.
LEMMA StepWriting ==
  ASSUME SInv, NEW p \in Procs, NEW state \in RunStates,
         run' = [run EXCEPT ![p] = state], state.pc # "store",
         NEW s \in Sessions, NEW r \in Record,
         session' = [session EXCEPT ![s] = r],
         Rest', outdated => outdated',
         Clean(r), ~outdated' => r.report \in {"none", r.task},
         r.task \in Tasks, Work(state, session')
  PROVE  SInv'
<1>1. run' \in [Procs -> RunStates] /\ run'[p] = state
      /\ \A q \in Procs : q # p => run'[q] = run[q]
  BY DEF SInv, TypeOK
<1>2. session' \in [Sessions -> Record] /\ session'[s] = r
      /\ \A q \in Sessions : q # s => session'[q] = session[q]
  BY DEF SInv, TypeOK
<1>3. TypeOK'
  BY <1>1, <1>2 DEF SInv, TypeOK, Rest, Clean
<1>4. CleanCopies'
  BY <1>1 DEF SInv, CleanCopies
<1>5. OwnTarget'
  BY <1>1 DEF SInv, OwnTarget
<1>6. OwnReports'
  <2> SUFFICES ASSUME ~outdated', NEW q \in Sessions
               PROVE  session'[q].report # "none" =>
                        session'[q].report = session'[q].task
    BY DEF OwnReports
  <2>1. CASE q = s
    BY <1>2, <2>1
  <2>2. CASE q # s
    BY <1>2, <2>2 DEF SInv, OwnReports
  <2> QED
    BY <2>1, <2>2
<1>7. Named'
  <2>1. \A q \in Sessions : session'[q] = Absent \/ session'[q].task \in Tasks
    BY <1>2 DEF SInv, Named
  <2>2. ASSUME NEW q \in Procs, q # p PROVE Work(run'[q], session')
    <3>1. Work(run[q], session) /\ run'[q] = run[q]
      BY <1>1, <2>2 DEF SInv, Named
    <3>2. run[q].pc \in {"update", "store"} => run[q].todo \in SUBSET Sessions
      BY RunTyped DEF SInv
    <3>3. \A u \in Sessions : session[u].task \in Tasks => session'[u].task \in Tasks
      BY <1>2
    <3> QED
      BY <3>1, <3>2, <3>3 DEF Work
  <2> QED
    BY <1>1, <2>1, <2>2 DEF Named
<1> QED
  BY <1>3, <1>4, <1>5, <1>6, <1>7 DEF SInv

LEMMA StepLoad ==
  ASSUME SInv, NEW p \in Procs, Load(p) PROVE SInv'
<1>1. TypeOK
  BY DEF SInv
<1>2. PICK s \in Sessions :
        /\ s \in run[p].todo
        /\ run' = [run EXCEPT ![p] =
             Loaded(s, run[p].op, run[p].task, run[p].todo \ {s})]
        /\ outdated' = (outdated \/ Overtaken(s, run[p].op, run[p].task))
  BY DEF Load, First
<1>3. UNCHANGED <<session, reported, ingested, serving, crashes, byHand>>
      /\ run[p].pc = "update"
  BY DEF Load
<1>4. PICK op \in Ops, t \in Tasks \cup {"none"}, todo \in SUBSET Sessions :
        op = run[p].op /\ t = run[p].task /\ todo = run[p].todo \ {s}
  BY <1>1, <1>3, RunTyped
<1>5. PICK state \in RunStates : state = Loaded(s, op, t, todo)
  BY <1>1, LoadedTyped
<1>6. Clean(state.seen)
  BY <1>1, <1>5, LoadedTyped
<1>7. state.seen = session[s] /\ state.op = op /\ state.task = t
  BY <1>5 DEF Loaded
<1>8. outdated' = (outdated \/ Overtaken(s, op, t))
  BY <1>2, <1>4
<1>9. ~outdated' /\ op \in {"report", "close"} => session[s].task = t
  BY <1>8 DEF Overtaken, ActiveOf
<1>10. Rest'
  BY <1>1, <1>3, <1>8 DEF Rest, TypeOK
<1>11. Work(state, session)
  <2>1. Work(run[p], session)
    BY DEF SInv, Named
  <2> QED
    BY <1>2, <1>3, <1>4, <1>5, <2>1 DEF Work, Loaded
<1> QED
  BY <1>2, <1>3, <1>4, <1>5, <1>6, <1>7, <1>8, <1>9, <1>10, <1>11, StepKeeping

LEMMA WithdrawnTyped ==
  ASSUME TypeOK, NEW s PROVE Withdrawn(s) \in [Tasks -> Sessions \cup {None}]
BY DEF TypeOK, Withdrawn

LEMMA StepStore ==
  ASSUME SInv, NEW p \in Procs, Store(p) PROVE SInv'
<1>1. TypeOK
  BY DEF SInv
<1>2. PICK s \in Sessions, op \in Ops, t \in Tasks \cup {"none"},
           todo \in SUBSET Sessions, seen \in Record :
        /\ s = run[p].session /\ op = run[p].op /\ t = run[p].task
        /\ todo = run[p].todo /\ seen = run[p].seen
  BY <1>1, RunTyped DEF Store
<1>3. PICK r : r = Patched(seen, op, t)
  OBVIOUS
<1>4. /\ session' = [session EXCEPT ![s] = r]
      /\ outdated' = (outdated \/ session[s] # seen
                        \/ (op = "assign" /\ ~Wanted(t)))
      /\ run' = [run EXCEPT ![p] = Updating(todo, op, t)]
      /\ UNCHANGED <<reported, ingested, crashes, byHand>>
      /\ run[p].pc = "store"
  BY <1>2, <1>3 DEF Store
<1>5. Clean(seen)
  BY <1>2, <1>4 DEF SInv, CleanCopies
<1>6. r \in Record /\ Clean(r)
  BY <1>3, <1>5, PatchedTyped
<1>7. ~outdated' => r.report \in {"none", r.task}
  <2> SUFFICES ASSUME ~outdated' PROVE r.report \in {"none", r.task}
    OBVIOUS
  <2>1. seen = session[s] /\ ~outdated
    BY <1>4
  <2>2. seen.report \in {"none", seen.task}
    BY <2>1 DEF SInv, OwnReports
  <2>3. op \in {"report", "close"} => seen.task = t
    BY <1>2, <1>4, <2>1 DEF SInv, OwnTarget
  <2> QED
    BY <1>3, <2>2, <2>3, PatchedOwn
<1>8. PICK state \in RunStates : state = Updating(todo, op, t) /\ state.pc # "store"
  BY UpdatingTyped
<1>9. serving' \in [Tasks -> Sessions \cup {None}]
  <2>1. CASE op = "assign"
    BY <1>1, <1>2, <2>1 DEF Store, TypeOK
  <2>2. CASE op \in {"close", "stop", "release", "failed"}
    BY <1>1, <1>2, <2>2, WithdrawnTyped DEF Store
  <2>3. CASE op \in Ops \ {"assign", "close", "stop", "release", "failed"}
    BY <1>1, <1>2, <2>3 DEF Store, TypeOK
  <2> QED
    BY <2>1, <2>2, <2>3
<1>10. Rest'
  BY <1>1, <1>4, <1>9 DEF Rest, TypeOK
<1>11. r.task \in Tasks /\ Work(run[p], session)
  <2>1. Work(run[p], session)
    BY DEF SInv, Named
  <2>2. seen.task \in Tasks /\ (op = "assign" => t \in Tasks)
    BY <1>2, <1>4, <2>1 DEF Work
  <2>3. r.task = IF op = "assign" THEN t ELSE seen.task
    BY <1>3, PatchedTask
  <2> QED
    BY <2>1, <2>2, <2>3
<1>12. Work(state, session')
  <2>1. \A u \in todo : session'[u].task \in Tasks
    BY <1>1, <1>2, <1>4, <1>6, <1>11 DEF Work, TypeOK
  <2>2. op = "assign" => t \in Tasks
    BY <1>2, <1>4, <1>11 DEF Work
  <2> QED
    BY <1>8, <2>1, <2>2 DEF Work, Updating, Idle
<1> QED
  BY <1>4, <1>6, <1>7, <1>8, <1>10, <1>11, <1>12, StepWriting

\* A set of sessions that have a task, to be updated one after another.
LEMMA UpdatingWork ==
  ASSUME NEW todo, NEW op, NEW t, \A s \in todo : session[s].task \in Tasks,
         op = "assign" => t \in Tasks
  PROVE  Work(Updating(todo, op, t), session)
BY DEF Updating, Work, Idle

\* A step of p that begins updating sessions, or ends.
LEMMA StepTurning ==
  ASSUME SInv, NEW p \in Procs, NEW todo \in SUBSET Sessions, NEW op \in Ops,
         NEW t \in Tasks \cup {"none"},
         run' = [run EXCEPT ![p] = Updating(todo, op, t)], session' = session,
         \A s \in todo : session[s].task \in Tasks,
         op = "assign" => t \in Tasks,
         Rest', outdated => outdated'
  PROVE  SInv'
<1>1. PICK state \in RunStates : state = Updating(todo, op, t) /\ state.pc # "store"
  BY UpdatingTyped
<1>2. Work(state, session)
  BY <1>1, UpdatingWork
<1> QED
  BY <1>1, <1>2, StepKeeping

LEMMA ActiveNamed ==
  ASSUME SInv, NEW s \in Sessions, session[s].status \in Active
  PROVE  session[s].task \in Tasks
<1>1. Absent.status \notin Active
  BY DEF Absent, Active
<1> QED
  BY <1>1 DEF SInv, Named

LEMMA StepTouchingTask ==
  ASSUME SInv, NEW p \in Procs, NEW t \in Tasks,
         ReportReady(p, t) \/ ResumeTask(p, t) \/ IngestAndClose(p, t)
           \/ ReleaseTask(p, t) \/ ResumeWaits(p)
  PROVE  SInv'
<1>1. TypeOK
  BY DEF SInv
<1>2. /\ session' = session /\ outdated' = outdated
      /\ reported' = reported /\ serving' = serving /\ crashes' = crashes
      /\ ingested' \in SUBSET reported
  BY <1>1 DEF ReportReady, ResumeTask, IngestAndClose, ReleaseTask,
              ResumeWaits, TypeOK
<1>3. byHand' \in 0..MaxEvents
  <2>1. crashes \in 0..MaxEvents /\ byHand \in 0..MaxEvents
    BY <1>1 DEF TypeOK
  <2> QED
    BY <2>1, BoundAssumption DEF ReportReady, ResumeTask, IngestAndClose,
       ReleaseTask, ResumeWaits
<1>4. Rest'
  BY <1>1, <1>2, <1>3 DEF Rest, TypeOK
<1>5. ASSUME NEW todo \in SUBSET Sessions,
             NEW op \in {"report", "resume", "close", "release"},
             NEW u \in Tasks \cup {"none"},
             run' = [run EXCEPT ![p] = Updating(todo, op, u)],
             \A s \in todo : session[s].status \in Active
      PROVE  SInv'
  <2>1. \A s \in todo : session[s].task \in Tasks
    BY <1>5, ActiveNamed
  <2>2. op \in Ops /\ op # "assign"
    BY DEF Ops
  <2> QED
    BY <1>2, <1>4, <1>5, <2>1, <2>2, StepTurning
<1>6. ASSUME NEW todo \in SUBSET ActiveOf(t),
             NEW op \in {"report", "resume", "close", "release"},
             run' = [run EXCEPT ![p] = Updating(todo, op, t)]
      PROVE  SInv'
  <2>1. todo \in SUBSET Sessions /\ \A s \in todo : session[s].status \in Active
    BY DEF ActiveOf
  <2> QED
    BY <1>5, <1>6, <2>1
<1>7. CASE ReportReady(p, t)
  <2>1. PICK s \in ActiveOf(t) :
          run' = [run EXCEPT ![p] = Updating({s}, "report", t)]
    BY <1>7 DEF ReportReady, Last
  <2> QED
    BY <1>6, <2>1
<1>8. CASE ResumeTask(p, t)
  <2>1. PICK s \in ActiveOf(t) :
          run' = [run EXCEPT ![p] = Updating({s}, "resume", t)]
    BY <1>8 DEF ResumeTask, Last
  <2> QED
    BY <1>6, <2>1
<1>9. CASE IngestAndClose(p, t)
  BY <1>6, <1>9 DEF IngestAndClose
<1>10. CASE ReleaseTask(p, t)
  <2>1. PICK mine \in SUBSET ActiveOf(t) :
          run' = [run EXCEPT ![p] = Updating(mine, "release", t)]
    BY <1>10 DEF ReleaseTask
  <2> QED
    BY <1>6, <2>1
<1>11. CASE ResumeWaits(p)
  <2>1. PICK waits : waits = {s \in Sessions : session[s].status \in Waiting}
    OBVIOUS
  <2>2. run' = [run EXCEPT ![p] = Updating(waits, "resume", "none")]
    BY <1>11, <2>1 DEF ResumeWaits
  <2>3. waits \in SUBSET Sessions /\ \A s \in waits : session[s].status \in Active
    BY <2>1 DEF Waiting, Active
  <2> QED
    BY <1>5, <2>2, <2>3
<1> QED
  BY <1>7, <1>8, <1>9, <1>10, <1>11

LEMMA StepOnSession ==
  ASSUME SInv, NEW p \in Procs, NEW s \in Sessions,
         NEW op \in {"heartbeat", "resume", "stop", "release"},
         OnSession(p, s, op)
  PROVE  SInv'
<1>1. TypeOK
  BY DEF SInv
<1>2. /\ run' = [run EXCEPT ![p] = Loaded(s, op, "none", {})]
      /\ UNCHANGED <<session, reported, ingested, serving, outdated, crashes>>
      /\ session[s] # Absent
  BY DEF OnSession
<1>3. byHand' \in 0..MaxEvents
  BY <1>1, BoundAssumption DEF OnSession, TypeOK
<1>4. Rest'
  BY <1>1, <1>2, <1>3 DEF Rest, TypeOK
<1>5. op \in Ops
  BY DEF Ops
<1>6. PICK state \in RunStates : state = Loaded(s, op, "none", {})
  BY <1>1, <1>5, LoadedTyped
<1>7. Clean(state.seen)
  BY <1>1, <1>5, <1>6, LoadedTyped
<1>8. session[s].task \in Tasks
  BY <1>2 DEF SInv, Named
<1>9. Work(state, session)
  BY <1>6, <1>8 DEF Work, Loaded
<1>10. state.op = op
  BY <1>6 DEF Loaded
<1> QED
  BY <1>2, <1>4, <1>6, <1>7, <1>9, <1>10, StepKeeping

\* The steps of a dispatch that write no session.
LEMMA AfterAttachTyped ==
  ASSUME NEW s \in Sessions, NEW t \in Tasks, NEW then \in AfterAttach(s, t)
  PROVE  \/ then = Idle
         \/ \E op \in {"launched", "failed"} : then = Updating({s}, op, t)
BY DEF AfterAttach

LEMMA StepDispatch ==
  ASSUME SInv, NEW p \in Procs, NEW t \in Tasks,
         ChooseReusable(p, t) \/ LookUpKey(p, t) \/ CheckChosen(p)
  PROVE  SInv'
<1>1. TypeOK
  BY DEF SInv
<1>2. UNCHANGED <<session, reported, ingested, outdated, byHand>>
  BY DEF ChooseReusable, LookUpKey, CheckChosen
<1>3. crashes' = crashes
  BY DEF ChooseReusable, LookUpKey, CheckChosen
<1>4. serving' \in [Tasks -> Sessions \cup {None}]
  BY <1>1 DEF ChooseReusable, LookUpKey, CheckChosen, TypeOK
<1>5. Rest'
  BY <1>1, <1>2, <1>3, <1>4 DEF Rest, TypeOK
<1>6. ASSUME NEW state \in RunStates, state.pc \in {"idle", "chosen", "create"},
             run' = [run EXCEPT ![p] = state]
      PROVE  SInv'
  <2>1. Work(state, session)
    BY <1>6 DEF Work
  <2> QED
    BY <1>2, <1>5, <1>6, <2>1, StepKeeping
<1>7. Idle \in RunStates /\ Idle.pc = "idle"
  BY DEF RunStates, Idle
<1>8. CASE ChooseReusable(p, t)
  <2>1. PICK s \in Sessions : run' =
          [run EXCEPT ![p] = [pc |-> "chosen", session |-> s, task |-> t]]
    BY <1>8 DEF ChooseReusable
  <2>2. [pc |-> "chosen", session |-> s, task |-> t] \in RunStates
    BY DEF RunStates
  <2> QED
    BY <1>6, <2>1, <2>2
<1>9. CASE LookUpKey(p, t)
  <2>1. CASE run' = [run EXCEPT ![p] = [pc |-> "create", task |-> t]]
    <3>1. [pc |-> "create", task |-> t] \in RunStates
      BY DEF RunStates
    <3> QED
      BY <1>6, <2>1, <3>1
  <2>2. ASSUME NEW s \in Sessions, session[s].task = t,
               NEW then \in AfterAttach(s, t), run' = [run EXCEPT ![p] = then]
        PROVE  SInv'
    <3>1. CASE then = Idle
      BY <1>6, <1>7, <2>2, <3>1
    <3>2. ASSUME NEW op \in {"launched", "failed"}, then = Updating({s}, op, t)
          PROVE  SInv'
      <4>1. op \in Ops
        BY DEF Ops
      <4>2. run' = [run EXCEPT ![p] = Updating({s}, op, t)] /\ op # "assign"
        BY <2>2, <3>2
      <4>3. session' = session /\ outdated' = outdated
        BY <1>2
      <4>4. {s} \in SUBSET Sessions /\ \A r \in {s} : session[r].task \in Tasks
        BY <2>2
      <4>5. t \in Tasks \cup {"none"}
        OBVIOUS
      <4> QED
        BY <1>5, <4>1, <4>2, <4>3, <4>4, <4>5, StepTurning
    <3> QED
      BY <2>2, <3>1, <3>2, AfterAttachTyped
  <2> QED
    BY <1>9, <2>1, <2>2 DEF LookUpKey, First
<1>10. CASE CheckChosen(p)
  <2>1. PICK s \in Sessions, u \in Tasks :
          /\ s = run[p].session /\ u = run[p].task
          /\ run' = [run EXCEPT ![p] =
               IF CanAccept(session[s]) THEN Updating({s}, "assign", u) ELSE Idle]
    BY <1>1, <1>10, RunTyped DEF CheckChosen
  <2>2. CASE CanAccept(session[s])
    <3>1. session[s].task \in Tasks
      BY <2>2, ActiveNamed DEF CanAccept, Active
    <3>2. "assign" \in Ops
      BY DEF Ops
    <3> QED
      BY <1>2, <1>5, <2>1, <2>2, <3>1, <3>2, StepTurning
  <2>3. CASE ~CanAccept(session[s])
    BY <1>6, <1>7, <2>1, <2>3
  <2> QED
    BY <2>2, <2>3
<1> QED
  BY <1>8, <1>9, <1>10

LEMMA StepCreate ==
  ASSUME SInv, NEW p \in Procs, Create(p) PROVE SInv'
<1>1. TypeOK
  BY DEF SInv
<1>2. PICK t \in Tasks : t = run[p].task
  BY <1>1, RunTyped DEF Create
<1>3. PICK s \in Sessions :
        /\ session' = [session EXCEPT ![s] =
             [Absent EXCEPT !.status = IF t \in Launched THEN "pending_launch"
                                       ELSE "waiting_worker",
                            !.task = t, !.reuse = (t \in Reuse)]]
        /\ outdated' = (outdated \/ ~Wanted(t)
                          \/ \E r \in Sessions : session[r].task = t)
        /\ serving' = [serving EXCEPT ![t] = s]
        /\ \E then \in AfterAttach(s, t) : run' = [run EXCEPT ![p] = then]
  BY <1>2 DEF Create
<1>4. UNCHANGED <<reported, ingested, crashes, byHand>>
  BY DEF Create
<1>5. PICK w, b : /\ w = IF t \in Launched THEN "pending_launch"
                              ELSE "waiting_worker"
                  /\ b = (t \in Reuse)
  OBVIOUS
<1>6. PICK r : r = [Absent EXCEPT !.status = w, !.task = t, !.reuse = b]
  OBVIOUS
<1>7. /\ r \in Record /\ Clean(r) /\ r.report = "none" /\ r.task = t
      /\ session' = [session EXCEPT ![s] = r]
  <2>1. Absent \in Record /\ Absent.report = "none"
    BY DEF Absent, Record, Status
  <2>2. w \in Status /\ w # "released_reusable" /\ b \in BOOLEAN
    BY <1>5 DEF Status, Active
  <2>3. r \in Record
    BY <1>6, <2>1, <2>2 DEF Record
  <2>4. r.status = w /\ r.report = "none" /\ r.task = t
    BY <1>6, <2>1, <2>2 DEF Record
  <2>5. session' = [session EXCEPT ![s] = r]
    BY <1>3, <1>5, <1>6, Zenon
  <2> QED
    BY <2>2, <2>3, <2>4, <2>5 DEF Clean
<1>8. session'[s].task = t
  BY <1>1, <1>7 DEF TypeOK
<1>9. PICK state \in RunStates :
        /\ run' = [run EXCEPT ![p] = state] /\ state.pc # "store"
        /\ state.pc = "update" => state.todo = {s} /\ state.op # "assign"
  <2>1. PICK then \in AfterAttach(s, t) : run' = [run EXCEPT ![p] = then]
    BY <1>3
  <2>2. /\ then \in RunStates /\ then.pc # "store"
        /\ then.pc = "update" => then.todo = {s} /\ then.op # "assign"
    BY DEF AfterAttach, Updating, RunStates, Idle
  <2> QED
    BY <2>1, <2>2
<1>10. Work(state, session')
  BY <1>8, <1>9 DEF Work
<1>11. Rest'
  BY <1>1, <1>3, <1>4 DEF Rest, TypeOK
<1> QED
  BY <1>3, <1>7, <1>9, <1>10, <1>11, StepWriting

LEMMA StepWorkerReports ==
  ASSUME SInv, NEW s \in Sessions, WorkerReports(s) PROVE SInv'
<1>1. session[s].task \in Tasks
  BY ActiveNamed DEF WorkerReports
<1>2. TypeOK'
  BY <1>1 DEF WorkerReports, SInv, TypeOK
<1> QED
  BY <1>2 DEF WorkerReports, SInv, CleanCopies, OwnTarget, OwnReports, Named

LEMMA StepClean == SInv /\ [Next]_vars => SInv'
<1> SUFFICES ASSUME SInv, [Next]_vars PROVE SInv'
  OBVIOUS
<1>1. CASE UNCHANGED vars
  BY <1>1 DEF vars, SInv, TypeOK, CleanCopies, OwnTarget, OwnReports, Named
<1>2. ASSUME NEW p \in Procs, CheckChosen(p) \/ Crash(p) PROVE SInv'
  <2>1. CASE CheckChosen(p)
    <3>1. run[p].task \in Tasks
      BY <2>1, RunTyped DEF CheckChosen, SInv
    <3> QED
      BY <2>1, <3>1, StepDispatch
  <2>2. CASE Crash(p)
    <3>1. run' = [run EXCEPT ![p] = Idle] /\ Idle \in RunStates /\ Idle.pc = "idle"
      BY <2>2 DEF Crash, RunStates, Idle
    <3>2. crashes' \in 0..MaxEvents
      <4>1. crashes \in 0..MaxEvents /\ byHand \in 0..MaxEvents
        BY DEF SInv, TypeOK
      <4> QED
        BY <2>2, <4>1, BoundAssumption DEF Crash
    <3>3. UNCHANGED <<session, reported, ingested, serving, outdated, byHand>>
      BY <2>2 DEF Crash
    <3>4. Rest'
      BY <3>2, <3>3 DEF Rest, SInv, TypeOK
    <3>5. Work(Idle, session)
      BY <3>1 DEF Work
    <3> QED
      BY <3>1, <3>3, <3>4, <3>5, StepKeeping
  <2> QED
    BY <1>2, <2>1, <2>2
<1>3. ASSUME NEW p \in Procs, ResumeWaits(p) PROVE SInv'
  <2>1. PICK waits : waits = {s \in Sessions : session[s].status \in Waiting}
    OBVIOUS
  <2>2. waits # {} /\ run' = [run EXCEPT ![p] = Updating(waits, "resume", "none")]
    BY <1>3, <2>1 DEF ResumeWaits
  <2>3. PICK s \in Sessions : session[s].status \in Active
    BY <2>1, <2>2 DEF Waiting, Active
  <2>4. session[s].task \in Tasks
    BY <2>3, ActiveNamed
  <2> QED
    BY <1>3, <2>4, StepTouchingTask
<1> QED
  BY <1>1, <1>2, <1>3, StepLoad, StepStore, StepCreate, StepDispatch,
     StepTouchingTask, StepOnSession, StepWorkerReports, OperatorsAssumption
  DEF Next, Advance

\* Type correctness; a released session carries neither report nor stop
\* reason (release_host_session_for_reuse, _update_host_session).
THEOREM TypeCorrect == Spec => []TypeOK
<1>1. SInv => TypeOK
  BY DEF SInv
<1> QED
  BY <1>1, InitClean, StepClean, PTL DEF Spec

\* A session never presents another task's report, unless a write was
\* overtaken (mark_task_host_session_report_ready, close_task_host_sessions).
THEOREM ReportsAreOwn == Spec => []OwnReports
<1>1. SInv => OwnReports
  BY DEF SInv
<1> QED
  BY <1>1, InitClean, StepClean, PTL DEF Spec
----------------------------------------------------------------------------
(***************************************************************************)
(* A session keeps working for the task it was given to, and comes back    *)
(* when the task's report was ingested.  A session at work is not offered  *)
(* for reuse: what is released or offered is marked reusable, as are all   *)
(* sessions of tasks that allow it, and no others.                         *)
(***************************************************************************)

\* A session at work for a task is bound to it and not released.
Serves ==
  \A t \in Tasks : serving[t] # None =>
    /\ session[serving[t]].task = t
    /\ session[serving[t]].status \in Active \ {"released_reusable"}

Marked(r) ==
  /\ r = Absent \/ (r.reuse <=> r.task \in Reuse)
  /\ r.status = "released_reusable" => r.reuse

\* What a process does with sessions that may be reused.
Updates(w) == w.pc \in {"update", "store"}
Meant(w, sess) ==
  /\ w.pc = "chosen" => w.task \in Reuse
  /\ Updates(w) /\ w.op = "assign" => w.task \in Reuse
  /\ Updates(w) /\ w.op \in {"release", "assign"} => \A s \in w.todo : sess[s].reuse
  /\ w.pc = "store" /\ w.op = "assign" => CanAccept(w.seen)
  /\ w.pc = "store" /\ w.op = "release" => w.seen.reuse

\* The process is about to close session s.
Closes(w, s) ==
  /\ Updates(w)
  /\ w.op = "close"
  /\ s \in w.todo \/ (w.pc = "store" /\ w.session = s)

\* As long as nothing died, the ingest of a report sees to the session.
SeenTo ==
  crashes = 0 =>
    \A t \in ingested : serving[t] # None =>
      \E p \in Procs : Closes(run[p], serving[t])

VInv ==
  ~outdated =>
    /\ Serves
    /\ \A s \in Sessions : Marked(session[s])
    /\ \A p \in Procs : Meant(run[p], session)
    /\ SeenTo

LEMMA PatchedReuse ==
  ASSUME NEW r \in Record, NEW op \in Ops, NEW t
  PROVE  /\ Patched(r, op, t).reuse = r.reuse
         /\ Patched(r, op, t).status = "released_reusable" =>
              op = "release" \/ r.status = "released_reusable"
         /\ op \notin {"release", "close", "stop", "failed", "heartbeat"} =>
              Patched(r, op, t).status \in Active \ {"released_reusable"}
         /\ op = "heartbeat" => Patched(r, op, t) = r
<1>1. CASE op \in {"release", "assign"}
  BY <1>1 DEF Patched, Released, Record, Active
<1>2. CASE op \in {"report", "close"}
  BY <1>2 DEF Patched, Record, Active
<1>3. CASE op \in {"stop", "resume"}
  BY <1>3 DEF Patched, Record, Active
<1>4. CASE op \in {"launched", "failed"}
  BY <1>4 DEF Patched, Record, Active
<1>5. CASE op = "heartbeat"
  BY <1>5 DEF Patched
<1> QED
  BY <1>1, <1>2, <1>3, <1>4, <1>5 DEF Ops

\* What has to be shown of a step of process p.
LEMMA ServeStep ==
  ASSUME SInv, VInv, TypeOK', NEW p \in Procs, NEW state,
         run' = [run EXCEPT ![p] = state], outdated => outdated',
         ~outdated' =>
           /\ Serves'
           /\ \A s \in Sessions : Marked(session'[s])
           /\ Meant(state, session')
           /\ \A s \in Sessions : session[s].reuse => session'[s].reuse
           /\ crashes' = 0 =>
                /\ crashes = 0
                /\ \A s \in Sessions : Closes(run[p], s) =>
                     Closes(state, s) \/ \A t \in Tasks : serving'[t] # s
                /\ \A t \in ingested' : serving'[t] # None =>
                     \/ t \in ingested /\ serving[t] = serving'[t]
                     \/ Closes(state, serving'[t])
  PROVE  VInv'
<1> SUFFICES ASSUME ~outdated' PROVE VInv'
  BY DEF VInv
<1>1. ~outdated /\ TypeOK
  BY DEF SInv
<1>2. run'[p] = state /\ \A q \in Procs : q # p => run'[q] = run[q]
  BY <1>1 DEF TypeOK
<1>3. ASSUME NEW q \in Procs PROVE Meant(run'[q], session')
  <2>1. CASE q = p
    BY <1>2, <2>1
  <2>2. CASE q # p
    <3>1. Meant(run[q], session) /\ run'[q] = run[q]
      BY <1>1, <1>2, <2>2 DEF VInv
    <3>2. Updates(run[q]) => run[q].todo \in SUBSET Sessions
      BY <1>1, RunTyped DEF Updates
    <3> QED
      BY <3>1, <3>2 DEF Meant
  <2> QED
    BY <2>1, <2>2
<1>4. SeenTo'
  <2> SUFFICES ASSUME crashes' = 0, NEW t \in ingested', serving'[t] # None
               PROVE  \E q \in Procs : Closes(run'[q], serving'[t])
    BY DEF SeenTo
  <2>1. PICK s \in Sessions : s = serving'[t]
    BY DEF TypeOK
  <2>2. CASE Closes(state, s)
    BY <1>2, <2>1, <2>2
  <2>3. CASE t \in ingested /\ serving[t] = s
    <3>1. s # None
      BY <2>1
    <3>2. PICK q \in Procs : Closes(run[q], s)
      BY <1>1, <2>3, <3>1 DEF VInv, SeenTo
    <3>3. t \in Tasks
      BY DEF TypeOK
    <3> QED
      BY <1>2, <2>1, <3>2, <3>3
  <2> QED
    BY <2>1, <2>2, <2>3
<1> QED
  BY <1>3, <1>4 DEF VInv

\* A step that changes neither sessions nor who they serve.
LEMMA ServeStays ==
  ASSUME SInv, VInv, TypeOK', NEW p \in Procs, NEW state,
         run' = [run EXCEPT ![p] = state],
         UNCHANGED <<session, serving>>, outdated => outdated',
         ~outdated' =>
           /\ Meant(state, session)
           /\ crashes' = 0 =>
                /\ crashes = 0
                /\ \A s \in Sessions : Closes(run[p], s) => Closes(state, s)
                /\ \A t \in ingested' \ ingested : serving[t] # None =>
                     Closes(state, serving[t])
  PROVE  VInv'
<1> SUFFICES ASSUME ~outdated' PROVE VInv'
  BY DEF VInv
<1>1. ~outdated
  OBVIOUS
<1>2. Serves' /\ \A s \in Sessions : Marked(session'[s])
  BY <1>1 DEF VInv, Serves
<1>3. \A s \in Sessions : session[s].reuse => session'[s].reuse
  OBVIOUS
<1>4. ASSUME crashes' = 0
      PROVE  /\ crashes = 0
             /\ \A s \in Sessions : Closes(run[p], s) =>
                  Closes(state, s) \/ \A t \in Tasks : serving'[t] # s
             /\ \A t \in ingested' : serving'[t] # None =>
                  \/ t \in ingested /\ serving[t] = serving'[t]
                  \/ Closes(state, serving'[t])
  BY <1>4
<1> QED
  BY <1>2, <1>3, <1>4, ServeStep

LEMMA IdleMeansNothing == ~Updates(Idle) /\ Idle.pc = "idle"
BY DEF Updates, Idle

LEMMA ServeLoad ==
  ASSUME SInv, VInv, TypeOK', NEW p \in Procs, Load(p) PROVE VInv'
<1>1. TypeOK
  BY DEF SInv
<1>2. PICK s \in Sessions :
        /\ s \in run[p].todo
        /\ run' = [run EXCEPT ![p] =
             Loaded(s, run[p].op, run[p].task, run[p].todo \ {s})]
        /\ outdated' = (outdated \/ Overtaken(s, run[p].op, run[p].task))
  BY DEF Load, First
<1>3. UNCHANGED <<session, reported, ingested, serving, crashes, byHand>>
      /\ run[p].pc = "update"
  BY DEF Load
<1>4. PICK op \in Ops, t \in Tasks \cup {"none"}, todo \in SUBSET Sessions :
        op = run[p].op /\ t = run[p].task /\ todo = run[p].todo
  BY <1>1, <1>3, RunTyped
<1>5. PICK state : state = Loaded(s, op, t, todo \ {s})
  OBVIOUS
<1>6. /\ state.pc = "store" /\ state.op = op /\ state.task = t
      /\ state.seen = session[s] /\ state.todo = todo \ {s} /\ state.session = s
  BY <1>5 DEF Loaded
<1>7. ASSUME ~outdated' PROVE Meant(state, session)
  <2>1. Meant(run[p], session) /\ ~Overtaken(s, op, t)
    BY <1>2, <1>4, <1>7 DEF VInv
  <2>2. op = "assign" => CanAccept(session[s]) /\ t \in Reuse
    BY <1>3, <1>4, <2>1 DEF Meant, Updates, Overtaken
  <2>3. op \in {"release", "assign"} => \A u \in todo : session[u].reuse
    BY <1>3, <1>4, <2>1 DEF Meant, Updates
  <2> QED
    BY <1>2, <1>4, <1>6, <2>2, <2>3 DEF Meant, Updates
<1>8. ASSUME NEW u \in Sessions, Closes(run[p], u) PROVE Closes(state, u)
  BY <1>3, <1>4, <1>6, <1>8 DEF Closes, Updates
<1> QED
  BY <1>2, <1>3, <1>4, <1>5, <1>7, <1>8, ServeStays

LEMMA ServeStore ==
  ASSUME SInv, VInv, TypeOK', NEW p \in Procs, Store(p) PROVE VInv'
<1>1. TypeOK
  BY DEF SInv
<1>2. PICK s \in Sessions, op \in Ops, t \in Tasks \cup {"none"},
           todo \in SUBSET Sessions, seen \in Record :
        /\ s = run[p].session /\ op = run[p].op /\ t = run[p].task
        /\ todo = run[p].todo /\ seen = run[p].seen
  BY <1>1, RunTyped DEF Store
<1>3. PICK r : r = Patched(seen, op, t)
  OBVIOUS
<1>4. PICK state : state = Updating(todo, op, t)
  OBVIOUS
<1>5. /\ session' = [session EXCEPT ![s] = r]
      /\ outdated' = (outdated \/ session[s] # seen
                        \/ (op = "assign" /\ ~Wanted(t)))
      /\ run' = [run EXCEPT ![p] = state]
      /\ serving' = CASE op = "assign" -> [serving EXCEPT ![t] = s]
                      [] op \in {"close", "stop", "release", "failed"} -> Withdrawn(s)
                      [] OTHER -> serving
      /\ UNCHANGED <<reported, ingested, crashes, byHand>>
      /\ run[p].pc = "store"
  BY <1>2, <1>3, <1>4 DEF Store
<1>6. /\ session'[s] = r
      /\ \A u \in Sessions : u # s => session'[u] = session[u]
  BY <1>1, <1>5 DEF TypeOK
<1>7. /\ r.reuse = seen.reuse
      /\ r.task = IF op = "assign" THEN t ELSE seen.task
      /\ r.status = "released_reusable" =>
           op = "release" \/ seen.status = "released_reusable"
      /\ op \notin {"release", "close", "stop", "failed", "heartbeat"} =>
           r.status \in Active \ {"released_reusable"}
      /\ op = "heartbeat" => r = seen
  BY <1>3, PatchedReuse, PatchedTask
<1>8. op = "assign" => t \in Tasks
  BY <1>2, <1>5 DEF SInv, Named, Work
<1>9. \A u \in Tasks :
        serving'[u] = IF op = "assign" /\ u = t THEN s
                      ELSE IF op \in {"close", "stop", "release", "failed"}
                                /\ serving[u] = s THEN None
                      ELSE serving[u]
  <2>1. CASE op = "assign"
    BY <1>1, <1>5, <1>8, <2>1 DEF TypeOK
  <2>2. CASE op \in {"close", "stop", "release", "failed"}
    BY <1>5, <2>2 DEF Withdrawn
  <2>3. CASE op \notin {"assign", "close", "stop", "release", "failed"}
    BY <1>5, <2>3
  <2> QED
    BY <2>1, <2>2, <2>3
<1>10. ASSUME ~outdated'
       PROVE  /\ Serves'
              /\ \A u \in Sessions : Marked(session'[u])
              /\ Meant(state, session')
              /\ \A u \in Sessions : session[u].reuse => session'[u].reuse
              /\ \A u \in Sessions : Closes(run[p], u) =>
                   Closes(state, u) \/ \A v \in Tasks : serving'[v] # u
              /\ \A v \in ingested' : serving'[v] # None =>
                   v \in ingested /\ serving[v] = serving'[v]
  <2>1. ~outdated /\ seen = session[s] /\ (op = "assign" => Wanted(t))
    BY <1>5, <1>10
  <2>2. Serves /\ Marked(session[s]) /\ Meant(run[p], session)
    BY <2>1 DEF VInv
  <2>3. op = "assign" => CanAccept(seen) /\ t \in Reuse
    BY <1>2, <1>5, <2>2 DEF Meant, Updates
  <2>4. ASSUME NEW u \in Tasks, serving'[u] # None
        PROVE  /\ session'[serving'[u]].task = u
               /\ session'[serving'[u]].status \in Active \ {"released_reusable"}
    <3>1. CASE op = "assign" /\ u = t
      BY <1>6, <1>7, <1>9, <3>1
    <3>2. CASE ~(op = "assign" /\ u = t) /\ serving'[u] = s
      <4>1. serving[u] = s /\ op \notin {"close", "stop", "release", "failed"}
        BY <1>9, <2>4, <3>2
      <4>2. seen.task = u /\ seen.status \in Active \ {"released_reusable"}
        BY <2>1, <2>2, <2>4, <3>2, <4>1 DEF Serves
      <4>3. op # "assign"
        BY <2>3, <4>2 DEF CanAccept
      <4> QED
        BY <1>6, <1>7, <3>2, <4>1, <4>2, <4>3
    <3>3. CASE ~(op = "assign" /\ u = t) /\ serving'[u] # s
      <4>1. serving'[u] = serving[u] /\ serving[u] \in Sessions
        BY <1>1, <1>9, <2>4, <3>3 DEF TypeOK
      <4> QED
        BY <1>6, <2>2, <2>4, <3>3, <4>1 DEF Serves
    <3> QED
      BY <3>1, <3>2, <3>3
  <2>5. Serves'
    BY <2>4 DEF Serves
  <2>6. r.status = "released_reusable" => r.reuse
    <3>1. op = "release" => seen.reuse
      BY <1>2, <1>5, <2>2 DEF Meant
    <3>2. seen.status = "released_reusable" => seen.reuse
      BY <2>1, <2>2 DEF Marked
    <3> QED
      BY <1>7, <3>1, <3>2
  <2>7. r.reuse <=> r.task \in Reuse
    <3>1. seen # Absent
      <4>1. Absent.task = "none"
        BY DEF Absent
      <4>2. seen.task \in Tasks
        BY <1>2, <1>5 DEF SInv, Named, Work
      <4> QED
        BY <4>1, <4>2, TasksAssumption
    <3>2. seen.reuse <=> seen.task \in Reuse
      BY <2>1, <2>2, <3>1 DEF Marked
    <3>3. CASE op = "assign"
      BY <1>7, <2>3, <3>3 DEF CanAccept
    <3>4. CASE op # "assign"
      BY <1>7, <3>2, <3>4
    <3> QED
      BY <3>3, <3>4
  <2>8. \A u \in Sessions : Marked(session'[u])
    BY <1>6, <2>1, <2>6, <2>7 DEF VInv, Marked
  <2>9. \A u \in Sessions : session[u].reuse => session'[u].reuse
    BY <1>6, <1>7, <2>1
  <2>10. Meant(state, session')
    <3>1. op \in {"release", "assign"} => \A u \in todo : session[u].reuse
      BY <1>2, <1>5, <2>2 DEF Meant, Updates
    <3> QED
      BY <1>4, <2>3, <2>9, <3>1, IdleMeansNothing DEF Meant, Updating, Updates
  <2>11. ASSUME NEW u \in Sessions, Closes(run[p], u)
         PROVE  Closes(state, u) \/ \A v \in Tasks : serving'[v] # u
    <3>1. op = "close" /\ (u \in todo \/ u = s)
      BY <1>2, <2>11 DEF Closes
    <3>2. u \in todo => Closes(state, u)
      BY <1>4, <3>1 DEF Updating, Closes, Updates
    <3>3. u # None
      BY SessionsAssumption DEF None
    <3>4. u = s => \A v \in Tasks : serving'[v] # u
      BY <1>9, <3>1, <3>3
    <3> QED
      BY <3>1, <3>2, <3>4
  <2>12. ASSUME NEW v \in ingested', serving'[v] # None
         PROVE  v \in ingested /\ serving[v] = serving'[v]
    <3>1. v \in ingested /\ v \in Tasks
      BY <1>1, <1>5 DEF TypeOK
    <3>2. ~(op = "assign" /\ v = t)
      BY <2>1, <3>1 DEF Wanted
    <3> QED
      BY <1>9, <2>12, <3>1, <3>2
  <2> QED
    BY <2>5, <2>8, <2>9, <2>10, <2>11, <2>12
<1> QED
  BY <1>5, <1>10, ServeStep

\* Sessions of a task are chosen for an update.
LEMMA ServeTouch ==
  ASSUME SInv, VInv, TypeOK', NEW p \in Procs, NEW t \in Tasks,
         ReportReady(p, t) \/ ResumeTask(p, t) \/ IngestAndClose(p, t)
           \/ ReleaseTask(p, t)
  PROVE  VInv'
<1>1. TypeOK
  BY DEF SInv
<1>2. run[p] = Idle /\ UNCHANGED <<session, serving, outdated, crashes>>
  BY DEF ReportReady, ResumeTask, IngestAndClose, ReleaseTask, Free
<1>3. \A s : ~Closes(run[p], s)
  BY <1>2, IdleMeansNothing DEF Closes
<1>4. ASSUME NEW todo, NEW op \in {"report", "resume", "close", "release"},
             run' = [run EXCEPT ![p] = Updating(todo, op, t)],
             op = "release" => \A s \in todo : session[s].reuse,
             ingested' # ingested =>
               ingested' = ingested \cup {t} /\ op = "close" /\ todo = ActiveOf(t)
      PROVE  VInv'
  <2>1. PICK state : state = Updating(todo, op, t)
    OBVIOUS
  <2>2. Meant(state, session)
    BY <1>4, <2>1, IdleMeansNothing DEF Meant, Updating, Updates
  <2>3. ASSUME ~outdated, NEW u \in ingested' \ ingested, serving[u] # None
        PROVE  Closes(state, serving[u])
    <3>1. u = t /\ op = "close" /\ todo = ActiveOf(t)
      BY <1>4, <2>3
    <3>2. serving[t] \in Sessions
      BY <1>1, <2>3, <3>1 DEF TypeOK
    <3>3. serving[t] \in ActiveOf(t)
      BY <2>3, <3>1, <3>2 DEF VInv, Serves, ActiveOf
    <3> QED
      BY <2>1, <3>1, <3>3 DEF Closes, Updating, Updates
  <2> QED
    BY <1>2, <1>3, <1>4, <2>1, <2>2, <2>3, ServeStays
<1>5. CASE ReportReady(p, t)
  <2>1. PICK s : run' = [run EXCEPT ![p] = Updating({s}, "report", t)]
    BY <1>5 DEF ReportReady
  <2> QED
    BY <1>4, <1>5, <2>1 DEF ReportReady
<1>6. CASE ResumeTask(p, t)
  <2>1. PICK s : run' = [run EXCEPT ![p] = Updating({s}, "resume", t)]
    BY <1>6 DEF ResumeTask
  <2> QED
    BY <1>4, <1>6, <2>1 DEF ResumeTask
<1>7. CASE IngestAndClose(p, t)
  BY <1>4, <1>7 DEF IngestAndClose
<1>8. CASE ReleaseTask(p, t)
  <2>1. PICK mine : /\ mine = {s \in ActiveOf(t) : session[s].reuse}
                    /\ run' = [run EXCEPT ![p] = Updating(mine, "release", t)]
    BY <1>8 DEF ReleaseTask
  <2>2. ingested' = ingested /\ \A s \in mine : session[s].reuse
    BY <1>8, <2>1 DEF ReleaseTask
  <2> QED
    BY <1>4, <2>1, <2>2
<1> QED
  BY <1>5, <1>6, <1>7, <1>8

LEMMA ServeResumeWaits ==
  ASSUME SInv, VInv, TypeOK', NEW p \in Procs, ResumeWaits(p) PROVE VInv'
<1>1. /\ run[p] = Idle
      /\ UNCHANGED <<session, serving, outdated, crashes, ingested>>
  BY DEF ResumeWaits, Free
<1>2. \A s : ~Closes(run[p], s)
  BY <1>1, IdleMeansNothing DEF Closes
<1>3. PICK waits : run' = [run EXCEPT ![p] = Updating(waits, "resume", "none")]
  BY DEF ResumeWaits
<1>4. Meant(Updating(waits, "resume", "none"), session)
  BY IdleMeansNothing DEF Meant, Updating, Updates
<1> QED
  BY <1>1, <1>2, <1>3, <1>4, ServeStays

LEMMA ServeOnSession ==
  ASSUME SInv, VInv, TypeOK', NEW p \in Procs, NEW s \in Sessions,
         NEW op \in {"heartbeat", "resume", "stop", "release"},
         OnSession(p, s, op)
  PROVE  VInv'
<1>1. /\ run[p] = Idle
      /\ UNCHANGED <<session, serving, outdated, crashes, ingested>>
      /\ op = "release" => session[s].reuse
      /\ run' = [run EXCEPT ![p] = Loaded(s, op, "none", {})]
  BY DEF OnSession, Free
<1>2. \A u : ~Closes(run[p], u)
  BY <1>1, IdleMeansNothing DEF Closes
<1>3. Meant(Loaded(s, op, "none", {}), session)
  BY <1>1 DEF Meant, Loaded, Updates
<1> QED
  BY <1>1, <1>2, <1>3, ServeStays

\* The attached session is launched, or nothing more is to do.
LEMMA AttachMeant ==
  ASSUME NEW s, NEW t, NEW then \in AfterAttach(s, t), NEW sess
  PROVE  Meant(then, sess)
BY IdleMeansNothing DEF AfterAttach, Meant, Updating, Updates

LEMMA ServeDispatch ==
  ASSUME SInv, VInv, TypeOK', NEW p \in Procs, NEW t \in Tasks,
         ChooseReusable(p, t) \/ LookUpKey(p, t)
  PROVE  VInv'
<1>1. TypeOK
  BY DEF SInv
<1>2. /\ run[p] = Idle /\ Wanted(t)
      /\ UNCHANGED <<session, outdated, crashes, ingested>>
  BY DEF ChooseReusable, LookUpKey, Free
<1>3. \A u : ~Closes(run[p], u)
  BY <1>2, IdleMeansNothing DEF Closes
<1>4. CASE ChooseReusable(p, t)
  <2>1. PICK s \in Sessions : run' =
          [run EXCEPT ![p] = [pc |-> "chosen", session |-> s, task |-> t]]
    BY <1>4 DEF ChooseReusable
  <2>2. Meant([pc |-> "chosen", session |-> s, task |-> t], session)
    BY <1>4 DEF Meant, Updates, ChooseReusable
  <2>3. UNCHANGED serving
    BY <1>4 DEF ChooseReusable
  <2> QED
    BY <1>2, <1>3, <2>1, <2>2, <2>3, ServeStays
<1>5. ASSUME run' = [run EXCEPT ![p] = [pc |-> "create", task |-> t]],
             UNCHANGED serving
      PROVE  VInv'
  <2>1. Meant([pc |-> "create", task |-> t], session)
    BY DEF Meant, Updates
  <2> QED
    BY <1>2, <1>3, <1>5, <2>1, ServeStays
<1>6. ASSUME LookUpKey(p, t), NEW s \in Sessions, session[s].task = t,
             serving' = IF session[s].status \in Active
                        THEN [serving EXCEPT ![t] = s] ELSE serving,
             NEW then \in AfterAttach(s, t), run' = [run EXCEPT ![p] = then]
      PROVE  VInv'
  <2>1. ASSUME ~outdated, session[s].status \in Active
        PROVE  session[s].status # "released_reusable"
    <3> SUFFICES ASSUME session[s].status = "released_reusable" PROVE FALSE
      OBVIOUS
    <3>1. session[s].reuse /\ t \in Reuse
      <4>1. session[s] # Absent
        BY DEF Absent
      <4> QED
        BY <1>6, <2>1, <4>1 DEF VInv, Marked
    <3>2. CanAccept(session[s])
      BY <1>1, <3>1 DEF CanAccept, TypeOK
    <3> QED
      BY <1>6, <3>1, <3>2 DEF LookUpKey
  <2>2. \A u \in Tasks : serving'[u] = IF u = t /\ session[s].status \in Active
                                       THEN s ELSE serving[u]
    BY <1>1, <1>6 DEF TypeOK
  <2>3. ASSUME ~outdated
        PROVE  /\ Serves'
               /\ \A u \in Sessions : Marked(session'[u])
               /\ Meant(then, session')
               /\ \A v \in ingested' : serving'[v] # None =>
                    v \in ingested /\ serving[v] = serving'[v]
    <3>1. Serves'
      BY <1>2, <1>6, <2>1, <2>2, <2>3 DEF VInv, Serves
    <3>2. \A u \in Sessions : Marked(session'[u])
      BY <1>2, <2>3 DEF VInv
    <3>3. t \notin ingested /\ ingested \subseteq Tasks
      BY <1>1, <1>2 DEF Wanted, TypeOK
    <3> QED
      BY <1>2, <1>6, <2>2, <3>1, <3>2, <3>3, AttachMeant
  <2> QED
    BY <1>2, <1>3, <1>6, <2>3, ServeStep
<1> QED
  BY <1>4, <1>5, <1>6 DEF LookUpKey, First

LEMMA ServeCheckChosen ==
  ASSUME SInv, VInv, TypeOK', NEW p \in Procs, CheckChosen(p) PROVE VInv'
<1>1. UNCHANGED <<session, serving, outdated, crashes, ingested>>
      /\ run[p].pc = "chosen"
  BY DEF CheckChosen
<1>2. \A u : ~Closes(run[p], u)
  BY <1>1 DEF Closes, Updates
<1>3. PICK s, t : s = run[p].session /\ t = run[p].task
  OBVIOUS
<1>4. PICK state : state = IF CanAccept(session[s])
                           THEN Updating({s}, "assign", t) ELSE Idle
  OBVIOUS
<1>5. run' = [run EXCEPT ![p] = state]
  BY <1>3, <1>4 DEF CheckChosen
<1>6. ASSUME ~outdated PROVE Meant(state, session)
  <2>1. t \in Reuse
    BY <1>1, <1>3, <1>6 DEF VInv, Meant
  <2> QED
    BY <1>4, <2>1, IdleMeansNothing DEF Meant, Updating, Updates, CanAccept
<1> QED
  BY <1>1, <1>2, <1>5, <1>6, ServeStays

LEMMA ServeCreate ==
  ASSUME SInv, VInv, TypeOK', NEW p \in Procs, Create(p) PROVE VInv'
<1>1. TypeOK
  BY DEF SInv
<1>2. PICK t \in Tasks : t = run[p].task
  BY <1>1, RunTyped DEF Create
<1>3. PICK w, b : /\ w = IF t \in Launched THEN "pending_launch"
                         ELSE "waiting_worker"
                  /\ b = (t \in Reuse)
  OBVIOUS
<1>4. PICK r : r = [Absent EXCEPT !.status = w, !.task = t, !.reuse = b]
  OBVIOUS
<1>5. PICK s \in Sessions :
        /\ session[s] = Absent
        /\ session' = [session EXCEPT ![s] =
             [Absent EXCEPT !.status = IF t \in Launched THEN "pending_launch"
                                       ELSE "waiting_worker",
                            !.task = t, !.reuse = (t \in Reuse)]]
        /\ outdated' = (outdated \/ ~Wanted(t)
                          \/ \E u \in Sessions : session[u].task = t)
        /\ serving' = [serving EXCEPT ![t] = s]
        /\ \E then \in AfterAttach(s, t) : run' = [run EXCEPT ![p] = then]
  BY <1>2 DEF Create
<1>6. session' = [session EXCEPT ![s] = r]
  BY <1>3, <1>4, <1>5, Zenon
<1>7. r.task = t /\ r.status = w /\ (r.reuse <=> t \in Reuse)
  <2>1. r = [status |-> w, task |-> t, reuse |-> b, report |-> "none",
             stopped |-> FALSE]
    BY <1>4 DEF Absent
  <2> QED
    BY <1>3, <2>1
<1>8. w \in Active \ {"released_reusable"}
  BY <1>3 DEF Active
<1>9. /\ session'[s] = r
      /\ \A u \in Sessions : u # s => session'[u] = session[u]
      /\ \A u \in Tasks : serving'[u] = IF u = t THEN s ELSE serving[u]
  BY <1>1, <1>5, <1>6 DEF TypeOK
<1>10. PICK then \in AfterAttach(s, t) : run' = [run EXCEPT ![p] = then]
  BY <1>5
<1>11. run[p].pc = "create" /\ UNCHANGED <<ingested, crashes>>
  BY DEF Create
<1>12. \A u : ~Closes(run[p], u)
  BY <1>11 DEF Closes, Updates
<1>13. Absent.status = "absent" /\ ~Absent.reuse /\ "absent" \notin Active
  BY DEF Absent, Active
<1>14. ASSUME ~outdated'
       PROVE  /\ Serves'
              /\ \A u \in Sessions : Marked(session'[u])
              /\ Meant(then, session')
              /\ \A u \in Sessions : session[u].reuse => session'[u].reuse
              /\ \A v \in ingested' : serving'[v] # None =>
                   v \in ingested /\ serving[v] = serving'[v]
  <2>1. ~outdated /\ Wanted(t)
    BY <1>5, <1>14
  <2>2. ASSUME NEW u \in Tasks, serving'[u] # None
        PROVE  /\ session'[serving'[u]].task = u
               /\ session'[serving'[u]].status \in Active \ {"released_reusable"}
    <3>1. CASE u = t
      BY <1>7, <1>8, <1>9, <3>1
    <3>2. CASE u # t
      <4>1. serving'[u] = serving[u] /\ serving[u] \in Sessions
        BY <1>1, <1>9, <2>2, <3>2 DEF TypeOK
      <4>2. session[serving[u]].task = u
            /\ session[serving[u]].status \in Active \ {"released_reusable"}
        BY <2>1, <2>2, <4>1 DEF VInv, Serves
      <4>3. serving[u] # s
        BY <1>5, <1>13, <4>2
      <4> QED
        BY <1>9, <4>1, <4>2, <4>3
    <3> QED
      BY <3>1, <3>2
  <2>3. Marked(r)
    BY <1>7, <1>8 DEF Marked
  <2>4. \A u \in Sessions : Marked(session'[u])
    BY <1>9, <2>1, <2>3 DEF VInv
  <2>5. \A u \in Sessions : session[u].reuse => session'[u].reuse
    BY <1>5, <1>9, <1>13
  <2>6. t \notin ingested /\ ingested \subseteq Tasks
    BY <1>1, <2>1 DEF Wanted, TypeOK
  <2> QED
    BY <1>9, <1>11, <2>2, <2>4, <2>5, <2>6, AttachMeant DEF Serves
<1> QED
  BY <1>5, <1>10, <1>11, <1>12, <1>14, ServeStep

LEMMA ServeCrash ==
  ASSUME SInv, VInv, TypeOK', NEW p \in Procs, Crash(p) PROVE VInv'
<1>1. /\ run' = [run EXCEPT ![p] = Idle] /\ crashes' = crashes + 1
      /\ UNCHANGED <<session, serving, outdated>>
  BY DEF Crash
<1>2. crashes' # 0
  BY <1>1, BoundAssumption DEF SInv, TypeOK
<1>3. Meant(Idle, session)
  BY IdleMeansNothing DEF Meant
<1> QED
  BY <1>1, <1>2, <1>3, ServeStays

LEMMA ServeOthers ==
  ASSUME VInv, UNCHANGED vars \/ \E s \in Sessions : WorkerReports(s) PROVE VInv'
<1>1. UNCHANGED <<session, run, ingested, serving, outdated, crashes>>
  BY DEF vars, WorkerReports
<1> QED
  BY <1>1 DEF VInv, Serves, SeenTo

LEMMA StepServes == SInv /\ VInv /\ TypeOK' /\ [Next]_vars => VInv'
BY ServeLoad, ServeStore, ServeTouch, ServeResumeWaits, ServeOnSession,
   ServeDispatch, ServeCheckChosen, ServeCreate, ServeCrash, ServeOthers,
   OperatorsAssumption DEF Next, Advance

LEMMA InitServes == Init => VInv
<1> SUFFICES ASSUME Init PROVE VInv
  OBVIOUS
<1>1. Serves /\ SeenTo
  BY DEF Init, Serves, SeenTo
<1>2. \A s \in Sessions : Marked(session[s])
  <2>1. Marked(Absent)
    BY DEF Marked, Absent
  <2> QED
    BY <2>1 DEF Init
<1>3. \A p \in Procs : Meant(run[p], session)
  BY IdleMeansNothing DEF Init, Meant
<1> QED
  BY <1>1, <1>2, <1>3 DEF VInv

\* What holds of sessions at work, until a write is overtaken.
THEOREM ServiceInvariance == Spec => [](SInv /\ VInv)
<1>1. SInv => TypeOK
  BY DEF SInv
<1> QED
  BY <1>1, InitClean, StepClean, InitServes, StepServes, PTL DEF Spec

\* A session given to a dispatch works for that task until it is closed,
\* stopped or released, unless a write was overtaken
\* (assign_reusable_host_session_to_task, create_or_attach_session).
THEOREM SessionsServe == Spec => []SessionServesItsTask
<1>1. VInv => SessionServesItsTask
  BY DEF VInv, Serves, SessionServesItsTask
<1> QED
  BY <1>1, ServiceInvariance, PTL

\* Once a report was ingested and all commands ended, its session is closed
\* or back in the pool, unless a write was overtaken or a process died
\* (close_task_host_sessions).
THEOREM SessionsReturn == Spec => []SessionsComeBack
<1>1. ASSUME VInv PROVE SessionsComeBack
  <2> SUFFICES ASSUME ~outdated, crashes = 0, \A p \in Procs : run[p] = Idle,
                      NEW t \in ingested, serving[t] # None
               PROVE  FALSE
    BY DEF SessionsComeBack
  <2>1. PICK p \in Procs : Closes(run[p], serving[t])
    BY <1>1 DEF VInv, SeenTo
  <2> QED
    BY <2>1, IdleMeansNothing DEF Closes
<1> QED
  BY <1>1, ServiceInvariance, PTL
==========================================================================

--------------------------- MODULE HostSession ---------------------------
(***************************************************************************)
(* The host sessions: one record per worker window, bound to a task,       *)
(* closed when the task's report was ingested, released by hand for reuse  *)
(* and then bound to the next task.                                        *)
(*                                                                         *)
(* Every operation first lists or reads sessions to choose one, then       *)
(* _update_host_session loads it again and writes it back whole.  Only the *)
(* write holds the session's lock, so what was read may be outdated.       *)
(*                                                                         *)
(* One graph thread dispatches, so the dispatch key of a session names its *)
(* task.  Requested profiles, tools and paths match; HostMailbox has the   *)
(* commands.                                                               *)
(***************************************************************************)
EXTENDS Integers, FiniteSets

CONSTANTS
  Procs,      \* processes: drivers, providers, host control commands
  Operators,  \* those of them that run commands on sessions by hand
  Tasks,
  Sessions,   \* session ids, numbered in file-name order
  Reuse,      \* tasks whose packet allows reuse
  Launched,   \* tasks whose packet configures a launcher
  MaxEvents,  \* bound on crashes and commands on sessions, for TLC
  GoOn        \* do commands begin after a write was overtaken? for TLC

ASSUME SessionsAssumption == Sessions \subseteq Nat \ {0}
ASSUME TasksAssumption    ==
         /\ "none" \notin Tasks
         /\ Reuse \subseteq Tasks
         /\ Launched \subseteq Tasks
ASSUME OperatorsAssumption == Operators \subseteq Procs
ASSUME BoundAssumption    == 
         MaxEvents \in Nat /\ GoOn \in BOOLEAN

VARIABLES
  session,   \* the session records; status "absent" before creation
  run,       \* what each process is in the middle of
  reported,  \* tasks whose worker wrote its report file
  ingested,  \* tasks whose report was ingested
  serving,   \* history: the session that the dispatch of a task was given
  outdated,  \* history: a session was written from an outdated reading
  crashes,   \* crashes so far
  byHand     \* commands on sessions so far

vars == <<session, run, reported, ingested, serving, outdated, crashes, byHand>>

Active  == {"pending_launch", "waiting_worker", "report_ready",
            "resume_requested", "released_reusable"}
Waiting == {"pending_launch", "waiting_worker", "resume_requested"}
Status  == Active \cup {"absent", "stopped", "closed", "failed"}
Idle    == [pc |-> "idle"]
None    == 0
Absent  == [status |-> "absent", task |-> "none", reuse |-> FALSE,
            report |-> "none", stopped |-> FALSE]
Record  == [status : Status, task : Tasks \cup {"none"}, reuse : BOOLEAN,
            report : Tasks \cup {"none"}, stopped : BOOLEAN]

Init ==
  /\ session = [s \in Sessions |-> Absent]
  /\ run = [p \in Procs |-> Idle]
  /\ reported = {}
  /\ ingested = {}
  /\ serving = [t \in Tasks |-> None]
  /\ outdated = FALSE
  /\ crashes = 0
  /\ byHand = 0

\* Process p may begin a command.
Free(p) == run[p] = Idle /\ (outdated => GoOn)

\* The task has neither a session nor a report that was ingested.
Wanted(t) == serving[t] = None /\ t \notin ingested

\* Mutant: the listed sessions are not restricted to the task.
ActiveOfEveryTask(t) == {s \in Sessions : session[s].status \in Active}

\* Mutant: a session with a report counts as ended.
WaitingOf(t) ==
  {s \in Sessions : session[s].task = t /\ session[s].status \in Waiting}

\* list_host_sessions of a task, active ones only.
ActiveOf(t) ==
  {s \in Sessions : session[s].task = t /\ session[s].status \in Active}
First(s, S) == s \in S /\ \A r \in S : s <= r
Last(s, S)  == s \in S /\ \A r \in S : r <= s

\* Mutant: a session that is still bound counts as reusable.
CanAcceptBound(r) ==
  r.reuse /\ r.status \in Active /\ r.report = "none" /\ ~r.stopped

\* _build_reuse_eligibility: can_accept_new_task.
CanAccept(r) ==
  /\ r.reuse
  /\ r.status = "released_reusable"
  /\ r.report = "none"
  /\ ~r.stopped

----------------------------------------------------------------------------
(* Writing a session *)

Released(r) ==
  [r EXCEPT !.status = "released_reusable", !.report = "none",
            !.stopped = FALSE]

\* The patch each operation hands to _update_host_session.
Patched(r, op, t) ==
  CASE op = "release"   -> Released(r)
    [] op = "assign"    -> [r EXCEPT !.status = "waiting_worker", !.task = t,
                                     !.report = "none", !.stopped = FALSE]
    [] op = "report"    -> [r EXCEPT !.status = "report_ready", !.report = t]
    [] op = "close"     -> [r EXCEPT !.status = "closed", !.report = t,
                                     !.stopped = TRUE]
    [] op = "stop"      -> [r EXCEPT !.status = "stopped", !.stopped = TRUE]
    [] op = "resume"    -> [r EXCEPT !.status = "resume_requested"]
    [] op = "launched"  -> [r EXCEPT !.status = "waiting_worker"]
    [] op = "failed"    -> [r EXCEPT !.status = "failed"]
    [] op = "heartbeat" -> r

\* The sessions in `todo` are to be updated one after another.
Updating(todo, op, t) ==
  IF todo = {} THEN Idle
  ELSE [pc |-> "update", todo |-> todo, op |-> op, task |-> t]

\* What made the operation choose session s is no longer so.
Overtaken(s, op, t) ==
  \/ op = "assign" /\ ~CanAccept(session[s])
  \/ op \in {"close", "report"} /\ s \notin ActiveOf(t)
  \/ op \in {"launched", "failed"} /\ session[s].task # t
  \/ op = "resume" /\ t # "none"
       /\ (session[s].task # t \/ session[s].status \notin Waiting)
  \/ op = "release" /\ t # "none" /\ s \notin ActiveOf(t)

Loaded(s, op, t, todo) ==
  [pc |-> "store", session |-> s, seen |-> session[s], todo |-> todo,
   op |-> op, task |-> t]

\* _update_host_session loads the session ...
Load(p) ==
  /\ run[p].pc = "update"
  /\ \E s \in Sessions :
       /\ First(s, run[p].todo)
       /\ run' = [run EXCEPT ![p] =
            Loaded(s, run[p].op, run[p].task, run[p].todo \ {s})]
       /\ outdated' = (outdated \/ Overtaken(s, run[p].op, run[p].task))
  /\ UNCHANGED <<session, reported, ingested, serving, crashes, byHand>>

\* The session no longer works for the task that was given it.
Withdrawn(s) == [t \in Tasks |-> IF serving[t] = s THEN None ELSE serving[t]]

\* ... and writes the copy, patched, under the lock.
Store(p) ==
  /\ run[p].pc = "store"
  /\ LET s == run[p].session  op == run[p].op  t == run[p].task IN
     /\ session' = [session EXCEPT ![s] = Patched(run[p].seen, op, t)]
     /\ outdated' = (outdated \/ session[s] # run[p].seen
                       \/ (op = "assign" /\ ~Wanted(t)))
     /\ serving' =
          CASE op = "assign" -> [serving EXCEPT ![t] = s]
            [] op \in {"close", "stop", "release", "failed"} -> Withdrawn(s)
            [] OTHER -> serving
     /\ run' = [run EXCEPT ![p] = Updating(run[p].todo, op, t)]
  /\ UNCHANGED <<reported, ingested, crashes, byHand>>

----------------------------------------------------------------------------
(* Dispatch: create_or_attach_session *)

\* A task without a session is dispatched: a released session is chosen ...
ChooseReusable(p, t) ==
  /\ Free(p)
  /\ Wanted(t)
  /\ t \in Reuse
  /\ \E s \in Sessions :
       /\ First(s, {r \in Sessions : CanAccept(session[r])})
       /\ run' = [run EXCEPT ![p] = [pc |-> "chosen", session |-> s,
                                     task |-> t]]
  /\ UNCHANGED <<session, reported, ingested, serving, outdated, crashes, byHand>>

\* ... and looked at once more (assign_reusable_host_session_to_task).
CheckChosen(p) ==
  /\ run[p].pc = "chosen"
  /\ run' = [run EXCEPT ![p] =
       IF CanAccept(session[run[p].session])
       THEN Updating({run[p].session}, "assign", run[p].task) ELSE Idle]
  /\ UNCHANGED <<session, reported, ingested, serving, outdated, crashes, byHand>>

\* _auto_launch_session: the configured command starts or fails.
AfterAttach(s, t) ==
  IF t \in Launched
  THEN {Updating({s}, op, t) : op \in {"launched", "failed"}} ELSE {Idle}

\* Without one, the dispatch key is looked up; the bounded Sessions must
\* have room for a new one.
LookUpKey(p, t) ==
  /\ Free(p)
  /\ Wanted(t)
  /\ t \in Reuse => \A s \in Sessions : ~CanAccept(session[s])
  /\ LET known == {s \in Sessions : session[s].task = t} IN
     \/ /\ known = {}
        /\ Cardinality({q \in Procs : run[q].pc = "create"})
             < Cardinality({s \in Sessions : session[s] = Absent})
        /\ run' = [run EXCEPT ![p] = [pc |-> "create", task |-> t]]
        /\ UNCHANGED serving
     \/ \E s \in Sessions :
          /\ First(s, known)
          /\ serving' = IF session[s].status \in Active
                        THEN [serving EXCEPT ![t] = s] ELSE serving
          /\ \E then \in AfterAttach(s, t) : run' = [run EXCEPT ![p] = then]
  /\ UNCHANGED <<session, reported, ingested, outdated, crashes, byHand>>

\* create_host_session
Create(p) ==
  /\ run[p].pc = "create"
  /\ LET t == run[p].task IN \E s \in Sessions :
     /\ session[s] = Absent
     /\ session' = [session EXCEPT ![s] =
          [Absent EXCEPT !.status = IF t \in Launched THEN "pending_launch"
                                    ELSE "waiting_worker",
                         !.task = t, !.reuse = (t \in Reuse)]]
     /\ outdated' = (outdated \/ ~Wanted(t)
                       \/ \E r \in Sessions : session[r].task = t)
     /\ serving' = [serving EXCEPT ![t] = s]
     /\ \E then \in AfterAttach(s, t) : run' = [run EXCEPT ![p] = then]
  /\ UNCHANGED <<reported, ingested, crashes, byHand>>

----------------------------------------------------------------------------
(* Waiting for the report *)

\* The worker of an active session writes worker_report.json of its task.
WorkerReports(s) ==
  /\ session[s].status \in Active
  /\ reported' = reported \cup {session[s].task}
  /\ UNCHANGED <<session, run, ingested, serving, outdated, crashes, byHand>>

\* mark_task_host_session_report_ready, of the last active session by name.
ReportReady(p, t) ==
  /\ Free(p)
  /\ t \in reported \ ingested
  /\ \E s \in Sessions :
       /\ Last(s, ActiveOf(t))
       /\ run' = [run EXCEPT ![p] = Updating({s}, "report", t)]
  /\ UNCHANGED <<session, reported, ingested, serving, outdated, crashes, byHand>>

\* request_task_host_session_resume, when the wait timed out.
ResumeTask(p, t) ==
  /\ Free(p)
  /\ t \notin reported
  /\ \E s \in Sessions :
       /\ Last(s, ActiveOf(t))
       /\ session[s].status \in Waiting
       /\ run' = [run EXCEPT ![p] = Updating({s}, "resume", t)]
  /\ UNCHANGED <<session, reported, ingested, serving, outdated, crashes, byHand>>

\* ingest_worker_node: the ingest, then close_task_host_sessions.
IngestAndClose(p, t) ==
  /\ Free(p)
  /\ t \in reported \ ingested
  /\ ingested' = ingested \cup {t}
  /\ run' = [run EXCEPT ![p] = Updating(ActiveOf(t), "close", t)]
  /\ UNCHANGED <<session, reported, serving, outdated, crashes, byHand>>

----------------------------------------------------------------------------
(* Commands on sessions *)

\* heartbeat, resume, stop, release-reusable: any status will do.
OnSession(p, s, op) ==
  /\ Free(p)
  /\ crashes + byHand < MaxEvents
  /\ byHand' = byHand + 1
  /\ session[s] # Absent
  /\ op = "release" => session[s].reuse
  /\ run' = [run EXCEPT ![p] = Loaded(s, op, "none", {})]
  /\ UNCHANGED <<session, reported, ingested, serving, outdated, crashes>>

\* release-task-reusable
ReleaseTask(p, t) ==
  /\ Free(p)
  /\ crashes + byHand < MaxEvents
  /\ byHand' = byHand + 1
  /\ LET mine == {s \in ActiveOf(t) : session[s].reuse} IN
     /\ mine # {}
     /\ run' = [run EXCEPT ![p] = Updating(mine, "release", t)]
  /\ UNCHANGED <<session, reported, ingested, serving, outdated, crashes>>

\* resume-waits, over all tasks.
ResumeWaits(p) ==
  /\ Free(p)
  /\ crashes + byHand < MaxEvents
  /\ byHand' = byHand + 1
  /\ LET waits == {s \in Sessions : session[s].status \in Waiting} IN
     /\ waits # {}
     /\ run' = [run EXCEPT ![p] = Updating(waits, "resume", "none")]
  /\ UNCHANGED <<session, reported, ingested, serving, outdated, crashes>>

Crash(p) ==
  /\ run[p] # Idle
  /\ crashes + byHand < MaxEvents
  /\ crashes' = crashes + 1
  /\ run' = [run EXCEPT ![p] = Idle]
  /\ UNCHANGED <<session, reported, ingested, serving, outdated, byHand>>

----------------------------------------------------------------------------

Advance(p) ==
  Load(p) \/ Store(p) \/ CheckChosen(p) \/ Create(p)

Next ==
  \/ \E p \in Procs :
       \/ Advance(p)
       \/ Crash(p)
       \/ \E t \in Tasks :
            \/ ChooseReusable(p, t) \/ LookUpKey(p, t)
            \/ ReportReady(p, t) \/ ResumeTask(p, t)
            \/ IngestAndClose(p, t)
  \/ \E p \in Operators :
       \/ ResumeWaits(p)
       \/ \E t \in Tasks : ReleaseTask(p, t)
       \/ \E s \in Sessions, op \in {"heartbeat", "resume", "stop", "release"} :
            OnSession(p, s, op)
  \/ \E s \in Sessions : WorkerReports(s)

Spec == Init /\ [][Next]_vars

----------------------------------------------------------------------------

RunStates ==
  {Idle}
    \cup [pc : {"update"}, todo : SUBSET Sessions, task : Tasks \cup {"none"},
          op : {"release", "assign", "report", "close", "stop", "resume",
                "launched", "failed", "heartbeat"}]
    \cup [pc : {"store"}, session : Sessions, seen : Record,
          todo : SUBSET Sessions, task : Tasks \cup {"none"},
          op : {"release", "assign", "report", "close", "stop", "resume",
                "launched", "failed", "heartbeat"}]
    \cup [pc : {"chosen"}, session : Sessions, task : Tasks]
    \cup [pc : {"create"}, task : Tasks]

(***************************************************************************)
(* Type invariant.  A released session carries neither a report nor a stop *)
(* reason, whoever wrote it last (release_host_session_for_reuse).         *)
(***************************************************************************)
TypeOK ==
  /\ session \in [Sessions -> Record]
  /\ run \in [Procs -> RunStates]
  /\ reported \in SUBSET Tasks
  /\ ingested \in SUBSET reported
  /\ serving \in [Tasks -> Sessions \cup {None}]
  /\ outdated \in BOOLEAN
  /\ crashes \in 0..MaxEvents
  /\ byHand \in 0..MaxEvents
  /\ \A s \in Sessions : session[s].status = "released_reusable" =>
       session[s].report = "none" /\ ~session[s].stopped

(***************************************************************************)
(* The session a dispatch was given keeps working for that task: no other  *)
(* dispatch takes it and no other task's report closes it, until it is     *)
(* closed, stopped or released; unless a write was overtaken.              *)
(***************************************************************************)
SessionServesItsTask ==
  ~outdated =>
    \A t \in Tasks : serving[t] # None =>
      /\ session[serving[t]].task = t
      /\ session[serving[t]].status \in Active

(***************************************************************************)
(* A session never presents the report of another task as its own, which   *)
(* find_task_report_candidate would then ingest.                           *)
(***************************************************************************)
OwnReports ==
  ~outdated =>
    \A s \in Sessions :
      session[s].report # "none" => session[s].report = session[s].task

(***************************************************************************)
(* Once the report of a task was ingested and every command has ended, no  *)
(* session serves it any more: the window is closed or back in the pool;   *)
(* unless a write was overtaken or a process died.                         *)
(***************************************************************************)
SessionsComeBack ==
  ~outdated /\ crashes = 0 /\ (\A p \in Procs : run[p] = Idle)
    => \A t \in ingested : serving[t] = None

\* The session taken for reuse is no longer offered: no two tasks are given
\* the same one (host runtime notes on assign-reusable).
OneTaskPerSession ==
  \A t, u \in Tasks : t # u /\ serving[t] # None => serving[t] # serving[u]
==========================================================================

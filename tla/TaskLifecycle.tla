-------------------------- MODULE TaskLifecycle --------------------------
(***************************************************************************)
(* One task directory and the scripts that work on it: commander_dispatch, *)
(* _ingest, _close, _archive, _cancel, _reopen, _reconcile and the part of *)
(* the worker sweep that marks a task stale.                               *)
(*                                                                         *)
(* A script takes a snapshot and decides, then loads lifecycle.json,       *)
(* writes it back with its change, looks in events.jsonl for its           *)
(* idempotency key, appends its event, and publishes the status to the     *)
(* task catalog.  Nothing locks the directory.  A script may die between   *)
(* any two of these steps and be run again.  One process models commands   *)
(* that follow one another; several model commands that overlap.           *)
(***************************************************************************)
EXTENDS TaskPhase, Integers, Sequences

CONSTANTS
  Procs,       \* processes that run scripts on this task
  Keys,        \* idempotency keys of graph nodes
  NoKey,       \* a script run by hand carries none
  NewPackets,  \* the closure policies packets are dispatched with
  NewReports,  \* the reports workers hand in
  StaleAfter,  \* reconcile marks a task stale after so many ticks
  MaxClock,    \* bound on the clock, for TLC
  MaxCrashes   \* bound on crashes, for TLC

ASSUME NewPacketsAssumption == NewPackets \subseteq Policies
ASSUME NewReportsAssumption == NewReports \subseteq SchemaReports
ASSUME KeysAssumption       == NoKey \notin Keys
ASSUME StaleAfterAssumption == StaleAfter \in Nat \ {0}
ASSUME BoundsAssumption     == MaxClock \in Nat /\ MaxCrashes \in Nat

VARIABLES
  record,      \* lifecycle.json
  packet,      \* closure policy of packet.json, or NoPacket
  report,      \* report.json, or NoReport
  openAgents,  \* checkpoint.json lists an open sub-agent
  wroteAt,     \* timestamps inside packet.json and report.json
  log,         \* what events.jsonl is searched for
  catalog,     \* the task's row in the catalog database
  run,         \* what each process is in the middle of
  clock,       \* utc_now(), in ticks
  crashes,     \* crashes so far
  worked       \* history: work was handed in since the last stale mark

vars == <<record, packet, report, openAgents, wroteAt, log, catalog, run,
          clock, crashes, worked>>

Times  == 0..MaxClock
NoTime == -1

Record == [status : Lifecycles, updatedAt : Times,
           staleAt : Times \cup {NoTime},
           closed : BOOLEAN, archived : BOOLEAN, canceled : BOOLEAN]

KeyedEvents  == {"task_dispatched", "task_report_ingested",
                 "task_improvement_candidate_emitted",
                 "task_closed", "task_archived"}
StatusEvents == {"task_closed", "task_archived", "task_canceled",
                 "task_reopened", "task_stale_marked"}

(***************************************************************************)
(* A command carries its op, its key and its input.  The last two ops are  *)
(* commander_reconcile's outcomes; "sweep" is the sweep's.                 *)
(***************************************************************************)
Statuses == {"close", "archive", "cancel", "reopen", "sweep",
             "markStale", "revive"}
Commands ==
  [op : {"dispatch"}, key : Keys \cup {NoKey}, arg : NewPackets]
    \cup [op : {"ingest"}, key : Keys \cup {NoKey}, arg : NewReports]
    \cup [op : {"close", "archive"}, key : Keys \cup {NoKey}]
    \cup [op : Statuses \ {"close", "archive"}, key : {NoKey}]

\* The events a command appends, in order.
EventsOf(op) ==
  CASE op = "dispatch" -> <<"task_dispatched">>
    [] op = "ingest"   -> <<"task_report_ingested",
                            "task_improvement_candidate_emitted">>
    [] op = "close"    -> <<"task_closed">>
    [] op = "archive"  -> <<"task_archived">>
    [] op = "cancel"   -> <<"task_canceled">>
    [] op \in {"reopen", "revive"}   -> <<"task_reopened">>
    [] op \in {"sweep", "markStale"} -> <<"task_stale_marked">>

Idle == [pc |-> "idle"]

MaxTime(S) == CHOOSE t \in S : \A u \in S : u <= t

\* _latest_activity_at: the newest timestamp anywhere in the directory.
LatestActivity ==
  MaxTime({log.lastAt, wroteAt.packet, wroteAt.report, record.updatedAt})

phase == Phase(record.status, packet, report)

Init ==
  /\ record = [status |-> "active", updatedAt |-> 0, staleAt |-> NoTime,
               closed |-> FALSE, archived |-> FALSE, canceled |-> FALSE]
  /\ packet = NoPacket
  /\ report = NoReport
  /\ openAgents = FALSE
  /\ wroteAt = [packet |-> NoTime, report |-> NoTime]
  /\ log = [lastAt |-> NoTime, lastStatusEvent |-> "none",
            count |-> [ek \in KeyedEvents \X Keys |-> 0]]
  /\ catalog = [status |-> "active", failed |-> FALSE]
  /\ run = [p \in Procs |-> Idle]
  /\ clock = 0
  /\ crashes = 0
  /\ worked = FALSE

----------------------------------------------------------------------------

\* Mutant: cancel refuses canceled tasks only.
MayCancelAnything == record.status # "canceled" /\ ~openAgents

MayCancel == record.status \in {"active", "stale"} /\ ~openAgents

\* The condition under which a status command goes ahead.
Allowed(op) ==
  CASE op = "close"   -> phase = "ready_to_close" /\ ~openAgents
    [] op = "archive" -> record.status = "closed"
    [] op = "cancel"  -> MayCancel
    [] op = "reopen"  -> record.status \in {"stale", "canceled"}
    [] op = "sweep"   -> phase = "awaiting_report"
    [] op = "revive"  -> /\ record.status = "stale"
                         /\ record.staleAt # NoTime
                         /\ LatestActivity > record.staleAt
    [] op = "markStale" -> /\ record.status = "active"
                           /\ clock - LatestActivity >= StaleAfter

\* refresh_status and the decision of a status command.
Decide(p, cmd) ==
  /\ run[p] = Idle
  /\ cmd.op \in Statuses
  /\ Allowed(cmd.op)
  /\ run' = [run EXCEPT ![p] = [pc |-> "load", cmd |-> cmd]]
  /\ UNCHANGED <<record, packet, report, openAgents, wroteAt, log, catalog,
                 clock, crashes, worked>>

\* A command that finds nothing to change (the task is already closed,
\* archived, canceled or active, or reconcile sees no reason) publishes.
NothingToDo(p) ==
  /\ run[p] = Idle
  /\ run' = [run EXCEPT ![p] = [pc |-> "publish"]]
  /\ UNCHANGED <<record, packet, report, openAgents, wroteAt, log, catalog,
                 clock, crashes, worked>>

\* mark_task_*: take the time, then load lifecycle.json.
LoadRecord(p) ==
  /\ run[p].pc = "load"
  /\ run' = [run EXCEPT ![p] = [pc |-> "store", cmd |-> run[p].cmd,
                                loaded |-> record, now |-> clock]]
  /\ UNCHANGED <<record, packet, report, openAgents, wroteAt, log, catalog,
                 clock, crashes, worked>>

StatusAfter(op) ==
  CASE op = "close"                     -> "closed"
    [] op = "archive"                   -> "archived"
    [] op = "cancel"                    -> "canceled"
    [] op \in {"reopen", "revive"}      -> "active"
    [] op \in {"sweep", "markStale"}    -> "stale"

\* What mark_task_closed, _archived, _canceled, _stale and reopen_task
\* change in the record they loaded; `now` is the time they took.
Updated(r, op, now) ==
  [r EXCEPT
     !.status   = StatusAfter(op),
     !.closed   = @ \/ op = "close",
     !.archived = @ \/ op = "archive",
     !.canceled = op = "cancel" \/ (@ /\ op \notin {"reopen", "revive"}),
     !.staleAt  = IF StatusAfter(op) = "stale" THEN now
                  ELSE IF op = "archive" THEN @ ELSE NoTime]

\* update_task_lifecycle takes the time once more and writes the record.
StoreRecord(p) ==
  /\ run[p].pc = "store"
  /\ LET op == run[p].cmd.op IN
     /\ record' = [Updated(run[p].loaded, op, run[p].now)
                     EXCEPT !.updatedAt = clock]
     /\ worked' = (worked /\ op \notin {"sweep", "markStale"})
     /\ run' = [run EXCEPT ![p] = [pc |-> "check", cmd |-> run[p].cmd,
                                   events |-> EventsOf(op)]]
  /\ UNCHANGED <<packet, report, openAgents, wroteAt, log, catalog, clock,
                 crashes>>

\* dispatch_task: packet.json, unconditionally.
WritePacket(p, cmd) ==
  /\ run[p] = Idle
  /\ cmd.op = "dispatch"
  /\ packet' = cmd.arg
  /\ wroteAt' = [wroteAt EXCEPT !.packet = clock]
  /\ worked' = TRUE
  /\ run' = [run EXCEPT ![p] = [pc |-> "check", cmd |-> cmd,
                                events |-> EventsOf("dispatch")]]
  /\ UNCHANGED <<record, report, openAgents, log, catalog, clock, crashes>>

\* ingest_worker_report: report.json, if there is a packet.
WriteReport(p, cmd) ==
  /\ run[p] = Idle
  /\ cmd.op = "ingest"
  /\ packet # NoPacket
  /\ report' = cmd.arg
  /\ wroteAt' = [wroteAt EXCEPT !.report = clock]
  /\ worked' = TRUE
  /\ run' = [run EXCEPT ![p] = [pc |-> "check", cmd |-> cmd,
                                events |-> EventsOf("ingest")]]
  /\ UNCHANGED <<record, packet, openAgents, log, catalog, clock, crashes>>

\* Mutant: any event with this key counts, whatever its type.
LoggedUnderAnyType(event, key) ==
  key # NoKey /\ \E e \in KeyedEvents : log.count[<<e, key>>] > 0

\* Mutant: the log is not searched.
NeverLogged(event, key) == FALSE

\* _has_idempotent_event.
Logged(event, key) == key # NoKey /\ log.count[<<event, key>>] > 0

\* The process goes on to its next event, or publishes.
Rest(p) == [run[p] EXCEPT !.pc = "check", !.events = Tail(@)]

CheckKey(p) ==
  /\ run[p].pc = "check"
  /\ run' = [run EXCEPT ![p] =
       IF run[p].events = <<>> THEN [pc |-> "publish"]
       ELSE IF Logged(Head(run[p].events), run[p].cmd.key) THEN Rest(p)
       ELSE [run[p] EXCEPT !.pc = "append"]]
  /\ UNCHANGED <<record, packet, report, openAgents, wroteAt, log, catalog,
                 clock, crashes, worked>>

\* append_event; counts above two are not told apart.
AppendEvent(p) ==
  /\ run[p].pc = "append"
  /\ LET event == Head(run[p].events)
         key   == run[p].cmd.key IN
     log' = [lastAt |-> clock,
             lastStatusEvent |-> IF event \in StatusEvents
                                 THEN event ELSE log.lastStatusEvent,
             count |-> IF key \in Keys /\ log.count[<<event, key>>] < 2
                       THEN [log.count EXCEPT ![<<event, key>>] = @ + 1]
                       ELSE log.count]
  /\ run' = [run EXCEPT ![p] = Rest(p)]
  /\ UNCHANGED <<record, packet, report, openAgents, wroteAt, catalog,
                 clock, crashes, worked>>

\* Mutant: a failed upsert is swallowed.
PublishQuietly(p) ==
  /\ run[p].pc = "publish"
  /\ \/ catalog' = [status |-> record.status, failed |-> FALSE]
     \/ catalog' = [catalog EXCEPT !.failed = FALSE]
  /\ run' = [run EXCEPT ![p] = Idle]
  /\ UNCHANGED <<record, packet, report, openAgents, wroteAt, log, clock,
                 crashes, worked>>

\* The final refresh_status and refresh_commander_task_catalog: the row is
\* upserted, or the failure is recorded in catalog_refresh.json.
Publish(p) ==
  /\ run[p].pc = "publish"
  /\ \/ catalog' = [status |-> record.status, failed |-> FALSE]
     \/ catalog' = [catalog EXCEPT !.failed = TRUE]
  /\ run' = [run EXCEPT ![p] = Idle]
  /\ UNCHANGED <<record, packet, report, openAgents, wroteAt, log, clock,
                 crashes, worked>>

\* set_active_subagent_state.
SetAgents(p, open) ==
  /\ run[p] = Idle
  /\ openAgents' = open
  /\ UNCHANGED <<record, packet, report, wroteAt, log, catalog, run, clock,
                 crashes, worked>>

\* The process dies between two steps.
Crash(p) ==
  /\ run[p] # Idle
  /\ crashes < MaxCrashes
  /\ crashes' = crashes + 1
  /\ run' = [run EXCEPT ![p] = Idle]
  /\ UNCHANGED <<record, packet, report, openAgents, wroteAt, log, catalog,
                 clock, worked>>

Tick ==
  /\ clock < MaxClock
  /\ clock' = clock + 1
  /\ UNCHANGED <<record, packet, report, openAgents, wroteAt, log, catalog,
                 run, crashes, worked>>

Next ==
  \/ \E p \in Procs :
       \/ \E cmd \in Commands :
            Decide(p, cmd) \/ WritePacket(p, cmd) \/ WriteReport(p, cmd)
       \/ NothingToDo(p)
       \/ LoadRecord(p)
       \/ StoreRecord(p)
       \/ CheckKey(p)
       \/ AppendEvent(p)
       \/ Publish(p)
       \/ \E open \in BOOLEAN : SetAgents(p, open)
       \/ Crash(p)
  \/ Tick

Spec == Init /\ [][Next]_vars

----------------------------------------------------------------------------

Quiet == \A p \in Procs : run[p] = Idle

\* Type invariant.
TypeOK ==
  /\ record \in Record
  /\ packet \in Packets
  /\ report \in NewReports \cup {NoReport}
  /\ openAgents \in BOOLEAN
  /\ wroteAt \in [packet : Times \cup {NoTime}, report : Times \cup {NoTime}]
  /\ log \in [lastAt : Times \cup {NoTime},
              lastStatusEvent : StatusEvents \cup {"none"},
              count : [KeyedEvents \X Keys -> 0..2]]
  /\ catalog \in [status : Lifecycles, failed : BOOLEAN]
  /\ \A p \in Procs :
       run[p].pc \in {"idle", "load", "store", "check", "append", "publish"}
  /\ clock \in Times
  /\ crashes \in 0..MaxCrashes
  /\ worked \in BOOLEAN

(***************************************************************************)
(* Commands that follow one another, crashes and retries included, look    *)
(* like the atomic commands of TaskLedger.                                 *)
(***************************************************************************)
Ledger == INSTANCE TaskLedger WITH life <- record.status, OldReports <- {}
LedgerSpec == Ledger!Spec

(***************************************************************************)
(* Crashing anywhere and running the same graph node again with the same   *)
(* idempotency key never leaves two of its events (dispatch, ingest, the   *)
(* improvement candidate, close, archive).                                 *)
(***************************************************************************)
AtMostOnce == \A e \in KeyedEvents, k \in Keys : log.count[<<e, k>>] <= 1

(***************************************************************************)
(* The stamps in lifecycle.json tell its status: closed_at is set exactly  *)
(* in a closed or archived task, stale_at exactly in a stale one and       *)
(* canceled_at exactly in a canceled one, whatever came before.            *)
(***************************************************************************)
StampsTellTheStatus ==
  /\ record.closed <=> record.status \in {"closed", "archived"}
  /\ record.archived <=> record.status = "archived"
  /\ record.canceled <=> record.status = "canceled"
  /\ record.staleAt # NoTime <=> record.status = "stale"

(***************************************************************************)
(* Between commands, and as long as none was cut short, the last status    *)
(* event in the log is the one that led to the status on disk.             *)
(***************************************************************************)
TrailTellsTheStatus ==
  Quiet /\ crashes = 0 =>
    record.status = CASE log.lastStatusEvent = "task_closed"       -> "closed"
                      [] log.lastStatusEvent = "task_archived"     -> "archived"
                      [] log.lastStatusEvent = "task_canceled"     -> "canceled"
                      [] log.lastStatusEvent = "task_stale_marked" -> "stale"
                      [] OTHER                                     -> "active"

(***************************************************************************)
(* Between commands a catalog row that is behind is flagged as failed,     *)
(* unless a script was cut short.                                          *)
(***************************************************************************)
StaleRowIsFlagged ==
  Quiet /\ crashes = 0 /\ catalog.status # record.status => catalog.failed

(***************************************************************************)
(* Reconcile reopens a stale task only after new activity: work handed in  *)
(* since it was marked.                                                    *)
(***************************************************************************)
ReopenedByActivity ==
  \A p \in Procs : run[p].pc = "load" /\ run[p].cmd.op = "revive" => worked

(***************************************************************************)
(* A closed or archived task cannot be canceled (the guard of              *)
(* commander_cancel).                                                      *)
(***************************************************************************)
ClosedIsNotCanceled ==
  [][record.status \in {"closed", "archived"} =>
       record'.status # "canceled"]_record
==========================================================================

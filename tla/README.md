# TLA+ models of the commander runtime

The repository keeps an agent "commander" runtime: scripts that hand task
packets to workers, take reports back, decide whether the conversation may stop,
and keep everything in JSON files. Nearly all logic is in
`src/legacy/agent-runtime/commander/`; below,

    S = src/legacy/agent-runtime/commander/transport/scripts
    G = src/legacy/agent-runtime/commander/graph

There is no server and no database transaction. Several short-lived processes
(scripts, graph runs, a host daemon, status refreshes) read and write the same
files; each single write is atomic (`write_json`: temporary file and rename),
everything larger is not. So the interesting questions are what overlapping
commands, crashes between two writes, retries and long command sequences do to
the files. That is what these modules are about.

## 1. Inventory

| Component | State | Operations | Hard behaviour |
|---|---|---|---|
| Lock files (`S/commander_harness.py:389-470`) | one lock file per pool and per slot: owner, expiry | enter, judge stale, take over, release | judge and unlink are two calls; crash of the holder; expiry while working |
| Derived task state (`commander_harness.py:2740-2960`, `3300-3450`) | none (pure) | governance, gates, recommendation, phase, handoff | two rule ladders over the same fields; reports older than the fields |
| Task lifecycle commands (`S/commander_{dispatch,ingest,close,archive,cancel,reopen,reconcile}.py`, `commander_harness.py:1681-1900`) | packet, report, lifecycle, events, checkpoint of one task directory | one per script | snapshot first, write later; crash between record, event and catalog; retries under an idempotency key |
| Warm worker pool (`commander_harness.py:700-1420`, `S/commander_worker_pool.py`, `G/adapters/worker_pool.py`) | slot files, registry | acquire, release, heartbeat, sweep, read with write-back | unlocked owner check, unlocked write-back, duplicates against leases, sweep that dies half-way |
| Active sub-agent register (`commander_harness.py:2590-2660`) | `active_subagents` in checkpoint.json | open, close, refresh | lost update with `refresh_status` |
| Task catalog (`commander_harness.py:500-620`, `S/commander_task_catalog*.py`) | a database row per task, `catalog_refresh.json` | publish, sync | failed upsert after the files changed |
| Host sessions and mailbox (`S/commander_host_runtime.py`) | session records, mailbox file, cursors | create, attach, report, heartbeat, resume, stop, ack, retry, reuse | unlocked read before locked write; cursor stored before append; check-then-assign; attached report before the worker's file |
| Host daemon (`S/commander_host_daemon.py`) | daemon_state.json, command files | start, cycle, drain, stop, resume | unlocked read-modify-write of the state by starter and daemon; commands unlinked before applied; same-second names; two starts |
| Phase and objective plans (`S/commander_phase_plan.py`, `S/commander_objective_plan.py`) | goals with status and owned paths; phases of an objective | reconcile, promote, summary | several goals activated, then dispatched one by one; phase plan file before objective; blocked entries and completion |
| Stop gate (`S/commander_stop_gate.py`) | none (pure) | classify task, card, plan, objective; aggregate | precedence of blockers and user gates |
| LangGraph controller (`G/graph.py`, `G/nodes`, `G/runners`) | graph state of one thread, worker leases | routing, one round, run until handoff, objective rounds | packets and closures left in the thread; no-progress detection, round limits; workers that never answer |
| Worker providers (`G/adapters/worker_providers`) | external processes | launch | reuse of a host session |
| Lane, tool and path policies (`G/policies`) | none, except the last offer of intent binding | evaluate | - |
| Improvement candidates (`S/commander_*_improvement.py`, `*_skill_candidate.py`) | status of a candidate file | propose, review, apply, archive | status ladder written by several scripts |
| Archive and cleanup (`S/commander_archive_cleanup.py`, ...) | archive directory, manifest, archive catalog | plan, move, sync | crash between move and manifest |
| Audit, status, resume, memory search | none | read | - |
| Spec kit, experiments | one document each | build, validate | - |
| Skill scripts (`src/skills`) | local text files | one-shot edits | - |

How they interact: a graph run calls the scripts' functions in its own process.
`assign_worker_owner` looks at the pool and then acquires a slot; dispatch and
ingest move the task; every script ends in `refresh_status`, which derives
phase and handoff, rewrites status and checkpoint and, through
`load_worker_slot`, **writes back every slot file it reads**. The sweep reads
task status and marks tasks stale while it holds the pool lock. Plans read task
snapshots and dispatch goals; the stop gate classifies snapshots and plan
summaries; daemon and drivers repeat rounds until the gate allows a stop.

What makes each part correct:

- *Lock files*: two holders never work at once; an abandoned file never blocks
  the pool for ever.
- *Derived state*: what stops the conversation is backed by the report, for any
  combination of its fields; recommendation and phase wait for the same one, and
  where they differ it is the phase, which close obeys, that holds back.
- *Lifecycle*: a task is closed only when nothing is owed; a closed task stays
  closed; record, log and catalog tell the same story; a retried node logs once.
- *Pool*: slots are internally consistent; one worker per task after a sweep; no
  lease that is running is taken without cause; closed workers stay closed.
- *Host sessions*: a session works for the task it was given and presents only
  that task's report; it comes back when the report was ingested.
- *Mailbox*: no command is lost, and every command is read in the end.
- *Daemon*: one daemon; a stopped one does no more work; a stop stops it; a
  reply to a running daemon is heard.
- *Plans and stop gate*: every ready goal is dispatched in the end; owned paths
  of active goals do not overlap; "completed" means nothing is open; a stop is
  allowed only when no blocker is there.
- *Controller*: a run that ends as terminal left nothing to do, one that hands
  off was asked to, one that waits waits for somebody; nothing is launched twice;
  reports are ingested and active goals worked on.

`PROJECT.json` lists the places where each of these could go wrong, with the
property that would notice, or the reason why none does yet.

## 2. Modules

    TaskPhase            pure operators: governance, gates, phase, handoff
      TaskLedger         abstract: one task, every command one atomic step
        TaskLedgerProofs
      TaskLifecycle      the scripts, step by step; refines TaskLedger
        TaskLifecycleProofs
        MCTaskLifecycle  the reports TLC uses
      PhasePlan          phase goals: reconcile, promote, dispatch
        PhasePlanProofs
        MCPhasePlan      the outcomes and lanes TLC uses
      StopGate           pure operators: may the commander stop?
        ObjectivePlan    phases of an objective, with phase plans, tasks, gate
          MCObjectivePlan
          GraphRun       the graph, its drivers and the daemon's verdict
            GraphRunProofs   of ObjectivePlan and of GraphRun
            MCGraphRun
    FileLock             the lock file, one file-system call per step
      FileLockProofs
    WorkerPool           slots, leases, the sweep, what runs outside the lock
      WorkerPoolProofs
    HostMailbox          the commands of one host session and its two cursors
    HostDaemon           the daemon process, its state file and its commands
      HostProofs         of HostMailbox and of HostDaemon
    HostSession          the session records: who works for which task
      HostSessionProofs

Indentation is EXTENDS. A module takes from its neighbours what it needs in the
plainest form that keeps its own questions honest: `PhasePlan` has the steps of
the commands on a phase plan, and `ObjectivePlan` has them as one step each;
`ObjectivePlan` has the steps of a promotion of a phase, and `GraphRun` has them
as one; `GraphRun` says what a run of the driver does, and `HostDaemon` only
that it takes a reply and ends.

### FileLock

`_file_lock`, `_is_lock_stale`, `_load_lock_payload`. Each process has a program
counter; the actions are the calls in their order: create with `O_EXCL`
(`CreateWins`, `CreateFails`), read and judge (`Inspect`), `UnlinkStale`, sleep
(`Retry`) or deadline (`TimeOut`), `WritePayload`, `Leave`, re-read
(`VerifyOwner`), `Drop`. The file is `NoFile` or a record of its writer, whether
the payload is there yet, and whether `expires_at` has passed. Writing goes
through the descriptor, so it does not reach a file somebody else has put under
the name; unlinking goes by name. `tries` stands for the deadline, `takenOver`
is a history variable.

### TaskPhase, TaskLedger, TaskLifecycle

`TaskPhase` evaluates `build_result_governance`, `build_decision_gates`,
`derive_base_commander_recommendation`, `derive_closed_loop_phase` and the
handoff in `build_checkpoint`. A packet is its closure policy, a report the six
fields these functions read. Reports from before the governance fields existed
have `"unset"` grade and mode.

`TaskLedger` is what the commands promise: each is atomic and guarded by the
phase at that very moment.

`TaskLifecycle` is what the scripts do: snapshot and decision (`Decide`), load
and store of lifecycle.json (`LoadRecord`, `StoreRecord`, with the stamps each
`mark_task_*` sets and clears), `WritePacket`, `WriteReport`, the search of
events.jsonl and the append (`CheckKey`, `AppendEvent`, two rounds for ingest),
`Publish` with or without the catalog's failure, `SetAgents`, `Crash`, `Tick`.
With one process commands follow one another; with two they overlap. The log is
kept as what the code looks for in it: counts per event and key, the last status
event, the last timestamp.

Not in the model: rendering of packets and briefs, schema validation itself (its
outcome is the type of `NewReports`), the sub-agent register beyond "some is
open", the database behind the catalog.

### WorkerPool

Slot files with state, task, lease end and update time. `Acquire`, `Release` and
`Heartbeat` are one step each because they hold the pool lock from start to
end; `reconcile_worker_slots` is a chain of steps (call, lock, one verdict per
slot in file-name order, stale mark, release) because task commands, owner
checks and status refreshes go on meanwhile. Outside the lock are `CheckOwner`
(`ensure_task_has_no_active_writer`) before `AssignOwner`, and
`ReadSlot`/`WriteBack` (`load_worker_slot`). `FileLock` shows how far the lock
can be trusted; `WorkerPool` takes it as exclusive. After a crash of the sweep
the lock counts as free, since an abandoned lock file is reclaimed. Left out:
profile matching (any warm slot may be reused, or a new one made), the registry
file (rebuilt from the slots on every save), release and heartbeat with a
mismatching task id (they are refused and change nothing).

A sweep keeps what it decided so far: `losers` are the duplicates, found once when
it gets the lock, and `stale` the pairs of worker and task whose lease it found
over (`stale_worker_ids`). It ranks the workers of a task by their last update and
only later looks at leases, so it may let go of the worker it ranked first, whose
lease is over, and of a duplicate whose lease is not. `LeaseIsHonoured` therefore
names two reasons to cut a lease short, a worker that ranks before this one or one
that did and is among the `stale`; see `canonical_lost` in section 5.

Task states are only what the sweep tells apart; `TaskMoves` stands for
dispatch, ingest, close, cancel, reopen and reconcile, which lead from every kind
to every other one.

### PhasePlan

`S/commander_phase_plan.py`. The plan file is a status, the dispatch limit and, per
goal, a status and its owned paths. Goals are numbered in file order. Two owned
paths matter to the code only in whether one contains the other, so a set of
paths is the set of areas of the tree below it, and "contains" is "the areas meet".

A command first loads the plan (`Begin`). `StoreReconciled` writes it back with
active goals judged by their tasks; a status view ends there, a promotion goes
on with that summary, loads the plan **again** (`Reload`) and then activates the
first ready goal of the *summary* (`PromoteNext`, which may instead complete the
phase or redispatch an active goal) or all or the first few ready goals of the
*second load* (`PromoteReady`). The write comes first; the tasks are dispatched
afterwards, one by one (`DispatchGoal`), from the lanes the process remembers.
`AppendGoal` and `RewriteGoal` are the edits. `Crash` may come between any two
of these. `TaskEnds` and `TaskReopens` are what `TaskLifecycle` does to a task,
reduced to status and report; `TaskPhase` grades the report.

A goal is listed, at the start or by `AppendGoal`, with the status its payload
gives (`Listed`), since the code only sets `pending` where there is none.

Nothing locks the file. `clobbered` records that a write replaced a plan it was
not made from, and `relaned` that the paths of an active goal were rewritten, or a
goal appended that is listed as active; both bypass the judgement of readiness.
Left out: creating a plan over an existing one, rewriting a goal's `task_id`. A
dispatch that is refused ends the command as a crash does.

### StopGate, ObjectivePlan

`StopGate` evaluates `commander_stop_gate.py`: the results of
`classify_runtime_snapshot`, `classify_task_card`, `classify_phase_plan_summary`
and `classify_objective_plan_summary`, and `build_stop_gate_report` over them.

`ObjectivePlan` is `S/commander_objective_plan.py`: the objective file is a
status, the current phase and the status of each phase entry. A command loads it
(`Begin`), may write it back reconciled (`StoreReconciled`) and, to promote,
loads it again (`Reload`); then there is no active objective, a phase is active
already, the objective is completed, or the phase plan file is made
(`MakePhasePlan`) and only then the objective written (`StorePromoted`).
`AppendPhase` and `RewritePhase` are the edits, `Crash` may come in between, and
`clobbered` again records a lost update. A phase is listed with the status its entry
gives (`First`); `declared` remembers those that were listed as active or done, which
no promotion took up. Most commands reconcile every phase plan (`Judged`), a
promotion that finds a phase active only that phase's (`JudgedOf`). Beside it, goals are promoted one at a
time (`PromoteGoal`), report (`TaskReports`), end (`TaskEnds`) and have
sub-agents (`SetAgents`). A phase entry's goals are fixed; titles, themes and
summaries are left out.

### HostMailbox, HostSession

`S/commander_host_runtime.py`, twice. `HostMailbox` has one session: its mailbox is
a sequence of command lines, `cursor` the acknowledged and the retried sequence
numbers of the session record. Every update of the record reads it without the
lock (`Touch`, `LoadForRetry`, `LoadForAck`) and writes it whole under it
(`StoreTouched`, `StoreRetry`, `StoreAck`), so cursors may be put back; a retry
then appends its commands one by one (`ResendNext`). The worker takes what lies
above both cursors and may restart. `cut` records a process that died between
`StoreRetry` and the last `ResendNext`: what it had left to send is lost.

`HostSession` has the records of several sessions: status, task, reuse, attached
report, stop reason. Each operation chooses sessions from a listing, then
`Load`s and `Store`s one after another. `serving` remembers which session the
dispatch of a task was given. `outdated` records a write that was overtaken: the
record, or the reason to choose it, had changed. Matching of profiles, tools and
owned paths is taken as granted; registry, session cards and audit fields are
copies of what the records say.

### GraphRun

One driver and the graph thread it runs. `at` is the node in front of it; the
actions are the nodes of `G/graph.py` in their order, from `BeginRound`
(restore, audit, stop gate, decide; `Route` is the edge) over promotion,
`Assign`, dispatch, `Ingest`, `Close`, `Archive` and `HandOff` to the rounds of
`run_until_handoff` (`StopHere`, `ReportArrives`, `WaitEnds`, `PickUpReport`,
`GoOnInternally`), the calls of `run_until_objective_handoff` and
`_derive_cycle_outcome` (`Finish`). `StartRun` is a cycle of the daemon, with its
prefill, or a call of host control. The prefill promotes as many ready goals as the
phase has free slots (`Slots`, the plan's `parallel_dispatch_limit`), so several may
be active; the daemon then tracks the first with a result, or else the first
(`Picked`), and a promotion in the graph that finds an active goal hands out its
packet again and leaves the pending one for later (`TakeUpAgain`). `graph` keeps what the code keeps in the
thread and clears only in places: the packet, the last ingest, the last closure.

A goal is worked on by a window, by a local script, or its packet is refused by
the dispatch governance (`kind`, chosen once). Windows write reports late, wrong
first, or never, and may replace a valid report by another until the task is
settled, also after the first was ingested; launches fail; a script's changes may be out of bounds; the
driver dies anywhere (`DriverDies`), the commander cancels what it was asked about
and appends phases. `stuck` names the goals the code hands to nobody: prefilled
by the daemon without a worker, refused, failed to launch, lost with the driver.

### HostDaemon

`S/commander_host_daemon.py`: every `update_host_daemon_state` is a `Load` and a
`Store` of the whole file, by the starter (`Check`, `Spawn`) and by the daemon
(`Drain`, `Decide`, `Cycle`, `RunEnds`, `RunFails`, `Exit`), each process with
the list of updates it is about to make. An update is a patch, a record in which
`Keep` marks the fields it leaves alone (`Laid`). Command files are identified by second
and type, as their names are. `Kill` is the operating system. `clobbered` records
a `Store` over a state other than the one loaded.

## 3. What is checked

| Run | Shows | Bounds |
|---|---|---|
| `file_lock` | two holders need a live file that was judged stale; an abandoned lock is reclaimed | 3 processes, 1 sleep, 1 crash |
| `phase_contract` | handoff contract, where the two ladders agree and where not, what may be closed, closed is terminal | all 288 schema reports, all old reports, 3 policies |
| `lifecycle` | the scripts implement `TaskLedger`; at most one event per node; the event trail tells the status; a row behind is flagged | 1 process at a time, 1 key, 2 policies, 2 reports, 2 ticks, 1 crash |
| `worker_pool` | consistent slots, clean after a sweep, a waiting task keeps a worker or is marked, leases are honoured | 2 workers, 1 task, 1 assigner, 1 reader, hand acquires, leases of 2 ticks, 2 ticks, 1 crash |
| `phase_plan` | active goals and open tasks never share files, no task runs ahead of the plan, every goal gets its turn | 1 process at a time, 2 goals, listed as pending or active, limit 1 or 2, paths none, one area or the other, 3 outcomes, 1 crash, 1 reopen |
| `objective_gate` | entries follow the plan files, one phase at a time, tasks in the order of the phases, a stop means that all is idle, every phase gets its turn | 1 process at a time, 2 phases with 2 and 1 goals, listed as pending, blocked, active or done, or appended later so, 1 crash |
| `host_mailbox` | no command is lost, every command arrives | 2 processes, 2 commands, 1 retry each, 3 lines before the last retry, 1 crash, any restarts of the worker |
| `host_session` | a session serves its task, presents its own report and comes back | 2 processes (one also runs commands by hand), 2 tasks, 2 sessions, one task with a launcher, 2 crashes or commands by hand |
| `graph_run` | a terminal end leaves nothing to do, a handoff was asked for, a wait is for somebody, one launch per goal, reports are ingested, active goals worked on | 2 phases, 3 goals, 2 slots, time to wait, 2 valid reports and invalid ones, windows, scripts and refused packets, 4 rounds, 2 calls, 1 death of the driver |
| `host_daemon` | one daemon, down means down, a stop stops, a reply is heard | 1 starter, 2 daemons, 2 replies, 1 stop, 2 seconds, 1 exception or kill, a run that asks and one that does not |
| `double_lease`, `handoff_lost` | one disagreement each, see section 5 | the smallest that shows it |

Why the bounds are enough to be of interest: three contenders are needed for
one to judge a file, a second to own it and a third to create the next; one
sleep separates "fresh" from "deadline". In `lifecycle`, one report closes a
task and the other obstructs it, so every guard takes both values; two ticks
let a stale mark be followed by newer activity; one crash at any step, followed
by any command, covers the retry. In `worker_pool`, two workers of one task are
the smallest case with a duplicate, and hand acquires are what creates it
without a race; leases of two ticks are running or over by the sweep's clock, by
the present one or by both, and a worker that ranks first by a heartbeat may be
the one whose lease ends first. In `phase_plan`, collisions and
room are between pairs of goals, so two goals with equal, disjoint or missing
paths and a limit of one or two give every verdict of the selection; the three
outcomes are one for each way a goal is settled.

In `objective_gate`, order is between pairs of phases, and the first needs two
goals so that it can be half done. In `host_mailbox`, two processes are one that
holds old cursors and one that moves them meanwhile; two commands are one that
is acknowledged and one that must not be taken along; one retry is enough for a
command to stand in the file twice. In `host_session`, a session can be handed
from one task to the other, and chosen for one while it is closed for the other.
In `graph_run`, the thread can still hold the packet, ingest or closure of one
goal when the next comes, in the same phase or after a promotion; four rounds
are one each for dispatch, report, next dispatch and the end; two slots are the
smallest number with which a goal can be active beside the one in the thread. Of the
two valid reports, one lets its task close and the other asks the user. In `host_daemon`,
two replies in one or two seconds are the cases of overwritten and separate
files, and a second daemon is what a start behind a failing one gives.

The bounds that cut behaviour are `MaxClock`, `MaxCrashes`, `MaxReopens`,
`MaxCommands`, `MaxLines`, `MaxEvents`, `MaxReplies`, `MaxStops`, `MaxSeconds` and
`MaxFaults`; they stand in the guards of the actions they count. `MaxRounds` and
`MaxCalls` are parameters of the code. Counts in the log of a task stop at 2,
which is all `AtMostOnce` asks about. `GoOn = FALSE` ends a behaviour of
`HostSession` once a write was overtaken, where its properties claim nothing.

The deadlock check is off in `host_mailbox`, `host_session` and `host_daemon`,
where the bounded numbers of commands, sessions and process ids run out, and in
`graph_run` and `handoff_lost`, where a driver waits for a user who has nothing
left to say. It is on everywhere else.

The configurations named `*_more` check further properties of the same modules
under the same bounds: `lifecycle_more` (`TypeOK`, `StampsTellTheStatus`),
`phase_plan_more` (`TypeOK`, `WithinLimit`, `CompletedIsIdle`,
`GoalsMoveForward`), `worker_pool_more` (`TypeOK`, `ClosedStaysClosed`),
`file_lock_more` (`TypeOK`, `HolderOwnsFile`). They are not among the runs of
PROJECT.json; all of them pass.

### Fairness

`FileLock!FairSpec`: each live process goes on (`WF(Proceed(p))`,
which includes coming back for the lock, as pool operations are issued again and
again) and time passes (`WF(Expire)`). Nothing forces a crash. A single process
that times out once and never asks again would leave the file where it is; the
code does not promise more, and the property is about a pool in use.

`PhasePlan!FairSpec`: a command that has started goes on (`WF(Advance(p))`),
tasks end (`WF(TaskEnds(g))`), and `promote_ready_phase_goals` is called again
and again (`SF(Begin(p, "ready"))`) because `run_host_daemon_cycle` starts with it
whenever worker slots are free. It is strong fairness because other commands may
be under way each time; the plan has no lock to wait for. Nothing forces a
crash, an edit or a reopened task.

`ObjectivePlan!FairSpec`: likewise; commands that have started end, the graph
promotes phases again and again (`SF(Begin(p, "promote"))`, `decide_next_node`) and
goals (`WF(PromoteGoal(g))`). `SF(TaskEnds(g))` and the closing of sub-agents say
that the commander sees tasks through, which the rules of `core/` oblige it to;
strong, because reports and sub-agents may disable it in between.

`HostMailbox!FairSpec`: a process that began an operation goes on, and the worker
keeps polling (`WF(Take)`). Restarts may still come at any time.

`GraphRun!FairDriverSpec`: the driver goes on and, where it waits for nobody, is
started again (`WF(Drive)`; the daemon's loop), a user who is asked resumes
(`WF(Resume)`), and a worker window writes its report in the end
(`WF(WorkerWrites(g))`). The subscripts `at`, `outcome` and `file` only leave out
steps that change nothing of interest. Nothing makes a worker's first report a
valid one, the driver die, or the commander cancel or append.

`HostDaemon!FairDaemonSpec`: a daemon that was started runs on and every run ends
(`WF(DaemonStep(d))`); the starter need not finish.

Everything else checked is safety.

### The properties in words

- `ExclusiveUnlessTakenOver`, `HolderOwnsFile`: O_EXCL, the owner check and
  crashes alone cannot break exclusion.
- `AbandonedLockIsReclaimed`: leads-to, under `FairSpec`.
- `HandoffContract`: what stops the conversation is backed by the report.
- `LaddersCompared`: status.json's recommendation and phase agree on who is waited
  for (the user, a report, a packet). They do *not* agree on closing: a report that
  says `done` and `close` gives the recommendation `ready_to_close`
  (`commander_harness.py:2891-2892`) even if it needs the commander's decision, the
  packet's policy asks for his review or the grade is blocked, and the phase is then
  `needs_commander_decision` or `blocked` (2932-2935). The property says that this,
  and a result still to be delivered, is all there is: the phase offers closing
  exactly if the recommendation does and none of these holds, and a phase that waits
  for the commander goes with a recommendation that does, or with that one. It does
  no harm to the task, as `close_task` looks at the phase; and no document promises
  more, `commander/outer/指挥官调度与结果回收harness-v1.md:236-244` says that the
  recommendation only serves to observe the transport.
- `ClosedSettled`, `ClosedIsTerminal`: action properties of the ledger, carried
  over to the scripts by `LedgerSpec`.
- `LedgerSpec`: refinement; `life` is the status in lifecycle.json, packet,
  report and open sub-agents map to themselves. It holds for commands that
  follow one another, whatever crashes in between, and not for overlapping
  ones (`cancel_race`).
- `AtMostOnce`, `StampsTellTheStatus`, `TrailTellsTheStatus`, `StaleRowIsFlagged`:
  record, log and catalog. The last two are stated for the absence of crashes:
  a script that dies after the record leaves the event out for good.
- `BindingDiscipline`, `SweptClean`, `ClosedStaysClosed`, `SweepKeepsOwner`,
  `LeaseIsHonoured`: the pool. `clobbered` excuses exactly the executions in
  which an unlocked write-back undid a newer write; `touched` excuses tasks moved
  by someone else between the sweep's verdict and its release. A lease that still
  runs is cut short only for a worker of that task that ranks higher, or did until
  the same sweep found its lease over.
- `GoalsKeepApart`, `WithinLimit`, `GoalsMoveForward`, `CompletedIsIdle`: the plan
  file. They are stated for plans from which no update was lost, and the first
  also until an active goal is edited.
- `TaskHasAGoal`, `WorkersKeepApart`: the plan against the tasks. The first holds
  wherever a promotion dies, because the plan is written before the dispatch.
  The other way round there is a gap the model shows and no code closes by
  itself: after such a crash a goal is active without a task, and only
  `promote_next_phase_goal` dispatches an active goal again, which the graph
  calls only when some other goal is promotable.
- `EveryGoalGetsItsTurn`: leads-to, under `FairSpec`; `crashes > 0` is allowed for
  that very gap.
- `EntriesFollowPlans`: an active or finished phase has its plan file, and a
  finished one only settled goals, wherever a promotion dies and whatever old
  copy of the objective is written back. Phases that were listed as active or done
  are left out: nobody promoted them.
- `OnePhaseAtATime`, `TasksInPhaseOrder`: unless an update was lost, the current
  phase is the active one, phases (those listed as active or done aside) are
  taken up one after another in file order, and no task of a later phase exists
  while an earlier one is pending or active, also when a promotion left a plan
  file behind. A blocked phase is passed over, as the code does.
- `StopMeansIdle`: whatever the task card says, a stop is allowed only if every
  task ended or waits for the user, no sub-agent is open and no goal remains;
  phases may remain only behind a user gate.
- `EveryPhaseGetsItsTurn`: leads-to, under `FairSpec`; a goal that ends blocked, or
  a phase listed as active, which has no plan file to be finished in, excuses the
  phases behind it, because nothing promotes it again.
- `NoCommandLost`, `EveryCommandArrives`: a command that was not read is shown, is
  being sent again, or was sent as often as it may be; `cut` excuses what a
  process took with it when it died in the middle of a retry.
- `SessionServesItsTask`, `OwnReports`, `SessionsComeBack`: until a write is
  overtaken. They cover releases of sessions whose report was not ingested,
  failed launches, stops and crashes between two sessions of one task.
- `TerminalMeansDone`, `HandoffMeansAsked`, `WaitsForSomebody`: what the driver says
  at the end of a run is true of plans, tasks and workers at that moment. The last
  holds if goals are worked on one by one, or if the driver is given time to wait:
  with several slots and none it may take up an active goal again whose report was
  ingested long ago, and report that it waits for its worker (`waits_for_nobody`).
- `LaunchedOnce`: no second window for a goal and no second run of a script. It is
  the lease that guarantees it, which a goal keeps after its worker is gone.
- `EveryReportIsIngested`: []<> under `FairDriverSpec`, and **only for drivers that
  are given time to wait** (`CanWait`, the condition it begins with). That is not the
  default: `wait_timeout_seconds` is 0.0 in the daemon's configuration
  (`commander_host_daemon.py:93`), and `run_until_handoff.py:91-92` then returns
  without looking; without the condition it fails (`report_ignored`). It says that a
  valid report is taken up, not that the last one is: a worker that replaces its
  report after a session attached the first is not heard (`report_replaced`).
- `EveryGoalIsWorkedOn`: []<>; an active goal has a window, a report or is one of
  the `stuck` ones, whose ways into that set are listed under GraphRun above.
- `OneDaemon`, `DownMeansDown`, `StopStops`, `EveryReplyIsHeard`: for one starter.
  A reply may be replaced by a later one, and dies with its daemon; the excuse
  `clobbered` is an update that undid another one. Two starters at once do give
  two daemons; nothing in the documents says otherwise.

## 4. What is proved

For every value of the constants, from the named ASSUMEs only:

- `FileLockProofs`: `TypeCorrect`, `OwnershipInvariant`, `ExclusionInvariant`.
  Exclusion is not inductive: it says nothing of who owns the file, so a second
  creation could follow. The strengthening is `HolderOwnsFile`; with it the only
  step that could admit a second holder, `CreateWins`, finds no file and hence no
  holder.
- `TaskLedgerProofs`: `LedgerInvariance` (type and "a report only beside a
  packet"), `TypeCorrect`, `HandoffIsSound`, `LaddersAreCompared`,
  `OnlySettledTasksClose`, `ClosedTasksStayClosed`. The first is inductive;
  `HandoffIsSound` and `LaddersAreCompared` then follow by going through the rules of
  the ladder (`PhaseLadder`, `InactiveGoesOn`), for any set of reports. The
  "report beside a packet" part is needed because otherwise a report without a
  packet would make one ladder wait for a packet and the other not.
- `TaskLifecycleProofs`: `TypeCorrect`; and, for one process at a time
  (`OneAtATime`), any keys, packets and reports, any number of crashes and any
  passing of time: `CommandsInvariance`, `EventsAreSingle`, `StampsAgree`,
  `TrailAgrees`, `RowIsFlagged`, `CancelIsRefused` and the refinement
  `ImplementsLedger`. The condition is the one `LedgerSpec` has in the run; with
  overlapping commands `cancel_race` refutes it. `CInv` says that between any two
  steps of a script what it decided is still so: the guard it passed (`Granted`),
  the record it loaded, the events it is about to append and has not
  (`Steady`), and that an event in the log tells of what is on disk
  (`Recorded`), from which a retried script takes that there is nothing to tell.
  In `ImplementsLedger` the step that writes the record, packet or report is the
  command of the ledger, and every other step a stutter.
- `WorkerPoolProofs`: `TypeCorrect`, `BindingInvariant`, `SweepInvariance`,
  `SweepCleans`, `ClosedWorkersRest`, `AccountInvariance`, `OwnersAreKept`,
  `LeasesAreHonoured`. `BindingDiscipline` needs that the copies readers hold and
  the slot the sweep is judging are consistent too (`AllBound`), and that the sweep
  marks only real tasks (`MarksATask`). `SweepCleans` needs `SweepInv`: the slot
  under judgement has not changed (`Held`, by the lock), and the slots the sweep
  has passed are either free of overdue leases and duplicates or still listed as
  losers (`Settled`). `SweepKeepsOwner` and `LeaseIsHonoured` need `KeepInv`: every
  loser is outranked by a worker of its task that is none, or the sweep found that
  one's lease over (`LosersAhead`); whose lease it found over, that task ended or
  was told (`StaleMarked`); and a release has its reasons (`Grounds`). That some
  worker of a task ranks first (`SomebodyRanksFirst`) holds because ranking is a
  strict order and slot files are finitely many.
- `PhasePlanProofs`: `TypeCorrect`, `GoalsApart`, `GoalsForward`,
  `TasksFollowThePlan`, `WorkersApart`, for any number of processes, goals and
  areas. `GoalsKeepApart` is inductive, given types: a promotion that lost no update
  works on the plan itself, and `ReadyKeepApart` says that all or some of the
  ready goals fit what is active and each other, which needs that a selected
  goal owns paths (a collision is otherwise not symmetric). `StepsForward` shows
  that every action keeps or settles what it read. `TaskHasAGoal` is not
  inductive: it needs that what a promotion still has to dispatch, and what its
  summary shows as active, is taken up in the plan on disk (`PInv`), which
  `StepsForward` preserves under the steps of the other processes.
  `WorkersKeepApart` speaks of tasks and `GoalsKeepApart` of goals; `WInv` joins
  them: a goal is settled only once its task has ended, and an open task has the
  lanes of the plan on disk, as has everything a promotion is about to dispatch.
- `GraphRunProofs`, on the objective: `TypeCorrect`, `PhasesFollowPlans`,
  `OrderInvariance`, `PhasesTakeTurns`, `TasksFollowPhases`, `StopsAreIdle`, for any
  finite set of phases and any number of processes. `EntriesFollowPlans` alone is
  not inductive, since a command writes an objective it loaded earlier; `FInv` says
  the same of every copy a process holds, which others cannot spoil because plan
  files are never removed and settled goals stay settled. That reconciling has
  a least active phase to choose needs `LeastNatural`. `OnePhaseAtATime` needs
  `OInv`, about the phases that were not listed as active or done: the objective on disk has taken up its phases in order, plan files
  exist in that order, and what a process saw lies behind the disk and shows no
  active phase and the one it promotes as the first that is pending (`Saw`);
  reconciling and promoting only advance (`Advanced`). Of this `StopMeansIdle` needs
  only that a task without a plan file is not there and has no sub-agents
  (`TasksFiled`); the rest of it is the verdicts of the gate on any task card.
- `GraphRunProofs`, on the driver: `DriverTypeCorrect`, `LaunchInvariance`,
  `LaunchesAreSingle`, `TerminalRunsAreDone`, `HandsInvariance`,
  `HandoffsAreAsked`, `WaitsAreForSomebody`, for any number of goals, phases, slots,
  rounds, reports and deaths of the driver. `LaunchedOnce` is not inductive: it needs that
  a launched goal is still leased, and that in front of the dispatch node the
  packet is leased and not launched yet (`GInv`). All steps but four are `Quiet`:
  they leave leases and launches alone, drop a packet or keep it, and lead to
  neither `assign` nor `dispatch`. What a run says at its end was found at the start
  of its last round, so the three properties about it need that it is still true:
  `DoneInv` (nothing is left to do while the thread says terminal), `AskInv` (a
  report that asks stays), `WaitInv` (who is waited for is still there or in the
  driver's hands). The last two rest on `NInv`: a goal whose report is
  outstanding has a window, is among the stuck or is in the driver's hands, and a
  packet, message or result in the thread belongs to the goal it names. It holds for
  any number of slots; that a packet is not one whose window is open (`Sole`), and
  that a report on its way is not the packet's own, only for one slot, and it is
  that which `WaitInv` needs where the driver does not wait. `WaitsForSomebody`
  carries the same condition, one slot or time to wait; without it, it is false
  (`waits_for_nobody`). That with one slot no goal is ready beside an
  active one (`OneByOne`) is by counting, and so needs finitely many goals
  (`GoalsAssumption`).
- `HostProofs`, on the mailbox: `TypeCorrect`, `NothingLost`, for any number of
  processes. `NoCommandLost` is about the cursors as they are, and any writer may
  put older ones back; `PInv` therefore says of every *position* somebody holds
  (both cursors, every copy of them, the worker's place) that what lies at or below
  it was taken, stands again further up, is being sent again or is exhausted, and
  of the place a retry will move its cursor to the same save for what that retry
  is about to send. `Grows` shows that no step takes such a fact away.
- `HostProofs`, on the daemon: `DaemonTypeCorrect` for any number of starters, and
  `DaemonsAreSingle` and `DownIsDown` for one starter (`OneStarter`), any number of
  daemons, commands, exceptions and kills. The files alone do not show that a
  daemon works: its starter names it in the state only after it runs, and both
  may still write over a state they read before. `DInv` says that while a daemon
  has anything left to write (`Active`), the state on disk and every copy read by
  it or by its starter has a status outside `Down`; that its pid is on disk, or an
  update that is next in line puts it there (`Introduces`), and on disk for sure
  once the starter is idle; and that no patch of it but the last says `Down`. So
  the starter's check (`CheckKept`) passes only if nobody is active.
- `HostSessionProofs`: `TypeCorrect`, `ReportsAreOwn`, `ServiceInvariance`,
  `SessionsServe`, `SessionsReturn`, for any number of tasks, sessions, runs and
  operators. What is written was read before, so `SInv` speaks of the copies too
  (`CleanCopies`, `OwnTarget`); `Named` gives every session that exists a task, so
  that a closing reaches only sessions that have one. `VInv` adds what every
  pending operation is meant for: a session chosen for a task still is what it
  was when it was chosen, and an ingested report whose session is not back yet
  has a process that will close it (`SeenTo`).

The properties with an excuse (a lost update, a cut retry, an overtaken write, a
task touched by somebody else) use it in the proofs only where that very step
occurs; nothing is assumed of the order of processes, save where a theorem says
that there is one.

Only model-checked: all liveness (`AbandonedLockIsReclaimed`,
`EveryGoalGetsItsTurn`, `EveryPhaseGetsItsTurn`, `EveryCommandArrives`,
`EveryReportIsIngested`, `EveryGoalIsWorkedOn`, `StopStops`, `EveryReplyIsHeard`),
since ENABLED and fairness are out of the proof system's reach; and `WithinLimit`
and `CompletedIsIdle`, further properties of `PhasePlan`.

## 5. Where code and documents disagree

Each has a configuration that TLC refutes. The first two are runs of the project,
and PROJECT.json quotes the lines; the others are further configurations, with the
property they name, to be run the same way.

1. `double_lease` (`OneWorkerPerTask`): the graph README promises `blocked` for a
   task that has a worker; the check and the acquisition are apart, and
   `acquire_worker_slot` does not look at the task.
2. `handoff_lost` (`UserIsAsked`): the graph README says that `user_handoff`
   converges to a user delivery at `ready_for_user_delivery / pending_user`; a
   thread that closed one task and then ingests another that needs the user
   looks at the closed one and goes on.
3. `lock_race` (FileLock, `MutualExclusion`): a lock file is empty between
   `os.open` and its payload, and an unreadable payload is stale. Two holders in
   nine steps, without any expiry.
4. `closed_revived` (WorkerPool, `ClosedIsFinal`): a status refresh writes an old
   slot back over a closed one.
5. `cancel_race` (MCTaskLifecycle, `ClosedIsNotCanceled`): a cancel that passed
   its guard overwrites a task that was closed meanwhile.
6. `spurious_reopen` (MCTaskLifecycle, `ReopenedByActivity`): reconcile's own
   stale mark counts as newer activity if the clock moves between two of its
   timestamps.
7. `user_stop` (TaskLedger, `UserStopIsExplicit`): `continuation_mode: wait_user`
   alone stops on the user, while the harness document allows that only for
   `needs_user_decision: true`.
8. `write_sets` (MCPhasePlan, `OneOwnerPerWriteSet`): one owner per set of files
   is the documented rule, but readiness is judged by the paths in the plan.
   `rewrite_phase_goal` changes those of an active goal while its worker keeps the
   paths of its packet, and the next promotion hands the old ones to a second
   worker.
9. `decision_unheard` (MCObjectivePlan, `DecisionReachesUser`): a goal whose
   report asks for the user is still active in its phase plan, so the plan has
   remaining goals and the gate stays shut, although nothing else is left.
10. `acked_again` (HostMailbox, `AckedStaysAcked`): `G/README.md:124` says that
    `ack-mailbox` keeps the worker from consuming a command twice; a heartbeat
    that read the session before puts the old cursor back.
11. `session_shared` (HostSession, `OneTaskPerSession`): `G/README.md:121` says
    that a session that was assigned no longer shows as able to take a task; a
    release, resume or second assignment that was read before the assignment
    makes two tasks share it.
12. `report_ignored` (MCGraphRun, `ReportsArePickedUp` with `CanWait = FALSE`):
    `G/README.md:147` says that a report that lies there is picked up; with the
    default `wait_timeout_seconds` of 0.0 (`commander_host_daemon.py:93`,
    `run_until_handoff.py:452-455`) the wait gives up before it looks.
13. `canonical_lost` (WorkerPool, `CanonicalIsKept`):
    `commander/outer/指挥官系统完善方案.md:288` says that reconcile keeps the canonical
    worker and reclaims the duplicate; if the lease of the canonical one is over,
    the same sweep reclaims both, however long the duplicate's still runs. The
    proof of `LeaseIsHonoured` brought it up.

Two more are no disagreement with a document, but what a reader would not expect;
they too have a configuration that TLC refutes.

14. `report_replaced` (MCGraphRun, `CorrectionsAreIngested`): a worker that replaces
    a valid report by another is not heard once the first was ingested: the session
    has that one attached, and `_candidate_report_paths` puts it before the worker's
    file (`commander_host_runtime.py:1421`).
15. `waits_for_nobody` (MCGraphRun, `AlwaysWaitsForSomebody`): with two slots and no
    time to wait, `promote_next_phase_goal` hands out the packet of the first active
    goal again (`commander_phase_plan.py:675-692`), and the driver ends with
    `waiting_external_result` for a task whose report is there.

## 6. Not modelled, and why

Read-only views (audit, status, resume, search), document builders (spec kit,
experiments), string and path policies, process launching and the skill
scripts keep no state that several steps could disturb.

Improvement candidates, archive and cleanup are sequences of commands run by
hand, one at a time, over files that nothing else reads meanwhile.

Of the modelled parts, left out are: prompts, launch bundles and the wording of
every record; the governance rules that refuse a dispatch or a report (their
verdicts are inputs); matching of worker profiles, session profiles and paths;
the list of sub-agents beyond "some is open"; the intent binding of a user's
reply; the registry files, cards and catalog tables that are rebuilt from the
modelled ones; creating a plan over one that exists.

A driver of `GraphRun` is alone. Two graph runs at once are covered where they
meet: in the worker pool, in host sessions, on plan files, in task directories.

## 7. Plan

Done: the modules of section 2 and their proofs. What is left, most useful first:

1. Proofs: `WithinLimit` by the lemmas on cardinalities, `CompletedIsIdle`; the
   safety half of `EveryReportIsIngested` and `EveryGoalIsWorkedOn`.
2. `AgentRegister`: the lost update of checkpoint.json between
   `set_active_subagent_state` and `refresh_status`.
3. `HostDaemon` with several starters, as a further configuration.
4. Intent binding, improvement candidates and archive cleanup as small modules.

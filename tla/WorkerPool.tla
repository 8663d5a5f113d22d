--------------------------- MODULE WorkerPool ---------------------------
(***************************************************************************)
(* The warm worker pool: slots/<worker_id>.json, who leases a worker to a  *)
(* task, and the sweep that takes leases back.                             *)
(*                                                                         *)
(* Acquire, release, heartbeat and the sweep run under the pool lock (see  *)
(* FileLock), and so exclude one another; the first three are one step     *)
(* here, the sweep one or more steps per slot.  Two things run outside the *)
(* lock: assign_worker_owner looks for an existing lease before it         *)
(* acquires, and every status refresh reads each slot file and writes it   *)
(* back (load_worker_slot).                                                *)
(*                                                                         *)
(* Profile matching is left out: acquire may reuse any warm slot or create *)
(* one.  Task states move as TaskLifecycle lets them.                      *)
(***************************************************************************)
EXTENDS Integers

CONSTANTS
  Workers,      \* worker ids, numbered in the order of their file names
  Tasks,        \* task ids
  None,         \* no task, no copy, no check
  Assigners,    \* graph runs that may assign a worker
  Readers,      \* processes that refresh some task's status
  HandAcquires, \* commander_worker_pool acquire is run by hand
  Leases,       \* lease durations, in ticks
  MaxClock,     \* bound on the clock, for TLC
  MaxCrashes    \* bound on crashes of the sweep, for TLC

ASSUME WorkersAssumption == Workers \subseteq Nat
ASSUME TasksAssumption   == None \notin Tasks
ASSUME HandAssumption    == HandAcquires \in BOOLEAN
ASSUME LeasesAssumption  == Leases \subseteq Nat
ASSUME BoundsAssumption  == MaxClock \in Nat /\ MaxCrashes \in Nat

VARIABLES
  slot,      \* the slot files; state "absent": no such file
  task,      \* what refresh_status says of each task
  checked,   \* tasks an assigner found without a lease, before acquiring
  copy,      \* what each reader has read and not yet written back
  sweep,     \* reconcile_worker_slots, in progress or not
  clock,     \* now, in ticks
  crashes,   \* crashes of the sweep so far
  clobbered, \* history: a write-back undid a newer write
  touched    \* history: tasks moved by others while the sweep has the lock

vars == <<slot, task, checked, copy, sweep, clock, crashes, clobbered,
          touched>>

NoTime == -1
Leased == {"busy", "completed_waiting_close"}
States == Leased \cup {"absent", "warm_idle", "closed"}

\* expires and updated are kept for a leased slot: nothing reads them in
\* another.
Slot == [state : States, task : Tasks \cup {None},
         expires : Nat \cup {NoTime}, updated : Nat \cup {NoTime}]

Unleased(state) ==
  [state |-> state, task |-> None, expires |-> NoTime, updated |-> NoTime]

\* What the sweep tells apart: an active task in phase awaiting_report; one
\* that is closed, archived or canceled, or has no directory; any other.
TaskStates == {"awaiting", "over", "other"}

Existing == {w \in Workers : slot[w].state # "absent"}
OwnersOf(t) == {w \in Workers : slot[w].state \in Leased /\ slot[w].task = t}
Owned(t) == OwnersOf(t) # {}

Resting == [pc |-> "resting"]
LockFree == sweep.pc \in {"resting", "called"}

\* _worker_binding_arbitration_key, as an order.
Outranks(v, w) ==
  \/ slot[v].updated > slot[w].updated
  \/ slot[v].updated = slot[w].updated /\
       \/ slot[v].state = "busy" /\ slot[w].state # "busy"
       \/ (slot[v].state = "busy" <=> slot[w].state = "busy") /\ v > w

Init ==
  /\ slot = [w \in Workers |-> Unleased("absent")]
  /\ task \in [Tasks -> {"over", "awaiting"}]
  /\ checked = [a \in Assigners |-> None]
  /\ copy = [r \in Readers |-> None]
  /\ sweep = Resting
  /\ clock = 0
  /\ crashes = 0
  /\ clobbered = FALSE
  /\ touched = {}

----------------------------------------------------------------------------
\* Dispatch, ingest, close, cancel, reopen and reconcile: between them they
\* lead from every kind of task to every other (TaskLifecycle).
TaskMoves(t, to) ==
  /\ task[t] # to
  /\ task' = [task EXCEPT ![t] = to]
  /\ touched' = IF LockFree THEN touched ELSE touched \cup {t}
  /\ UNCHANGED <<slot, checked, copy, sweep, clock, crashes, clobbered>>

----------------------------------------------------------------------------
(* Leasing *)

Lease(w, t, d) ==
  slot' = [slot EXCEPT ![w] = [state |-> "busy", task |-> t,
                               expires |-> clock + d, updated |-> clock]]

(***************************************************************************)
(* acquire_worker_slot under the pool lock: a warm slot, or a new file.    *)
(* Whether the task already has a worker is not looked at.                 *)
(***************************************************************************)
Acquire(w, t, d) ==
  /\ LockFree
  /\ slot[w].state \in {"absent", "warm_idle"}
  /\ Lease(w, t, d)

\* commander_worker_pool acquire.
AcquireByHand(w, t, d) ==
  /\ HandAcquires
  /\ Acquire(w, t, d)
  /\ UNCHANGED <<task, checked, copy, sweep, clock, crashes, clobbered,
                 touched>>

\* assign_worker_owner: ensure_task_has_no_active_writer passes ...
CheckOwner(a, t) ==
  /\ checked[a] = None
  /\ ~Owned(t)
  /\ checked' = [checked EXCEPT ![a] = t]
  /\ UNCHANGED <<slot, task, copy, sweep, clock, crashes, clobbered,
                 touched>>

\* ... and the worker is acquired, without looking again.
AssignOwner(a, w, d) ==
  /\ checked[a] # None
  /\ Acquire(w, checked[a], d)
  /\ checked' = [checked EXCEPT ![a] = None]
  /\ UNCHANGED <<task, copy, sweep, clock, crashes, clobbered,
                 touched>>

\* Mutant: the task stays on a slot that goes back to the pool.
ReleaseKeepingTask(w, state) ==
  /\ LockFree
  /\ slot[w].state \in Leased
  /\ slot' = [slot EXCEPT ![w] = [@ EXCEPT !.state = state]]
  /\ UNCHANGED <<task, checked, copy, sweep, clock, crashes, clobbered,
                 touched>>

(***************************************************************************)
(* release_worker_slot.  A worker that waits to be closed keeps its task   *)
(* but gets no lease_expires_at: the next read fills in the heartbeat, so  *)
(* its lease is over at once.                                              *)
(***************************************************************************)
Release(w, state) ==
  /\ LockFree
  /\ slot[w].state \in Leased
  /\ slot' = [slot EXCEPT ![w] =
       IF state \in Leased
       THEN [@ EXCEPT !.state = state, !.expires = clock, !.updated = clock]
       ELSE Unleased(state)]
  /\ UNCHANGED <<task, checked, copy, sweep, clock, crashes, clobbered,
                 touched>>

\* heartbeat_worker_slot.
Heartbeat(w, d) ==
  /\ LockFree
  /\ slot[w].state \in Leased
  /\ slot' = [slot EXCEPT ![w] = [@ EXCEPT !.expires = clock + d,
                                           !.updated = clock]]
  /\ UNCHANGED <<task, checked, copy, sweep, clock, crashes, clobbered,
                 touched>>

----------------------------------------------------------------------------
(* Status refreshes, outside the lock *)

\* load_worker_slot reads and normalizes a slot file ...
ReadSlot(r, w) ==
  /\ copy[r] = None
  /\ w \in Existing
  /\ copy' = [copy EXCEPT ![r] = [worker |-> w, slot |-> slot[w]]]
  /\ UNCHANGED <<slot, task, checked, sweep, clock, crashes, clobbered,
                 touched>>

\* ... and writes it back.
WriteBack(r) ==
  /\ copy[r] # None
  /\ slot' = [slot EXCEPT ![copy[r].worker] = copy[r].slot]
  /\ clobbered' = (clobbered \/ slot[copy[r].worker] # copy[r].slot)
  /\ copy' = [copy EXCEPT ![r] = None]
  /\ UNCHANGED <<task, checked, sweep, clock, crashes, touched>>

----------------------------------------------------------------------------
(* reconcile_worker_slots *)

SweepUnchanged == UNCHANGED <<checked, copy, clock, clobbered>>

\* `now` is taken before the lock.
SweepCalled ==
  /\ sweep = Resting
  /\ sweep' = [pc |-> "called", now |-> clock]
  /\ UNCHANGED <<slot, task, crashes, touched>> /\ SweepUnchanged

\* Mutant: among duplicates the worker with the older binding stays.
LosersToOldest(scope) ==
  {b \in scope \X Tasks :
     /\ b[1] \in OwnersOf(b[2])
     /\ \E v \in OwnersOf(b[2]) \cap scope : v # b[1] /\ Outranks(b[1], v)}

\* Mutant: duplicates are not looked for.
NoLosers(scope) == {}

\* Of several leased workers of one task, all but the one that ranks first,
\* each with the task.
Losers(scope) ==
  {b \in scope \X Tasks :
     /\ b[1] \in OwnersOf(b[2])
     /\ \E v \in OwnersOf(b[2]) \cap scope : Outranks(v, b[1])}

\* All slots, or the one --worker-id names; duplicates are found up front.
SweepLocks(scope) ==
  /\ sweep.pc = "called"
  /\ sweep' = [pc |-> "look", now |-> sweep.now, scope |-> scope,
               todo |-> scope, losers |-> Losers(scope), stale |-> {}]
  /\ UNCHANGED <<slot, task, crashes, touched>> /\ SweepUnchanged

\* The slot to look at: they are taken in file name order.
Current(w) == w \in sweep.todo /\ \A v \in sweep.todo : w <= v

Overdue(w) == slot[w].expires <= sweep.now
IsLoser(w) == <<w, slot[w].task>> \in sweep.losers

\* Some branch of the verdict releases the slot.
Reclaims(w) ==
  IF slot[w].state \notin Leased THEN slot[w].task # None
  ELSE \/ IsLoser(w)
       \/ slot[w].task = None
       \/ task[slot[w].task] = "over"
       \/ Overdue(w)

\* The branch where nothing but the lease is wrong.
Lapses(w) ==
  /\ slot[w].state \in Leased
  /\ ~IsLoser(w)
  /\ slot[w].task # None
  /\ task[slot[w].task] # "over"
  /\ Overdue(w)

\* Mutant: an orphaned task is not marked.
MarksNobody(w) == FALSE

\* In it, the task still waits for this worker's report and is first marked
\* stale.
Orphans(w) == Lapses(w) /\ task[slot[w].task] = "awaiting"

\* The entry of stale_worker_ids, with the task.
NewlyStale(w) == IF Lapses(w) THEN {<<w, slot[w].task>>} ELSE {}

SweepPasses(w) ==
  /\ sweep.pc = "look"
  /\ Current(w)
  /\ ~Reclaims(w)
  /\ sweep' = [sweep EXCEPT !.todo = @ \ {w}]
  /\ UNCHANGED <<slot, task, crashes, touched>> /\ SweepUnchanged

SweepDecides(w) ==
  /\ sweep.pc = "look"
  /\ Current(w)
  /\ Reclaims(w)
  /\ sweep' = [pc |-> IF Orphans(w) THEN "mark" ELSE "free",
               now |-> sweep.now, scope |-> sweep.scope,
               todo |-> sweep.todo, losers |-> sweep.losers,
               stale |-> sweep.stale \cup NewlyStale(w),
               worker |-> w, slot |-> slot[w]]
  /\ UNCHANGED <<slot, task, crashes, touched>> /\ SweepUnchanged

\* mark_task_stale, whatever became of the task since.
SweepMarks ==
  /\ sweep.pc = "mark"
  /\ task' = [task EXCEPT ![sweep.slot.task] = "other"]
  /\ sweep' = [sweep EXCEPT !.pc = "free"]
  /\ UNCHANGED <<slot, crashes, touched>> /\ SweepUnchanged

\* _reconcile_release_state: an interrupted worker is not used again.
ReleaseState(state) ==
  CASE state = "busy"                    -> "closed"
    [] state = "completed_waiting_close" -> "warm_idle"
    [] OTHER                             -> state

SweepFrees ==
  /\ sweep.pc = "free"
  /\ slot' = [slot EXCEPT ![sweep.worker] =
       Unleased(ReleaseState(sweep.slot.state))]
  /\ sweep' = [pc |-> "look", now |-> sweep.now, scope |-> sweep.scope,
               todo |-> sweep.todo \ {sweep.worker},
               losers |-> sweep.losers, stale |-> sweep.stale]
  /\ UNCHANGED <<task, crashes, touched>> /\ SweepUnchanged

SweepEnds ==
  /\ sweep.pc = "look"
  /\ sweep.todo = {}
  /\ sweep' = Resting
  /\ touched' = {}
  /\ UNCHANGED <<slot, task, crashes>> /\ SweepUnchanged

\* The sweep dies; its lock file goes stale and is removed.
SweepCrashes ==
  /\ ~LockFree
  /\ crashes < MaxCrashes
  /\ crashes' = crashes + 1
  /\ sweep' = Resting
  /\ touched' = {}
  /\ UNCHANGED <<slot, task>> /\ SweepUnchanged

Sweep ==
  \/ SweepCalled
  \/ SweepLocks(Existing)
  \/ \E w \in Existing : SweepLocks({w})
  \/ \E w \in Workers : SweepPasses(w) \/ SweepDecides(w)
  \/ SweepMarks
  \/ SweepFrees
  \/ SweepEnds
  \/ SweepCrashes

----------------------------------------------------------------------------

Tick ==
  /\ clock < MaxClock
  /\ clock' = clock + 1
  /\ UNCHANGED <<slot, task, checked, copy, sweep, crashes, clobbered,
                 touched>>

Next ==
  \/ \E t \in Tasks, to \in TaskStates : TaskMoves(t, to)
  \/ \E w \in Workers :
       \/ \E t \in Tasks, d \in Leases : AcquireByHand(w, t, d)
       \/ \E a \in Assigners, d \in Leases : AssignOwner(a, w, d)
       \/ \E state \in States \ {"absent", "busy"} : Release(w, state)
       \/ \E d \in Leases : Heartbeat(w, d)
       \/ \E r \in Readers : ReadSlot(r, w)
  \/ \E a \in Assigners, t \in Tasks : CheckOwner(a, t)
  \/ \E r \in Readers : WriteBack(r)
  \/ Sweep
  \/ Tick

Spec == Init /\ [][Next]_vars

----------------------------------------------------------------------------

Copy == [worker : Workers, slot : Slot]

Idle == [pc : {"resting"}] \cup [pc : {"called"}, now : Nat]

Looking ==
  [pc : {"look"}, now : Nat, scope : SUBSET Workers, todo : SUBSET Workers,
   losers : SUBSET (Workers \X Tasks), stale : SUBSET (Workers \X Tasks)]

Judging ==
  [pc : {"mark", "free"}, now : Nat, scope : SUBSET Workers,
   todo : SUBSET Workers, losers : SUBSET (Workers \X Tasks),
   stale : SUBSET (Workers \X Tasks), worker : Workers, slot : Slot]

\* Type invariant.
TypeOK ==
  /\ slot \in [Workers -> Slot]
  /\ task \in [Tasks -> TaskStates]
  /\ checked \in [Assigners -> Tasks \cup {None}]
  /\ copy \in [Readers -> Copy \cup {None}]
  /\ sweep \in Idle \cup Looking \cup Judging
  /\ clock \in Nat
  /\ crashes \in Nat
  /\ clobbered \in BOOLEAN
  /\ touched \subseteq Tasks

\* A slot has a task and a lease that ends exactly while it is leased.
Bound(s) ==
  /\ s.state \in Leased <=> s.task # None
  /\ s.state \in Leased <=> s.expires # NoTime

(***************************************************************************)
(* Every slot file is consistent whatever runs at the same time: a worker  *)
(* out of its lease has let go of its task, and a leased one has a task to *)
(* account for.  Unlocked write-backs may resurrect an old slot but never  *)
(* a mixture.                                                              *)
(***************************************************************************)
BindingDiscipline == \A w \in Workers : Bound(slot[w])

(***************************************************************************)
(* A closed worker takes no further part: acquire, release, heartbeat and  *)
(* the sweep leave it closed.  Only a status refresh that writes back what *)
(* it read before can undo that.                                           *)
(***************************************************************************)
ClosedStaysClosed ==
  [][~clobbered' =>
       \A w \in Workers : slot[w].state = "closed" => slot'[w] = slot[w]]_vars

(***************************************************************************)
(* When a sweep of the whole pool has gone through its slots, no task has  *)
(* two workers and no lease that was over when the sweep was called is     *)
(* left (reconcile_worker_slots; write-backs aside).                       *)
(***************************************************************************)
SweptClean ==
  sweep.pc = "look" /\ sweep.todo = {} /\ sweep.scope = Existing /\ ~clobbered =>
    \A w \in Existing : slot[w].state \in Leased =>
      /\ ~Overdue(w)
      /\ OwnersOf(slot[w].task) = {w}

(***************************************************************************)
(* A task that waits for its report while the sweep runs keeps a worker if *)
(* it had one, or the sweep has marked it stale (duplicates are settled    *)
(* before, and apart from, the leases that are over).                      *)
(***************************************************************************)
SweepKeepsOwner ==
  [][sweep.pc = "free" /\ sweep'.pc = "look" /\ ~clobbered =>
       \A t \in Tasks \ touched :
         task[t] = "awaiting" /\ Owned(t) => Owned(t)']_vars

(***************************************************************************)
(* A worker whose lease is running is taken from a task that is neither    *)
(* finished nor gone only if the task keeps a worker that ranks before it, *)
(* or had one whose own lease turned out to be over.  The second case is   *)
(* real: reconcile_worker_slots ranks by the last update, whatever became  *)
(* of the lease, so it may let go of both.                                 *)
(***************************************************************************)
LeaseIsHonoured ==
  [][LET t == sweep.slot.task IN
     /\ sweep.pc = "free" /\ sweep'.pc = "look" /\ ~clobbered
     /\ t \in Tasks \ touched
     /\ task[t] # "over"
     /\ sweep.slot.expires > clock
     => \E v \in Workers \ {sweep.worker} :
          \/ v \in OwnersOf(t) /\ Outranks(v, sweep.worker)
          \/ <<v, t>> \in sweep.stale]_vars

(***************************************************************************)
(* The documented arbitration: of several workers of a task the canonical  *)
(* one is kept and the others are reclaimed.                               *)
(***************************************************************************)
CanonicalIsKept ==
  [][sweep.pc = "free" /\ sweep'.pc = "look" /\ ~clobbered =>
       \A t \in Tasks \ touched :
         task[t] # "over" /\ <<sweep.worker, t>> \in sweep.losers =>
           Owned(t)']_vars

(***************************************************************************)
(* The documented rule: a task that has a worker is never given a second.  *)
(***************************************************************************)
OneWorkerPerTask == \A t \in Tasks : \A v, w \in OwnersOf(t) : v = w

(***************************************************************************)
(* The documented meaning of closed: the worker's life is over.            *)
(***************************************************************************)
ClosedIsFinal ==
  [][\A w \in Workers :
       slot[w].state = "closed" => slot'[w].state = "closed"]_vars
==========================================================================

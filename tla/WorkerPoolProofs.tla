------------------------ MODULE WorkerPoolProofs ------------------------
(***************************************************************************)
(* What the worker pool guarantees for any number of workers, tasks, graph *)
(* runs and status refreshes, any lease durations and any crashes.         *)
(***************************************************************************)
EXTENDS WorkerPool, FiniteSetTheorems, WellFoundedInduction, TLAPS

\* Unleased builds a well-formed, unbound slot.
LEMMA UnleasedSlot ==
  ASSUME NEW state \in States \ Leased
  PROVE  Unleased(state) \in Slot /\ Bound(Unleased(state))
BY TasksAssumption DEF Unleased, Slot, Bound, NoTime

\* Whatever the sweep releases ends up unleased.
LEMMA ReleaseStateUnleased ==
  ASSUME NEW state \in States
  PROVE  ReleaseState(state) \in States \ Leased
BY DEF ReleaseState, States, Leased

\* The sweep marks only a task it found bound to the slot.
MarksATask == sweep.pc = "mark" => sweep.slot.task \in Tasks

\* Slot files, and the copies of them that refreshes hold, are bound or free.
AllBound ==
  /\ \A w \in Workers : Bound(slot[w])
  /\ \A r \in Readers : copy[r] # None => Bound(copy[r].slot)

Inv == TypeOK /\ MarksATask /\ AllBound

\* A new lease keeps the slots well formed: both ways to acquire.
LEMMA LeaseKeepsSlots ==
  ASSUME Inv, NEW w \in Workers, NEW t \in Tasks, NEW d \in Leases,
         Acquire(w, t, d)
  PROVE  slot' \in [Workers -> Slot] /\ \A v \in Workers : Bound(slot'[v])
<1> DEFINE new == [state |-> "busy", task |-> t,
                   expires |-> clock + d, updated |-> clock]
<1>1. new \in Slot /\ Bound(new)
  BY TasksAssumption, LeasesAssumption
     DEF Inv, TypeOK, Slot, States, Leased, Bound, NoTime
<1>2. slot' = [slot EXCEPT ![w] = new]
  BY DEF Acquire, Lease
<1> HIDE DEF new
<1>3. QED
  BY <1>1, <1>2 DEF Inv, TypeOK, AllBound

\* A leased slot stays well formed under a new state, lease and time stamp.
LEMMA Retouched ==
  ASSUME NEW s \in Slot, NEW state \in Leased, NEW e \in Nat, NEW u \in Nat,
         Bound(s), s.state \in Leased
  PROVE  LET new == [s EXCEPT !.state = state, !.expires = e, !.updated = u]
         IN  new \in Slot /\ Bound(new)
<1> DEFINE new == [s EXCEPT !.state = state, !.expires = e, !.updated = u]
<1>1. state \in States /\ e # NoTime
  BY DEF States, NoTime
<1>2. new \in Slot
  BY <1>1 DEF Slot
<1>3. new.state = state /\ new.expires = e /\ new.task = s.task
  BY DEF Slot
<1>4. QED
  BY <1>1, <1>2, <1>3 DEF Bound

\* So a release and a heartbeat keep the slots well formed.
LEMMA ReleaseKeepsSlots ==
  ASSUME Inv, NEW w \in Workers, NEW state \in States \ {"absent", "busy"},
         Release(w, state)
  PROVE  slot' \in [Workers -> Slot] /\ \A v \in Workers : Bound(slot'[v])
<1> DEFINE kept == [slot[w] EXCEPT !.state = state, !.expires = clock,
                                   !.updated = clock]
           new  == IF state \in Leased THEN kept ELSE Unleased(state)
<1>1. slot[w] \in Slot /\ Bound(slot[w]) /\ slot[w].state \in Leased
  BY DEF Inv, TypeOK, AllBound, Release
<1>2. clock \in Nat
  BY DEF Inv, TypeOK
<1>3. state \in Leased => kept \in Slot /\ Bound(kept)
  BY <1>1, <1>2, Retouched
<1>4. state \notin Leased => Unleased(state) \in Slot /\ Bound(Unleased(state))
  BY UnleasedSlot
<1>5. new \in Slot /\ Bound(new)
  BY <1>3, <1>4
<1>6. slot' = [slot EXCEPT ![w] = new]
  BY DEF Release
<1> HIDE DEF new
<1>7. QED
  BY <1>5, <1>6 DEF Inv, TypeOK, AllBound

\* A heartbeat leaves the slot well formed and bound.
LEMMA HeartbeatKeepsSlots ==
  ASSUME Inv, NEW w \in Workers, NEW d \in Leases, Heartbeat(w, d)
  PROVE  slot' \in [Workers -> Slot] /\ \A v \in Workers : Bound(slot'[v])
<1> DEFINE new == [slot[w] EXCEPT !.expires = clock + d, !.updated = clock]
<1>1. slot[w] \in Slot /\ Bound(slot[w]) /\ slot[w].state \in Leased
  BY DEF Inv, TypeOK, AllBound, Heartbeat
<1>2. clock \in Nat /\ clock + d \in Nat /\ clock + d # NoTime
  BY LeasesAssumption DEF Inv, TypeOK, NoTime
<1>3. new \in Slot
  BY <1>1, <1>2 DEF Slot
<1>4. /\ new.state = slot[w].state /\ new.task = slot[w].task
      /\ new.expires = clock + d
  BY <1>1 DEF Slot
<1>5. slot' = [slot EXCEPT ![w] = new]
  BY DEF Heartbeat
<1> HIDE DEF new
<1>6. Bound(new)
  BY <1>1, <1>2, <1>4 DEF Bound
<1>7. QED
  BY <1>3, <1>5, <1>6 DEF Inv, TypeOK, AllBound

\* A status refresh reads and writes whole slots.
LEMMA RefreshKeepsInv ==
  ASSUME Inv, NEW r \in Readers,
         WriteBack(r) \/ \E w \in Workers : ReadSlot(r, w)
  PROVE  Inv'
<1>1. CASE WriteBack(r)
  <2>1. copy[r] \in Copy /\ Bound(copy[r].slot)
    BY <1>1 DEF Inv, TypeOK, AllBound, WriteBack
  <2>2. /\ slot' \in [Workers -> Slot]
        /\ \A v \in Workers : Bound(slot'[v])
    BY <1>1, <2>1 DEF Inv, TypeOK, AllBound, WriteBack, Copy
  <2>3. clobbered' \in BOOLEAN
    BY <1>1 DEF WriteBack
  <2>4. QED
    BY <1>1, <2>2, <2>3 DEF Inv, TypeOK, AllBound, MarksATask, WriteBack
<1>2. ASSUME NEW w \in Workers, ReadSlot(r, w) PROVE Inv'
  <2> DEFINE new == [worker |-> w, slot |-> slot[w]]
  <2>1. new \in Copy /\ Bound(new.slot)
    BY DEF Inv, TypeOK, AllBound, Copy
  <2>2. copy' = [copy EXCEPT ![r] = new]
    BY <1>2 DEF ReadSlot
  <2> HIDE DEF new
  <2>3. QED
    BY <1>2, <2>1, <2>2 DEF Inv, TypeOK, AllBound, MarksATask, ReadSlot
<1>3. QED
  BY <1>1, <1>2

\* The pc of the sweep tells which fields it has.
LEMMA SweepFields ==
  ASSUME TypeOK
  PROVE  /\ sweep.pc = "look" => sweep \in Looking
         /\ sweep.pc \in {"mark", "free"} => sweep \in Judging
         /\ sweep.pc = "called" => sweep.now \in Nat
BY DEF TypeOK, Idle, Looking, Judging

\* The steps of the sweep that touch neither slots nor tasks.
LEMMA SweepLooksKeepInv ==
  ASSUME Inv,
         \/ SweepCalled \/ SweepEnds \/ SweepCrashes
         \/ \E scope \in SUBSET Workers : SweepLocks(scope)
         \/ \E w \in Workers : SweepPasses(w) \/ SweepDecides(w)
  PROVE  Inv'
<1> USE DEF Inv, AllBound, MarksATask, SweepUnchanged
<1>1. CASE SweepCalled
  <2>1. sweep' \in Idle /\ sweep'.pc = "called"
    BY <1>1 DEF TypeOK, SweepCalled, Idle
  <2>2. QED
    BY <1>1, <2>1 DEF TypeOK, SweepCalled
<1>2. CASE SweepEnds
  <2>1. sweep' \in Idle /\ sweep'.pc = "resting"
    BY <1>2 DEF SweepEnds, Resting, Idle
  <2>2. QED
    BY <1>2, <2>1 DEF TypeOK, SweepEnds
<1>3. CASE SweepCrashes
  <2>1. sweep' \in Idle /\ sweep'.pc = "resting"
    BY <1>3 DEF SweepCrashes, Resting, Idle
  <2>2. QED
    BY <1>3, <2>1 DEF TypeOK, SweepCrashes
<1>4. ASSUME NEW scope \in SUBSET Workers, SweepLocks(scope) PROVE Inv'
  <2>1. Losers(scope) \in SUBSET (Workers \X Tasks)
    BY DEF Losers
  <2>2. sweep' \in Looking /\ sweep'.pc = "look"
    BY <1>4, <2>1, SweepFields DEF SweepLocks, Looking
  <2>3. QED
    BY <1>4, <2>2 DEF TypeOK, SweepLocks
<1>5. ASSUME NEW w \in Workers, SweepPasses(w) PROVE Inv'
  <2>1. sweep' \in Looking /\ sweep'.pc = "look"
    BY <1>5, SweepFields DEF SweepPasses, Looking
  <2>2. QED
    BY <1>5, <2>1 DEF TypeOK, SweepPasses
<1>6. ASSUME NEW w \in Workers, SweepDecides(w) PROVE Inv'
  <2>1. slot[w] \in Slot
    BY DEF TypeOK
  <2>2. NewlyStale(w) \subseteq Workers \X Tasks
    BY <2>1 DEF NewlyStale, Lapses, Slot
  <2>3. sweep' \in Judging
    BY <1>6, <2>1, <2>2, SweepFields DEF SweepDecides, Looking, Judging
  <2>4. sweep'.pc = "mark" => sweep'.slot.task \in Tasks
    BY <1>6, <2>1 DEF SweepDecides, Orphans, Lapses, Slot
  <2>5. QED
    BY <1>6, <2>3, <2>4 DEF TypeOK, SweepDecides
<1>7. QED
  BY <1>1, <1>2, <1>3, <1>4, <1>5, <1>6

\* The steps that mark a task and that free a slot.
LEMMA SweepWritesKeepInv ==
  ASSUME Inv, SweepMarks \/ SweepFrees
  PROVE  Inv'
<1> USE DEF Inv, AllBound, MarksATask, SweepUnchanged
<1>1. CASE SweepMarks
  <2>1. sweep' \in Judging /\ sweep'.pc = "free"
    BY <1>1, SweepFields DEF SweepMarks, Judging
  <2>2. task' \in [Tasks -> TaskStates]
    BY <1>1 DEF TypeOK, SweepMarks, TaskStates
  <2>3. QED
    BY <1>1, <2>1, <2>2 DEF TypeOK, SweepMarks
<1>2. CASE SweepFrees
  <2> DEFINE new == Unleased(ReleaseState(sweep.slot.state))
  <2>1. sweep \in Judging
    BY <1>2, SweepFields DEF SweepFrees
  <2>2. sweep' \in Looking /\ sweep'.pc = "look"
    BY <1>2, <2>1 DEF SweepFrees, Looking, Judging
  <2>3. sweep.slot.state \in States
    BY <2>1 DEF Judging, Slot
  <2>4. new \in Slot /\ Bound(new)
    BY <2>3, ReleaseStateUnleased, UnleasedSlot
  <2>5. slot' = [slot EXCEPT ![sweep.worker] = new]
    BY <1>2 DEF SweepFrees
  <2> HIDE DEF new
  <2>6. slot' \in [Workers -> Slot] /\ \A v \in Workers : Bound(slot'[v])
    BY <2>4, <2>5 DEF TypeOK
  <2>7. QED
    BY <1>2, <2>2, <2>6 DEF TypeOK, SweepFrees
<1>3. QED
  BY <1>1, <1>2

(***************************************************************************)
(* Inv is inductive: one step per action.                                  *)
(***************************************************************************)
LEMMA InitInv == Init => Inv
<1> SUFFICES ASSUME Init PROVE Inv
  OBVIOUS
<1>1. Unleased("absent") \in Slot /\ Bound(Unleased("absent"))
  BY UnleasedSlot DEF States, Leased
<1>2. sweep \in Idle /\ sweep.pc = "resting"
  BY DEF Init, Resting, Idle
<1>3. slot \in [Workers -> Slot] /\ \A w \in Workers : Bound(slot[w])
  BY <1>1 DEF Init
<1>4. task \in [Tasks -> TaskStates]
  BY DEF Init, TaskStates
<1>5. QED
  BY <1>2, <1>3, <1>4 DEF Init, Inv, TypeOK, AllBound, MarksATask

\* Every step keeps the invariant: leases, refreshes and the sweep.
LEMMA StepInv == Inv /\ [Next]_vars => Inv'
<1> SUFFICES ASSUME Inv, [Next]_vars PROVE Inv'
  OBVIOUS
<1> USE DEF Inv, AllBound, MarksATask
<1>1. ASSUME NEW t \in Tasks, NEW to \in TaskStates, TaskMoves(t, to)
      PROVE  Inv'
  BY <1>1 DEF TypeOK, TaskMoves
<1>2. ASSUME NEW w \in Workers, NEW t \in Tasks, NEW d \in Leases,
             AcquireByHand(w, t, d)
      PROVE  Inv'
  <2>1. slot' \in [Workers -> Slot] /\ \A v \in Workers : Bound(slot'[v])
    BY <1>2, LeaseKeepsSlots DEF AcquireByHand
  <2>2. QED
    BY <1>2, <2>1 DEF TypeOK, AcquireByHand
<1>3. ASSUME NEW w \in Workers, NEW a \in Assigners, NEW d \in Leases,
             AssignOwner(a, w, d)
      PROVE  Inv'
  <2>1. checked[a] \in Tasks
    BY <1>3 DEF TypeOK, AssignOwner
  <2>2. slot' \in [Workers -> Slot] /\ \A v \in Workers : Bound(slot'[v])
    BY <1>3, <2>1, LeaseKeepsSlots DEF AssignOwner
  <2>3. QED
    BY <1>3, <2>2 DEF TypeOK, AssignOwner
<1>4. ASSUME NEW w \in Workers, NEW state \in States \ {"absent", "busy"},
             Release(w, state)
      PROVE  Inv'
  <2>1. slot' \in [Workers -> Slot] /\ \A v \in Workers : Bound(slot'[v])
    BY <1>4, ReleaseKeepsSlots
  <2>2. QED
    BY <1>4, <2>1 DEF TypeOK, Release
<1>5. ASSUME NEW w \in Workers, NEW d \in Leases, Heartbeat(w, d) PROVE Inv'
  <2>1. slot' \in [Workers -> Slot] /\ \A v \in Workers : Bound(slot'[v])
    BY <1>5, HeartbeatKeepsSlots
  <2>2. QED
    BY <1>5, <2>1 DEF TypeOK, Heartbeat
<1>6. ASSUME NEW w \in Workers, NEW r \in Readers, ReadSlot(r, w) PROVE Inv'
  BY <1>6, RefreshKeepsInv
<1>7. ASSUME NEW a \in Assigners, NEW t \in Tasks, CheckOwner(a, t) PROVE Inv'
  BY <1>7 DEF TypeOK, CheckOwner
<1>8. ASSUME NEW r \in Readers, WriteBack(r) PROVE Inv'
  BY <1>8, RefreshKeepsInv
<1>9. CASE Sweep
  <2>1. Existing \subseteq Workers
    BY DEF Existing
  <2>2. QED
    BY <1>9, <2>1, SweepLooksKeepInv, SweepWritesKeepInv DEF Sweep
<1>10. CASE Tick
  BY <1>10 DEF TypeOK, Tick
<1>11. CASE UNCHANGED vars
  BY <1>11 DEF TypeOK, vars
<1>12. QED
  BY <1>1, <1>2, <1>3, <1>4, <1>5, <1>6, <1>7, <1>8, <1>9, <1>10, <1>11
     DEF Next

\* Slots, copies and the slot under judgement stay well formed and bound,
\* and the sweep marks a task only for a leased slot.
THEOREM Invariance == Spec => []Inv
BY InitInv, StepInv, PTL DEF Spec

\* The pool's files and the sweep's notes are always well formed.
THEOREM TypeCorrect == Spec => []TypeOK
BY Invariance, PTL DEF Inv

(***************************************************************************)
(* No interleaving of leases, write-backs and crashed sweeps leaves a slot *)
(* bound by half.                                                          *)
(***************************************************************************)
THEOREM BindingInvariant == Spec => []BindingDiscipline
<1>1. Inv => BindingDiscipline
  BY DEF Inv, AllBound, BindingDiscipline
<1>2. QED
  BY <1>1, Invariance, PTL

----------------------------------------------------------------------------
(* While the sweep has the lock *)

\* The slot that the sweep is about to free is leased and as it was read.
Held ==
  ~clobbered /\ sweep.pc \in {"mark", "free"} =>
    slot[sweep.worker] = sweep.slot /\ sweep.slot.state \in Leased

\* What it went past is in order, and of any two workers of a task one is
\* down to go.
Settled ==
  ~clobbered /\ sweep.pc \in {"look", "mark", "free"} =>
    /\ \A w \in sweep.scope \ sweep.todo :
         slot[w].state \in Leased => ~Overdue(w) /\ ~IsLoser(w)
    /\ \A t \in Tasks : \A v, w \in OwnersOf(t) \cap sweep.scope :
         v # w => <<v, t>> \in sweep.losers \/ <<w, t>> \in sweep.losers

SweepInv == Held /\ Settled

\* Everything but the sweep itself waits for the lock, or writes back what
\* is there.
LEMMA OthersWait ==
  ASSUME Inv, [Next]_vars, ~Sweep, ~LockFree, ~clobbered'
  PROVE  ~clobbered /\ UNCHANGED <<slot, sweep>>
<1>1. ASSUME NEW r \in Readers, WriteBack(r)
      PROVE  ~clobbered /\ UNCHANGED <<slot, sweep>>
  <2>1. slot[copy[r].worker] = copy[r].slot
    BY <1>1 DEF WriteBack
  <2>2. slot' = slot
    BY <1>1, <2>1 DEF WriteBack, Inv, TypeOK
  <2>3. QED
    BY <1>1, <2>2 DEF WriteBack
<1>2. ASSUME NEW w \in Workers,
             \/ \E t \in Tasks, d \in Leases : AcquireByHand(w, t, d)
             \/ \E a \in Assigners, d \in Leases : AssignOwner(a, w, d)
             \/ \E state \in States \ {"absent", "busy"} : Release(w, state)
             \/ \E d \in Leases : Heartbeat(w, d)
      PROVE  FALSE
  BY <1>2 DEF AcquireByHand, AssignOwner, Acquire, Release, Heartbeat
<1>3. ASSUME NEW w \in Workers, NEW r \in Readers, ReadSlot(r, w)
      PROVE  ~clobbered /\ UNCHANGED <<slot, sweep>>
  BY <1>3 DEF ReadSlot
<1>4. CASE \/ \E t \in Tasks, to \in TaskStates : TaskMoves(t, to)
           \/ \E a \in Assigners, t \in Tasks : CheckOwner(a, t)
           \/ Tick
           \/ UNCHANGED vars
  BY <1>4 DEF TaskMoves, CheckOwner, Tick, vars
<1>5. QED
  BY <1>1, <1>2, <1>3, <1>4, Zenon DEF Next

\* Of two workers one ranks before the other.
LEMMA RankIsTotal ==
  ASSUME TypeOK, NEW v \in Workers, NEW w \in Workers, v # w
  PROVE  Outranks(v, w) \/ Outranks(w, v)
<1>1. v \in Nat /\ w \in Nat
  BY WorkersAssumption
<1>2. slot[v].updated \in Int /\ slot[w].updated \in Int
  BY DEF TypeOK, Slot, NoTime
<1>3. QED
  BY <1>1, <1>2 DEF Outranks

\* The sweep takes its list of duplicates under the lock.
LEMMA LosersCoverDuplicates ==
  ASSUME TypeOK, NEW scope \in SUBSET Workers, NEW t \in Tasks,
         NEW v \in OwnersOf(t) \cap scope, NEW w \in OwnersOf(t) \cap scope,
         v # w
  PROVE  <<v, t>> \in Losers(scope) \/ <<w, t>> \in Losers(scope)
<1>1. CASE Outranks(v, w)
  BY <1>1 DEF Losers
<1>2. CASE Outranks(w, v)
  BY <1>2 DEF Losers
<1>3. QED
  BY <1>1, <1>2, RankIsTotal DEF OwnersOf

\* Every step keeps what the sweep has established so far.
LEMMA SweepStep == Inv /\ SweepInv /\ [Next]_vars => SweepInv'
<1> SUFFICES ASSUME Inv, SweepInv, [Next]_vars, ~clobbered',
                    sweep'.pc \in {"look", "mark", "free"}
             PROVE  SweepInv'
  BY DEF SweepInv, Held, Settled
<1> USE DEF SweepUnchanged
<1>1. CASE ~Sweep
  <2>1. ~LockFree => ~clobbered /\ UNCHANGED <<slot, sweep>>
    BY <1>1, OthersWait
  <2>2. sweep' = sweep
    BY <1>1 DEF Next, TaskMoves, AcquireByHand, AssignOwner, Release,
       Heartbeat, ReadSlot, WriteBack, CheckOwner, Tick, vars
  <2>3. ~clobbered /\ UNCHANGED <<slot, sweep>>
    BY <2>1, <2>2 DEF LockFree
  <2>4. QED
    BY <2>3 DEF SweepInv, Held, Settled, Overdue, IsLoser, OwnersOf
<1>2. ASSUME NEW scope \in SUBSET Workers, SweepLocks(scope) PROVE SweepInv'
  <2>1. /\ sweep'.pc = "look" /\ sweep'.scope = scope /\ sweep'.todo = scope
        /\ sweep'.losers = Losers(scope) /\ slot' = slot
    BY <1>2 DEF SweepLocks
  <2>2. \A t \in Tasks : \A v, w \in OwnersOf(t) \cap scope :
          v # w => <<v, t>> \in Losers(scope) \/ <<w, t>> \in Losers(scope)
    BY LosersCoverDuplicates DEF Inv
  <2>3. QED
    BY <2>1, <2>2 DEF SweepInv, Held, Settled, OwnersOf
<1>3. ASSUME NEW w \in Workers, SweepPasses(w) PROVE SweepInv'
  <2>1. sweep \in Looking
    BY <1>3, SweepFields DEF SweepPasses, Inv
  <2>2. /\ sweep' = [sweep EXCEPT !.todo = sweep.todo \ {w}]
        /\ slot' = slot /\ ~clobbered
    BY <1>3 DEF SweepPasses
  <2>3. /\ sweep'.pc = "look" /\ sweep'.scope = sweep.scope
        /\ sweep'.todo = sweep.todo \ {w} /\ sweep'.now = sweep.now
        /\ sweep'.losers = sweep.losers /\ sweep.pc = "look"
    BY <2>1, <2>2 DEF Looking
  <2>4. slot[w].state \in Leased => ~Overdue(w) /\ ~IsLoser(w)
    BY <1>3 DEF SweepPasses, Reclaims
  <2>5. QED
    BY <2>2, <2>3, <2>4
       DEF SweepInv, Held, Settled, Overdue, IsLoser, OwnersOf
<1>4. ASSUME NEW w \in Workers, SweepDecides(w) PROVE SweepInv'
  <2>1. /\ sweep'.pc \in {"mark", "free"} /\ sweep'.scope = sweep.scope
        /\ sweep'.todo = sweep.todo /\ sweep'.now = sweep.now
        /\ sweep'.losers = sweep.losers /\ sweep'.worker = w
        /\ sweep'.slot = slot[w] /\ slot' = slot
        /\ ~clobbered /\ sweep.pc = "look"
    BY <1>4 DEF SweepDecides
  <2>2. slot[w].state \in Leased
    BY <1>4 DEF SweepDecides, Reclaims, Inv, AllBound, Bound
  <2>3. QED
    BY <2>1, <2>2 DEF SweepInv, Held, Settled, Overdue, IsLoser, OwnersOf
<1>5. CASE SweepMarks
  <2>1. sweep \in Judging
    BY <1>5, SweepFields DEF SweepMarks, Inv
  <2>2. /\ sweep' = [sweep EXCEPT !.pc = "free"]
        /\ slot' = slot /\ ~clobbered /\ sweep.pc = "mark"
    BY <1>5 DEF SweepMarks
  <2>3. /\ sweep'.pc = "free" /\ sweep'.scope = sweep.scope
        /\ sweep'.todo = sweep.todo /\ sweep'.now = sweep.now
        /\ sweep'.losers = sweep.losers /\ sweep'.worker = sweep.worker
        /\ sweep'.slot = sweep.slot
    BY <2>1, <2>2 DEF Judging
  <2>4. QED
    BY <2>2, <2>3 DEF SweepInv, Held, Settled, Overdue, IsLoser, OwnersOf
<1>6. CASE SweepFrees
  <2> DEFINE new == Unleased(ReleaseState(sweep.slot.state))
  <2>1. sweep \in Judging /\ sweep.pc = "free"
    BY <1>6, SweepFields DEF SweepFrees, Inv
  <2>2. /\ sweep'.pc = "look" /\ sweep'.scope = sweep.scope
        /\ sweep'.todo = sweep.todo \ {sweep.worker}
        /\ sweep'.now = sweep.now /\ sweep'.losers = sweep.losers
        /\ slot' = [slot EXCEPT ![sweep.worker] = new]
        /\ ~clobbered
    BY <1>6 DEF SweepFrees
  <2>3. new.state \notin Leased
    BY <2>1, ReleaseStateUnleased DEF Judging, Slot, Unleased
  <2> HIDE DEF new
  <2>4. sweep.worker \in Workers /\ slot \in [Workers -> Slot]
    BY <2>1 DEF Judging, Inv, TypeOK
  <2>5. slot'[sweep.worker] = new
    BY <2>2, <2>4
  <2>6. \A v \in Workers : v # sweep.worker => slot'[v] = slot[v]
    BY <2>2, <2>4
  <2>7. \A t \in Tasks : OwnersOf(t)' \subseteq OwnersOf(t)
    BY <2>3, <2>5, <2>6 DEF OwnersOf
  <2>8. sweep.scope \subseteq Workers
    BY <2>1 DEF Judging
  <2>9. ASSUME NEW w \in sweep'.scope \ sweep'.todo, slot'[w].state \in Leased
        PROVE  ~Overdue(w)' /\ ~IsLoser(w)'
    <3>1. w # sweep.worker /\ w \in sweep.scope \ sweep.todo
      BY <2>2, <2>3, <2>5, <2>9
    <3>2. slot'[w] = slot[w]
      BY <2>6, <2>8, <3>1
    <3>3. ~Overdue(w) /\ ~IsLoser(w)
      BY <2>1, <2>2, <2>9, <3>1, <3>2 DEF SweepInv, Settled
    <3>4. QED
      BY <2>2, <3>2, <3>3 DEF Overdue, IsLoser
  <2>10. ASSUME NEW t \in Tasks, NEW v \in OwnersOf(t)' \cap sweep'.scope,
                NEW w \in OwnersOf(t)' \cap sweep'.scope, v # w
         PROVE  <<v, t>> \in sweep'.losers \/ <<w, t>> \in sweep'.losers
    BY <2>1, <2>2, <2>7, <2>10 DEF SweepInv, Settled
  <2>11. QED
    BY <2>2, <2>9, <2>10 DEF SweepInv, Held, Settled
<1>7. CASE SweepCalled \/ SweepEnds \/ SweepCrashes
  BY <1>7 DEF SweepCalled, SweepEnds, SweepCrashes, Resting
<1>8. Existing \subseteq Workers
  BY DEF Existing
<1>9. QED
  BY <1>1, <1>2, <1>3, <1>4, <1>5, <1>6, <1>7, <1>8 DEF Sweep

\* While the sweep has the lock, the slots behind it stay settled and the
\* slot it judged stays as it was read (reconcile_worker_slots).
THEOREM SweepInvariance == Spec => []SweepInv
<1>1. Init => SweepInv
  BY DEF Init, SweepInv, Held, Settled, Resting
<1>2. QED
  BY <1>1, Invariance, SweepStep, PTL DEF Spec

(***************************************************************************)
(* A sweep of the whole pool leaves no duplicate and no lease that was     *)
(* over.                                                                   *)
(***************************************************************************)
THEOREM SweepCleans == Spec => []SweptClean
<1>1. Inv /\ SweepInv => SweptClean
  <2> SUFFICES ASSUME Inv, SweepInv, sweep.pc = "look", sweep.todo = {},
                      sweep.scope = Existing, ~clobbered,
                      NEW w \in Existing, slot[w].state \in Leased
               PROVE  ~Overdue(w) /\ OwnersOf(slot[w].task) = {w}
    BY DEF SweptClean
  <2>1. \A v \in Existing : slot[v].state \in Leased => ~Overdue(v) /\ ~IsLoser(v)
    BY DEF SweepInv, Settled
  <2>2. w \in Workers /\ slot[w].task \in Tasks
    BY DEF Existing, Inv, TypeOK, AllBound, Bound, Slot
  <2>3. ASSUME NEW v \in OwnersOf(slot[w].task), v # w PROVE FALSE
    <3>1. v \in Existing /\ slot[v].state \in Leased /\ slot[v].task = slot[w].task
      BY DEF OwnersOf, Existing, Leased
    <3>2. w \in OwnersOf(slot[w].task)
      BY <2>2 DEF OwnersOf
    <3>3. \/ <<v, slot[w].task>> \in sweep.losers
          \/ <<w, slot[w].task>> \in sweep.losers
      BY <2>2, <2>3, <3>1, <3>2 DEF SweepInv, Settled
    <3>4. QED
      BY <2>1, <3>1, <3>3 DEF IsLoser
  <2>4. QED
    BY <2>1, <2>2, <2>3 DEF OwnersOf
<1>2. QED
  BY <1>1, Invariance, SweepInvariance, PTL

(***************************************************************************)
(* Short of a write-back of an old slot file, a closed worker stays closed.*)
(***************************************************************************)
THEOREM ClosedWorkersRest == Spec => ClosedStaysClosed
<1>1. ASSUME Inv, SweepInv, [Next]_vars, ~clobbered',
             NEW w \in Workers, slot[w].state = "closed"
      PROVE  slot'[w] = slot[w]
  <2>1. CASE SweepFrees
    <3>1. sweep \in Judging
      BY <1>1, <2>1, SweepFields DEF SweepFrees, Inv
    <3>2. w # sweep.worker
      BY <1>1, <2>1 DEF SweepInv, Held, SweepFrees, SweepUnchanged, Leased
    <3>3. QED
      BY <1>1, <2>1, <3>1, <3>2 DEF SweepFrees, Inv, TypeOK
  <2>2. ASSUME NEW r \in Readers, WriteBack(r) PROVE slot' = slot
    <3>1. slot[copy[r].worker] = copy[r].slot
      BY <1>1, <2>2 DEF WriteBack
    <3>2. QED
      BY <1>1, <2>2, <3>1 DEF WriteBack, Inv, TypeOK
  <2>3. CASE Sweep /\ ~SweepFrees
    BY <2>3 DEF Sweep, SweepCalled, SweepLocks, SweepPasses, SweepDecides,
       SweepMarks, SweepEnds, SweepCrashes
  <2>4. ASSUME NEW v \in Workers, NEW t \in Tasks \cup {None}, NEW d \in Leases,
               Acquire(v, t, d)
        PROVE  slot'[w] = slot[w]
    BY <1>1, <2>4 DEF Acquire, Lease, Inv, TypeOK
  <2>5. ASSUME NEW v \in Workers, NEW state, Release(v, state)
        PROVE  slot'[w] = slot[w]
    BY <1>1, <2>5 DEF Release, Leased, Inv, TypeOK
  <2>6. ASSUME NEW v \in Workers, NEW d \in Leases, Heartbeat(v, d)
        PROVE  slot'[w] = slot[w]
    BY <1>1, <2>6 DEF Heartbeat, Leased, Inv, TypeOK
  <2>7. ASSUME NEW v \in Workers, NEW a \in Assigners, NEW d \in Leases,
               AssignOwner(a, v, d)
        PROVE  slot'[w] = slot[w]
    <3>1. checked[a] \in Tasks \cup {None}
      BY <1>1 DEF Inv, TypeOK
    <3>2. QED
      BY <2>4, <2>7, <3>1 DEF AssignOwner
  <2>8. QED
    BY <1>1, <2>1, <2>2, <2>3, <2>4, <2>5, <2>6, <2>7
       DEF Next, TaskMoves, AcquireByHand, ReadSlot, CheckOwner, Tick, vars
<1>2. Inv /\ SweepInv /\ [Next]_vars =>
        [~clobbered' =>
           \A w \in Workers :
             slot[w].state = "closed" => slot'[w] = slot[w]]_vars
  BY <1>1
<1>3. QED
  BY <1>2, Invariance, SweepInvariance, PTL DEF Spec, ClosedStaysClosed
----------------------------------------------------------------------------
(* What the sweep leaves a task *)

\* Somebody has moved the task since the sweep took the lock, it is over, or
\* another worker of it lost its lease to this sweep.
Excused(w, t) ==
  \/ t \in touched
  \/ task[t] = "over"
  \/ \E v \in Workers : v # w /\ <<v, t>> \in sweep.stale

\* The worker of this task that stays, if all goes well, ranks before w.
Canonical(w, t) ==
  \E v \in OwnersOf(t) \cap sweep.scope :
    <<v, t>> \notin sweep.losers /\ Outranks(v, w)

\* A duplicate has not been reached yet, or has been freed.
LosersAhead ==
  \A w \in Workers, t \in Tasks :
    <<w, t>> \in sweep.losers /\ w \in OwnersOf(t) =>
      /\ w \in sweep.scope
      /\ Canonical(w, t) \/ Excused(w, t)

\* A lease that ran out costs the task a stale mark, if it waits for the
\* report, and is no duplicate's.
StaleMarked ==
  \A w \in Workers, t \in Tasks : <<w, t>> \in sweep.stale =>
    /\ <<w, t>> \notin sweep.losers
    /\ \/ t \in touched
       \/ task[t] # "awaiting"
       \/ sweep.pc = "mark" /\ sweep.slot.task = t

\* Why the slot under judgement goes.
Grounds ==
  sweep.pc \in {"mark", "free"} =>
    LET t      == sweep.slot.task
        lapsed == <<sweep.worker, t>> \in sweep.stale
                  /\ sweep.slot.expires <= sweep.now
    IN
    /\ sweep.pc = "mark" => lapsed
    /\ \/ t \in touched
       \/ task[t] = "over"
       \/ <<sweep.worker, t>> \in sweep.losers
       \/ lapsed

Accounted ==
  ~clobbered /\ sweep.pc \in {"look", "mark", "free"} =>
    LosersAhead /\ StaleMarked /\ Grounds

KeepInv ==
  /\ IsFiniteSet(Existing)
  /\ sweep.pc # "resting" => sweep.now <= clock
  /\ Accounted

\* Ranking is a strict order.
LEMMA RankIsAnOrder ==
  ASSUME TypeOK
  PROVE  /\ \A v \in Workers : ~Outranks(v, v)
         /\ \A u, v, w \in Workers :
              Outranks(u, v) /\ Outranks(v, w) => Outranks(u, w)
<1>1. Workers \subseteq Nat
  BY WorkersAssumption
<1>2. \A w \in Workers : slot[w].updated \in Int
  BY DEF TypeOK, Slot, NoTime
<1>3. ASSUME NEW v \in Workers PROVE ~Outranks(v, v)
  BY <1>1, <1>2 DEF Outranks
<1>4. ASSUME NEW u \in Workers, NEW v \in Workers, NEW w \in Workers,
             Outranks(u, v), Outranks(v, w)
      PROVE  Outranks(u, w)
  <2> DEFINE busy(x) == slot[x].state = "busy"
  <2>1. /\ slot[u].updated \in Int /\ slot[v].updated \in Int
        /\ slot[w].updated \in Int /\ u \in Nat /\ v \in Nat /\ w \in Nat
    BY <1>1, <1>2
  <2>2. \A x, y \in Workers :
          Outranks(x, y) <=>
            \/ slot[x].updated > slot[y].updated
            \/ slot[x].updated = slot[y].updated /\ busy(x) /\ ~busy(y)
            \/ slot[x].updated = slot[y].updated /\ (busy(x) <=> busy(y)) /\ x > y
    BY DEF Outranks
  <2> HIDE DEF busy
  <2>3. CASE slot[u].updated > slot[v].updated \/ slot[v].updated > slot[w].updated
    <3>1. slot[u].updated > slot[w].updated
      BY <1>4, <2>1, <2>2, <2>3
    <3> QED
      BY <2>2, <3>1
  <2>4. CASE /\ ~(slot[u].updated > slot[v].updated)
             /\ ~(slot[v].updated > slot[w].updated)
    <3>1. slot[u].updated = slot[v].updated /\ slot[v].updated = slot[w].updated
      BY <1>4, <2>2, <2>4
    <3>2. \/ busy(u) /\ ~busy(w)
          \/ (busy(u) <=> busy(w)) /\ u > w
      BY <1>4, <2>1, <2>2, <2>4
    <3> QED
      BY <2>2, <3>1, <3>2
  <2> QED
    BY <2>3, <2>4
<1> QED
  BY <1>3, <1>4

\* Among finitely many workers there is one that none of them outranks: the
\* one with the fewest above it.
LEMMA SomebodyRanksFirst ==
  ASSUME TypeOK, NEW S \in SUBSET Workers, S # {}, IsFiniteSet(S)
  PROVE  \E m \in S : \A v \in S : ~Outranks(v, m)
<1> DEFINE Above(w) == {v \in S : Outranks(v, w)}
           T == {Above(w) : w \in S}
<1>1. T \subseteq FiniteSubsetsOf(S) /\ T # {}
  <2>1. \A w \in S : Above(w) \subseteq S /\ IsFiniteSet(Above(w))
    BY FS_Subset
  <2> HIDE DEF Above
  <2>2. QED
    BY <2>1 DEF FiniteSubsetsOf
<1>2. PICK X \in T : \A Y \in T : <<Y, X>> \notin StrictSubsetOrdering(S)
  <2> HIDE DEF T
  <2>1. QED
    BY <1>1, FS_StrictSubsetOrderingWellFounded, WFMin
<1>3. PICK m \in S : X = Above(m)
  OBVIOUS
<1>4. ASSUME NEW v \in S, Outranks(v, m) PROVE FALSE
  <2>1. Above(v) \in T
    OBVIOUS
  <2>2. Above(v) \subseteq X /\ v \in X /\ v \notin Above(v)
    BY <1>3, <1>4, RankIsAnOrder
  <2> HIDE DEF Above
  <2>3. X \in SUBSET S /\ Above(v) \in SUBSET S
    BY <1>1, <2>1, <1>2 DEF FiniteSubsetsOf
  <2>4. QED
    BY <1>2, <2>1, <2>2, <2>3 DEF StrictSubsetOrdering
<1>5. QED
  BY <1>4

\* When the sweep takes its list, whoever is on it is outranked by a worker
\* of the task that is not.
LEMMA LosersHaveACanonical ==
  ASSUME TypeOK, NEW scope \in SUBSET Workers, IsFiniteSet(Existing),
         NEW t \in Tasks, NEW w \in Workers, <<w, t>> \in Losers(scope)
  PROVE  \E v \in OwnersOf(t) \cap scope :
           <<v, t>> \notin Losers(scope) /\ Outranks(v, w)
<1> DEFINE S == OwnersOf(t) \cap scope
<1>1. w \in S /\ \E v \in S : Outranks(v, w)
  BY DEF Losers
<1>2. S \subseteq Existing
  BY DEF OwnersOf, Existing, Leased
<1>3. S \in SUBSET Workers /\ IsFiniteSet(S)
  BY <1>2, FS_Subset DEF Existing
<1>4. PICK m \in S : \A v \in S : ~Outranks(v, m)
  <2> HIDE DEF S
  <2>1. QED
    BY <1>1, <1>3, SomebodyRanksFirst
<1>5. <<m, t>> \notin Losers(scope)
  BY <1>4 DEF Losers
<1>6. Outranks(m, w)
  BY <1>1, <1>3, <1>4, RankIsTotal
<1>7. QED
  BY <1>5, <1>6

\* At any time finitely many slot files exist: a step makes at most one.
LEMMA FewSlots ==
  ASSUME Inv, IsFiniteSet(Existing), [Next]_vars
  PROVE  IsFiniteSet(Existing')
<1>1. ASSUME NEW w \in Workers, \A v \in Workers : v # w => slot'[v] = slot[v]
      PROVE  IsFiniteSet(Existing')
  <2>1. Existing' \subseteq Existing \cup {w}
    BY <1>1 DEF Existing
  <2>2. IsFiniteSet(Existing \cup {w})
    BY FS_AddElement
  <2>3. QED
    BY <2>1, <2>2, FS_Subset
<1> USE DEF Inv, TypeOK
<1>2. ASSUME NEW w \in Workers,
             \/ \E t \in Tasks, d \in Leases : AcquireByHand(w, t, d)
             \/ \E a \in Assigners, d \in Leases : AssignOwner(a, w, d)
             \/ \E state \in States \ {"absent", "busy"} : Release(w, state)
             \/ \E d \in Leases : Heartbeat(w, d)
      PROVE  IsFiniteSet(Existing')
  <2>1. \A v \in Workers : v # w => slot'[v] = slot[v]
    BY <1>2 DEF AcquireByHand, AssignOwner, Acquire, Lease, Release, Heartbeat
  <2>2. QED
    BY <1>1, <2>1
<1>3. ASSUME NEW r \in Readers, WriteBack(r) PROVE IsFiniteSet(Existing')
  <2>1. copy[r].worker \in Workers
    BY <1>3 DEF WriteBack, Copy
  <2>2. \A v \in Workers : v # copy[r].worker => slot'[v] = slot[v]
    BY <1>3 DEF WriteBack
  <2>3. QED
    BY <1>1, <2>1, <2>2
<1>4. CASE SweepFrees
  <2>1. sweep.worker \in Workers
    BY <1>4, SweepFields DEF SweepFrees, Judging
  <2>2. \A v \in Workers : v # sweep.worker => slot'[v] = slot[v]
    BY <1>4 DEF SweepFrees
  <2>3. QED
    BY <1>1, <2>1, <2>2
<1>5. CASE UNCHANGED slot
  BY <1>5 DEF Existing
<1>6. CASE Sweep /\ ~SweepFrees
  BY <1>5, <1>6 DEF Sweep, SweepCalled, SweepLocks, SweepPasses, SweepDecides,
     SweepMarks, SweepEnds, SweepCrashes
<1>7. QED
  BY <1>2, <1>3, <1>4, <1>5, <1>6
     DEF Next, TaskMoves, ReadSlot, CheckOwner, Tick, vars

\* The clock does not go back, and what others do to a task while the sweep
\* has the lock is recorded.
LEMMA OthersAreRecorded ==
  ASSUME Inv, [Next]_vars, ~Sweep
  PROVE  /\ sweep' = sweep /\ clock' \in Nat /\ clock <= clock'
         /\ ~LockFree => /\ touched \subseteq touched'
                         /\ \A t \in Tasks \ touched' : task'[t] = task[t]
<1> USE DEF Inv, TypeOK
<1>1. CASE UNCHANGED <<sweep, clock, touched, task>>
  BY <1>1
<1>2. ASSUME NEW t \in Tasks, NEW to \in TaskStates, TaskMoves(t, to)
      PROVE  /\ sweep' = sweep /\ clock' = clock
             /\ ~LockFree => /\ touched \subseteq touched'
                             /\ \A u \in Tasks \ touched' : task'[u] = task[u]
  BY <1>2 DEF TaskMoves
<1>3. CASE Tick
  BY <1>3 DEF Tick
<1>4. ASSUME NEW w \in Workers,
             \/ \E t \in Tasks, d \in Leases : AcquireByHand(w, t, d)
             \/ \E a \in Assigners, d \in Leases : AssignOwner(a, w, d)
             \/ \E state \in States \ {"absent", "busy"} : Release(w, state)
             \/ \E d \in Leases : Heartbeat(w, d)
             \/ \E r \in Readers : ReadSlot(r, w)
      PROVE  UNCHANGED <<sweep, clock, touched, task>>
  BY <1>4 DEF AcquireByHand, AssignOwner, Release, Heartbeat, ReadSlot
<1>5. CASE \/ \E a \in Assigners, t \in Tasks : CheckOwner(a, t)
           \/ \E r \in Readers : WriteBack(r)
           \/ UNCHANGED vars
  BY <1>1, <1>5 DEF CheckOwner, WriteBack, vars
<1>6. CASE \E t \in Tasks, to \in TaskStates : TaskMoves(t, to)
  BY <1>2, <1>6
<1>7. QED
  BY <1>1, <1>3, <1>4, <1>5, <1>6 DEF Next
\* The slot under judgement is a leased one, of a task.
LEMMA JudgedOwner ==
  ASSUME Inv, SweepInv, ~clobbered, sweep.pc \in {"mark", "free"}
  PROVE  /\ sweep \in Judging
         /\ sweep.worker \in Workers /\ slot[sweep.worker] = sweep.slot
         /\ sweep.slot.task \in Tasks
         /\ sweep.worker \in OwnersOf(sweep.slot.task)
<1>1. sweep \in Judging
  BY SweepFields DEF Inv
<1>2. sweep.worker \in Workers /\ sweep.slot \in Slot
  BY <1>1 DEF Judging
<1>3. slot[sweep.worker] = sweep.slot /\ sweep.slot.state \in Leased
  BY DEF SweepInv, Held
<1>4. sweep.slot.task # None
  BY <1>2, <1>3 DEF Inv, AllBound, Bound
<1>5. sweep.slot.task \in Tasks
  BY <1>2, <1>4 DEF Slot
<1>6. QED
  BY <1>1, <1>2, <1>3, <1>5 DEF OwnersOf

\* What others do while the sweep has the lock only adds to the excuses.
LEMMA OthersAccount ==
  ASSUME Inv, SweepInv, Accounted, [Next]_vars, ~Sweep
  PROVE  Accounted'
<1> SUFFICES ASSUME ~clobbered', sweep'.pc \in {"look", "mark", "free"}
             PROVE  LosersAhead' /\ StaleMarked' /\ Grounds'
  BY DEF Accounted
<1>1. sweep' = sweep /\ ~LockFree
  BY OthersAreRecorded DEF LockFree
<1>2. /\ ~clobbered /\ slot' = slot /\ touched \subseteq touched'
      /\ \A t \in Tasks \ touched' : task'[t] = task[t]
  BY <1>1, OthersWait, OthersAreRecorded
<1>3. LosersAhead /\ StaleMarked /\ Grounds
  BY <1>1, <1>2 DEF Accounted
<1>4. ASSUME NEW w \in Workers, NEW t \in Tasks
      PROVE  /\ OwnersOf(t)' = OwnersOf(t)
             /\ Canonical(w, t) => Canonical(w, t)'
             /\ Excused(w, t) => Excused(w, t)'
  <2>1. OwnersOf(t)' = OwnersOf(t)
    BY <1>2 DEF OwnersOf
  <2>2. Canonical(w, t) => Canonical(w, t)'
    BY <1>1, <1>2, <2>1 DEF Canonical, Outranks
  <2>3. Excused(w, t) => Excused(w, t)'
    BY <1>1, <1>2 DEF Excused
  <2>4. QED
    BY <2>1, <2>2, <2>3
<1>5. LosersAhead'
  BY <1>1, <1>3, <1>4 DEF LosersAhead
<1>6. StaleMarked'
  BY <1>1, <1>2, <1>3 DEF StaleMarked
<1>7. Grounds'
  <2>1. SUFFICES ASSUME sweep.pc \in {"mark", "free"} PROVE Grounds'
    BY <1>1 DEF Grounds
  <2>2. sweep.slot.task \in Tasks
    BY <1>2, <2>1, JudgedOwner
  <2>3. QED
    BY <1>1, <1>2, <1>3, <2>2 DEF Grounds
<1>8. QED
  BY <1>5, <1>6, <1>7
\* The list of duplicates is complete and in order when it is made.
LEMMA LocksAccount ==
  ASSUME Inv, IsFiniteSet(Existing), NEW scope \in SUBSET Workers,
         SweepLocks(scope)
  PROVE  Accounted'
<1>1. /\ sweep'.pc = "look" /\ sweep'.scope = scope
      /\ sweep'.losers = Losers(scope) /\ sweep'.stale = {}
      /\ slot' = slot
  BY DEF SweepLocks
<1>2. ASSUME NEW w \in Workers, NEW t \in Tasks, <<w, t>> \in Losers(scope)
      PROVE  w \in scope /\ Canonical(w, t)'
  <2>1. PICK v \in OwnersOf(t) \cap scope :
          <<v, t>> \notin Losers(scope) /\ Outranks(v, w)
    BY <1>2, LosersHaveACanonical DEF Inv
  <2>2. v \in OwnersOf(t)' /\ Outranks(v, w)'
    BY <1>1, <2>1 DEF OwnersOf, Outranks
  <2>3. QED
    BY <1>1, <1>2, <2>1, <2>2 DEF Canonical, Losers
<1>3. LosersAhead'
  BY <1>1, <1>2 DEF LosersAhead
<1>4. StaleMarked' /\ Grounds'
  BY <1>1 DEF StaleMarked, Grounds
<1>5. QED
  BY <1>3, <1>4 DEF Accounted

\* Going past a slot takes nothing from anybody.
LEMMA PassesAccount ==
  ASSUME Inv, Accounted, NEW w \in Workers, SweepPasses(w)
  PROVE  Accounted'
<1>1. sweep \in Looking /\ sweep.pc = "look"
  BY SweepFields DEF SweepPasses, Inv
<1>2. /\ sweep'.pc = "look" /\ sweep'.scope = sweep.scope
      /\ sweep'.losers = sweep.losers /\ sweep'.stale = sweep.stale
  BY <1>1 DEF SweepPasses, Looking
<1>3. UNCHANGED <<slot, task, touched, clobbered>>
  BY DEF SweepPasses, SweepUnchanged
<1>4. QED
  BY <1>1, <1>2, <1>3
     DEF Accounted, LosersAhead, StaleMarked, Grounds, Canonical, Excused,
         OwnersOf, Outranks

\* A verdict has grounds, and a lease that ran out is noted.
LEMMA DecidesAccount ==
  ASSUME Inv, Accounted, NEW w \in Workers, SweepDecides(w)
  PROVE  Accounted'
<1> DEFINE u == slot[w].task
<1>1. /\ sweep.pc = "look" /\ sweep'.scope = sweep.scope
      /\ sweep'.pc = (IF Orphans(w) THEN "mark" ELSE "free")
      /\ sweep'.now = sweep.now /\ sweep'.losers = sweep.losers
      /\ sweep'.stale = sweep.stale \cup NewlyStale(w)
      /\ sweep'.worker = w /\ sweep'.slot = slot[w]
  BY DEF SweepDecides
<1>2. UNCHANGED <<slot, task, touched, clobbered>> /\ Reclaims(w)
  BY DEF SweepDecides, SweepUnchanged
<1> SUFFICES ASSUME ~clobbered PROVE LosersAhead' /\ StaleMarked' /\ Grounds'
  BY <1>2 DEF Accounted
<1>3. LosersAhead /\ StaleMarked
  BY <1>1 DEF Accounted
<1>4. slot[w].state \in Leased /\ u # None
  BY <1>2 DEF Reclaims, Inv, AllBound, Bound
<1>5. LosersAhead'
  <2>1. \A v \in Workers, t \in Tasks :
          Canonical(v, t) => Canonical(v, t)'
    BY <1>1, <1>2 DEF Canonical, OwnersOf, Outranks
  <2>2. \A v \in Workers, t \in Tasks :
          Excused(v, t) => Excused(v, t)'
    BY <1>1, <1>2 DEF Excused
  <2>3. \A t \in Tasks : OwnersOf(t)' = OwnersOf(t)
    BY <1>2 DEF OwnersOf
  <2>4. QED
    BY <1>1, <1>3, <2>1, <2>2, <2>3 DEF LosersAhead
<1>6. StaleMarked'
  <2>1. ASSUME NEW v \in Workers, NEW t \in Tasks, <<v, t>> \in NewlyStale(w)
        PROVE  /\ v = w /\ t = u /\ <<v, t>> \notin sweep.losers
               /\ task[t] = "awaiting" => sweep'.pc = "mark"
    BY <1>1, <2>1 DEF NewlyStale, Lapses, Orphans, IsLoser
  <2>2. QED
    BY <1>1, <1>2, <1>3, <2>1 DEF StaleMarked
<1>7. Grounds'
  <2>1. \/ task[u] = "over"
        \/ <<w, u>> \in sweep.losers
        \/ <<w, u>> \in NewlyStale(w) /\ slot[w].expires <= sweep.now
    BY <1>2, <1>4 DEF Reclaims, NewlyStale, Lapses, IsLoser, Overdue
  <2>2. Orphans(w) =>
          <<w, u>> \in NewlyStale(w) /\ slot[w].expires <= sweep.now
    BY DEF Orphans, NewlyStale, Lapses, Overdue
  <2>3. QED
    BY <1>1, <1>2, <2>1, <2>2 DEF Grounds
<1>8. QED
  BY <1>5, <1>6, <1>7

\* The stale mark is what the lease that ran out costs the task.
LEMMA MarksAccount ==
  ASSUME Inv, SweepInv, Accounted, SweepMarks
  PROVE  Accounted'
<1> SUFFICES ASSUME ~clobbered PROVE LosersAhead' /\ StaleMarked' /\ Grounds'
  BY DEF Accounted, SweepMarks, SweepUnchanged
<1> DEFINE u == sweep.slot.task
<1>1. sweep.pc = "mark" /\ sweep \in Judging /\ u \in Tasks
      /\ sweep.worker \in Workers
  BY JudgedOwner DEF SweepMarks
<1>2. /\ sweep'.pc = "free" /\ sweep'.scope = sweep.scope
      /\ sweep'.now = sweep.now /\ sweep'.losers = sweep.losers
      /\ sweep'.stale = sweep.stale /\ sweep'.worker = sweep.worker
      /\ sweep'.slot = sweep.slot
  BY <1>1 DEF SweepMarks, Judging
<1>3. /\ slot' = slot /\ touched' = touched
      /\ task'[u] = "other" /\ \A t \in Tasks \ {u} : task'[t] = task[t]
  BY <1>1 DEF SweepMarks, Inv, TypeOK
<1>4. /\ LosersAhead /\ StaleMarked
      /\ <<sweep.worker, u>> \in sweep.stale
      /\ sweep.slot.expires <= sweep.now
  BY <1>1 DEF Accounted, Grounds
<1>5. LosersAhead'
  <2>1. ASSUME NEW w \in Workers, NEW t \in Tasks,
               <<w, t>> \in sweep.losers, w \in OwnersOf(t)
        PROVE  w \in sweep.scope /\ (Canonical(w, t)' \/ Excused(w, t)')
    <3>1. w \in sweep.scope /\ (Canonical(w, t) \/ Excused(w, t))
      BY <1>4, <2>1 DEF LosersAhead
    <3>2. Canonical(w, t) => Canonical(w, t)'
      BY <1>2, <1>3 DEF Canonical, OwnersOf, Outranks
    <3>3. CASE Excused(w, t) /\ t # u
      BY <1>2, <1>3, <3>1, <3>3 DEF Excused
    <3>4. CASE t = u
      <4>1. w # sweep.worker
        BY <1>1, <1>4, <2>1, <3>4 DEF StaleMarked
      <4>2. Excused(w, t)'
        BY <1>1, <1>2, <1>4, <3>4, <4>1 DEF Excused
      <4>3. QED
        BY <3>1, <4>2
    <3>5. QED
      BY <3>1, <3>2, <3>3, <3>4
  <2>2. \A t \in Tasks : OwnersOf(t)' = OwnersOf(t)
    BY <1>3 DEF OwnersOf
  <2>3. QED
    BY <1>2, <2>1, <2>2 DEF LosersAhead
<1>6. StaleMarked'
  BY <1>1, <1>2, <1>3, <1>4 DEF StaleMarked
<1>7. Grounds'
  BY <1>1, <1>2, <1>4 DEF Grounds
<1>8. QED
  BY <1>5, <1>6, <1>7
\* When the worker that was to stay goes, its lease was over, or its task.
LEMMA FreesAccount ==
  ASSUME Inv, SweepInv, Accounted, SweepFrees
  PROVE  Accounted'
<1> SUFFICES ASSUME ~clobbered PROVE LosersAhead' /\ StaleMarked' /\ Grounds'
  BY DEF Accounted, SweepFrees, SweepUnchanged
<1> DEFINE u == sweep.slot.task
           new == Unleased(ReleaseState(sweep.slot.state))
<1>1. sweep.pc = "free" /\ sweep \in Judging /\ u \in Tasks
      /\ sweep.worker \in Workers /\ slot[sweep.worker] = sweep.slot
  BY JudgedOwner DEF SweepFrees
<1>2. /\ sweep'.pc = "look" /\ sweep'.scope = sweep.scope
      /\ sweep'.losers = sweep.losers /\ sweep'.stale = sweep.stale
      /\ task' = task /\ touched' = touched
      /\ slot' = [slot EXCEPT ![sweep.worker] = new]
  BY DEF SweepFrees
<1>3. new.state \notin Leased
  BY <1>1, ReleaseStateUnleased DEF Judging, Slot, Unleased
<1> HIDE DEF new
<1>4. /\ slot'[sweep.worker] = new
      /\ \A v \in Workers : v # sweep.worker => slot'[v] = slot[v]
  BY <1>1, <1>2 DEF Inv, TypeOK
<1>5. \A t \in Tasks : OwnersOf(t)' = OwnersOf(t) \ {sweep.worker}
  BY <1>3, <1>4 DEF OwnersOf
<1>6. LosersAhead /\ StaleMarked /\ Grounds
  BY <1>1 DEF Accounted
<1>7. \A w \in Workers, t \in Tasks : Excused(w, t) => Excused(w, t)'
  BY <1>2 DEF Excused
<1>8. ASSUME NEW w \in Workers, NEW t \in Tasks,
             <<w, t>> \in sweep.losers, w \in OwnersOf(t), w # sweep.worker
      PROVE  w \in sweep.scope /\ (Canonical(w, t)' \/ Excused(w, t)')
  <2>1. w \in sweep.scope /\ (Canonical(w, t) \/ Excused(w, t))
    BY <1>6, <1>8 DEF LosersAhead
  <2>2. CASE Canonical(w, t)
    <3>1. PICK v \in OwnersOf(t) \cap sweep.scope :
            <<v, t>> \notin sweep.losers /\ Outranks(v, w)
      BY <2>2 DEF Canonical
    <3>2. CASE v = sweep.worker
      <4>1. t = u
        BY <1>1, <3>1, <3>2 DEF OwnersOf
      <4>2. Excused(w, t)
        BY <1>1, <1>6, <1>8, <3>1, <3>2, <4>1 DEF Grounds, Excused
      <4>3. QED
        BY <1>7, <2>1, <4>2
    <3>3. CASE v # sweep.worker
      <4>1. v \in Workers /\ v \in OwnersOf(t)'
        BY <1>5, <3>1, <3>3 DEF OwnersOf
      <4>2. Outranks(v, w)'
        BY <1>4, <1>8, <3>1, <3>3, <4>1 DEF Outranks
      <4>3. Canonical(w, t)'
        BY <1>2, <3>1, <4>1, <4>2 DEF Canonical
      <4>4. QED
        BY <2>1, <4>3
    <3>4. QED
      BY <3>2, <3>3
  <2>3. QED
    BY <1>7, <2>1, <2>2
<1>9. LosersAhead'
  BY <1>2, <1>5, <1>8 DEF LosersAhead
<1>10. StaleMarked'
  BY <1>1, <1>2, <1>6 DEF StaleMarked
<1>11. Grounds'
  BY <1>2 DEF Grounds
<1>12. QED
  BY <1>9, <1>10, <1>11

\* Every step keeps the account of what the sweep leaves each task.
LEMMA KeepStep == Inv /\ SweepInv /\ KeepInv /\ [Next]_vars => KeepInv'
<1> SUFFICES ASSUME Inv, SweepInv, KeepInv, [Next]_vars PROVE KeepInv'
  OBVIOUS
<1>1. IsFiniteSet(Existing')
  BY FewSlots DEF KeepInv
<1>2. CASE ~Sweep
  <2>1. Accounted'
    BY <1>2, OthersAccount DEF KeepInv
  <2>2. sweep' = sweep /\ clock' \in Nat /\ clock <= clock' /\ clock \in Nat
    BY <1>2, OthersAreRecorded DEF Inv, TypeOK
  <2>3. sweep.pc # "resting" => sweep.now \in Nat
    BY DEF Inv, TypeOK, Idle, Looking, Judging
  <2>4. sweep'.pc # "resting" => sweep'.now <= clock'
    BY <2>2, <2>3 DEF KeepInv
  <2>5. QED
    BY <1>1, <2>1, <2>4 DEF KeepInv
<1>3. CASE Sweep
  <2>1. clock' = clock /\ clock \in Nat
    BY <1>3 DEF Sweep, SweepCalled, SweepLocks, SweepPasses, SweepDecides,
       SweepMarks, SweepFrees, SweepEnds, SweepCrashes, SweepUnchanged,
       Inv, TypeOK
  <2>2. CASE SweepCalled \/ SweepEnds \/ SweepCrashes
    <3>1. sweep'.pc \in {"resting", "called"} /\ (sweep'.pc = "called" => sweep'.now = clock)
      BY <2>2 DEF SweepCalled, SweepEnds, SweepCrashes, Resting
    <3>2. QED
      BY <1>1, <2>1, <3>1 DEF KeepInv, Accounted
  <2>3. ASSUME NEW scope \in SUBSET Workers, SweepLocks(scope) PROVE KeepInv'
    <3>1. Accounted'
      BY <2>3, LocksAccount DEF KeepInv
    <3>2. sweep'.now = sweep.now /\ sweep.pc # "resting"
      BY <2>3 DEF SweepLocks
    <3>3. QED
      BY <1>1, <2>1, <3>1, <3>2 DEF KeepInv
  <2>4. ASSUME NEW w \in Workers, SweepPasses(w) \/ SweepDecides(w)
        PROVE  KeepInv'
    <3>1. Accounted'
      BY <2>4, PassesAccount, DecidesAccount DEF KeepInv
    <3>2. sweep \in Looking /\ sweep.pc = "look"
      BY <2>4, SweepFields DEF SweepPasses, SweepDecides, Inv
    <3>3. sweep'.now = sweep.now
      BY <2>4, <3>2 DEF SweepPasses, SweepDecides, Looking
    <3>4. QED
      BY <1>1, <2>1, <3>1, <3>2, <3>3 DEF KeepInv
  <2>5. CASE SweepMarks \/ SweepFrees
    <3>1. Accounted'
      BY <2>5, MarksAccount, FreesAccount DEF KeepInv
    <3>2. sweep \in Judging /\ sweep.pc # "resting"
      BY <2>5, SweepFields DEF SweepMarks, SweepFrees, Inv
    <3>3. sweep'.now = sweep.now
      BY <2>5, <3>2 DEF SweepMarks, SweepFrees, Judging
    <3>4. QED
      BY <1>1, <2>1, <3>1, <3>2, <3>3 DEF KeepInv
  <2>6. QED
    <3>1. Existing \subseteq Workers
      BY DEF Existing
    <3>2. QED
      BY <1>3, <2>2, <2>3, <2>4, <2>5, <3>1 DEF Sweep
<1>4. QED
  BY <1>2, <1>3

(***************************************************************************)
(* While the sweep has the lock, a duplicate is outranked by the worker    *)
(* that stays, unless that one went for cause, and a lease that ran out    *)
(* has been told to its task (reconcile_worker_slots).                     *)
(***************************************************************************)
THEOREM AccountInvariance == Spec => []KeepInv
<1>1. Init => KeepInv
  <2> SUFFICES ASSUME Init PROVE KeepInv
    OBVIOUS
  <2>1. Existing = {}
    BY DEF Init, Existing, Unleased
  <2>2. QED
    BY <2>1, FS_EmptySet DEF Init, KeepInv, Accounted, Resting
<1>2. QED
  BY <1>1, Invariance, SweepInvariance, KeepStep, PTL DEF Spec

(***************************************************************************)
(* The sweep takes the last worker from a task that waits for its report   *)
(* only after it marked the task stale, whatever else is going on.         *)
(***************************************************************************)
THEOREM OwnersAreKept == Spec => SweepKeepsOwner
<1>1. ASSUME Inv, SweepInv, KeepInv, [Next]_vars, ~clobbered,
             sweep.pc = "free", sweep'.pc = "look",
             NEW t \in Tasks \ touched, task[t] = "awaiting", Owned(t)
      PROVE  Owned(t)'
  <2>1. SweepFrees
    <3>1. Sweep
      BY <1>1, OthersAreRecorded
    <3>2. QED
      BY <1>1, <3>1 DEF Sweep, SweepCalled, SweepLocks, SweepPasses,
         SweepDecides, SweepMarks, SweepEnds, SweepCrashes, Resting
  <2>2. \A v \in Workers : v # sweep.worker => slot'[v] = slot[v]
    BY <1>1, <2>1 DEF SweepFrees, Inv, TypeOK
  <2>3. PICK v \in OwnersOf(t) : v \in Workers
    BY <1>1 DEF Owned, OwnersOf
  <2>4. ASSUME NEW x \in OwnersOf(t), x # sweep.worker PROVE Owned(t)'
    BY <2>2, <2>4 DEF Owned, OwnersOf
  <2>5. CASE v = sweep.worker
    <3>1. t = sweep.slot.task
      BY <1>1, <2>3, <2>5, JudgedOwner DEF OwnersOf
    <3>2. LosersAhead /\ StaleMarked /\ Grounds
      BY <1>1 DEF KeepInv, Accounted
    <3>3. ~\E x \in Workers : <<x, t>> \in sweep.stale
      BY <1>1, <3>2 DEF StaleMarked
    <3>4. <<v, t>> \in sweep.losers
      BY <1>1, <2>3, <2>5, <3>1, <3>2, <3>3 DEF Grounds
    <3>5. Canonical(v, t)
      BY <1>1, <2>3, <3>2, <3>3, <3>4 DEF LosersAhead, Excused
    <3>6. PICK x \in OwnersOf(t) : Outranks(x, v)
      BY <3>5 DEF Canonical
    <3>7. x # v
      BY <1>1, <2>3, <3>6, RankIsAnOrder DEF Inv
    <3>8. QED
      BY <2>4, <2>5, <3>6, <3>7
  <2>6. QED
    BY <2>3, <2>4, <2>5
<1>2. Inv /\ SweepInv /\ KeepInv /\ [Next]_vars =>
        [sweep.pc = "free" /\ sweep'.pc = "look" /\ ~clobbered =>
           \A t \in Tasks \ touched :
             task[t] = "awaiting" /\ Owned(t) => Owned(t)']_vars
  BY <1>1
<1>3. QED
  BY <1>2, Invariance, SweepInvariance, AccountInvariance, PTL
     DEF Spec, SweepKeepsOwner

(***************************************************************************)
(* A running lease is cut short only for a worker that ranks first, or     *)
(* ranked first until the same sweep found its lease over.                 *)
(***************************************************************************)
THEOREM LeasesAreHonoured == Spec => LeaseIsHonoured
<1>1. ASSUME Inv, SweepInv, KeepInv, ~clobbered, sweep.pc = "free",
             sweep.slot.task \in Tasks \ touched,
             task[sweep.slot.task] # "over", sweep.slot.expires > clock
      PROVE  \E v \in Workers \ {sweep.worker} :
               \/ v \in OwnersOf(sweep.slot.task) /\ Outranks(v, sweep.worker)
               \/ <<v, sweep.slot.task>> \in sweep.stale
  <2> DEFINE t == sweep.slot.task
             w == sweep.worker
  <2>1. /\ sweep \in Judging /\ w \in Workers
        /\ slot[w] = sweep.slot /\ t \in Tasks /\ w \in OwnersOf(t)
    BY <1>1, JudgedOwner
  <2>2. /\ sweep.slot.expires \in Int /\ sweep.now \in Int /\ clock \in Int
        /\ sweep.now <= clock
    BY <1>1, <2>1 DEF Judging, Slot, NoTime, Inv, TypeOK, KeepInv
  <2>3. LosersAhead /\ Grounds
    BY <1>1 DEF KeepInv, Accounted
  <2>4. <<w, t>> \in sweep.losers
    BY <1>1, <2>2, <2>3 DEF Grounds
  <2>5. Canonical(w, t) \/ \E v \in Workers : v # w /\ <<v, t>> \in sweep.stale
    BY <1>1, <2>1, <2>3, <2>4 DEF LosersAhead, Excused
  <2>6. CASE Canonical(w, t)
    <3>1. PICK v \in OwnersOf(t) : Outranks(v, w)
      BY <2>6 DEF Canonical
    <3>2. v \in Workers /\ v # w
      BY <1>1, <2>1, <3>1, RankIsAnOrder DEF Inv, OwnersOf
    <3>3. QED
      BY <3>1, <3>2
  <2>7. QED
    BY <2>5, <2>6
<1>2. Inv /\ SweepInv /\ KeepInv =>
        [LET t == sweep.slot.task IN
         /\ sweep.pc = "free" /\ sweep'.pc = "look" /\ ~clobbered
         /\ t \in Tasks \ touched
         /\ task[t] # "over"
         /\ sweep.slot.expires > clock
         => \E v \in Workers \ {sweep.worker} :
              \/ v \in OwnersOf(t) /\ Outranks(v, sweep.worker)
              \/ <<v, t>> \in sweep.stale]_vars
  BY <1>1
<1>3. QED
  BY <1>2, Invariance, SweepInvariance, AccountInvariance, PTL
     DEF LeaseIsHonoured
==========================================================================

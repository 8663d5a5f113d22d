----------------------- MODULE TaskLifecycleProofs -----------------------
(***************************************************************************)
(* Commands on a task that follow one another, for any keys, packets and   *)
(* reports, any number of crashes and any passing of time: they implement  *)
(* TaskLedger, leave one event per key, and the stamps, the event trail    *)
(* and the catalog row tell the status.                                    *)
(*                                                                         *)
(* Everything rests on what a script decided still being true when it      *)
(* writes.  With commands that overlap this fails, and with it most of     *)
(* what follows; so all theorems but TypeCorrect are about one process.    *)
(***************************************************************************)
EXTENDS TaskLifecycle, SequenceTheorems, TLAPS

USE NewPacketsAssumption, NewReportsAssumption, KeysAssumption,
    StaleAfterAssumption, BoundsAssumption

\* Commands follow one another: there is one process.
OneAtATime == Procs # {} /\ \A p, q \in Procs : p = q

Events         == KeyedEvents \cup StatusEvents
StatusCommands == {cmd \in Commands : cmd.op \in Statuses}

\* What a process can be in the middle of.
RunStates ==
  {Idle}
    \cup [pc : {"load"}, cmd : StatusCommands]
    \cup [pc : {"store"}, cmd : StatusCommands, loaded : Record, now : Times]
    \cup [pc : {"check"}, cmd : Commands, events : Seq(Events)]
    \cup [pc : {"append"}, cmd : Commands, events : Seq(Events) \ {<<>>}]
    \cup [pc : {"publish"}]

TInv == TypeOK /\ run \in [Procs -> RunStates]

\* The part of Allowed(op) that time cannot change.
Granted(op) ==
  CASE op = "close"     -> phase = "ready_to_close" /\ ~openAgents
    [] op = "archive"   -> record.status = "closed"
    [] op = "cancel"    -> record.status \in {"active", "stale"} /\ ~openAgents
    [] op = "reopen"    -> record.status \in {"stale", "canceled"}
    [] op = "sweep"     -> phase = "awaiting_report"
    [] op = "revive"    -> record.status = "stale"
    [] op = "markStale" -> record.status = "active"

\* What is left of the events a command appends.
Remaining(op) == {EventsOf(op), Tail(EventsOf(op)), <<>>}

\* The command wrote a new status that no event tells of yet.
Untold(r) ==
  r.pc \in {"check", "append"} /\ r.cmd.op \in Statuses /\ r.events # <<>>

\* What was decided and loaded is still so; what is about to be appended is
\* not there.
Steady(p) ==
  /\ run[p].pc \in {"load", "store"} => Granted(run[p].cmd.op)
  /\ run[p].pc = "store" => run[p].loaded = record
  /\ run[p].pc \in {"check", "append"} =>
       run[p].events \in Remaining(run[p].cmd.op)
  /\ run[p].pc = "append" =>
       (run[p].cmd.key \in Keys =>
          log.count[<<Head(run[p].events), run[p].cmd.key>>] = 0)
  /\ Untold(run[p]) =>
       /\ record.status = StatusAfter(run[p].cmd.op)
       /\ \A k \in Keys :
            /\ run[p].cmd.op = "close" => log.count[<<"task_closed", k>>] = 0
            /\ run[p].cmd.op = "archive" => log.count[<<"task_archived", k>>] = 0

\* An event in the log tells of what is on disk.
Recorded ==
  \A k \in Keys :
    /\ log.count[<<"task_closed", k>>] > 0 => record.status \in {"closed", "archived"}
    /\ log.count[<<"task_archived", k>>] > 0 => record.status = "archived"

LastStatus ==
  CASE log.lastStatusEvent = "task_closed"       -> "closed"
    [] log.lastStatusEvent = "task_archived"     -> "archived"
    [] log.lastStatusEvent = "task_canceled"     -> "canceled"
    [] log.lastStatusEvent = "task_stale_marked" -> "stale"
    [] OTHER                                     -> "active"

\* As long as nothing was cut short: the event trail is behind only between
\* the write and its event, the row only until the script publishes.
Told(p) ==
  crashes = 0 =>
    /\ ~Untold(run[p]) => record.status = LastStatus
    /\ run[p].pc \in {"idle", "load", "store"} =>
         catalog.status = record.status \/ catalog.failed

DInv ==
  /\ AtMostOnce
  /\ StampsTellTheStatus
  /\ Recorded
  /\ \A p \in Procs : Steady(p) /\ Told(p)

CInv == TInv /\ DInv

----------------------------------------------------------------------------
(* Lemmas on commands and their events *)

LEMMA CommandFacts ==
  ASSUME NEW cmd \in Commands
  PROVE  /\ cmd.op \in Statuses \cup {"dispatch", "ingest"}
         /\ cmd.key \in Keys \cup {NoKey}
         /\ cmd.key \in Keys => cmd.op \in {"dispatch", "ingest", "close", "archive"}
         /\ cmd.op = "dispatch" => cmd.arg \in NewPackets
         /\ cmd.op = "ingest" => cmd.arg \in NewReports
         /\ cmd.op \in Statuses => cmd \in StatusCommands
BY DEF Commands, Statuses, StatusCommands

LEMMA ShortSequences ==
  ASSUME NEW e \in Events, NEW f \in Events
  PROVE  /\ <<e>> \in Seq(Events) /\ <<e, f>> \in Seq(Events)
         /\ <<>> \in Seq(Events)
         /\ <<e>> # <<>> /\ <<e, f>> # <<>>
         /\ Head(<<e>>) = e /\ Head(<<e, f>>) = e
         /\ Tail(<<e>>) = <<>> /\ Tail(<<e, f>>) = <<f>>
OBVIOUS

\* What a command still has to append, op by op.
LEMMA EventFacts ==
  ASSUME NEW cmd \in Commands, NEW s \in Remaining(cmd.op)
  PROVE  /\ s \in Seq(Events)
         /\ s # <<>> =>
              /\ Tail(s) \in Remaining(cmd.op)
              /\ Head(s) \in Events
              /\ cmd.key \in Keys => Head(s) \in KeyedEvents
              /\ cmd.op \in Statuses => Tail(s) = <<>> /\ s = EventsOf(cmd.op)
              /\ cmd.op \notin Statuses => Head(s) \notin StatusEvents
<1>1. cmd.op \in Statuses => \E e \in StatusEvents :
        /\ EventsOf(cmd.op) = <<e>>
        /\ cmd.op \in {"close", "archive"} => e \in KeyedEvents
  BY DEF EventsOf, Statuses, StatusEvents, KeyedEvents
<1>2. /\ cmd.op = "dispatch" => EventsOf(cmd.op) = <<"task_dispatched">>
      /\ cmd.op = "ingest" =>
           EventsOf(cmd.op) = <<"task_report_ingested",
                                "task_improvement_candidate_emitted">>
  BY DEF EventsOf
<1>3. CASE cmd.op \in Statuses
  <2>1. PICK e \in StatusEvents :
          /\ EventsOf(cmd.op) = <<e>>
          /\ cmd.op \in {"close", "archive"} => e \in KeyedEvents
    BY <1>1, <1>3
  <2>2. /\ Tail(<<e>>) = <<>> /\ Head(<<e>>) = e /\ <<e>> # <<>>
        /\ <<e>> \in Seq(Events) /\ <<>> \in Seq(Events) /\ e \in Events
    BY ShortSequences DEF Events
  <2>3. s \in {<<e>>, <<>>}
    BY <2>1, <2>2 DEF Remaining
  <2>4. cmd.key \in Keys => cmd.op \in {"close", "archive"}
    BY <1>3, CommandFacts DEF Statuses
  <2> QED
    BY <1>3, <2>1, <2>3, <2>4, <2>2 DEF Remaining
<1>4. CASE cmd.op \in {"dispatch", "ingest"}
  <2>1. cmd.op \notin Statuses
    BY <1>4 DEF Statuses
  <2>2. PICK e, f \in KeyedEvents \ StatusEvents :
          EventsOf(cmd.op) \in {<<e>>, <<e, f>>}
    BY <1>2, <1>4 DEF KeyedEvents, StatusEvents
  <2>3. /\ Tail(<<e>>) = <<>> /\ Tail(<<f>>) = <<>> /\ Tail(<<e, f>>) = <<f>>
        /\ Head(<<e>>) = e /\ Head(<<f>>) = f /\ Head(<<e, f>>) = e
        /\ {<<e, f>>, <<e>>, <<f>>, <<>>} \subseteq Seq(Events)
        /\ e \in Events /\ f \in Events
    BY ShortSequences DEF Events
  <2>4. s \in {<<e, f>>, <<e>>, <<f>>, <<>>}
    BY <2>2, <2>3 DEF Remaining
  <2>5. s # <<>> => Tail(s) \in Remaining(cmd.op)
    BY <2>2, <2>3, <2>4 DEF Remaining
  <2>6. s # <<>> => Head(s) \in KeyedEvents \ StatusEvents
    BY <2>3, <2>4
  <2> QED
    BY <2>1, <2>3, <2>4, <2>5, <2>6
<1> QED
  BY <1>3, <1>4, CommandFacts

\* Each status command appends the event its status is known by.
LEMMA EventTellsStatus ==
  ASSUME NEW op \in Statuses
  PROVE  LET e == Head(EventsOf(op)) IN
         /\ e \in StatusEvents
         /\ e = "task_closed" <=> StatusAfter(op) = "closed"
         /\ e = "task_archived" <=> StatusAfter(op) = "archived"
         /\ e = "task_canceled" <=> StatusAfter(op) = "canceled"
         /\ e = "task_stale_marked" <=> StatusAfter(op) = "stale"
         /\ StatusAfter(op) \in Lifecycles
         /\ e = "task_closed" <=> op = "close"
         /\ e = "task_archived" <=> op = "archive"
BY DEF EventsOf, StatusAfter, Statuses, StatusEvents, Lifecycles

LEMMA EventsStart ==
  ASSUME NEW cmd \in Commands
  PROVE  EventsOf(cmd.op) \in Remaining(cmd.op) /\ EventsOf(cmd.op) \in Seq(Events)
BY EventFacts DEF Remaining

\* A process in the middle of something.
LEMMA RunTyped ==
  ASSUME TInv, NEW p \in Procs
  PROVE  /\ run[p] \in RunStates
         /\ run[p].pc \in {"idle", "load", "store", "check", "append", "publish"}
         /\ run[p].pc = "idle" <=> run[p] = Idle
         /\ run[p].pc \in {"load", "store"} => run[p].cmd \in StatusCommands
         /\ run[p].pc = "store" => run[p].loaded \in Record /\ run[p].now \in Times
         /\ run[p].pc \in {"check", "append"} =>
              /\ run[p] \in [pc : {"check", "append"}, cmd : Commands,
                             events : Seq(Events)]
              /\ run[p].cmd \in Commands
              /\ run[p].events \in Seq(Events)
         /\ run[p].pc = "append" => run[p].events # <<>>
<1>1. run[p] \in RunStates
  BY DEF TInv
<1> QED
  BY <1>1 DEF RunStates, Idle

\* A process that is done with its next event.
LEMMA OneEventLess ==
  ASSUME NEW r \in [pc : {"check", "append"}, cmd : Commands, events : Seq(Events)],
         NEW s
  PROVE  [r EXCEPT !.pc = "check", !.events = s] =
           [pc |-> "check", cmd |-> r.cmd, events |-> s]
<1>1. PICK q : q = [pc |-> "check", cmd |-> r.cmd, events |-> r.events]
  OBVIOUS
<1>2. [r EXCEPT !.pc = "check"] = q
  BY <1>1
<1>3. q \in [pc : {"check", "append"}, cmd : Commands, events : Seq(Events)]
  BY <1>1
<1>4. [q EXCEPT !.events = s] = [pc |-> "check", cmd |-> r.cmd, events |-> s]
  BY <1>1, <1>3
<1> QED
  BY <1>2, <1>4

----------------------------------------------------------------------------
(* Types, whether or not commands overlap *)

\* What update_task_lifecycle writes, field by field.
Written(r, op, now) == [Updated(r, op, now) EXCEPT !.updatedAt = clock]

LEMMA WrittenRecord ==
  ASSUME NEW r \in Record, NEW op \in Statuses, NEW now \in Times, clock \in Times
  PROVE  LET u == Written(r, op, now) IN
         /\ u \in Record
         /\ u.status = StatusAfter(op)
         /\ u.closed <=> r.closed \/ op = "close"
         /\ u.archived <=> r.archived \/ op = "archive"
         /\ u.canceled <=> op = "cancel" \/ (r.canceled /\ op \notin {"reopen", "revive"})
         /\ u.staleAt = IF StatusAfter(op) = "stale" THEN now
                        ELSE IF op = "archive" THEN r.staleAt ELSE NoTime
<1>0. PICK u : u = Written(r, op, now)
  OBVIOUS
<1>1. PICK status \in Lifecycles, closed \in BOOLEAN, archived \in BOOLEAN,
           canceled \in BOOLEAN, staleAt \in Times \cup {NoTime} :
        /\ status = StatusAfter(op)
        /\ closed = (r.closed \/ op = "close")
        /\ archived = (r.archived \/ op = "archive")
        /\ canceled = (op = "cancel" \/ (r.canceled /\ op \notin {"reopen", "revive"}))
        /\ staleAt = IF StatusAfter(op) = "stale" THEN now
                     ELSE IF op = "archive" THEN r.staleAt ELSE NoTime
  <2>1. StatusAfter(op) \in Lifecycles
    BY EventTellsStatus
  <2>2. (IF StatusAfter(op) = "stale" THEN now
         ELSE IF op = "archive" THEN r.staleAt ELSE NoTime) \in Times \cup {NoTime}
    BY DEF Record
  <2> QED
    BY <2>1, <2>2
<1>2. Updated(r, op, now) =
        [r EXCEPT !.status = status, !.closed = closed, !.archived = archived,
                  !.canceled = canceled, !.staleAt = staleAt]
  BY <1>1, Zenon DEF Updated
<1>3. Updated(r, op, now) \in Record
  BY <1>2 DEF Record
<1>4. Updated(r, op, now) =
        [status |-> status, updatedAt |-> r.updatedAt, staleAt |-> staleAt,
         closed |-> closed, archived |-> archived, canceled |-> canceled]
  BY <1>2 DEF Record
<1>5. u \in Record
  BY <1>0, <1>3 DEF Record, Written
<1>6. /\ u.status = status /\ u.closed = closed /\ u.archived = archived
      /\ u.canceled = canceled /\ u.staleAt = staleAt
  BY <1>0, <1>3, <1>4 DEF Record, Written
<1> QED
  BY <1>0, <1>1, <1>5, <1>6

LEMMA TypesInit == Init => TInv
<1> SUFFICES ASSUME Init PROVE TInv
  OBVIOUS
<1>1. record \in Record /\ clock \in Times /\ crashes \in 0..MaxCrashes
  BY DEF Init, Record, Times, Lifecycles, NoTime
<1>2. run \in [Procs -> RunStates]
  BY DEF Init, RunStates
<1>3. /\ wroteAt \in [packet : Times \cup {NoTime}, report : Times \cup {NoTime}]
      /\ log \in [lastAt : Times \cup {NoTime},
                  lastStatusEvent : StatusEvents \cup {"none"},
                  count : [KeyedEvents \X Keys -> 0..2]]
      /\ catalog \in [status : Lifecycles, failed : BOOLEAN]
  BY DEF Init, Lifecycles
<1>4. \A p \in Procs : run[p].pc = "idle"
  BY DEF Init, Idle
<1> QED
  BY <1>1, <1>2, <1>3, <1>4 DEF Init, TInv, TypeOK, Packets

\* A process moves on.
LEMMA RunMoves ==
  ASSUME TInv, NEW p \in Procs, NEW state \in RunStates,
         run' = [run EXCEPT ![p] = state]
  PROVE  /\ run' \in [Procs -> RunStates]
         /\ run'[p] = state
         /\ \A q \in Procs : run'[q].pc \in
              {"idle", "load", "store", "check", "append", "publish"}
<1>1. run' \in [Procs -> RunStates] /\ run'[p] = state
  BY DEF TInv
<1>2. \A st \in RunStates : st.pc \in
        {"idle", "load", "store", "check", "append", "publish"}
  BY DEF RunStates, Idle
<1> QED
  BY <1>1, <1>2

\* Where a step leads the process that takes it.
Enters(p, state) ==
  run' = [run EXCEPT ![p] = state] /\ state \in RunStates

LEMMA StepDecide ==
  ASSUME NEW p \in Procs, NEW cmd \in Commands, Decide(p, cmd)
  PROVE  Enters(p, [pc |-> "load", cmd |-> cmd])
BY CommandFacts DEF Decide, Enters, RunStates

LEMMA StepEnd ==
  ASSUME NEW p \in Procs, NothingToDo(p) \/ Publish(p) \/ Crash(p)
  PROVE  \E state \in {Idle, [pc |-> "publish"]} : Enters(p, state)
<1>1. Idle \in RunStates /\ [pc |-> "publish"] \in RunStates
  BY DEF RunStates
<1> QED
  BY <1>1 DEF NothingToDo, Publish, Crash, Enters

LEMMA StepLoad ==
  ASSUME TInv, NEW p \in Procs, LoadRecord(p)
  PROVE  Enters(p, [pc |-> "store", cmd |-> run[p].cmd,
                    loaded |-> record, now |-> clock])
BY RunTyped DEF LoadRecord, Enters, RunStates, TInv, TypeOK

LEMMA StepStore ==
  ASSUME TInv, NEW p \in Procs, StoreRecord(p)
  PROVE  /\ Enters(p, [pc |-> "check", cmd |-> run[p].cmd,
                       events |-> EventsOf(run[p].cmd.op)])
         /\ run[p].cmd \in StatusCommands
         /\ record' = Written(run[p].loaded, run[p].cmd.op, run[p].now)
<1>1. run[p].cmd \in StatusCommands
  BY RunTyped DEF StoreRecord
<1>2. EventsOf(run[p].cmd.op) \in Seq(Events)
  BY <1>1, EventsStart DEF StatusCommands
<1> QED
  BY <1>1, <1>2 DEF StoreRecord, Enters, RunStates, StatusCommands, Written

LEMMA StepWrite ==
  ASSUME NEW p \in Procs, NEW cmd \in Commands,
         WritePacket(p, cmd) \/ WriteReport(p, cmd)
  PROVE  Enters(p, [pc |-> "check", cmd |-> cmd, events |-> EventsOf(cmd.op)])
BY EventsStart DEF WritePacket, WriteReport, Enters, RunStates

LEMMA StepCheck ==
  ASSUME TInv, NEW p \in Procs, CheckKey(p)
  PROVE  LET cmd == run[p].cmd  events == run[p].events IN
         /\ events = <<>> => Enters(p, [pc |-> "publish"])
         /\ events # <<>> /\ Logged(Head(events), cmd.key) =>
              Enters(p, [pc |-> "check", cmd |-> cmd, events |-> Tail(events)])
         /\ events # <<>> /\ ~Logged(Head(events), cmd.key) =>
              Enters(p, [pc |-> "append", cmd |-> cmd, events |-> events])
<1>1. PICK cmd, events, r : cmd = run[p].cmd /\ events = run[p].events /\ r = run[p]
  OBVIOUS
<1>2. /\ r \in [pc : {"check", "append"}, cmd : Commands, events : Seq(Events)]
      /\ r.pc = "check" /\ r.cmd = cmd /\ r.events = events
      /\ cmd \in Commands /\ events \in Seq(Events)
  BY <1>1, RunTyped DEF CheckKey
<1>3. events # <<>> =>
        Rest(p) = [pc |-> "check", cmd |-> cmd, events |-> Tail(events)]
  BY <1>1, <1>2, OneEventLess DEF Rest
<1>4. [r EXCEPT !.pc = "append"] =
        [pc |-> "append", cmd |-> cmd, events |-> events]
  BY <1>2
<1>5. run' = [run EXCEPT ![p] =
        IF events = <<>> THEN [pc |-> "publish"]
        ELSE IF Logged(Head(events), cmd.key) THEN Rest(p)
        ELSE [r EXCEPT !.pc = "append"]]
  BY <1>1 DEF CheckKey
<1>6. events # <<>> => Tail(events) \in Seq(Events)
  BY <1>2, HeadTailProperties
<1>7. /\ [pc |-> "publish"] \in RunStates
      /\ events # <<>> =>
           /\ [pc |-> "check", cmd |-> cmd, events |-> Tail(events)] \in RunStates
           /\ [pc |-> "append", cmd |-> cmd, events |-> events] \in RunStates
  BY <1>2, <1>6 DEF RunStates
<1> QED
  BY <1>1, <1>3, <1>4, <1>5, <1>7 DEF Enters

LEMMA StepAppend ==
  ASSUME TInv, NEW p \in Procs, AppendEvent(p)
  PROVE  /\ Enters(p, [pc |-> "check", cmd |-> run[p].cmd,
                       events |-> Tail(run[p].events)])
         /\ run[p].cmd \in Commands
         /\ run[p].events \in Seq(Events) /\ run[p].events # <<>>
<1>1. PICK cmd, events : cmd = run[p].cmd /\ events = run[p].events
  OBVIOUS
<1>2. /\ run[p] \in [pc : {"check", "append"}, cmd : Commands,
                     events : Seq(Events)]
      /\ cmd \in Commands /\ events \in Seq(Events) /\ events # <<>>
  BY <1>1, RunTyped DEF AppendEvent
<1>3. Tail(events) \in Seq(Events)
  BY <1>2, HeadTailProperties
<1>4. [pc |-> "check", cmd |-> cmd, events |-> Tail(events)] \in RunStates
  BY <1>2, <1>3 DEF RunStates
<1>5. Rest(p) = [pc |-> "check", cmd |-> cmd, events |-> Tail(events)]
  BY <1>1, <1>2, OneEventLess DEF Rest
<1> QED
  BY <1>1, <1>2, <1>4, <1>5 DEF AppendEvent, Enters

\* What a step does to a process and its files, as far as types go.
LEMMA TypesKeep == TInv /\ [Next]_vars => TInv'
<1> SUFFICES ASSUME TInv, [Next]_vars PROVE TInv'
  OBVIOUS
<1>1. TypeOK
  BY DEF TInv
\* The process moves on: it remains to look at the files.
<1>2. ASSUME NEW p \in Procs, NEW state, Enters(p, state),
             record' \in Record, packet' \in Packets,
             report' \in NewReports \cup {NoReport}, openAgents' = openAgents,
             wroteAt' \in [packet : Times \cup {NoTime},
                           report : Times \cup {NoTime}],
             log' \in [lastAt : Times \cup {NoTime},
                       lastStatusEvent : StatusEvents \cup {"none"},
                       count : [KeyedEvents \X Keys -> 0..2]],
             catalog' \in [status : Lifecycles, failed : BOOLEAN],
             clock' = clock, crashes' \in 0..MaxCrashes, worked' \in BOOLEAN
      PROVE  TInv'
  BY <1>1, <1>2, RunMoves DEF Enters, TInv, TypeOK
<1>3. ASSUME NEW p \in Procs, NEW cmd \in Commands, Decide(p, cmd) PROVE TInv'
  <2>1. Enters(p, [pc |-> "load", cmd |-> cmd])
    BY <1>3, StepDecide
  <2>2. UNCHANGED <<record, packet, report, openAgents, wroteAt, log, catalog,
                    clock, crashes, worked>>
    BY <1>3 DEF Decide
  <2> QED
    BY <1>1, <1>2, <2>1, <2>2 DEF TypeOK
<1>4. ASSUME NEW p \in Procs, NEW cmd \in Commands,
             WritePacket(p, cmd) \/ WriteReport(p, cmd)
      PROVE  TInv'
  <2>1. packet' \in Packets /\ report' \in NewReports \cup {NoReport}
    BY <1>1, <1>4, CommandFacts DEF WritePacket, WriteReport, TypeOK, Packets
  <2>2. wroteAt' \in [packet : Times \cup {NoTime}, report : Times \cup {NoTime}]
    BY <1>1, <1>4 DEF WritePacket, WriteReport, TypeOK
  <2>3. UNCHANGED <<record, openAgents, log, catalog, clock, crashes>>
        /\ worked' \in BOOLEAN
    BY <1>4 DEF WritePacket, WriteReport
  <2> QED
    BY <1>1, <1>2, <1>4, <2>1, <2>2, <2>3, StepWrite DEF TypeOK
<1>5. ASSUME NEW p \in Procs, NothingToDo(p) \/ Publish(p) \/ Crash(p)
      PROVE  TInv'
  <2>1. catalog' \in [status : Lifecycles, failed : BOOLEAN]
    <3>1. /\ record.status \in Lifecycles
          /\ catalog \in [status : Lifecycles, failed : BOOLEAN]
      BY <1>1 DEF TypeOK, Record
    <3>2. CASE catalog' = catalog
      BY <3>1, <3>2
    <3>3. CASE catalog' = [status |-> record.status, failed |-> FALSE]
      BY <3>1, <3>3
    <3>4. CASE catalog' = [catalog EXCEPT !.failed = TRUE]
      BY <3>1, <3>4
    <3> QED
      BY <1>5, <3>2, <3>3, <3>4 DEF NothingToDo, Publish, Crash
  <2>2. crashes' \in 0..MaxCrashes
    BY <1>1, <1>5 DEF NothingToDo, Publish, Crash, TypeOK
  <2>3. UNCHANGED <<record, packet, report, openAgents, wroteAt, log, clock, worked>>
    BY <1>5 DEF NothingToDo, Publish, Crash
  <2> QED
    BY <1>1, <1>2, <1>5, <2>1, <2>2, <2>3, StepEnd DEF TypeOK
<1>6. ASSUME NEW p \in Procs, LoadRecord(p) PROVE TInv'
  BY <1>1, <1>2, <1>6, StepLoad DEF LoadRecord, TypeOK
<1>7. ASSUME NEW p \in Procs, StoreRecord(p) PROVE TInv'
  <2>1. record' \in Record
    <3>1. /\ run[p].loaded \in Record /\ run[p].now \in Times
          /\ run[p].cmd.op \in Statuses /\ clock \in Times
      BY <1>1, <1>7, RunTyped DEF StoreRecord, TypeOK, StatusCommands
    <3>2. Written(run[p].loaded, run[p].cmd.op, run[p].now) \in Record
      BY <3>1, WrittenRecord
    <3> QED
      BY <1>7, <3>2, StepStore
  <2>2. /\ UNCHANGED <<packet, report, openAgents, wroteAt, log, catalog, clock,
                       crashes>>
        /\ worked' \in BOOLEAN
    BY <1>1, <1>7 DEF StoreRecord, TypeOK
  <2> QED
    BY <1>1, <1>2, <1>7, <2>1, <2>2, StepStore DEF TypeOK
<1>8. ASSUME NEW p \in Procs, CheckKey(p) PROVE TInv'
  <2>1. \E state : Enters(p, state)
    BY <1>8, StepCheck
  <2> QED
    BY <1>1, <1>2, <1>8, <2>1 DEF CheckKey, TypeOK
<1>9. ASSUME NEW p \in Procs, AppendEvent(p) PROVE TInv'
  <2>1. PICK event, key, count, wrote :
          /\ event = Head(run[p].events) /\ key = run[p].cmd.key
          /\ count = log.count /\ wrote = log'
    OBVIOUS
  <2>2. /\ wrote.lastAt = clock
        /\ wrote.lastStatusEvent =
             IF event \in StatusEvents THEN event ELSE log.lastStatusEvent
        /\ wrote.count = IF key \in Keys /\ count[<<event, key>>] < 2
                         THEN [count EXCEPT ![<<event, key>>] = @ + 1] ELSE count
        /\ wrote = [lastAt |-> wrote.lastAt,
                    lastStatusEvent |-> wrote.lastStatusEvent,
                    count |-> wrote.count]
    BY <1>9, <2>1 DEF AppendEvent
  <2>3. count \in [KeyedEvents \X Keys -> 0..2]
    BY <1>1, <2>1 DEF TypeOK
  <2>4. wrote.count \in [KeyedEvents \X Keys -> 0..2]
    <3>1. PICK n : n = count[<<event, key>>]
      OBVIOUS
    <3>2. n \in 0..2 /\ n < 2 => n + 1 \in 0..2
      OBVIOUS
    <3>3. \/ wrote.count = count
          \/ n < 2 /\ wrote.count = [count EXCEPT ![<<event, key>>] = n + 1]
      BY <2>2, <3>1
    <3> QED
      BY <2>3, <3>1, <3>2, <3>3
  <2>5. log' \in [lastAt : Times \cup {NoTime},
                  lastStatusEvent : StatusEvents \cup {"none"},
                  count : [KeyedEvents \X Keys -> 0..2]]
    <3>1. /\ wrote.lastStatusEvent \in StatusEvents \cup {"none"}
          /\ wrote.lastAt \in Times \cup {NoTime}
      BY <1>1, <2>2 DEF TypeOK
    <3> QED
      BY <2>1, <2>2, <2>4, <3>1
  <2> QED
    BY <1>1, <1>2, <1>9, <2>5, StepAppend DEF AppendEvent, TypeOK
<1>10. ASSUME NEW p \in Procs, NEW open \in BOOLEAN, SetAgents(p, open)
       PROVE  TInv'
  BY <1>10 DEF SetAgents, TInv, TypeOK
<1>11. CASE Tick \/ UNCHANGED vars
  BY <1>11 DEF Tick, vars, TInv, TypeOK, Times
<1> QED
  BY <1>3, <1>4, <1>5, <1>6, <1>7, <1>8, <1>9, <1>10, <1>11 DEF Next

\* Every record, log entry and catalog row is well formed, also when commands
\* overlap (update_task_lifecycle, append_event).
THEOREM TypeCorrect == Spec => []TypeOK
<1>1. TInv => TypeOK
  BY DEF TInv
<1> QED
  BY <1>1, TypesInit, TypesKeep, PTL DEF Spec

----------------------------------------------------------------------------
(* Steps, one process at a time *)

LEMMA TheProcess ==
  ASSUME OneAtATime, TInv, NEW p \in Procs, NEW state, Enters(p, state)
  PROVE  run'[p] = state /\ \A q \in Procs : q = p
BY RunMoves DEF Enters, OneAtATime

\* A step that leaves record and log alone: where the process goes is all
\* that counts.
LEMMA StepMoves ==
  ASSUME OneAtATime, CInv, NEW p \in Procs, UNCHANGED <<record, log>>,
         Steady(p)', Told(p)'
  PROVE  DInv'
<1>1. \A q \in Procs : q = p
  BY DEF OneAtATime
<1> QED
  BY <1>1 DEF CInv, DInv, AtMostOnce, StampsTellTheStatus, Recorded

LEMMA GrantedWhenAllowed ==
  ASSUME NEW cmd \in Commands, cmd.op \in Statuses, Allowed(cmd.op)
  PROVE  Granted(cmd.op)
BY DEF Allowed, Granted, MayCancel, Statuses

LEMMA DecideKeeps ==
  ASSUME OneAtATime, CInv, NEW p \in Procs, NEW cmd \in Commands, Decide(p, cmd)
  PROVE  DInv'
<1> DEFINE state == [pc |-> "load", cmd |-> cmd]
<1>1. /\ run[p].pc = "idle" /\ cmd.op \in Statuses /\ Granted(cmd.op)
      /\ UNCHANGED <<record, packet, report, openAgents, log, catalog, crashes>>
  BY GrantedWhenAllowed DEF Decide, Idle
<1>2. run'[p] = state
  BY StepDecide, TheProcess DEF CInv
<1>3. Granted(cmd.op)'
  BY <1>1 DEF Granted, phase
<1>4. Steady(p)'
  BY <1>2, <1>3 DEF Steady, Untold
<1>5. Told(p)'
  BY <1>1, <1>2 DEF Told, CInv, DInv, Untold, LastStatus
<1> QED
  BY <1>1, <1>4, <1>5, StepMoves

\* The steps that begin or end a run: nothing to do, the catalog row, death.
LEMMA EndsKeep ==
  ASSUME OneAtATime, CInv, NEW p \in Procs,
         NothingToDo(p) \/ Publish(p) \/ Crash(p)
  PROVE  DInv'
<1>1. PICK state \in {Idle, [pc |-> "publish"]} : Enters(p, state)
  BY StepEnd
<1>2. run'[p] = state /\ state.pc \in {"idle", "publish"}
  BY <1>1, TheProcess DEF CInv, Idle
<1>3. UNCHANGED <<record, log>>
  BY DEF NothingToDo, Publish, Crash
<1>4. Steady(p)'
  BY <1>2 DEF Steady, Untold
<1>5. Told(p)'
  <2>1. CASE NothingToDo(p)
    <3>1. run[p].pc = "idle" /\ UNCHANGED <<record, log, catalog, crashes>>
      BY <2>1 DEF NothingToDo, Idle
    <3> QED
      BY <1>2, <3>1 DEF CInv, DInv, Told, Untold, LastStatus
  <2>2. CASE Publish(p)
    <3>1. catalog'.status = record.status \/ catalog'.failed
      BY <2>2 DEF Publish, CInv, TInv, TypeOK
    <3>2. run[p].pc = "publish" /\ UNCHANGED <<record, log, crashes>>
      BY <2>2 DEF Publish
    <3> QED
      BY <1>2, <3>1, <3>2 DEF CInv, DInv, Told, Untold, LastStatus
  <2>3. CASE Crash(p)
    <3>1. crashes' > 0
      BY <2>3 DEF Crash, CInv, TInv, TypeOK
    <3> QED
      BY <3>1 DEF Told
  <2> QED
    BY <2>1, <2>2, <2>3
<1> QED
  BY <1>3, <1>4, <1>5, StepMoves

LEMMA LoadKeeps ==
  ASSUME OneAtATime, CInv, NEW p \in Procs, LoadRecord(p)
  PROVE  DInv'
<1>1. PICK cmd, loaded, now :
        /\ cmd = run[p].cmd /\ loaded = record /\ now = clock
  OBVIOUS
<1>2. /\ run[p].pc = "load"
      /\ UNCHANGED <<record, packet, report, openAgents, log, catalog, crashes>>
  BY DEF LoadRecord
<1>3. TInv /\ Steady(p) /\ Told(p)
  BY DEF CInv, DInv
<1>4. run'[p] = [pc |-> "store", cmd |-> cmd, loaded |-> loaded, now |-> now]
  BY <1>1, <1>3, StepLoad, TheProcess
<1>5. Granted(cmd.op)' /\ loaded = record'
  BY <1>1, <1>2, <1>3 DEF Steady, Granted, phase
<1>6. Steady(p)'
  BY <1>4, <1>5 DEF Steady, Untold
<1>7. Told(p)'
  BY <1>2, <1>3, <1>4 DEF Told, Untold, LastStatus
<1> QED
  BY <1>2, <1>6, <1>7, StepMoves

LEMMA CheckKeeps ==
  ASSUME OneAtATime, CInv, NEW p \in Procs, CheckKey(p)
  PROVE  DInv'
<1>1. PICK cmd, events : cmd = run[p].cmd /\ events = run[p].events
  OBVIOUS
<1>2. TInv /\ Steady(p) /\ Told(p)
  BY DEF CInv, DInv
<1>3. run[p].pc = "check" /\ UNCHANGED <<record, log, catalog, crashes>>
  BY DEF CheckKey
<1>4. cmd \in Commands /\ events \in Remaining(cmd.op)
  BY <1>1, <1>2, <1>3, RunTyped DEF Steady
<1>5. PICK logged \in BOOLEAN : logged = Logged(Head(events), cmd.key)
  BY DEF Logged
<1> DEFINE state == IF events = <<>> THEN [pc |-> "publish"]
                    ELSE IF logged
                    THEN [pc |-> "check", cmd |-> cmd, events |-> Tail(events)]
                    ELSE [pc |-> "append", cmd |-> cmd, events |-> events]
<1>6. run'[p] = state
  <2>1. /\ events = <<>> => Enters(p, [pc |-> "publish"])
        /\ events # <<>> /\ logged =>
             Enters(p, [pc |-> "check", cmd |-> cmd, events |-> Tail(events)])
        /\ events # <<>> /\ ~logged =>
             Enters(p, [pc |-> "append", cmd |-> cmd, events |-> events])
    BY <1>1, <1>2, <1>5, StepCheck
  <2>2. Enters(p, state)
    BY <2>1
  <2> QED
    BY <1>2, <2>2, TheProcess
<1>7. events # <<>> =>
        /\ Tail(events) \in Remaining(cmd.op)
        /\ cmd.key \in Keys => Head(events) \in KeyedEvents
        /\ cmd.op \in Statuses => events = EventsOf(cmd.op)
  BY <1>4, EventFacts
<1>8. events # <<>> /\ ~logged /\ cmd.key \in Keys =>
        log.count[<<Head(events), cmd.key>>] = 0
  <2> SUFFICES ASSUME events # <<>>, ~logged, cmd.key \in Keys
               PROVE  log.count[<<Head(events), cmd.key>>] = 0
    OBVIOUS
  <2>1. log.count[<<Head(events), cmd.key>>] \in 0..2
    BY <1>2, <1>7 DEF TInv, TypeOK
  <2>2. ~(log.count[<<Head(events), cmd.key>>] > 0)
    BY <1>5 DEF Logged
  <2> QED
    BY <2>1, <2>2
\* The event of a status that was just written is not there yet.
<1>9. events # <<>> /\ cmd.op \in Statuses => ~logged
  <2> SUFFICES ASSUME events # <<>>, cmd.op \in Statuses, logged
               PROVE  FALSE
    OBVIOUS
  <2>1. cmd.key \in Keys /\ cmd.op \in {"close", "archive"}
    BY <1>4, <1>5, CommandFacts DEF Logged, Statuses
  <2>2. /\ cmd.op = "close" => log.count[<<"task_closed", cmd.key>>] = 0
        /\ cmd.op = "archive" => log.count[<<"task_archived", cmd.key>>] = 0
    BY <1>1, <1>2, <1>3, <2>1 DEF Steady, Untold
  <2>3. /\ cmd.op = "close" => Head(events) = "task_closed"
        /\ cmd.op = "archive" => Head(events) = "task_archived"
    BY <1>7, EventTellsStatus
  <2>4. log.count[<<Head(events), cmd.key>>] > 0
    BY <1>5 DEF Logged
  <2> QED
    BY <2>1, <2>2, <2>3, <2>4
<1>10. Steady(p)'
  <2>1. CASE events = <<>>
    BY <1>6, <2>1 DEF Steady, Untold
  <2>2. CASE events # <<>> /\ logged
    BY <1>6, <1>7, <1>9, <2>2 DEF Steady, Untold
  <2>3. CASE events # <<>> /\ ~logged
    <3>1. run'[p] = [pc |-> "append", cmd |-> cmd, events |-> events]
      BY <1>6, <2>3
    <3>2. cmd.op \in Statuses =>
            /\ record.status = StatusAfter(cmd.op)
            /\ \A k \in Keys :
                 /\ cmd.op = "close" => log.count[<<"task_closed", k>>] = 0
                 /\ cmd.op = "archive" => log.count[<<"task_archived", k>>] = 0
      BY <1>1, <1>2, <1>3, <2>3 DEF Steady, Untold
    <3> QED
      BY <1>3, <1>4, <1>8, <2>3, <3>1, <3>2 DEF Steady, Untold
  <2> QED
    BY <2>1, <2>2, <2>3
<1>11. Told(p)'
  <2>1. Untold(run'[p]) <=> Untold(run[p])
    BY <1>1, <1>3, <1>6, <1>9 DEF Untold
  <2>2. run'[p].pc \notin {"idle", "load", "store"}
    BY <1>6
  <2> QED
    BY <1>2, <1>3, <2>1, <2>2 DEF Told, LastStatus
<1> QED
  BY <1>3, <1>10, <1>11, StepMoves

\* The status a command finds when it is granted.
LEMMA GrantedStatus ==
  ASSUME TypeOK, NEW op \in Statuses, Granted(op)
  PROVE  /\ record.status \in Lifecycles
         /\ op \in {"close", "sweep", "markStale"} => record.status = "active"
         /\ op = "archive" => record.status = "closed"
         /\ op = "cancel" => record.status \in {"active", "stale"}
         /\ op \in {"reopen", "revive"} => record.status \in {"stale", "canceled"}
<1>1. record.status \in Lifecycles
  BY DEF TypeOK, Record
<1>2. record.status # "active" => phase = record.status
  BY DEF phase, Phase
<1> QED
  BY <1>1, <1>2 DEF Granted, Statuses, Lifecycles

LEMMA StoreKeeps ==
  ASSUME OneAtATime, CInv, NEW p \in Procs, StoreRecord(p)
  PROVE  DInv'
<1>1. PICK cmd, op, now, r, u :
        /\ cmd = run[p].cmd /\ op = cmd.op /\ now = run[p].now
        /\ r = record /\ u = record'
  OBVIOUS
<1>2. TInv /\ Steady(p)
  BY DEF CInv, DInv
<1>3. /\ run[p].pc = "store" /\ log' = log
      /\ u = Written(r, op, now)
  BY <1>1, <1>2, StepStore DEF StoreRecord, Steady
<1>4. /\ cmd \in Commands /\ op \in Statuses /\ now \in Times /\ Granted(op)
      /\ r \in Record /\ clock \in Times
  BY <1>1, <1>2, <1>3, RunTyped DEF Steady, StatusCommands, TInv, TypeOK
<1>5. /\ u.status = StatusAfter(op)
      /\ u.closed <=> r.closed \/ op = "close"
      /\ u.archived <=> r.archived \/ op = "archive"
      /\ u.canceled <=> op = "cancel" \/ (r.canceled /\ op \notin {"reopen", "revive"})
      /\ u.staleAt = IF StatusAfter(op) = "stale" THEN now
                     ELSE IF op = "archive" THEN r.staleAt ELSE NoTime
  BY <1>3, <1>4, WrittenRecord
<1>6. /\ op \in {"close", "sweep", "markStale"} => r.status = "active"
      /\ op = "archive" => r.status = "closed"
      /\ op = "cancel" => r.status \in {"active", "stale"}
      /\ op \in {"reopen", "revive"} => r.status \in {"stale", "canceled"}
  BY <1>1, <1>2, <1>4, GrantedStatus DEF TInv
<1>7. /\ run'[p] = [pc |-> "check", cmd |-> cmd, events |-> EventsOf(op)]
      /\ \A q \in Procs : q = p
      /\ EventsOf(op) \in Remaining(op)
  BY <1>1, <1>2, <1>4, EventsStart, StepStore, TheProcess
<1>8. AtMostOnce'
  BY <1>3 DEF CInv, DInv, AtMostOnce
<1>9. StampsTellTheStatus'
  <2>1. /\ r.closed <=> r.status \in {"closed", "archived"}
        /\ r.archived <=> r.status = "archived"
        /\ r.canceled <=> r.status = "canceled"
        /\ r.staleAt # NoTime <=> r.status = "stale"
    BY <1>1 DEF CInv, DInv, StampsTellTheStatus
  <2>2. now # NoTime
    BY <1>4 DEF Times, NoTime
  <2>3. /\ u.closed <=> u.status \in {"closed", "archived"}
        /\ u.archived <=> u.status = "archived"
        /\ u.canceled <=> u.status = "canceled"
        /\ u.staleAt # NoTime <=> u.status = "stale"
    BY <1>4, <1>5, <1>6, <2>1, <2>2 DEF StatusAfter, Statuses
  <2> QED
    BY <1>1, <2>3 DEF StampsTellTheStatus
\* A closing event in the log leaves only archiving.
<1>10. \A k \in Keys :
         /\ log.count[<<"task_closed", k>>] > 0 =>
              r.status \in {"closed", "archived"}
         /\ log.count[<<"task_archived", k>>] > 0 => r.status = "archived"
  BY <1>1 DEF CInv, DInv, Recorded
<1>11. Recorded'
  <2>1. r.status # "archived" /\ (r.status = "closed" => u.status = "archived")
    BY <1>4, <1>5, <1>6 DEF Statuses, StatusAfter
  <2> QED
    BY <1>1, <1>3, <1>10, <2>1 DEF Recorded
<1>12. \A k \in Keys :
         /\ op = "close" => log.count[<<"task_closed", k>>] = 0
         /\ op = "archive" => log.count[<<"task_archived", k>>] = 0
  <2> SUFFICES ASSUME NEW k \in Keys
               PROVE  /\ op = "close" => log.count[<<"task_closed", k>>] = 0
                      /\ op = "archive" => log.count[<<"task_archived", k>>] = 0
    OBVIOUS
  <2>1. PICK m \in 0..2, n \in 0..2 : /\ m = log.count[<<"task_closed", k>>]
                                      /\ n = log.count[<<"task_archived", k>>]
    BY <1>2 DEF TInv, TypeOK, KeyedEvents
  <2>2. (op = "close" => ~(m > 0)) /\ (op = "archive" => ~(n > 0))
    BY <1>6, <1>10, <2>1
  <2> QED
    BY <2>1, <2>2
<1>13. Steady(p)'
  BY <1>1, <1>3, <1>5, <1>7, <1>12 DEF Steady, Untold
<1>14. Told(p)'
  <2>1. EventsOf(op) # <<>>
    BY <1>4, ShortSequences DEF EventsOf, Statuses
  <2>2. Untold(run'[p]) /\ run'[p].pc = "check"
    BY <1>1, <1>4, <1>7, <2>1 DEF Untold
  <2> QED
    BY <2>2 DEF Told
<1> QED
  BY <1>7, <1>8, <1>9, <1>11, <1>13, <1>14 DEF DInv

\* dispatch_task and ingest_worker_report: the status is not touched.
LEMMA WritesKeep ==
  ASSUME OneAtATime, CInv, NEW p \in Procs, NEW cmd \in Commands,
         WritePacket(p, cmd) \/ WriteReport(p, cmd)
  PROVE  DInv'
<1>1. /\ run[p].pc = "idle" /\ cmd.op \in {"dispatch", "ingest"}
      /\ UNCHANGED <<record, log, catalog, crashes>>
  BY DEF WritePacket, WriteReport, Idle
<1>2. run'[p] = [pc |-> "check", cmd |-> cmd, events |-> EventsOf(cmd.op)]
  BY StepWrite, TheProcess DEF CInv
<1>3. cmd.op \notin Statuses /\ EventsOf(cmd.op) \in Remaining(cmd.op)
  BY <1>1, EventsStart DEF Statuses
<1>4. Steady(p)'
  BY <1>2, <1>3 DEF Steady, Untold
<1>5. Told(p)'
  <2>1. Told(p) /\ ~Untold(run[p]) /\ ~Untold(run'[p])
    BY <1>1, <1>2, <1>3 DEF CInv, DInv, Untold
  <2> QED
    BY <1>1, <1>2, <2>1 DEF Told, LastStatus
<1> QED
  BY <1>1, <1>4, <1>5, StepMoves

LEMMA AppendKeeps ==
  ASSUME OneAtATime, CInv, NEW p \in Procs, AppendEvent(p)
  PROVE  DInv'
<1>1. PICK cmd, events, event, key, count, wrote :
        /\ cmd = run[p].cmd /\ events = run[p].events
        /\ event = Head(events) /\ key = cmd.key
        /\ count = log.count /\ wrote = log'
  OBVIOUS
<1>2. TInv /\ Steady(p) /\ Told(p)
  BY DEF CInv, DInv
<1>3. run[p].pc = "append" /\ UNCHANGED <<record, catalog, crashes>>
  BY DEF AppendEvent
<1>4. /\ cmd \in Commands /\ events \in Remaining(cmd.op) /\ events # <<>>
      /\ run'[p] = [pc |-> "check", cmd |-> cmd, events |-> Tail(events)]
      /\ \A q \in Procs : q = p
  BY <1>1, <1>2, <1>3, StepAppend, TheProcess DEF Steady
<1>5. /\ Tail(events) \in Remaining(cmd.op)
      /\ key \in Keys => event \in KeyedEvents
      /\ cmd.op \in Statuses => Tail(events) = <<>> /\ events = EventsOf(cmd.op)
      /\ cmd.op \notin Statuses => event \notin StatusEvents
  BY <1>1, <1>4, EventFacts
<1>6. count \in [KeyedEvents \X Keys -> 0..2]
  BY <1>1, <1>2 DEF TInv, TypeOK
<1>7. /\ wrote.lastStatusEvent =
           IF event \in StatusEvents THEN event ELSE log.lastStatusEvent
      /\ wrote.count = IF key \in Keys /\ count[<<event, key>>] < 2
                       THEN [count EXCEPT ![<<event, key>>] = @ + 1] ELSE count
  BY <1>1 DEF AppendEvent
<1>8. wrote.count = IF key \in Keys
                    THEN [count EXCEPT ![<<event, key>>] = 1] ELSE count
  <2>1. CASE key \in Keys
    <3>1. PICK n : n = count[<<event, key>>]
      OBVIOUS
    <3>2. n < 2 /\ n + 1 = 1
      BY <1>1, <1>2, <1>3, <2>1, <3>1 DEF Steady
    <3>3. wrote.count = [count EXCEPT ![<<event, key>>] = n + 1]
      BY <1>7, <2>1, <3>1, <3>2
    <3> QED
      BY <2>1, <3>2, <3>3
  <2>2. CASE key \notin Keys
    BY <1>7, <2>2
  <2> QED
    BY <2>1, <2>2
<1>9. \A e \in KeyedEvents, k \in Keys :
        wrote.count[<<e, k>>] = IF e = event /\ k = key THEN 1 ELSE count[<<e, k>>]
  BY <1>5, <1>6, <1>8
<1>10. AtMostOnce'
  <2>1. \A e \in KeyedEvents, k \in Keys : count[<<e, k>>] <= 1
    BY <1>1 DEF CInv, DInv, AtMostOnce
  <2>2. ASSUME NEW e \in KeyedEvents, NEW k \in Keys
        PROVE  wrote.count[<<e, k>>] <= 1
    <3>1. \/ wrote.count[<<e, k>>] = 1
          \/ wrote.count[<<e, k>>] = count[<<e, k>>]
      BY <1>9
    <3> QED
      BY <2>1, <3>1
  <2> QED
    BY <1>1, <2>2 DEF AtMostOnce
<1>11. StampsTellTheStatus'
  BY <1>3 DEF CInv, DInv, StampsTellTheStatus
\* What a status event tells of is on disk.
<1>12. event \in StatusEvents =>
         /\ cmd.op \in Statuses
         /\ record.status = StatusAfter(cmd.op)
         /\ event = Head(EventsOf(cmd.op))
  BY <1>1, <1>2, <1>3, <1>4, <1>5 DEF Steady, Untold
<1>13. Recorded'
  <2>1. event = "task_closed" => record.status = "closed"
    BY <1>12, EventTellsStatus DEF StatusEvents
  <2>2. event = "task_archived" => record.status = "archived"
    BY <1>12, EventTellsStatus DEF StatusEvents
  <2>3. \A k \in Keys :
          /\ count[<<"task_closed", k>>] > 0 =>
               record.status \in {"closed", "archived"}
          /\ count[<<"task_archived", k>>] > 0 => record.status = "archived"
    BY <1>1 DEF CInv, DInv, Recorded
  <2>4. \A k \in Keys :
          /\ wrote.count[<<"task_closed", k>>] > 0 =>
               record.status \in {"closed", "archived"}
          /\ wrote.count[<<"task_archived", k>>] > 0 => record.status = "archived"
    BY <1>9, <2>1, <2>2, <2>3 DEF KeyedEvents
  <2> QED
    BY <1>1, <1>3, <2>4 DEF Recorded
<1>14. ~Untold(run'[p])
  BY <1>4, <1>5 DEF Untold
<1>15. Steady(p)'
  BY <1>4, <1>5, <1>14 DEF Steady
<1>16. Told(p)'
  <2> SUFFICES ASSUME crashes = 0
               PROVE  (record.status = LastStatus)'
    BY <1>3, <1>4 DEF Told
  <2>1. CASE event \in StatusEvents
    <3>1. wrote.lastStatusEvent = event
      BY <1>7, <2>1
    <3>2. /\ event = "task_closed" <=> record.status = "closed"
          /\ event = "task_archived" <=> record.status = "archived"
          /\ event = "task_canceled" <=> record.status = "canceled"
          /\ event = "task_stale_marked" <=> record.status = "stale"
          /\ record.status \in Lifecycles
      BY <1>12, <2>1, EventTellsStatus
    <3> QED
      BY <1>1, <1>3, <3>1, <3>2 DEF LastStatus, Lifecycles
  <2>2. CASE event \notin StatusEvents
    <3>1. cmd.op \notin Statuses
      BY <1>1, <1>5, <2>2, EventTellsStatus
    <3>2. record.status = LastStatus
      BY <1>1, <1>2, <3>1 DEF Told, Untold
    <3>3. wrote.lastStatusEvent = log.lastStatusEvent
      BY <1>7, <2>2
    <3> QED
      BY <1>1, <1>3, <3>2, <3>3 DEF LastStatus
  <2> QED
    BY <2>1, <2>2
<1> QED
  BY <1>4, <1>10, <1>11, <1>13, <1>15, <1>16 DEF DInv

\* Sub-agents are opened and closed between commands.
LEMMA AgentsKeep ==
  ASSUME OneAtATime, CInv, NEW p \in Procs, NEW open \in BOOLEAN, SetAgents(p, open)
  PROVE  DInv'
<1>1. /\ run[p].pc = "idle"
      /\ UNCHANGED <<record, log, catalog, run, crashes>>
  BY DEF SetAgents, Idle
<1>2. Steady(p)' /\ Told(p)'
  BY <1>1 DEF CInv, DInv, Steady, Told, Untold, LastStatus
<1> QED
  BY <1>1, <1>2, StepMoves

\* Time passes, or nothing happens.
LEMMA TickKeeps ==
  ASSUME CInv, Tick \/ UNCHANGED vars
  PROVE  DInv'
<1>1. UNCHANGED <<record, packet, report, openAgents, log, catalog, run, crashes>>
  BY DEF Tick, vars
<1>2. AtMostOnce' /\ StampsTellTheStatus' /\ Recorded'
  BY <1>1 DEF CInv, DInv, AtMostOnce, StampsTellTheStatus, Recorded
<1>3. ASSUME NEW p \in Procs PROVE Steady(p)' /\ Told(p)'
  BY <1>1 DEF CInv, DInv, Steady, Granted, phase, Told, Untold, LastStatus
<1> QED
  BY <1>2, <1>3 DEF DInv

LEMMA CommandsInit == Init => DInv
<1> SUFFICES ASSUME Init PROVE DInv
  OBVIOUS
<1>1. AtMostOnce /\ Recorded
  BY DEF Init, AtMostOnce, Recorded, KeyedEvents
<1>2. StampsTellTheStatus
  BY DEF Init, StampsTellTheStatus
<1>3. ASSUME NEW p \in Procs PROVE Steady(p) /\ Told(p)
  BY DEF Init, Idle, Steady, Told, Untold, LastStatus
<1> QED
  BY <1>1, <1>2, <1>3 DEF DInv

LEMMA CommandsKeep ==
  ASSUME OneAtATime PROVE CInv /\ [Next]_vars => CInv'
<1> SUFFICES ASSUME CInv, [Next]_vars PROVE CInv'
  OBVIOUS
<1>1. TInv'
  BY TypesKeep DEF CInv
<1>2. DInv'
  BY DecideKeeps, EndsKeep, LoadKeeps, CheckKeeps, StoreKeeps, WritesKeep,
     AppendKeeps, AgentsKeep, TickKeeps DEF Next
<1> QED
  BY <1>1, <1>2 DEF CInv

\* What holds between and during commands that follow one another.
THEOREM CommandsInvariance == ASSUME OneAtATime PROVE Spec => []CInv
<1>1. Init => CInv
  BY TypesInit, CommandsInit DEF CInv
<1>2. CInv /\ [Next]_vars => CInv'
  BY CommandsKeep
<1> QED
  BY <1>1, <1>2, PTL DEF Spec

(***************************************************************************)
(* Wherever a script dies and however often it is run again with its key,  *)
(* events.jsonl holds at most one event per type and key                   *)
(* (_has_idempotent_event).                                                *)
(***************************************************************************)
THEOREM EventsAreSingle == ASSUME OneAtATime PROVE Spec => []AtMostOnce
<1>1. CInv => AtMostOnce
  BY DEF CInv, DInv
<1> QED
  BY <1>1, CommandsInvariance, PTL

\* The stamps that the mark_task_* functions set and clear agree with the
\* status, crashes included.
THEOREM StampsAgree == ASSUME OneAtATime PROVE Spec => []StampsTellTheStatus
<1>1. CInv => StampsTellTheStatus
  BY DEF CInv, DInv
<1> QED
  BY <1>1, CommandsInvariance, PTL

\* Between commands, none of which was cut short, the last status event is
\* the one that led to the status on disk (append_event after
\* update_task_lifecycle).
THEOREM TrailAgrees == ASSUME OneAtATime PROVE Spec => []TrailTellsTheStatus
<1>1. ASSUME CInv PROVE TrailTellsTheStatus
  <2> SUFFICES ASSUME Quiet, crashes = 0
               PROVE  record.status = LastStatus
    BY DEF TrailTellsTheStatus, LastStatus
  <2>1. PICK p \in Procs : run[p] = Idle
    BY DEF Quiet, OneAtATime
  <2> QED
    BY <1>1, <2>1 DEF CInv, DInv, Told, Untold, Idle
<1> QED
  BY <1>1, CommandsInvariance, PTL

\* Between commands, none of which was cut short, a catalog row that is
\* behind lifecycle.json is flagged as failed (_refresh_commander_task_catalog).
THEOREM RowIsFlagged == ASSUME OneAtATime PROVE Spec => []StaleRowIsFlagged
<1>1. ASSUME CInv PROVE StaleRowIsFlagged
  <2> SUFFICES ASSUME Quiet, crashes = 0
               PROVE  catalog.status = record.status \/ catalog.failed
    BY DEF StaleRowIsFlagged
  <2>1. PICK p \in Procs : run[p] = Idle
    BY DEF Quiet, OneAtATime
  <2> QED
    BY <1>1, <2>1 DEF CInv, DInv, Told, Idle
<1> QED
  BY <1>1, CommandsInvariance, PTL

----------------------------------------------------------------------------
(* The atomic commands of TaskLedger *)

\* Both derive the same phase from the directory.
LEMMA SamePhase == Ledger!phase = phase
<1>1. \A r : Ledger!ContinuationMode(r) = ContinuationMode(r)
  BY DEF Ledger!ContinuationMode, ContinuationMode, Ledger!NoReport, NoReport,
         Ledger!Unset, Unset
<1>2. \A r : Ledger!ResultGrade(r) = ResultGrade(r)
  BY DEF Ledger!ResultGrade, ResultGrade, Ledger!NoReport, NoReport,
         Ledger!Unset, Unset, Ledger!Stuck, Stuck
<1>3. \A r : /\ Ledger!UserRequired(r) <=> UserRequired(r)
             /\ Ledger!CommanderRequired(packet, r) <=> CommanderRequired(packet, r)
  BY <1>1 DEF Ledger!UserRequired, UserRequired, Ledger!CommanderRequired,
              CommanderRequired, Ledger!Stuck, Stuck
<1> QED
  BY <1>1, <1>2, <1>3 DEF Ledger!phase, phase, Ledger!Phase, Phase,
     Ledger!ActivePhase, ActivePhase, Ledger!NoPacket, NoPacket

\* Only an active task can be in a phase that waits or may close.
LEMMA PhaseNeedsActive ==
  ASSUME record.status \in Lifecycles, phase \in {"ready_to_close", "awaiting_report"}
  PROVE  record.status = "active"
BY DEF phase, Phase, Lifecycles

\* Writing lifecycle.json is the whole of a status command.
LEMMA StoreIsCommand ==
  ASSUME OneAtATime, CInv, NEW p \in Procs, StoreRecord(p)
  PROVE  \/ Ledger!Close \/ Ledger!Archive \/ Ledger!Cancel
         \/ Ledger!Reopen \/ Ledger!MarkStale
<1>1. PICK op \in Statuses : op = run[p].cmd.op
  BY RunTyped DEF CInv, StoreRecord, StatusCommands
<1>2. Granted(op) /\ run[p].loaded = record
  BY <1>1 DEF CInv, DInv, Steady, StoreRecord
<1>3. record \in Record /\ run[p].now \in Times /\ clock \in Times
  BY RunTyped DEF CInv, TInv, TypeOK, StoreRecord
<1>4. record' = Written(record, op, run[p].now)
  BY <1>1, <1>2 DEF StoreRecord, Written
<1>5. record'.status = StatusAfter(op)
  BY <1>3, <1>4, WrittenRecord
<1>6. UNCHANGED <<packet, report, openAgents>>
  BY DEF StoreRecord
<1>7. record.status \in Lifecycles
  BY <1>3 DEF Record
<1>8. CASE op = "close"
  BY <1>2, <1>5, <1>6, <1>8, SamePhase DEF Granted, StatusAfter, Ledger!Close
<1>9. CASE op = "archive"
  BY <1>2, <1>5, <1>6, <1>9 DEF Granted, StatusAfter, Ledger!Archive
<1>10. CASE op = "cancel"
  BY <1>2, <1>5, <1>6, <1>10 DEF Granted, StatusAfter, Ledger!Cancel
<1>11. CASE op \in {"reopen", "revive"}
  BY <1>2, <1>5, <1>6, <1>11 DEF Granted, StatusAfter, Ledger!Reopen
<1>12. CASE op \in {"sweep", "markStale"}
  <2>1. record.status = "active"
    BY <1>2, <1>7, <1>12, PhaseNeedsActive DEF Granted
  <2> QED
    BY <1>5, <1>6, <1>12, <2>1 DEF StatusAfter, Ledger!MarkStale
<1> QED
  BY <1>8, <1>9, <1>10, <1>11, <1>12 DEF Statuses

LEMMA LedgerStep ==
  ASSUME OneAtATime, CInv, [Next]_vars
  PROVE  [Ledger!Next]_(Ledger!vars)
<1> USE DEF Ledger!vars
<1>1. ASSUME NEW p \in Procs, StoreRecord(p) PROVE Ledger!Next
  BY <1>1, StoreIsCommand DEF Ledger!Next
<1>2. ASSUME NEW p \in Procs, NEW cmd \in Commands, WritePacket(p, cmd)
      PROVE  Ledger!Next
  <2>1. cmd.arg \in Ledger!Policies
    BY <1>2, CommandFacts DEF WritePacket, Ledger!Policies, Policies
  <2>2. Ledger!Dispatch(cmd.arg)
    BY <1>2 DEF WritePacket, Ledger!Dispatch
  <2> QED
    BY <2>1, <2>2 DEF Ledger!Next
<1>3. ASSUME NEW p \in Procs, NEW cmd \in Commands, WriteReport(p, cmd)
      PROVE  Ledger!Next
  <2>1. cmd.arg \in NewReports
    BY <1>3, CommandFacts DEF WriteReport
  <2>2. Ledger!Ingest(cmd.arg)
    BY <1>3 DEF WriteReport, Ledger!Ingest, Ledger!NoPacket, NoPacket
  <2> QED
    BY <2>1, <2>2 DEF Ledger!Next
<1>4. ASSUME NEW p \in Procs, NEW open \in BOOLEAN, SetAgents(p, open)
      PROVE  Ledger!Next
  BY <1>4 DEF SetAgents, Ledger!SetAgents, Ledger!Next
<1>5. ASSUME NEW p \in Procs, NEW cmd \in Commands,
             \/ Decide(p, cmd) \/ NothingToDo(p) \/ LoadRecord(p) \/ CheckKey(p)
             \/ AppendEvent(p) \/ Publish(p) \/ Crash(p)
      PROVE  UNCHANGED Ledger!vars
  BY <1>5 DEF Decide, NothingToDo, LoadRecord, CheckKey, AppendEvent, Publish, Crash
<1>6. ASSUME Tick \/ UNCHANGED vars PROVE UNCHANGED Ledger!vars
  BY <1>6 DEF Tick, vars
<1>7. \E cmd : cmd \in Commands
  <2>1. [op |-> "reopen", key |-> NoKey] \in Commands
    BY DEF Commands, Statuses
  <2> QED
    BY <2>1
<1> QED
  BY <1>1, <1>2, <1>3, <1>4, <1>5, <1>6, <1>7 DEF Next

(***************************************************************************)
(* Commands that follow one another, with a crash possible between any two *)
(* of their steps, look like the atomic, guarded commands of TaskLedger:   *)
(* what refresh_status derived before the command is still so when         *)
(* update_task_lifecycle writes.                                           *)
(***************************************************************************)
THEOREM ImplementsLedger == ASSUME OneAtATime PROVE Spec => LedgerSpec
<1>1. Init => Ledger!Init
  BY DEF Init, Ledger!Init, Ledger!NoPacket, NoPacket, Ledger!NoReport, NoReport,
         Ledger!Unset, Unset
<1>2. CInv /\ [Next]_vars => [Ledger!Next]_(Ledger!vars)
  BY LedgerStep
<1> QED
  BY <1>1, <1>2, CommandsInvariance, PTL DEF Spec, LedgerSpec, Ledger!Spec

\* One script at a time cancels no closed or archived task, whatever died
\* before it (the guard of commander_cancel).
THEOREM CancelIsRefused == ASSUME OneAtATime PROVE Spec => ClosedIsNotCanceled
<1>1. ASSUME CInv, [Next]_vars, record.status \in {"closed", "archived"}
      PROVE  record'.status # "canceled"
  BY <1>1, LedgerStep DEF Ledger!Next, Ledger!Dispatch, Ledger!Ingest,
     Ledger!Close, Ledger!Archive, Ledger!Cancel, Ledger!Reopen,
     Ledger!MarkStale, Ledger!SetAgents, Ledger!vars
<1> QED
  BY <1>1, CommandsInvariance, PTL DEF Spec, ClosedIsNotCanceled
==========================================================================

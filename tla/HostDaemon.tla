---------------------------- MODULE HostDaemon ----------------------------
(***************************************************************************)
(* The host daemon as a process: starting it, its loop, and the commands   *)
(* it is sent.  Daemon and starter share daemon_state.json, which each     *)
(* update reads without a lock and then replaces whole; commands are files *)
(* named by second and type.  What a run does is in GraphRun, here it only *)
(* takes the user's reply and ends with some outcome.                      *)
(***************************************************************************)
EXTENDS Naturals, Sequences, FiniteSets

CONSTANTS
  Pids,       \* process ids the operating system gives to daemons
  Starters,   \* processes that call start_host_daemon
  Outcomes,   \* statuses a run can end with
  Keep,       \* stands for a field that an update leaves alone
  MaxReplies, \* bound on resume commands, for TLC
  MaxStops,   \* bound on stop commands, for TLC
  MaxSeconds, \* bound on the clock, for TLC
  MaxFaults   \* bound on exceptions and kills, for TLC

Asking == {"waiting_user", "attention_required"}
Down   == {"not_started", "stopped", "error"}
Status == Down \cup Asking \cup
            {"starting", "running", "waiting_external_result", "idle",
             "stopping"}

ASSUME PidsAssumption  == Pids \subseteq Nat \ {0} /\ Pids \cap Starters = {}
ASSUME OutcomesAssumption ==
         Outcomes \subseteq
           Asking \cup {"running", "waiting_external_result", "idle"}
ASSUME KeepAssumption   == Keep \notin Nat \cup Status
ASSUME DaemonBounds ==
         {MaxReplies, MaxStops, MaxSeconds, MaxFaults} \subseteq Nat

VARIABLES
  state,    \* daemon_state.json
  commands, \* the command files
  proc,     \* every process: where it is and what it is about to write
  second,   \* the clock the names of command files are made from
  replies,  \* replies sent with resume commands so far
  stops,    \* stop commands sent so far
  heard,    \* history: replies that were given to a run
  faults,   \* exceptions and kills so far
  clobbered \* history: an update of the state undid another

daemonVars ==
  <<state, commands, proc, second, replies, stops, heard, faults, clobbered>>

None      == 0
Processes == Pids \cup Starters
NoState   == [status |-> "not_started", pid |-> None, reply |-> None]

At(pc, todo) == [pc |-> pc, todo |-> todo, basis |-> <<>>, seen |-> <<>>,
                 stop |-> FALSE, reply |-> None]

DaemonInit ==
  /\ state = NoState
  /\ commands = {}
  /\ proc = [p \in Processes |->
               At(IF p \in Pids THEN "unborn" ELSE "idle", <<>>)]
  /\ second = 0 /\ replies = 0 /\ stops = 0 /\ faults = 0
  /\ heard = {}
  /\ clobbered = FALSE

Ready(p, pc) == proc[p].pc = pc /\ proc[p].todo = <<>>
Alive   == {d \in Pids : proc[d].pc \notin {"unborn", "dead"}}
Serving == {d \in Alive : proc[d].pc # "exit"}

----------------------------------------------------------------------------
(* update_host_daemon_state: a patch is laid over what was loaded *)

Patch(status, pid, reply) == [status |-> status, pid |-> pid, reply |-> reply]

\* Heartbeats, timestamps and the like: nothing the model keeps.
Beat          == Patch(Keep, Keep, Keep)
Set(s)        == Patch(s, Keep, Keep)
SetBoth(s, r) == Patch(s, Keep, r)

Over(new, old) == IF new = Keep THEN old ELSE new

Laid(patch, old) ==
  [status |-> Over(patch.status, old.status), pid |-> Over(patch.pid, old.pid),
   reply |-> Over(patch.reply, old.reply)]

\* Mutant: the state is read again before it is written.
LoadAgain(p) ==
  /\ proc[p].todo # <<>>
  /\ proc' = [proc EXCEPT ![p].basis = Append(@, state)]
  /\ UNCHANGED <<state, commands, second, replies, stops, heard, faults,
                 clobbered>>

Load(p) ==
  /\ proc[p].todo # <<>>
  /\ proc[p].basis = <<>>
  /\ proc' = [proc EXCEPT ![p].basis = <<state>>]
  /\ UNCHANGED <<state, commands, second, replies, stops, heard, faults,
                 clobbered>>

Store(p) ==
  /\ proc[p].basis # <<>>
  /\ LET old == Head(proc[p].basis)
         new == Laid(Head(proc[p].todo), old) IN
     /\ state' = new
     /\ clobbered' = (clobbered \/ old # state)
     /\ proc' = [proc EXCEPT ![p] =
          [@ EXCEPT !.basis = <<>>, !.todo = Tail(proc[p].todo),
                    !.seen = <<new>>]]
  /\ UNCHANGED <<commands, second, replies, stops, heard, faults>>

----------------------------------------------------------------------------
(* start_host_daemon *)

\* Mutant: whatever the status says, an old process does not count.
CheckStatus(s) ==
  /\ Ready(s, "idle")
  /\ state.status \in Down \cup {"waiting_user"} \/ state.pid \notin Alive
  /\ proc' = [proc EXCEPT ![s] = At("spawn", <<SetBoth("starting", None)>>)]
  /\ UNCHANGED <<state, commands, second, replies, stops, heard, faults,
                 clobbered>>

\* The daemon counts as running if its process lives and its status says so.
Check(s) ==
  /\ Ready(s, "idle")
  /\ state.status \in Down \/ state.pid \notin Alive
  /\ proc' = [proc EXCEPT ![s] = At("spawn", <<SetBoth("starting", None)>>)]
  /\ UNCHANGED <<state, commands, second, replies, stops, heard, faults,
                 clobbered>>

\* The new process begins with an update of its own, and so does the starter.
Spawn(s) ==
  /\ Ready(s, "spawn")
  /\ \E d \in Pids :
       /\ proc[d].pc = "unborn"
       /\ proc' = [proc EXCEPT
            ![s] = At("idle", <<Patch(Keep, d, Keep)>>),
            ![d] = At("loop", <<Patch("running", d, Keep)>>)]
  /\ UNCHANGED <<state, commands, second, replies, stops, heard, faults,
                 clobbered>>

----------------------------------------------------------------------------
(* run_host_daemon_loop *)

\* Files in the order of their names.
Earlier(a, b) ==
  a.second < b.second \/ (a.second = b.second /\ a.type = "resume")

InOrder(files) ==
  {b \in [1..Cardinality(files) -> files] :
     \A i, j \in DOMAIN b : i < j => b[i] # b[j] /\ Earlier(b[i], b[j])}

\* _apply_host_daemon_commands: what a command changes ...
Applied(c) ==
  IF c.type = "stop" THEN Set("stopping") ELSE SetBoth("running", c.reply)

\* ... in the second of two updates for each.
Updates(batch) ==
  [i \in 1..2 * Len(batch) |->
     IF i % 2 = 1 THEN Beat ELSE Applied(batch[i \div 2])]

\* The files are removed before any of them is applied.
Drain(d) ==
  /\ Ready(d, "loop")
  /\ \E batch \in InOrder(commands) :
       proc' = [proc EXCEPT ![d] =
         [At("decide", Updates(batch)) EXCEPT
            !.stop = \E c \in commands : c.type = "stop"]]
  /\ commands' = {}
  /\ UNCHANGED <<state, second, replies, stops, heard, faults, clobbered>>

\* Mutant: the status decides whether to stop, not the commands.
DecideByStatus(d) ==
  /\ Ready(d, "decide")
  /\ LET now == IF proc[d].seen = <<>> THEN state ELSE Head(proc[d].seen) IN
     proc' = [proc EXCEPT ![d] =
       IF now.status = "stopping" THEN At("exit", <<Set("stopped")>>)
       ELSE IF now.status \in Asking THEN At("loop", <<Beat>>)
       ELSE At("cycle", <<>>)]
  /\ UNCHANGED <<state, commands, second, replies, stops, heard, faults,
                 clobbered>>

\* Stop, or wait for the user, or run; the status is the one last written
\* here, or the file's if there were no commands.
Decide(d) ==
  /\ Ready(d, "decide")
  /\ LET now == IF proc[d].seen = <<>> THEN state ELSE Head(proc[d].seen) IN
     proc' = [proc EXCEPT ![d] =
       IF proc[d].stop THEN At("exit", <<Set("stopped")>>)
       ELSE IF now.status \in Asking THEN At("loop", <<Beat>>)
       ELSE At("cycle", <<>>)]
  /\ UNCHANGED <<state, commands, second, replies, stops, heard, faults,
                 clobbered>>

\* run_host_daemon_cycle up to the runner.
Cycle(d) ==
  /\ Ready(d, "cycle")
  /\ proc' = [proc EXCEPT ![d] =
       [At("run", <<Set("running")>>) EXCEPT !.reply = state.reply]]
  /\ UNCHANGED <<state, commands, second, replies, stops, heard, faults,
                 clobbered>>

\* The runner returns; the reply was used and is cleared.
RunEnds(d) ==
  /\ Ready(d, "run")
  /\ heard' = heard \cup {proc[d].reply}
  /\ \E o \in Outcomes :
       proc' = [proc EXCEPT ![d] = At("loop", <<SetBoth(o, None)>>)]
  /\ UNCHANGED <<state, commands, second, replies, stops, faults, clobbered>>

\* Mutant: the loop goes on.
RunFailsOn(d) ==
  /\ Ready(d, "run")
  /\ faults < MaxFaults
  /\ faults' = faults + 1
  /\ heard' = heard \cup {proc[d].reply}
  /\ proc' = [proc EXCEPT ![d] = At("loop", <<Set("error")>>)]
  /\ UNCHANGED <<state, commands, second, replies, stops, clobbered>>

\* Any exception of a cycle ends the daemon.
RunFails(d) ==
  /\ Ready(d, "run")
  /\ faults < MaxFaults
  /\ faults' = faults + 1
  /\ heard' = heard \cup {proc[d].reply}
  /\ proc' = [proc EXCEPT ![d] = At("exit", <<Set("error")>>)]
  /\ UNCHANGED <<state, commands, second, replies, stops, clobbered>>

Exit(d) ==
  /\ Ready(d, "exit")
  /\ proc' = [proc EXCEPT ![d] = At("dead", <<>>)]
  /\ UNCHANGED <<state, commands, second, replies, stops, heard, faults,
                 clobbered>>

Kill(d) ==
  /\ d \in Alive
  /\ faults < MaxFaults
  /\ faults' = faults + 1
  /\ proc' = [proc EXCEPT ![d] = At("dead", <<>>)]
  /\ UNCHANGED <<state, commands, second, replies, stops, heard, clobbered>>

----------------------------------------------------------------------------
(* enqueue_host_daemon_command *)

\* Mutant: the first file of a second stays.
FileKeepingFirst(type, reply) ==
  commands' = IF \E c \in commands : c.second = second /\ c.type = type
              THEN commands
              ELSE commands \cup
                     {[second |-> second, type |-> type, reply |-> reply]}

\* A second command of one type within one second replaces the first.
File(type, reply) ==
  commands' = {c \in commands : c.second # second \/ c.type # type}
                \cup {[second |-> second, type |-> type, reply |-> reply]}

RequestStop ==
  /\ stops < MaxStops
  /\ stops' = stops + 1
  /\ File("stop", None)
  /\ UNCHANGED <<state, proc, second, replies, heard, faults, clobbered>>

RequestResume ==
  /\ replies < MaxReplies
  /\ replies' = replies + 1
  /\ File("resume", replies + 1)
  /\ UNCHANGED <<state, proc, second, stops, heard, faults, clobbered>>

Tick ==
  /\ second < MaxSeconds
  /\ second' = second + 1
  /\ UNCHANGED <<state, commands, proc, replies, stops, heard, faults,
                 clobbered>>

----------------------------------------------------------------------------

DaemonStep(d) ==
  \/ Load(d)
  \/ Store(d)
  \/ Drain(d)
  \/ Decide(d)
  \/ Cycle(d)
  \/ RunEnds(d)
  \/ RunFails(d)
  \/ Exit(d)

DaemonNext ==
  \/ \E d \in Pids : DaemonStep(d) \/ Kill(d)
  \/ \E s \in Starters : Check(s) \/ Spawn(s) \/ Load(s) \/ Store(s)
  \/ RequestStop
  \/ RequestResume
  \/ Tick

DaemonSpec == DaemonInit /\ [][DaemonNext]_daemonVars

\* A daemon that was started runs on, and every run ends.
FairDaemonSpec == DaemonSpec /\ \A d \in Pids : WF_daemonVars(DaemonStep(d))

----------------------------------------------------------------------------

StateRecord == [status : Status, pid : Pids \cup {None}, reply : 0..MaxReplies]

PatchRecord == [status : Status \cup {Keep}, pid : Pids \cup {None, Keep},
                reply : 0..MaxReplies \cup {Keep}]

ProcRecord ==
  [pc : {"unborn", "idle", "spawn", "loop", "decide", "cycle", "run", "exit",
         "dead"},
   todo : Seq(PatchRecord), basis : Seq(StateRecord), seen : Seq(StateRecord),
   stop : BOOLEAN, reply : 0..MaxReplies]

Command == [second : 0..MaxSeconds, type : {"stop", "resume"},
            reply : 0..MaxReplies]

\* Type invariant.
DaemonTypeOK ==
  /\ state \in StateRecord
  /\ commands \subseteq Command
  /\ proc \in [Processes -> ProcRecord]
  /\ \A p \in Processes : Len(proc[p].basis) <= 1 /\ Len(proc[p].seen) <= 1
  /\ second \in 0..MaxSeconds /\ replies \in 0..MaxReplies
  /\ heard \subseteq 0..MaxReplies

(***************************************************************************)
(* With one starter there is one daemon: however daemons end, a second one *)
(* runs only while the first does nothing but end.                         *)
(***************************************************************************)
OneDaemon == \A d, e \in Serving : d = e

(***************************************************************************)
(* A daemon that is said to be stopped or in error does no more work, so   *)
(* that starting another, as start_host_daemon then does, is safe.         *)
(***************************************************************************)
DownMeansDown == state.status \in Down => Serving = {}

(***************************************************************************)
(* A stop command ends the daemon that runs, whatever else it was sent     *)
(* together with it.                                                       *)
(***************************************************************************)
StopStops ==
  \A d \in Pids :
    d \in Serving /\ (\E c \in commands : c.type = "stop") ~> d \notin Serving

(***************************************************************************)
(* A reply sent to a running daemon, or one sent after it, is given to a   *)
(* run, as long as the daemon lives and no update of the state by its      *)
(* starter undid one of its own.                                           *)
(***************************************************************************)
EveryReplyIsHeard ==
  \A r \in 1..MaxReplies :
    replies >= r /\ Serving # {} ~>
      \/ \E h \in heard : h >= r
      \/ \E d \in Pids : proc[d].pc \in {"exit", "dead"}
      \/ clobbered
==========================================================================

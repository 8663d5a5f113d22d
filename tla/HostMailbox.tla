--------------------------- MODULE HostMailbox ---------------------------
(***************************************************************************)
(* The mailbox of one host session: an append-only file of commands for    *)
(* the worker, and two cursors in the session record.  What lies at or     *)
(* below mailbox_ack_sequence was acknowledged, what lies at or below      *)
(* mailbox_retry_sequence was sent again further up; the worker sees what  *)
(* lies above both.                                                        *)
(*                                                                         *)
(* Commands are appended without a lock.  The session record is read       *)
(* without one and written back whole under one, by every operation on the *)
(* session: a write may put back cursors read long ago.  A retry moves its *)
(* cursor first and then appends the commands again one by one.            *)
(*                                                                         *)
(* Only command lines are counted: the notes in between (session_updated,  *)
(* mailbox_ack) shift line numbers without changing their order, and       *)
(* cursors are only ever set to the numbers of command lines.              *)
(***************************************************************************)
EXTENDS Integers, Sequences

CONSTANTS
  Procs,       \* processes that work on the session
  MaxRetries,  \* max_retries
  MaxCommands, \* bound on commands issued, for TLC
  MaxLines,    \* no retry begins on a mailbox of this length, for TLC
  MaxCrashes   \* bound on crashes, for TLC

ASSUME RetriesAssumption == MaxRetries \in Nat \ {0}
ASSUME BoundsAssumption  ==
         MaxCommands \in Nat /\ MaxLines \in Nat /\ MaxCrashes \in Nat

VARIABLES
  cursor,  \* [ack, retry] of the session record
  lines,   \* the commands in the mailbox file: [id, tries]
  issued,  \* commands issued so far; their command_ids are 1..issued
  taken,   \* history: commands the worker has read
  run,     \* what each process is in the middle of
  worker,  \* the last line the worker read and has not acknowledged, or 0
  crashes, \* crashes so far
  cut      \* history: a process died with commands still to be sent again

vars == <<cursor, lines, issued, taken, run, worker, crashes, cut>>

Idle   == [pc |-> "idle"]
Line   == [id : 1..MaxCommands, tries : 0..MaxRetries]
Cursor == [ack : Nat, retry : Nat]

Larger(m, n) == IF m < n THEN n ELSE m
Level(c)     == Larger(c.ack, c.retry)

Init ==
  /\ cursor = [ack |-> 0, retry |-> 0]
  /\ lines = <<>>
  /\ issued = 0
  /\ taken = {}
  /\ run = [p \in Procs |-> Idle]
  /\ worker = 0
  /\ crashes = 0
  /\ cut = FALSE

\* read_host_session_mailbox_entries with unacked_only: line n is shown.
Unacked(n) == n \in DOMAIN lines /\ Level(cursor) < n

----------------------------------------------------------------------------
(* Operations that leave the cursors alone *)

\* _update_host_session loads the session.  Heartbeats, launch results,
\* reports and releases end with the write; a resume, a stop and a new
\* assignment go on to issue a command.
Touch(p, op) ==
  /\ run[p] = Idle
  /\ op = "command" => issued < MaxCommands
  /\ run' = [run EXCEPT ![p] = [pc |-> "touch", op |-> op, copy |-> cursor]]
  /\ UNCHANGED <<cursor, lines, issued, taken, worker, crashes, cut>>

\* ... and writes it back whole.
StoreTouched(p) ==
  /\ run[p].pc = "touch"
  /\ cursor' = run[p].copy
  /\ run' = [run EXCEPT ![p] =
       IF run[p].op = "command" THEN [pc |-> "issue"] ELSE Idle]
  /\ UNCHANGED <<lines, issued, taken, worker, crashes, cut>>

\* append_host_session_mailbox_command, on its own for inspect_session.
Inspect(p) ==
  /\ run[p] = Idle
  /\ run' = [run EXCEPT ![p] = [pc |-> "issue"]]
  /\ UNCHANGED <<cursor, lines, issued, taken, worker, crashes, cut>>

AppendCommand(p) ==
  /\ run[p].pc = "issue"
  /\ issued < MaxCommands
  /\ issued' = issued + 1
  /\ lines' = Append(lines, [id |-> issued + 1, tries |-> 0])
  /\ run' = [run EXCEPT ![p] = Idle]
  /\ UNCHANGED <<cursor, taken, worker, crashes, cut>>

----------------------------------------------------------------------------
(* Retry *)

\* The commands to send again are read ...
ReadUnacked(p) ==
  /\ run[p] = Idle
  /\ Len(lines) < MaxLines
  /\ \E n \in DOMAIN lines : Unacked(n)
  /\ run' = [run EXCEPT ![p] =
       [pc |-> "retry", upto |-> Len(lines),
        entries |-> {lines[n] : n \in {m \in DOMAIN lines : Unacked(m)}}]]
  /\ UNCHANGED <<cursor, lines, issued, taken, worker, crashes, cut>>

\* ... the session is loaded ...
LoadForRetry(p) ==
  /\ run[p].pc = "retry"
  /\ run' = [run EXCEPT ![p] =
       [pc |-> "retryLoaded", upto |-> run[p].upto,
        entries |-> run[p].entries, copy |-> cursor]]
  /\ UNCHANGED <<cursor, lines, issued, taken, worker, crashes, cut>>

Resend(p, todo) ==
  run' = [run EXCEPT ![p] =
    IF todo = {} THEN Idle ELSE [pc |-> "resend", todo |-> todo]]

\* Mutant: the cursor is moved to the end of the mailbox as it is now.
StoreRetryAtEnd(p) ==
  /\ run[p].pc = "retryLoaded"
  /\ cursor' = [run[p].copy EXCEPT !.retry = Len(lines)]
  /\ Resend(p, {e \in run[p].entries : e.tries < MaxRetries})
  /\ UNCHANGED <<lines, issued, taken, worker, crashes, cut>>

\* ... the retry cursor moves to the last command read, and what has been
\* sent max_retries times is not sent again ...
StoreRetry(p) ==
  /\ run[p].pc = "retryLoaded"
  /\ cursor' = [run[p].copy EXCEPT !.retry = run[p].upto]
  /\ Resend(p, {e \in run[p].entries : e.tries < MaxRetries})
  /\ UNCHANGED <<lines, issued, taken, worker, crashes, cut>>

\* ... and the others follow one by one, under their old command_id.
ResendNext(p) ==
  /\ run[p].pc = "resend"
  /\ \E e \in run[p].todo :
       /\ \A f \in run[p].todo : e.id <= f.id
       /\ lines' = Append(lines, [e EXCEPT !.tries = @ + 1])
       /\ Resend(p, run[p].todo \ {e})
  /\ UNCHANGED <<cursor, issued, taken, worker, crashes, cut>>

----------------------------------------------------------------------------
(* The worker *)

\* mailbox --unacked-only --commands-only
Take ==
  /\ \E n \in DOMAIN lines : Unacked(n) /\ (lines[n].id \notin taken \/ worker = 0)
  /\ taken' = taken \cup
       {lines[n].id : n \in {m \in DOMAIN lines : Unacked(m)}}
  /\ worker' = Len(lines)
  /\ UNCHANGED <<cursor, lines, issued, run, crashes, cut>>

\* Mutant: everything in the mailbox is acknowledged.
LoadForAckOfAll(p) ==
  /\ run[p] = Idle
  /\ worker > 0
  /\ run' = [run EXCEPT ![p] = [pc |-> "ack", upto |-> Len(lines),
                                copy |-> cursor]]
  /\ worker' = 0
  /\ UNCHANGED <<cursor, lines, issued, taken, crashes, cut>>

\* ack-mailbox --through-sequence loads the session ...
LoadForAck(p) ==
  /\ run[p] = Idle
  /\ worker > 0
  /\ run' = [run EXCEPT ![p] = [pc |-> "ack", upto |-> worker,
                                copy |-> cursor]]
  /\ worker' = 0
  /\ UNCHANGED <<cursor, lines, issued, taken, crashes, cut>>

\* ... and moves the cursor there, wherever it was.
StoreAck(p) ==
  /\ run[p].pc = "ack"
  /\ cursor' = [run[p].copy EXCEPT !.ack = run[p].upto]
  /\ run' = [run EXCEPT ![p] = Idle]
  /\ UNCHANGED <<lines, issued, taken, worker, crashes, cut>>

\* The worker forgets what it read before it acknowledged it.
WorkerRestarts ==
  /\ worker > 0
  /\ crashes < MaxCrashes
  /\ crashes' = crashes + 1
  /\ worker' = 0
  /\ UNCHANGED <<cursor, lines, issued, taken, run, cut>>

Crash(p) ==
  /\ run[p] # Idle
  /\ crashes < MaxCrashes
  /\ crashes' = crashes + 1
  /\ cut' = (cut \/ run[p].pc = "resend")
  /\ run' = [run EXCEPT ![p] = Idle]
  /\ UNCHANGED <<cursor, lines, issued, taken, worker>>

----------------------------------------------------------------------------

Advance(p) ==
  \/ StoreTouched(p)
  \/ AppendCommand(p)
  \/ LoadForRetry(p)
  \/ StoreRetry(p)
  \/ ResendNext(p)
  \/ StoreAck(p)

Next ==
  \/ \E p \in Procs :
       \/ \E op \in {"note", "command"} : Touch(p, op)
       \/ Inspect(p)
       \/ ReadUnacked(p)
       \/ LoadForAck(p)
       \/ Advance(p)
       \/ Crash(p)
  \/ Take
  \/ WorkerRestarts

Spec == Init /\ [][Next]_vars

\* Commands end, and the worker keeps polling its mailbox.
FairSpec == Spec /\ WF_vars(Take) /\ \A p \in Procs : WF_vars(Advance(p))

----------------------------------------------------------------------------

RunStates ==
  {Idle}
    \cup [pc : {"touch"}, op : {"note", "command"}, copy : Cursor]
    \cup [pc : {"issue"}]
    \cup [pc : {"retry"}, upto : Nat, entries : SUBSET Line]
    \cup [pc : {"retryLoaded"}, upto : Nat, entries : SUBSET Line,
          copy : Cursor]
    \cup [pc : {"resend"}, todo : SUBSET Line]
    \cup [pc : {"ack"}, upto : Nat, copy : Cursor]

\* Type invariant.
TypeOK ==
  /\ cursor \in Cursor
  /\ lines \in Seq(Line)
  /\ issued \in 0..MaxCommands
  /\ taken \in SUBSET (1..MaxCommands)
  /\ run \in [Procs -> RunStates]
  /\ worker \in Nat
  /\ crashes \in 0..MaxCrashes
  /\ cut \in BOOLEAN

\* The command was sent as often as max_retries allows.
Exhausted(id) ==
  \E n \in DOMAIN lines : lines[n].id = id /\ lines[n].tries = MaxRetries

\* The worker will see it: it is above the cursors, or about to be.
Visible(id) == \E n \in DOMAIN lines : Unacked(n) /\ lines[n].id = id
Resending(id) ==
  \E p \in Procs : run[p].pc = "resend" /\ \E e \in run[p].todo : e.id = id

(***************************************************************************)
(* No command is lost: as long as no retry was cut short, every command    *)
(* the worker has not read is still shown to it or just being sent again,  *)
(* unless it was sent as often as it may be; whatever cursors slow writers *)
(* put back, whoever retries at the same time, and wherever the worker     *)
(* restarts.                                                               *)
(***************************************************************************)
NoCommandLost ==
  ~cut => \A id \in 1..issued :
    id \in taken \/ Visible(id) \/ Resending(id) \/ Exhausted(id)

(***************************************************************************)
(* So a worker that keeps polling reads every command in the end.          *)
(***************************************************************************)
EveryCommandArrives ==
  \A id \in 1..MaxCommands :
    id <= issued ~> (id \in taken \/ Exhausted(id) \/ cut)

(***************************************************************************)
(* What the worker acknowledged is not shown to it again (host runtime     *)
(* notes on ack-mailbox).                                                  *)
(***************************************************************************)
AckedStaysAcked ==
  [][\A n \in DOMAIN lines : n <= cursor.ack => ~Unacked(n)']_vars
==========================================================================

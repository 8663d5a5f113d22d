---------------------------- MODULE HostProofs ----------------------------
(***************************************************************************)
(* Proofs about the mailbox of a host session and about the host daemon,   *)
(* which share no state.                                                   *)
(*                                                                         *)
(* The mailbox: no command is lost, for any number of processes.           *)
(* NoCommandLost speaks of the cursors as they are.  A slow writer may put *)
(* back any cursor it loaded earlier, so the invariant says the same of    *)
(* every position somebody holds: the two cursors, every copy of them, the *)
(* worker's place, and, save for what it is about to send again, the place *)
(* a retry is going to move its cursor to.                                 *)
(*                                                                         *)
(* The daemon: one works at a time, and none while the state says it is    *)
(* down.  What is on disk does not suffice for this: a daemon, and the     *)
(* process that started it, may still lay an update over a state they read *)
(* earlier.  The invariant therefore says of the state, of every copy read *)
(* and of every update to come that they keep a daemon at work known: its  *)
(* status is not one of Down, and its pid is there or about to be written. *)
(***************************************************************************)
EXTENDS HostMailbox, HostDaemon, SequenceTheorems, FiniteSetTheorems, TLAPS

\* What a retry still has to send was not sent as often as it may be.
RetryLeft ==
  \A p \in Procs :
    run[p].pc = "resend" => \A e \in run[p].todo : e.tries < MaxRetries

TInv == TypeOK /\ RetryLeft

----------------------------------------------------------------------------
(* Type correctness *)

LEMMA InitTyped == Init => TInv
<1> SUFFICES ASSUME Init PROVE TInv
  OBVIOUS
<1>1. lines \in Seq(Line)
  BY DEF Init
<1>2. run \in [Procs -> RunStates] /\ RetryLeft
  BY DEF Init, RunStates, Idle, RetryLeft
<1>3. cursor \in Cursor /\ worker \in Nat
  BY DEF Init, Cursor
<1>4. issued \in 0..MaxCommands /\ crashes \in 0..MaxCrashes
  BY BoundsAssumption DEF Init
<1>5. taken \in SUBSET (1..MaxCommands) /\ cut \in BOOLEAN
  BY DEF Init
<1> QED
  BY <1>1, <1>2, <1>3, <1>4, <1>5 DEF TInv, TypeOK

LEMMA LinesTyped ==
  ASSUME TypeOK
  PROVE  /\ DOMAIN lines = 1..Len(lines) /\ Len(lines) \in Nat
         /\ \A n \in DOMAIN lines :
              /\ lines[n].id \in 1..MaxCommands
              /\ lines[n].tries \in 0..MaxRetries
<1>1. lines \in Seq(Line)
  BY DEF TypeOK
<1>2. DOMAIN lines = 1..Len(lines) /\ Len(lines) \in Nat
  BY <1>1
<1>3. ASSUME NEW n \in DOMAIN lines
      PROVE  /\ lines[n].id \in 1..MaxCommands
             /\ lines[n].tries \in 0..MaxRetries
  <2>1. lines[n] \in Line
    BY <1>1, <1>2
  <2> QED
    BY <2>1 DEF Line
<1> QED
  BY <1>2, <1>3

LEMMA StepTyped == TInv /\ [Next]_vars => TInv'
<1> SUFFICES ASSUME TInv, [Next]_vars PROVE TInv'
  OBVIOUS
<1> USE RetriesAssumption, BoundsAssumption
<1>1. ASSUME NEW p \in Procs, NEW op \in {"note", "command"}, Touch(p, op)
      PROVE  TInv'
  BY <1>1 DEF Touch, TInv, TypeOK, RetryLeft, RunStates, Idle
<1>2. ASSUME NEW p \in Procs, StoreTouched(p) PROVE TInv'
  BY <1>2 DEF StoreTouched, TInv, TypeOK, RetryLeft, RunStates, Idle
<1>3. ASSUME NEW p \in Procs, Inspect(p) PROVE TInv'
  BY <1>3 DEF Inspect, TInv, TypeOK, RetryLeft, RunStates, Idle
<1>4. ASSUME NEW p \in Procs, AppendCommand(p) PROVE TInv'
  BY <1>4 DEF AppendCommand, TInv, TypeOK, RetryLeft, RunStates, Idle, Line
<1>5. ASSUME NEW p \in Procs, ReadUnacked(p) PROVE TInv'
  <2>1. {lines[n] : n \in {m \in DOMAIN lines : Unacked(m)}} \in SUBSET Line
    BY DEF TInv, TypeOK
  <2> QED
    BY <1>5, <2>1 DEF ReadUnacked, TInv, TypeOK, RetryLeft, RunStates, Idle
<1>6. ASSUME NEW p \in Procs, LoadForRetry(p) PROVE TInv'
  BY <1>6 DEF LoadForRetry, TInv, TypeOK, RetryLeft, RunStates, Idle
<1>7. ASSUME NEW p \in Procs, StoreRetry(p) PROVE TInv'
  <2> DEFINE todo == {e \in run[p].entries : e.tries < MaxRetries}
  <2>1. todo \in SUBSET Line /\ \A e \in todo : e.tries < MaxRetries
    BY <1>7 DEF StoreRetry, TInv, TypeOK, RunStates, Idle
  <2>2. run' = [run EXCEPT ![p] =
          IF todo = {} THEN Idle ELSE [pc |-> "resend", todo |-> todo]]
    BY <1>7 DEF StoreRetry, Resend
  <2> HIDE DEF todo
  <2>3. cursor' \in Cursor
    BY <1>7 DEF StoreRetry, TInv, TypeOK, RunStates, Idle, Cursor
  <2> QED
    BY <1>7, <2>1, <2>2, <2>3
    DEF StoreRetry, TInv, TypeOK, RetryLeft, RunStates, Idle
<1>8. ASSUME NEW p \in Procs, ResendNext(p) PROVE TInv'
  <2>1. PICK e \in run[p].todo :
          /\ lines' = Append(lines, [e EXCEPT !.tries = @ + 1])
          /\ Resend(p, run[p].todo \ {e})
    BY <1>8 DEF ResendNext
  <2>2. run[p].todo \in SUBSET Line /\ \A f \in run[p].todo : f.tries < MaxRetries
    BY <1>8 DEF ResendNext, TInv, TypeOK, RetryLeft, RunStates, Idle
  <2>3. [e EXCEPT !.tries = @ + 1] \in Line
    BY <2>2 DEF Line
  <2>4. lines' \in Seq(Line)
    BY <2>1, <2>3 DEF TInv, TypeOK
  <2>5. run' \in [Procs -> RunStates] /\ RetryLeft'
    BY <2>1, <2>2 DEF Resend, TInv, TypeOK, RetryLeft, RunStates, Idle
  <2> QED
    BY <1>8, <2>4, <2>5 DEF ResendNext, TInv, TypeOK
<1>9. CASE Take
  <2>0. \A n \in DOMAIN lines : lines[n].id \in 1..MaxCommands
    BY LinesTyped DEF TInv
  <2>1. taken' \in SUBSET (1..MaxCommands)
    BY <1>9, <2>0 DEF Take, TInv, TypeOK
  <2> QED
    BY <1>9, <2>1 DEF Take, TInv, TypeOK, RetryLeft
<1>10. ASSUME NEW p \in Procs, LoadForAck(p) PROVE TInv'
  BY <1>10 DEF LoadForAck, TInv, TypeOK, RetryLeft, RunStates, Idle
<1>11. ASSUME NEW p \in Procs, StoreAck(p) PROVE TInv'
  <2>1. cursor' \in Cursor
    BY <1>11 DEF StoreAck, TInv, TypeOK, RunStates, Idle, Cursor
  <2> QED
    BY <1>11, <2>1 DEF StoreAck, TInv, TypeOK, RetryLeft, RunStates, Idle
<1>12. CASE WorkerRestarts
  BY <1>12 DEF WorkerRestarts, TInv, TypeOK, RetryLeft
<1>13. ASSUME NEW p \in Procs, Crash(p) PROVE TInv'
  BY <1>13 DEF Crash, TInv, TypeOK, RetryLeft, RunStates, Idle
<1>14. CASE UNCHANGED vars
  BY <1>14 DEF vars, TInv, TypeOK, RetryLeft
<1> QED
  BY <1>1, <1>2, <1>3, <1>4, <1>5, <1>6, <1>7, <1>8, <1>9, <1>10, <1>11,
     <1>12, <1>13, <1>14 DEF Next, Advance

\* Type correctness (the session record and the mailbox file of commander_host_runtime).
THEOREM TypeCorrect == Spec => []TypeOK
<1>1. TInv => TypeOK
  BY DEF TInv
<1> QED
  BY <1>1, InitTyped, StepTyped, PTL DEF Spec

----------------------------------------------------------------------------
(* No command is lost *)

\* The command lies above position c of the file.
Above(id, c) == \E n \in DOMAIN lines : c < n /\ lines[n].id = id
Covered(id)  == id \in taken \/ Resending(id) \/ Exhausted(id)

\* A cursor may be put to c.
Fine(c) ==
  /\ c <= Len(lines)
  /\ \A id \in 1..issued : Covered(id) \/ Above(id, c)

\* A retry of `entries` may put its cursor to c.
FineBut(c, entries) ==
  /\ c <= Len(lines)
  /\ \A id \in 1..issued :
       \/ Covered(id) \/ Above(id, c)
       \/ \E e \in entries : e.id = id /\ e.tries < MaxRetries

\* What process p holds, it may write.
Holds(p) ==
  /\ run[p].pc \in {"touch", "retryLoaded", "ack"} =>
       Fine(run[p].copy.ack) /\ Fine(run[p].copy.retry)
  /\ run[p].pc = "ack" => Fine(run[p].upto)
  /\ run[p].pc \in {"retry", "retryLoaded"} =>
       FineBut(run[p].upto, run[p].entries)

Positions ==
  /\ Fine(cursor.ack) /\ Fine(cursor.retry) /\ Fine(worker)
  /\ \A p \in Procs : Holds(p)

PInv == TInv /\ (~cut => Positions)

\* A step appends to the file or leaves it, and what it no longer sends
\* again or newly issues it has appended.
Grows ==
  /\ Len(lines) <= Len(lines')
  /\ \A n \in DOMAIN lines : n \in DOMAIN lines' /\ lines'[n] = lines[n]
  /\ taken \subseteq taken'
  /\ \A id \in 1..issued' :
       id \in 1..issued \/ \E n \in DOMAIN lines' : Len(lines) < n /\ lines'[n].id = id
  /\ \A id \in 1..issued :
       Resending(id) => \/ Resending(id)'
                        \/ \E n \in DOMAIN lines' :
                             Len(lines) < n /\ lines'[n].id = id

LEMMA CoveredStays ==
  ASSUME TypeOK, Grows, NEW id \in 1..issued, Covered(id)
  PROVE  Covered(id)' \/ \E n \in DOMAIN lines' : Len(lines) < n /\ lines'[n].id = id
BY DEF Grows, Covered, Exhausted

LEMMA FineStays ==
  ASSUME TypeOK, TypeOK', Grows, NEW c \in Nat
  PROVE  /\ Fine(c) => Fine(c)'
         /\ \A entries : FineBut(c, entries) => FineBut(c, entries)'
<1>0. /\ Len(lines) \in Nat /\ DOMAIN lines = 1..Len(lines)
      /\ Len(lines') \in Nat /\ DOMAIN lines' = 1..Len(lines')
  <2>1. lines \in Seq(Line) /\ lines' \in Seq(Line)
    BY DEF TypeOK
  <2> QED
    BY <2>1
<1>1. ASSUME c <= Len(lines) PROVE (c <= Len(lines))'
  BY <1>0, <1>1 DEF Grows
<1>2. ASSUME NEW id \in 1..issued', c <= Len(lines),
             \E n \in DOMAIN lines' : Len(lines) < n /\ lines'[n].id = id
      PROVE  Above(id, c)'
  BY <1>0, <1>2 DEF Above
<1>3. ASSUME NEW id \in 1..issued, Above(id, c) PROVE Above(id, c)'
  BY <1>3 DEF Above, Grows
<1>4. ASSUME NEW id \in 1..issued', c <= Len(lines),
             id \in 1..issued => Covered(id) \/ Above(id, c)
      PROVE  Covered(id)' \/ Above(id, c)'
  BY <1>2, <1>3, <1>4, CoveredStays DEF Grows
<1>5. Fine(c) => Fine(c)'
  BY <1>1, <1>4 DEF Fine
<1>6. ASSUME NEW entries, FineBut(c, entries) PROVE FineBut(c, entries)'
  <2>1. ASSUME NEW id \in 1..issued'
        PROVE  \/ Covered(id)' \/ Above(id, c)'
               \/ \E e \in entries : e.id = id /\ e.tries < MaxRetries
    BY <1>4, <1>6, <2>1 DEF FineBut
  <2> QED
    BY <1>1, <1>6, <2>1 DEF FineBut
<1> QED
  BY <1>5, <1>6

\* What process q holds stays fine while it does not move.
LEMMA OthersStay ==
  ASSUME TypeOK, TypeOK', Grows, Positions, NEW q \in Procs, run'[q] = run[q]
  PROVE  Holds(q)'
<1>1. run[q] \in RunStates
  BY DEF TypeOK
<1>2. /\ run[q].pc \in {"touch", "retryLoaded", "ack"} =>
           run[q].copy.ack \in Nat /\ run[q].copy.retry \in Nat
      /\ run[q].pc \in {"ack", "retry", "retryLoaded"} => run[q].upto \in Nat
  BY <1>1 DEF RunStates, Idle, Cursor
<1>3. run'[q].pc \in {"touch", "retryLoaded", "ack"} =>
        Fine(run[q].copy.ack)' /\ Fine(run[q].copy.retry)'
  BY <1>2, FineStays DEF Positions, Holds
<1>4. run'[q].pc = "ack" => Fine(run[q].upto)'
  BY <1>2, FineStays DEF Positions, Holds
<1>5. run'[q].pc \in {"retry", "retryLoaded"} =>
        FineBut(run[q].upto, run[q].entries)'
  BY <1>2, FineStays DEF Positions, Holds
<1> QED
  BY <1>3, <1>4, <1>5 DEF Holds

\* A step of process p that appends nothing.
LEMMA QuietStep ==
  ASSUME TypeOK, TypeOK', Positions, NEW p \in Procs,
         \A q \in Procs \ {p} : run'[q] = run[q],
         run[p].pc # "resend",
         UNCHANGED <<lines, issued, taken>>
  PROVE  /\ Grows /\ (worker' = worker => Fine(worker)')
         /\ \A q \in Procs \ {p} : Holds(q)'
         /\ \A c \in Nat : Fine(c) => Fine(c)'
         /\ \A c \in Nat : \A entries :
              FineBut(c, entries) => FineBut(c, entries)'
<1>1. \A id \in 1..issued : Resending(id) => Resending(id)'
  BY DEF Resending
<1>2. Len(lines) \in Nat
  <2>1. lines \in Seq(Line)
    BY DEF TypeOK
  <2> QED
    BY <2>1
<1>3. Grows
  BY <1>1, <1>2 DEF Grows
<1>4. \A c \in Nat : Fine(c) => Fine(c)'
  BY <1>3, FineStays
<1>5. \A c \in Nat : \A entries : FineBut(c, entries) => FineBut(c, entries)'
  BY <1>3, FineStays
<1>6. ASSUME worker' = worker PROVE Fine(worker)'
  <2>1. worker \in Nat /\ Fine(worker)
    BY DEF TypeOK, Positions
  <2> QED
    BY <1>4, <1>6, <2>1
<1>7. \A q \in Procs \ {p} : Holds(q)'
  BY <1>3, OthersStay
<1> QED
  BY <1>3, <1>4, <1>5, <1>6, <1>7

\* The cursors after a step that leaves them alone.
LEMMA CursorsStay ==
  ASSUME TypeOK, TypeOK', Grows, Positions, cursor' = cursor
  PROVE  Fine(cursor.ack)' /\ Fine(cursor.retry)'
<1>1. cursor.ack \in Nat /\ cursor.retry \in Nat
  BY DEF TypeOK, Cursor
<1> QED
  BY <1>1, FineStays DEF Positions

\* What a process holds is typed.
LEMMA HoldsTyped ==
  ASSUME TypeOK, NEW p \in Procs
  PROVE  /\ run[p].pc \in {"touch", "retryLoaded", "ack"} =>
              run[p].copy \in Cursor
         /\ run[p].pc \in {"ack", "retry", "retryLoaded"} => run[p].upto \in Nat
<1>1. run[p] \in RunStates
  BY DEF TypeOK
<1> QED
  BY <1>1 DEF RunStates, Idle, Cursor

LEMMA InitPositions == Init => PInv
<1> SUFFICES ASSUME Init PROVE PInv
  OBVIOUS
<1>1. TInv
  BY InitTyped
<1>2. Len(lines) = 0 /\ issued = 0
  BY DEF Init
<1>3. Fine(0)
  BY <1>2 DEF Fine
<1>4. \A p \in Procs : Holds(p)
  BY DEF Init, Idle, Holds
<1> QED
  BY <1>1, <1>3, <1>4 DEF PInv, Positions, Init

\* A process that goes on to something it holds no position for.
LEMMA StepTouch ==
  ASSUME TypeOK, TypeOK', Positions, NEW p \in Procs, NEW op, Touch(p, op)
  PROVE  Positions'
<1>1. /\ \A q \in Procs \ {p} : run'[q] = run[q]
      /\ run[p].pc # "resend" /\ UNCHANGED <<lines, issued, taken, worker>>
      /\ cursor' = cursor
      /\ run'[p] = [pc |-> "touch", op |-> op, copy |-> cursor]
  BY DEF Touch, TypeOK, Idle
<1>2. Fine(cursor.ack)' /\ Fine(cursor.retry)'
  BY <1>1, QuietStep, CursorsStay
<1>3. Holds(p)'
  BY <1>1, <1>2 DEF Holds
<1> QED
  BY <1>1, <1>2, <1>3, QuietStep DEF Positions

LEMMA StepStoreTouched ==
  ASSUME TypeOK, TypeOK', Positions, NEW p \in Procs, StoreTouched(p)
  PROVE  Positions'
<1>1. /\ \A q \in Procs \ {p} : run'[q] = run[q]
      /\ run[p].pc = "touch" /\ UNCHANGED <<lines, issued, taken, worker>>
      /\ cursor' = run[p].copy
      /\ run'[p].pc \in {"issue", "idle"}
  BY DEF StoreTouched, TypeOK, Idle
<1>2. Fine(cursor.ack)' /\ Fine(cursor.retry)'
  <2>1. run[p].copy.ack \in Nat /\ run[p].copy.retry \in Nat
    BY <1>1, HoldsTyped DEF Cursor
  <2>2. Fine(run[p].copy.ack) /\ Fine(run[p].copy.retry)
    BY <1>1 DEF Positions, Holds
  <2> QED
    BY <1>1, <2>1, <2>2, QuietStep
<1>3. Holds(p)'
  BY <1>1 DEF Holds
<1> QED
  BY <1>1, <1>2, <1>3, QuietStep DEF Positions

LEMMA StepQuietly ==
  ASSUME TypeOK, TypeOK', Positions, NEW p \in Procs,
         Inspect(p) \/ Crash(p), ~cut'
  PROVE  Positions'
<1>1. /\ \A q \in Procs \ {p} : run'[q] = run[q]
      /\ run[p].pc # "resend" /\ UNCHANGED <<lines, issued, taken, worker>>
      /\ cursor' = cursor
      /\ run'[p].pc \in {"issue", "idle"}
  BY DEF Inspect, Crash, TypeOK, Idle
<1>2. Fine(cursor.ack)' /\ Fine(cursor.retry)'
  BY <1>1, QuietStep, CursorsStay
<1>3. Holds(p)'
  BY <1>1 DEF Holds
<1> QED
  BY <1>1, <1>2, <1>3, QuietStep DEF Positions

\* What an unacknowledged line carries may be sent again, or was sent as
\* often as it may be.
LEMMA StepReadUnacked ==
  ASSUME TypeOK, TypeOK', Positions, NEW p \in Procs, ReadUnacked(p)
  PROVE  Positions'
<1> DEFINE entries == {lines[n] : n \in {m \in DOMAIN lines : Unacked(m)}}
<1>1. /\ \A q \in Procs \ {p} : run'[q] = run[q]
      /\ run[p].pc # "resend" /\ UNCHANGED <<lines, issued, taken, worker>>
      /\ cursor' = cursor
      /\ run'[p] = [pc |-> "retry", upto |-> Len(lines), entries |-> entries]
  BY DEF ReadUnacked, TypeOK, Idle
<1>2. Fine(cursor.ack)' /\ Fine(cursor.retry)'
  BY <1>1, QuietStep, CursorsStay
<1>3. Len(lines) \in Nat
  BY LinesTyped
<1>4. Fine(Level(cursor))
  BY DEF Positions, Level, Larger
<1>5. ASSUME NEW id \in 1..issued, ~Covered(id)
      PROVE  \E e \in entries : e.id = id /\ e.tries < MaxRetries
  <2>1. PICK n \in DOMAIN lines : Level(cursor) < n /\ lines[n].id = id
    BY <1>4, <1>5 DEF Fine, Above
  <2>2. lines[n] \in entries
    BY <2>1 DEF Unacked
  <2>3. lines[n].tries # MaxRetries
    BY <1>5, <2>1 DEF Covered, Exhausted
  <2>4. lines[n].tries \in 0..MaxRetries
    BY LinesTyped
  <2>5. lines[n].tries < MaxRetries
    BY <2>3, <2>4, RetriesAssumption
  <2> QED
    BY <2>1, <2>2, <2>5
<1>6. FineBut(Len(lines), entries)
  BY <1>3, <1>5 DEF FineBut
<1> HIDE DEF entries
<1>7. PICK c, e : c = Len(lines) /\ e = entries
  OBVIOUS
<1>8. FineBut(c, e)'
  <2>1. c \in Nat /\ FineBut(c, e)
    BY <1>3, <1>6, <1>7
  <2> QED
    BY <1>1, <2>1, QuietStep
<1>9. Holds(p)'
  BY <1>1, <1>7, <1>8 DEF Holds
<1> QED
  BY <1>1, <1>2, <1>9, QuietStep DEF Positions

LEMMA StepLoadForRetry ==
  ASSUME TypeOK, TypeOK', Positions, NEW p \in Procs, LoadForRetry(p)
  PROVE  Positions'
<1>1. /\ \A q \in Procs \ {p} : run'[q] = run[q]
      /\ run[p].pc = "retry" /\ UNCHANGED <<lines, issued, taken, worker>>
      /\ cursor' = cursor
      /\ run'[p] = [pc |-> "retryLoaded", upto |-> run[p].upto,
                    entries |-> run[p].entries, copy |-> cursor]
  BY DEF LoadForRetry, TypeOK, Idle
<1>2. Fine(cursor.ack)' /\ Fine(cursor.retry)'
  BY <1>1, QuietStep, CursorsStay
<1>3. FineBut(run[p].upto, run[p].entries) /\ run[p].upto \in Nat
  BY <1>1, HoldsTyped DEF Positions, Holds
<1>4. PICK c, e : c = run[p].upto /\ e = run[p].entries
  OBVIOUS
<1>5. FineBut(c, e)'
  <2>1. c \in Nat /\ FineBut(c, e)
    BY <1>3, <1>4
  <2> QED
    BY <1>1, <2>1, QuietStep
<1>6. Holds(p)'
  BY <1>1, <1>2, <1>4, <1>5 DEF Holds
<1> QED
  BY <1>1, <1>2, <1>6, QuietStep DEF Positions

\* What is sent again leaves the entries and shows in `todo`.
LEMMA StepStoreRetry ==
  ASSUME TypeOK, TypeOK', Positions, NEW p \in Procs, StoreRetry(p)
  PROVE  Positions'
<1> DEFINE todo == {e \in run[p].entries : e.tries < MaxRetries}
<1>1. PICK c, old : c = run[p].upto /\ old = run[p].copy
  OBVIOUS
<1>2. /\ \A q \in Procs \ {p} : run'[q] = run[q]
      /\ run[p].pc = "retryLoaded" /\ UNCHANGED <<lines, issued, taken, worker>>
      /\ cursor' = [old EXCEPT !.retry = c]
      /\ run'[p] = IF todo = {} THEN Idle ELSE [pc |-> "resend", todo |-> todo]
  BY <1>1 DEF StoreRetry, Resend, TypeOK, Idle
<1>3. old \in Cursor /\ c \in Nat
  BY <1>1, <1>2, HoldsTyped
<1>4. cursor'.ack = old.ack /\ cursor'.retry = c /\ old.ack \in Nat
  BY <1>2, <1>3 DEF Cursor
<1>5. Fine(old.ack)'
  <2>1. Fine(old.ack)
    BY <1>1, <1>2 DEF Positions, Holds
  <2> QED
    BY <1>2, <1>4, <2>1, QuietStep
<1>6. Fine(c)'
  <2>1. PICK entries : entries = run[p].entries
    OBVIOUS
  <2>2. FineBut(c, entries)
    BY <1>1, <1>2, <2>1 DEF Positions, Holds
  <2>3. FineBut(c, entries)'
    BY <1>2, <1>3, <2>2, QuietStep
  <2>4. ASSUME NEW id, NEW e \in entries, e.id = id, e.tries < MaxRetries
        PROVE  Resending(id)'
    <3>1. e \in todo
      BY <2>1, <2>4
    <3>2. run'[p] = [pc |-> "resend", todo |-> todo]
      BY <1>2, <3>1
    <3> HIDE DEF todo
    <3> QED
      BY <2>4, <3>1, <3>2 DEF Resending
  <2> QED
    BY <2>3, <2>4 DEF Fine, FineBut, Covered
<1>7. Holds(p)'
  BY <1>2 DEF Holds, Idle
<1> QED
  BY <1>2, <1>4, <1>5, <1>6, <1>7, QuietStep DEF Positions

LEMMA StepLoadForAck ==
  ASSUME TypeOK, TypeOK', Positions, NEW p \in Procs, LoadForAck(p)
  PROVE  Positions'
<1>1. PICK w : w = worker
  OBVIOUS
<1>2. /\ \A q \in Procs \ {p} : run'[q] = run[q]
      /\ run[p].pc # "resend" /\ UNCHANGED <<lines, issued, taken>>
      /\ cursor' = cursor /\ worker' = 0
      /\ run'[p] = [pc |-> "ack", upto |-> w, copy |-> cursor]
  BY <1>1 DEF LoadForAck, TypeOK, Idle
<1>3. Fine(cursor.ack)' /\ Fine(cursor.retry)'
  BY <1>2, QuietStep, CursorsStay
<1>4. w \in Nat /\ Fine(w)
  BY <1>1 DEF TypeOK, Positions
<1>5. Fine(w)'
  BY <1>2, <1>4, QuietStep
<1>6. Fine(0)'
  <2>1. Len(lines') \in Nat /\ DOMAIN lines' = 1..Len(lines')
    <3>1. lines' \in Seq(Line)
      BY DEF TypeOK
    <3> QED
      BY <3>1
  <2> QED
    BY <1>5, <2>1 DEF Fine, Above
<1>7. Fine(worker)'
  BY <1>2, <1>6
<1>8. Holds(p)'
  BY <1>2, <1>3, <1>5 DEF Holds
<1> QED
  BY <1>2, <1>3, <1>7, <1>8, QuietStep DEF Positions

LEMMA StepStoreAck ==
  ASSUME TypeOK, TypeOK', Positions, NEW p \in Procs, StoreAck(p)
  PROVE  Positions'
<1>1. PICK c, old : c = run[p].upto /\ old = run[p].copy
  OBVIOUS
<1>2. /\ \A q \in Procs \ {p} : run'[q] = run[q]
      /\ run[p].pc = "ack" /\ UNCHANGED <<lines, issued, taken, worker>>
      /\ cursor' = [old EXCEPT !.ack = c]
      /\ run'[p] = Idle
  BY <1>1 DEF StoreAck, TypeOK, Idle
<1>3. old \in Cursor /\ c \in Nat
  BY <1>1, <1>2, HoldsTyped
<1>4. cursor'.ack = c /\ cursor'.retry = old.retry /\ old.retry \in Nat
  BY <1>2, <1>3 DEF Cursor
<1>5. Fine(c) /\ Fine(old.retry)
  BY <1>1, <1>2 DEF Positions, Holds
<1>6. Fine(c)' /\ Fine(old.retry)'
  BY <1>2, <1>3, <1>4, <1>5, QuietStep
<1>7. Holds(p)'
  BY <1>2 DEF Holds, Idle
<1> QED
  BY <1>2, <1>4, <1>6, <1>7, QuietStep DEF Positions

\* A step of process p that appends a line and keeps the cursors.
LEMMA GrowingStep ==
  ASSUME TypeOK, TypeOK', Grows, Positions, NEW p \in Procs,
         \A q \in Procs \ {p} : run'[q] = run[q],
         run'[p].pc \in {"idle", "resend"},
         cursor' = cursor, worker' = worker
  PROVE  Positions'
<1>1. Fine(cursor.ack)' /\ Fine(cursor.retry)'
  BY CursorsStay
<1>2. worker \in Nat /\ Fine(worker)
  BY DEF TypeOK, Positions
<1>3. Fine(worker)'
  BY <1>2, FineStays
<1>4. Holds(p)'
  BY DEF Holds
<1>5. \A q \in Procs \ {p} : Holds(q)'
  BY OthersStay
<1> QED
  BY <1>1, <1>3, <1>4, <1>5 DEF Positions

LEMMA Appended ==
  ASSUME TypeOK, NEW line \in Line, lines' = Append(lines, line)
  PROVE  /\ Len(lines) \in Nat /\ Len(lines') = Len(lines) + 1
         /\ Len(lines) + 1 \in DOMAIN lines' /\ lines'[Len(lines) + 1] = line
         /\ \A n \in DOMAIN lines : n \in DOMAIN lines' /\ lines'[n] = lines[n]
<1>1. lines \in Seq(Line)
  BY DEF TypeOK
<1> QED
  BY <1>1

LEMMA StepAppendCommand ==
  ASSUME TypeOK, TypeOK', Positions, NEW p \in Procs, AppendCommand(p)
  PROVE  Positions'
<1> DEFINE line == [id |-> issued + 1, tries |-> 0]
<1>1. /\ \A q \in Procs \ {p} : run'[q] = run[q]
      /\ run[p].pc = "issue" /\ run'[p].pc = "idle"
      /\ lines' = Append(lines, line) /\ issued' = issued + 1
      /\ UNCHANGED <<cursor, worker, taken>>
  BY DEF AppendCommand, TypeOK, Idle
<1>2. issued \in Nat /\ issued' \in 1..MaxCommands
  BY <1>1, BoundsAssumption DEF AppendCommand, TypeOK
<1>3. line \in Line /\ line.id = issued + 1
  BY <1>1, <1>2, RetriesAssumption DEF Line
<1> HIDE DEF line
<1>4. \A id \in 1..issued : Resending(id) => Resending(id)'
  BY <1>1 DEF Resending
<1>5. \A id \in 1..issued' : id \in 1..issued \/ id = issued + 1
  BY <1>1, <1>2
<1>6. Len(lines) < Len(lines) + 1 /\ Len(lines) <= Len(lines')
  BY <1>1, <1>3, Appended
<1>7. Grows
  BY <1>1, <1>3, <1>4, <1>5, <1>6, Appended DEF Grows
<1> QED
  BY <1>1, <1>7, GrowingStep

LEMMA StepResendNext ==
  ASSUME TypeOK, TypeOK', Positions, NEW p \in Procs, ResendNext(p)
  PROVE  Positions'
<1>1. PICK e \in run[p].todo :
        /\ lines' = Append(lines, [e EXCEPT !.tries = @ + 1])
        /\ Resend(p, run[p].todo \ {e})
  BY DEF ResendNext
<1>2. /\ run[p].pc = "resend"
      /\ UNCHANGED <<cursor, worker, taken, issued>>
  BY DEF ResendNext
<1>3. PICK left : left = run[p].todo \ {e}
  OBVIOUS
<1>4. /\ \A q \in Procs \ {p} : run'[q] = run[q]
      /\ run'[p] = IF left = {} THEN Idle ELSE [pc |-> "resend", todo |-> left]
  BY <1>1, <1>3 DEF Resend, TypeOK
<1>5. PICK line : line = [e EXCEPT !.tries = @ + 1]
  OBVIOUS
<1>6. e \in Line
  <2>1. run[p] \in RunStates
    BY DEF TypeOK
  <2>2. run[p].todo \in SUBSET Line
    BY <1>2, <2>1 DEF RunStates, Idle
  <2> QED
    BY <2>2
<1>7. line.id = e.id
  BY <1>5, <1>6 DEF Line
<1>8. lines' \in Seq(Line)
  BY DEF TypeOK
<1>9. lines \in Seq(Line)
  BY DEF TypeOK
<1>10. /\ Len(lines) \in Nat /\ Len(lines') = Len(lines) + 1
       /\ Len(lines) + 1 \in DOMAIN lines' /\ lines'[Len(lines) + 1] = line
       /\ \A n \in DOMAIN lines : n \in DOMAIN lines' /\ lines'[n] = lines[n]
  BY <1>1, <1>5, <1>8, <1>9
<1>11. ASSUME NEW id \in 1..issued, Resending(id)
       PROVE  Resending(id)' \/ id = e.id
  <2>1. PICK q \in Procs : run[q].pc = "resend" /\ \E f \in run[q].todo : f.id = id
    BY <1>11 DEF Resending
  <2>2. CASE q # p
    BY <1>4, <2>1, <2>2 DEF Resending
  <2>3. CASE q = p /\ id # e.id
    <3>1. PICK f \in run[p].todo : f.id = id
      BY <2>1, <2>3
    <3>2. f \in left
      BY <1>3, <2>3, <3>1
    <3>3. run'[p] = [pc |-> "resend", todo |-> left]
      BY <1>4, <3>2
    <3> QED
      BY <3>1, <3>2, <3>3 DEF Resending
  <2> QED
    BY <2>2, <2>3
<1>12. Len(lines) < Len(lines) + 1 /\ Len(lines) <= Len(lines')
  BY <1>10
<1>13. Grows
  BY <1>2, <1>7, <1>10, <1>11, <1>12 DEF Grows
<1>14. run'[p].pc \in {"idle", "resend"}
  BY <1>4 DEF Idle
<1> QED
  BY <1>2, <1>4, <1>13, <1>14, GrowingStep

\* A step that leaves the file and the processes alone.
LEMMA WorkerGrows ==
  ASSUME TypeOK, taken \subseteq taken', UNCHANGED <<cursor, lines, issued, run>>
  PROVE  Grows
<1>1. Len(lines) \in Nat
  BY LinesTyped
<1>2. \A id \in 1..issued : Resending(id) => Resending(id)'
  BY DEF Resending
<1> QED
  BY <1>1, <1>2 DEF Grows

\* All the worker is shown it has read.
LEMMA StepTake ==
  ASSUME TypeOK, TypeOK', Positions, Take
  PROVE  Positions'
<1>1. /\ taken' = taken \cup {lines[n].id : n \in {m \in DOMAIN lines : Unacked(m)}}
      /\ worker' = Len(lines)
      /\ UNCHANGED <<cursor, lines, issued, run>>
  BY DEF Take
<1>2. Grows
  BY <1>1, WorkerGrows
<1>3. PICK l : l = Len(lines)
  OBVIOUS
<1>4. Fine(l)'
  <2>1. l \in Nat /\ l <= Len(lines')
    BY <1>1, <1>3, LinesTyped
  <2>2. Fine(Level(cursor))
    BY DEF Positions, Level, Larger
  <2>3. ASSUME NEW id \in 1..issued', Above(id, Level(cursor))
        PROVE  id \in taken'
    BY <1>1, <2>3 DEF Above, Unacked
  <2>4. ASSUME NEW id \in 1..issued', Covered(id)
        PROVE  Covered(id)'
    BY <1>1, <2>4 DEF Covered, Resending, Exhausted
  <2>5. \A id \in 1..issued' : Covered(id) \/ Above(id, Level(cursor))
    BY <1>1, <2>2 DEF Fine
  <2>6. \A id \in 1..issued' : Covered(id)'
    BY <2>3, <2>4, <2>5 DEF Covered
  <2> QED
    BY <2>1, <2>6 DEF Fine
<1>5. Fine(worker)'
  BY <1>1, <1>3, <1>4
<1>6. Fine(cursor.ack)' /\ Fine(cursor.retry)'
  BY <1>1, <1>2, CursorsStay
<1>7. \A p \in Procs : Holds(p)'
  BY <1>1, <1>2, OthersStay
<1> QED
  BY <1>5, <1>6, <1>7 DEF Positions

LEMMA StepRest ==
  ASSUME TypeOK, TypeOK', Positions, WorkerRestarts \/ UNCHANGED vars
  PROVE  Positions'
<1>1. /\ taken' = taken /\ worker' \in {0, worker}
      /\ UNCHANGED <<cursor, lines, issued, run>>
  BY DEF WorkerRestarts, vars
<1>2. Grows
  BY <1>1, WorkerGrows
<1>3. worker \in Nat /\ Fine(worker)
  BY DEF TypeOK, Positions
<1>4. Fine(worker)
  BY DEF Positions
<1>5. Fine(0)
  BY <1>3, LinesTyped DEF Fine, Above
<1>6. Fine(0)' /\ (worker' = worker => Fine(worker)')
  BY <1>2, <1>3, <1>5, FineStays
<1>7. Fine(worker)'
  BY <1>1, <1>6
<1>8. Fine(cursor.ack)' /\ Fine(cursor.retry)'
  BY <1>1, <1>2, CursorsStay
<1>9. \A p \in Procs : Holds(p)'
  BY <1>1, <1>2, OthersStay
<1> QED
  BY <1>7, <1>8, <1>9 DEF Positions

LEMMA StepPositions == PInv /\ [Next]_vars => PInv'
<1> SUFFICES ASSUME PInv, [Next]_vars, ~cut' PROVE Positions'
  BY StepTyped DEF PInv
<1>1. TypeOK /\ TypeOK'
  BY StepTyped DEF PInv, TInv
<1>2. ~cut
  <2>1. cut \in BOOLEAN
    BY <1>1 DEF TypeOK
  <2> QED
    BY <2>1 DEF Next, Advance, Touch, StoreTouched, Inspect, AppendCommand,
       ReadUnacked, LoadForRetry, StoreRetry, ResendNext, Take, LoadForAck,
       StoreAck, WorkerRestarts, Crash, vars
<1>3. Positions
  BY <1>2 DEF PInv
<1> QED
  BY <1>1, <1>3, StepTouch, StepStoreTouched, StepQuietly, StepReadUnacked,
     StepLoadForRetry, StepStoreRetry, StepLoadForAck, StepStoreAck,
     StepAppendCommand, StepResendNext, StepTake, StepRest DEF Next, Advance

LEMMA PositionsSuffice == PInv => NoCommandLost
<1> SUFFICES ASSUME PInv, ~cut, NEW id \in 1..issued
             PROVE  id \in taken \/ Visible(id) \/ Resending(id) \/ Exhausted(id)
  BY DEF NoCommandLost
<1>1. Fine(Level(cursor))
  BY DEF PInv, Positions, Level, Larger
<1>2. Above(id, Level(cursor)) => Visible(id)
  BY DEF Above, Visible, Unacked
<1> QED
  BY <1>1, <1>2 DEF Fine, Covered

\* No command is lost (ack_host_session_mailbox and retry_host_session_mailbox
\* over cursors that any slow writer may put back).
THEOREM NothingLost == Spec => []NoCommandLost
BY InitPositions, StepPositions, PositionsSuffice, PTL DEF Spec

----------------------------------------------------------------------------
(* The daemon *)

\* One process at a time starts daemons.
OneStarter == \A s, t \in Starters : s = t

\* The daemon has something left to write, or will have.
Active(d) ==
  \/ proc[d].pc \in {"loop", "decide", "cycle", "run"}
  \/ proc[d].pc = "exit" /\ proc[d].todo # <<>>

\* Its first update, which names it in the state, is still to come.
Introduces(p, d) == proc[p].todo # <<>> /\ Head(proc[p].todo).pid = d

\* What a daemon has in hand.
DaemonKept(d) ==
  /\ proc[d].pc \notin {"idle", "spawn"}
  /\ ~Active(d) => proc[d].todo = <<>>
  /\ \A i \in DOMAIN proc[d].todo :
       /\ proc[d].todo[i].pid \in {Keep, d}
       /\ proc[d].pc # "exit" => proc[d].todo[i].status \notin Down
  /\ proc[d].pc = "exit" => Len(proc[d].todo) <= 1

\* The state, and what an update of the daemon has read of it, are those of a
\* daemon that runs.
StateKept(d) ==
  Active(d) =>
    /\ state.status \notin Down
    /\ state.pid = d \/ Introduces(d, d)
    /\ state.pid = d \/ \E s \in Starters : proc[s].todo # <<>>
    /\ proc[d].basis # <<>> =>
         /\ Head(proc[d].basis).status \notin Down
         /\ Head(proc[d].basis).pid = d \/ Introduces(d, d)

\* What the starter has in hand: nobody is active before it spawns, and
\* thereafter it names the one it spawned.
StarterKept(s) ==
  /\ proc[s].pc \in {"idle", "spawn"}
  /\ Len(proc[s].todo) <= 1
  /\ proc[s].pc = "spawn" =>
       /\ \A d \in Pids : ~Active(d)
       /\ IF proc[s].todo = <<>> THEN state.status \notin Down
          ELSE Head(proc[s].todo) = SetBoth("starting", None)
  /\ proc[s].pc = "idle" /\ proc[s].todo # <<>> =>
       /\ Head(proc[s].todo).status = Keep
       /\ \A d \in Pids : Active(d) =>
            /\ Introduces(s, d)
            /\ proc[s].basis # <<>> => Head(proc[s].basis).status \notin Down

\* What is on disk and in hand is well formed.
DTInv ==
  /\ DaemonTypeOK
  /\ IsFiniteSet(commands)
  /\ \A p \in Processes : proc[p].basis # <<>> => proc[p].todo # <<>>

DInv ==
  /\ DTInv
  /\ \A d, e \in Pids : Active(d) /\ Active(e) => d = e
  /\ \A d \in Pids : DaemonKept(d) /\ StateKept(d)
  /\ \A s \in Starters : StarterKept(s)

----------------------------------------------------------------------------
(* Type correctness *)

LEMMA PatchesTyped ==
  /\ Beat \in PatchRecord
  /\ \A s \in Status : Set(s) \in PatchRecord
  /\ \A s \in Status, r \in 0..MaxReplies : SetBoth(s, r) \in PatchRecord
  /\ \A s \in Status \cup {Keep}, d \in Pids : Patch(s, d, Keep) \in PatchRecord
BY DEF Beat, Set, SetBoth, Patch, PatchRecord

LEMMA AtTyped ==
  ASSUME NEW pc \in {"unborn", "idle", "spawn", "loop", "decide", "cycle",
                     "run", "exit", "dead"},
         NEW todo \in Seq(PatchRecord)
  PROVE  At(pc, todo) \in ProcRecord
<1>1. 0 \in 0..MaxReplies
  BY DaemonBounds
<1>2. <<>> \in Seq(StateRecord)
  OBVIOUS
<1> QED
  BY <1>1, <1>2 DEF At, None, ProcRecord

LEMMA ProcTyped ==
  ASSUME DaemonTypeOK, NEW p \in Processes
  PROVE  /\ proc[p] \in ProcRecord
         /\ proc[p].todo \in Seq(PatchRecord)
         /\ proc[p].basis \in Seq(StateRecord)
         /\ proc[p].basis # <<>> => Head(proc[p].basis) \in StateRecord
         /\ proc[p].todo # <<>> => /\ Head(proc[p].todo) \in PatchRecord
                                   /\ Tail(proc[p].todo) \in Seq(PatchRecord)
         /\ proc[p].reply \in 0..MaxReplies
<1>1. proc[p] \in ProcRecord
  BY DEF DaemonTypeOK
<1>2. /\ proc[p].todo \in Seq(PatchRecord)
      /\ proc[p].basis \in Seq(StateRecord)
      /\ proc[p].reply \in 0..MaxReplies
  BY <1>1 DEF ProcRecord
<1> QED
  BY <1>1, <1>2

\* What lies under a patch is a state, and so is what comes of it.
LEMMA LaidTyped ==
  ASSUME NEW patch \in PatchRecord, NEW old \in StateRecord
  PROVE  Laid(patch, old) \in StateRecord
BY DEF Laid, Over, PatchRecord, StateRecord

\* A batch of commands is as long as there are files, and each of its
\* commands makes two patches.
LEMMA UpdatesTyped ==
  ASSUME DTInv, NEW batch \in InOrder(commands)
  PROVE  Updates(batch) \in Seq(PatchRecord)
<1> DEFINE n == Cardinality(commands)
<1>1. n \in Nat
  BY FS_CardinalityType DEF DTInv
<1>2. batch \in [1..n -> commands]
  BY DEF InOrder
<1>3. batch \in Seq(commands) /\ Len(batch) = n
  <2>1. batch \in Seq(commands)
    BY <1>1, <1>2
  <2> QED
    BY <1>1, <1>2, <2>1
<1>4. ASSUME NEW i \in 1..2 * n, i % 2 # 1
      PROVE  batch[i \div 2] \in Command
  <2>1. i \div 2 \in 1..n
    BY <1>1, <1>4
  <2> QED
    BY <1>2, <2>1 DEF DTInv, DaemonTypeOK
<1>5. ASSUME NEW c \in Command
      PROVE  Applied(c) \in PatchRecord
  BY PatchesTyped DEF Applied, Command, Status
<1>6. ASSUME NEW i \in 1..2 * n
      PROVE  (IF i % 2 = 1 THEN Beat ELSE Applied(batch[i \div 2])) \in PatchRecord
  BY <1>4, <1>5, PatchesTyped
<1>7. Updates(batch) \in [1..2 * n -> PatchRecord]
  BY <1>3, <1>6 DEF Updates
<1> QED
  BY <1>1, <1>7

LEMMA DaemonInitTyped == DaemonInit => DTInv
<1> SUFFICES ASSUME DaemonInit PROVE DTInv
  OBVIOUS
<1>1. 0 \in 0..MaxReplies /\ 0 \in 0..MaxSeconds
  BY DaemonBounds
<1>2. state \in StateRecord
  BY <1>1 DEF DaemonInit, NoState, None, StateRecord, Status, Down
<1>3. proc \in [Processes -> ProcRecord]
  <2>1. ASSUME NEW p \in Processes
        PROVE  At(IF p \in Pids THEN "unborn" ELSE "idle", <<>>) \in ProcRecord
    <3>1. <<>> \in Seq(PatchRecord)
      OBVIOUS
    <3> QED
      BY <3>1, AtTyped
  <2> QED
    BY <2>1 DEF DaemonInit
<1>4. \A p \in Processes : proc[p].basis = <<>> /\ proc[p].seen = <<>>
  BY DEF DaemonInit, At
<1>5. IsFiniteSet(commands) /\ commands \subseteq Command /\ heard \subseteq 0..MaxReplies
  BY FS_EmptySet DEF DaemonInit
<1> QED
  BY <1>1, <1>2, <1>3, <1>4, <1>5 DEF DTInv, DaemonTypeOK, DaemonInit

\* One process moves on, as At says or within what it was doing.
LEMMA MoveTyped ==
  ASSUME DTInv, NEW p \in Processes, NEW r \in ProcRecord,
         Len(r.basis) <= 1, Len(r.seen) <= 1,
         r.basis # <<>> => r.todo # <<>>,
         proc' = [proc EXCEPT ![p] = r],
         state' \in StateRecord, UNCHANGED <<commands, second, replies>>,
         heard' \subseteq 0..MaxReplies
  PROVE  DTInv'
<1>1. proc' \in [Processes -> ProcRecord]
  BY DEF DTInv, DaemonTypeOK
<1>2. \A q \in Processes :
        /\ Len(proc'[q].basis) <= 1 /\ Len(proc'[q].seen) <= 1
        /\ proc'[q].basis # <<>> => proc'[q].todo # <<>>
  BY DEF DTInv, DaemonTypeOK
<1> QED
  BY <1>1, <1>2 DEF DTInv, DaemonTypeOK

LEMMA AtMoves ==
  ASSUME DTInv, NEW p \in Processes,
         NEW pc \in {"unborn", "idle", "spawn", "loop", "decide", "cycle",
                     "run", "exit", "dead"},
         NEW todo \in Seq(PatchRecord),
         proc' = [proc EXCEPT ![p] = At(pc, todo)],
         state' \in StateRecord, UNCHANGED <<commands, second, replies>>,
         heard' \subseteq 0..MaxReplies
  PROVE  DTInv'
<1>1. At(pc, todo) \in ProcRecord
  BY AtTyped
<1>2. Len(At(pc, todo).basis) <= 1 /\ Len(At(pc, todo).seen) <= 1 /\ At(pc, todo).basis = <<>>
  BY DEF At
<1> QED
  BY <1>1, <1>2, MoveTyped

LEMMA LoadTyped ==
  ASSUME DTInv, NEW p \in Processes, Load(p)
  PROVE  DTInv'
<1> DEFINE r == [proc[p] EXCEPT !.basis = <<state>>]
<1>1. proc' = [proc EXCEPT ![p] = r]
  BY DEF Load
<1>2. state \in StateRecord
  BY DEF DTInv, DaemonTypeOK
<1>3. r \in ProcRecord /\ r.basis = <<state>> /\ r.seen = proc[p].seen /\ r.todo = proc[p].todo
  <2>1. proc[p] \in ProcRecord /\ <<state>> \in Seq(StateRecord)
    BY <1>2, ProcTyped DEF DTInv
  <2> QED
    BY <2>1 DEF ProcRecord
<1>4. Len(r.basis) <= 1 /\ Len(r.seen) <= 1
  BY <1>3 DEF DTInv, DaemonTypeOK
<1> QED
  BY <1>1, <1>2, <1>3, <1>4, MoveTyped DEF Load, DTInv, DaemonTypeOK

LEMMA StoreTyped ==
  ASSUME DTInv, NEW p \in Processes, Store(p)
  PROVE  DTInv'
<1> DEFINE new == Laid(Head(proc[p].todo), Head(proc[p].basis))
           r == [proc[p] EXCEPT !.basis = <<>>, !.todo = Tail(proc[p].todo),
                                !.seen = <<new>>]
<1>1. proc' = [proc EXCEPT ![p] = r] /\ state' = new
  BY DEF Store
<1>2. new \in StateRecord
  BY ProcTyped, LaidTyped DEF Store, DTInv
<1>3. Tail(proc[p].todo) \in Seq(PatchRecord)
  BY ProcTyped DEF Store, DTInv
<1> HIDE DEF new
<1>4. r \in ProcRecord /\ r.basis = <<>> /\ r.seen = <<new>>
  <2>1. proc[p] \in ProcRecord /\ <<new>> \in Seq(StateRecord) /\ <<>> \in Seq(StateRecord)
    BY <1>2, ProcTyped DEF DTInv
  <2> QED
    BY <1>3, <2>1 DEF ProcRecord
<1>5. Len(r.basis) <= 1 /\ Len(r.seen) <= 1
  BY <1>4
<1> QED
  BY <1>1, <1>2, <1>4, <1>5, MoveTyped DEF Store, DTInv, DaemonTypeOK

LEMMA DrainTyped ==
  ASSUME DTInv, NEW d \in Pids, Drain(d)
  PROVE  DTInv'
<1> PICK batch \in InOrder(commands) :
           proc' = [proc EXCEPT ![d] =
             [At("decide", Updates(batch)) EXCEPT
                !.stop = \E c \in commands : c.type = "stop"]]
  BY DEF Drain
<1> DEFINE b == \E c \in commands : c.type = "stop"
           a == At("decide", Updates(batch))
           r == [a EXCEPT !.stop = b]
<1>1. a \in ProcRecord /\ a.basis = <<>> /\ a.seen = <<>>
  BY UpdatesTyped, AtTyped DEF At
<1>2. b \in BOOLEAN
  OBVIOUS
<1> HIDE DEF a, b
<1>3. r \in ProcRecord /\ r.basis = <<>> /\ r.seen = <<>>
  BY <1>1, <1>2 DEF ProcRecord
<1>4. proc' = [proc EXCEPT ![d] = r]
  BY DEF a, b
<1> HIDE DEF r
<1>5. d \in Processes
  BY DEF Processes
<1>6. proc' \in [Processes -> ProcRecord]
  BY <1>3, <1>4 DEF DTInv, DaemonTypeOK
<1>7. \A q \in Processes :
        /\ Len(proc'[q].basis) <= 1 /\ Len(proc'[q].seen) <= 1
        /\ proc'[q].basis # <<>> => proc'[q].todo # <<>>
  <2>1. Len(r.basis) <= 1 /\ Len(r.seen) <= 1
    BY <1>3
  <2> QED
    BY <1>3, <1>4, <1>5, <2>1 DEF DTInv, DaemonTypeOK
<1>8. commands' \subseteq Command /\ IsFiniteSet(commands')
  BY FS_EmptySet DEF Drain
<1> QED
  BY <1>6, <1>7, <1>8 DEF DTInv, DaemonTypeOK, Drain

LEMMA SpawnTyped ==
  ASSUME DTInv, NEW s \in Starters, Spawn(s)
  PROVE  DTInv'
<1> PICK d \in Pids :
           proc' = [proc EXCEPT
            ![s] = At("idle", <<Patch(Keep, d, Keep)>>),
            ![d] = At("loop", <<Patch("running", d, Keep)>>)]
  BY DEF Spawn
<1> DEFINE r == At("idle", <<Patch(Keep, d, Keep)>>)
           q == At("loop", <<Patch("running", d, Keep)>>)
<1>1. Patch(Keep, d, Keep) \in PatchRecord /\ Patch("running", d, Keep) \in PatchRecord
  BY PatchesTyped DEF Status
<1>2. r \in ProcRecord /\ q \in ProcRecord
  <2>1. /\ <<Patch(Keep, d, Keep)>> \in Seq(PatchRecord)
        /\ <<Patch("running", d, Keep)>> \in Seq(PatchRecord)
    BY <1>1
  <2> QED
    BY <2>1, AtTyped
<1>3. r.basis = <<>> /\ r.seen = <<>> /\ q.basis = <<>> /\ q.seen = <<>>
  BY DEF At
<1> HIDE DEF r, q
<1>4. proc' = [proc EXCEPT ![s] = r, ![d] = q]
  BY DEF r, q
<1>5. proc' \in [Processes -> ProcRecord]
  BY <1>2, <1>4 DEF DTInv, DaemonTypeOK
<1>6. \A p \in Processes :
        /\ Len(proc'[p].basis) <= 1 /\ Len(proc'[p].seen) <= 1
        /\ proc'[p].basis # <<>> => proc'[p].todo # <<>>
  BY <1>3, <1>4 DEF DTInv, DaemonTypeOK
<1> QED
  BY <1>5, <1>6 DEF DTInv, DaemonTypeOK, Spawn

LEMMA FileTyped ==
  ASSUME DTInv, NEW type \in {"stop", "resume"}, NEW reply \in 0..MaxReplies,
         File(type, reply)
  PROVE  commands' \subseteq Command /\ IsFiniteSet(commands')
<1> DEFINE kept == {c \in commands : c.second # second \/ c.type # type}
           c0   == [second |-> second, type |-> type, reply |-> reply]
<1>1. commands' = kept \cup {c0}
  BY DEF File
<1>2. c0 \in Command
  BY DEF Command, DTInv, DaemonTypeOK
<1>3. IsFiniteSet(kept)
  BY FS_Subset DEF DTInv
<1>4. kept \subseteq Command
  BY DEF DTInv, DaemonTypeOK
<1> HIDE DEF kept, c0
<1>5. IsFiniteSet(kept \cup {c0})
  BY <1>3, FS_AddElement
<1> QED
  BY <1>1, <1>2, <1>4, <1>5

\* Requests and the clock leave the processes and the state alone.
LEMMA AroundTyped ==
  ASSUME DTInv, RequestStop \/ RequestResume \/ Tick
  PROVE  DTInv'
<1>1. CASE RequestStop
  <2>1. None \in 0..MaxReplies
    BY DaemonBounds DEF None
  <2>2. commands' \subseteq Command /\ IsFiniteSet(commands')
    BY <1>1, <2>1, FileTyped DEF RequestStop
  <2> QED
    BY <1>1, <2>2 DEF RequestStop, DTInv, DaemonTypeOK
<1>2. CASE RequestResume
  <2>1. replies + 1 \in 0..MaxReplies
    BY <1>2, DaemonBounds DEF RequestResume, DTInv, DaemonTypeOK
  <2>2. commands' \subseteq Command /\ IsFiniteSet(commands')
    BY <1>2, <2>1, FileTyped DEF RequestResume
  <2> QED
    BY <1>2, <2>1, <2>2 DEF RequestResume, DTInv, DaemonTypeOK
<1>3. CASE Tick
  <2>1. second' \in 0..MaxSeconds
    BY <1>3, DaemonBounds DEF Tick, DTInv, DaemonTypeOK
  <2> QED
    BY <1>3, <2>1 DEF Tick, DTInv, DaemonTypeOK
<1> QED
  BY <1>1, <1>2, <1>3

LEMMA DaemonStepTyped == DTInv /\ [DaemonNext]_daemonVars => DTInv'
<1> SUFFICES ASSUME DTInv, [DaemonNext]_daemonVars PROVE DTInv'
  OBVIOUS
<1> USE DEF DTInv
<1> \A p \in Processes : proc[p].reply \in 0..MaxReplies
  BY ProcTyped
<1>0. state \in StateRecord /\ heard \subseteq 0..MaxReplies /\ None \in 0..MaxReplies
  BY DaemonBounds DEF DaemonTypeOK, None
<1> Pids \subseteq Processes /\ Starters \subseteq Processes
  BY DEF Processes
<1> HIDE DEF DTInv
<1>1. ASSUME NEW p \in Processes, Load(p) \/ Store(p) PROVE DTInv'
  BY <1>1, LoadTyped, StoreTyped
<1>2. ASSUME NEW d \in Pids, Drain(d) PROVE DTInv'
  BY <1>2, DrainTyped
<1>3. ASSUME NEW d \in Pids, Decide(d) PROVE DTInv'
  <2>1. /\ <<Set("stopped")>> \in Seq(PatchRecord) /\ <<Beat>> \in Seq(PatchRecord)
        /\ <<>> \in Seq(PatchRecord)
    BY PatchesTyped DEF Status, Down
  <2>2. \/ proc' = [proc EXCEPT ![d] = At("exit", <<Set("stopped")>>)]
        \/ proc' = [proc EXCEPT ![d] = At("loop", <<Beat>>)]
        \/ proc' = [proc EXCEPT ![d] = At("cycle", <<>>)]
    BY <1>3 DEF Decide
  <2> QED
    BY <1>0, <1>3, <2>1, <2>2, AtMoves DEF Decide
<1>4. ASSUME NEW d \in Pids, Cycle(d) PROVE DTInv'
  <2> DEFINE a == At("run", <<Set("running")>>)
             r == [a EXCEPT !.reply = state.reply]
  <2>1. a \in ProcRecord /\ a.basis = <<>> /\ a.seen = <<>>
    <3>1. <<Set("running")>> \in Seq(PatchRecord)
      BY PatchesTyped DEF Status
    <3> QED
      BY <3>1, AtTyped DEF At
  <2>2. proc' = [proc EXCEPT ![d] = r]
    BY <1>4 DEF Cycle
  <2> HIDE DEF a
  <2>3. r \in ProcRecord /\ r.basis = <<>> /\ r.seen = <<>>
    BY <1>0, <2>1 DEF ProcRecord, StateRecord
  <2>4. Len(r.basis) <= 1 /\ Len(r.seen) <= 1 /\ (r.basis # <<>> => r.todo # <<>>)
    BY <2>3
  <2> HIDE DEF r
  <2> QED
    BY <1>0, <1>4, <2>2, <2>3, <2>4, MoveTyped DEF Cycle
<1>5. ASSUME NEW d \in Pids, RunEnds(d) PROVE DTInv'
  <2> PICK o \in Outcomes : proc' = [proc EXCEPT ![d] = At("loop", <<SetBoth(o, None)>>)]
    BY <1>5 DEF RunEnds
  <2>1. <<SetBoth(o, None)>> \in Seq(PatchRecord)
    BY <1>0, PatchesTyped, OutcomesAssumption DEF Status
  <2>2. heard' \subseteq 0..MaxReplies
    BY <1>0, <1>5 DEF RunEnds
  <2> QED
    BY <1>0, <1>5, <2>1, <2>2, AtMoves DEF RunEnds
<1>6. ASSUME NEW d \in Pids, RunFails(d) PROVE DTInv'
  <2>1. <<Set("error")>> \in Seq(PatchRecord)
    BY PatchesTyped DEF Status, Down
  <2>2. heard' \subseteq 0..MaxReplies
    BY <1>0, <1>6 DEF RunFails
  <2> QED
    BY <1>0, <1>6, <2>1, <2>2, AtMoves DEF RunFails
<1>7. ASSUME NEW d \in Pids, Exit(d) \/ Kill(d) PROVE DTInv'
  <2>1. <<>> \in Seq(PatchRecord)
    OBVIOUS
  <2> QED
    BY <1>0, <1>7, <2>1, AtMoves DEF Exit, Kill
<1>8. ASSUME NEW s \in Starters, Check(s) PROVE DTInv'
  <2> "starting" \in Status
    BY DEF Status
  <2>1. <<SetBoth("starting", None)>> \in Seq(PatchRecord)
    BY <1>0, PatchesTyped
  <2> QED
    BY <1>0, <1>8, <2>1, AtMoves DEF Check
<1>9. ASSUME NEW s \in Starters, Spawn(s) PROVE DTInv'
  BY <1>9, SpawnTyped
<1>10. CASE RequestStop \/ RequestResume \/ Tick
  BY <1>10, AroundTyped
<1>11. CASE UNCHANGED daemonVars
  BY <1>11 DEF daemonVars, DTInv, DaemonTypeOK
<1> QED
  BY <1>1, <1>2, <1>3, <1>4, <1>5, <1>6, <1>7, <1>8, <1>9, <1>10, <1>11
     DEF DaemonNext, DaemonStep

(***************************************************************************)
(* The state file, the command files and what every process holds of them  *)
(* are as typed, for any number of starters and daemons.                   *)
(***************************************************************************)
THEOREM DaemonTypeCorrect == DaemonSpec => []DaemonTypeOK
<1>1. DaemonInit => DTInv
  BY DaemonInitTyped
<1>2. DTInv /\ [DaemonNext]_daemonVars => DTInv'
  BY DaemonStepTyped
<1>3. DTInv => DaemonTypeOK
  BY DEF DTInv
<1> QED
  BY <1>1, <1>2, <1>3, PTL DEF DaemonSpec

----------------------------------------------------------------------------
(* One daemon at a time, for one starter *)

LEMMA AtIs ==
  ASSUME NEW pc, NEW todo
  PROVE  At(pc, todo).pc = pc /\ At(pc, todo).todo = todo /\ At(pc, todo).basis = <<>>
BY DEF At

LEMMA DaemonInitKept == DaemonInit => DInv
<1> SUFFICES ASSUME DaemonInit PROVE DInv
  OBVIOUS
<1>1. DTInv
  BY DaemonInitTyped
<1>2. ASSUME NEW d \in Pids
      PROVE  proc[d].pc = "unborn" /\ proc[d].todo = <<>>
  BY <1>2 DEF DaemonInit, Processes, At
<1>3. ASSUME NEW s \in Starters
      PROVE  proc[s].pc = "idle" /\ proc[s].todo = <<>>
  BY <1>3, PidsAssumption DEF DaemonInit, Processes, At
<1>4. \A d \in Pids : ~Active(d)
  BY <1>2 DEF Active
<1>5. \A d \in Pids : DaemonKept(d) /\ StateKept(d)
  BY <1>2, <1>4 DEF DaemonKept, StateKept
<1>6. \A s \in Starters : StarterKept(s)
  BY <1>3 DEF StarterKept
<1> QED
  BY <1>1, <1>4, <1>5, <1>6 DEF DInv

\* A daemon with nothing left to write goes on or ends.
LEMMA MoveKept ==
  ASSUME DInv, DTInv', NEW d \in Pids, NEW r, proc'[d] = r,
         \A p \in Processes \ {d} : proc'[p] = proc[p], state' = state,
         r.basis = <<>>,
         Active(d)' => Active(d) /\ proc[d].todo = <<>>,
         DaemonKept(d)'
  PROVE  DInv'
<1> Pids \subseteq Processes /\ Starters \subseteq Processes
  BY DEF Processes
<1>1. proc'[d] = r /\ \A p \in Processes \ {d} : proc'[p] = proc[p]
  OBVIOUS
<1>2. \A s \in Starters : proc'[s] = proc[s]
  BY <1>1, PidsAssumption
<1>3. \A e \in Pids : Active(e)' => Active(e)
  BY <1>1 DEF Active
<1>4. ASSUME NEW e \in Pids
      PROVE  DaemonKept(e)' /\ StateKept(e)'
  <2>1. CASE e = d
    <3>1. Active(d)' => state.pid = d /\ state.status \notin Down
      BY DEF DInv, StateKept, Introduces
    <3> QED
      BY <1>1, <1>2, <1>3, <2>1, <3>1 DEF DInv, StateKept
  <2>2. CASE e # d
    <3>1. proc'[e] = proc[e]
      BY <1>1, <2>2
    <3> QED
      BY <1>2, <3>1 DEF DInv, DaemonKept, StateKept, Active, Introduces
  <2> QED
    BY <2>1, <2>2
<1>5. ASSUME NEW s \in Starters
      PROVE  StarterKept(s)'
  BY <1>2, <1>3, <1>5 DEF DInv, StarterKept, Introduces
<1> QED
  BY <1>3, <1>4, <1>5 DEF DInv

LEMMA LoadKept ==
  ASSUME DInv, DTInv', NEW p \in Processes, Load(p)
  PROVE  DInv'
<1> Pids \subseteq Processes /\ Starters \subseteq Processes
  BY DEF Processes
<1>1. /\ proc'[p] = [proc[p] EXCEPT !.basis = <<state>>]
      /\ \A q \in Processes \ {p} : proc'[q] = proc[q]
      /\ state' = state
  BY DEF DInv, DTInv, DaemonTypeOK, Load
<1>2. proc[p] \in ProcRecord
  BY ProcTyped DEF DInv, DTInv
<1>3. /\ proc'[p].pc = proc[p].pc /\ proc'[p].todo = proc[p].todo
      /\ proc'[p].basis = <<state>> /\ Head(proc'[p].basis) = state
  BY <1>1, <1>2 DEF ProcRecord
<1>4. \A q \in Processes : proc'[q].pc = proc[q].pc /\ proc'[q].todo = proc[q].todo
  BY <1>1, <1>3
<1>5. \A d \in Pids : Active(d)' <=> Active(d)
  BY <1>4 DEF Active
<1>6. \A q \in Processes, d \in Pids : Introduces(q, d)' <=> Introduces(q, d)
  BY <1>4 DEF Introduces
<1>7. \A d \in Pids : DaemonKept(d)'
  BY <1>4, <1>5 DEF DInv, DaemonKept
<1>8. ASSUME NEW d \in Pids PROVE StateKept(d)'
  <2>1. (\E s \in Starters : proc[s].todo # <<>>) =>
          (\E s \in Starters : proc'[s].todo # <<>>)
    BY <1>4
  <2>2. CASE p = d
    BY <1>1, <1>3, <1>5, <1>6, <2>1, <2>2 DEF DInv, StateKept
  <2>3. CASE p # d
    BY <1>1, <1>5, <1>6, <2>1, <2>3 DEF DInv, StateKept
  <2> QED
    BY <2>2, <2>3
<1>9. ASSUME NEW s \in Starters PROVE StarterKept(s)'
  <2>1. \A d \in Pids : Active(d) => state.status \notin Down
    BY DEF DInv, StateKept
  <2>2. CASE p = s
    BY <1>1, <1>3, <1>5, <1>6, <2>1, <2>2 DEF DInv, StarterKept
  <2>3. CASE p # s
    BY <1>1, <1>5, <1>6, <2>1, <2>3 DEF DInv, StarterKept
  <2> QED
    BY <2>2, <2>3
<1> QED
  BY <1>5, <1>7, <1>8, <1>9 DEF DInv

\* What a store makes of the state and of the process.
LEMMA Stores ==
  ASSUME DInv, NEW p \in Processes, Store(p)
  PROVE  /\ proc[p].basis # <<>> /\ proc[p].todo # <<>>
         /\ state' = Laid(Head(proc[p].todo), Head(proc[p].basis))
         /\ proc'[p].pc = proc[p].pc
         /\ proc'[p].todo = Tail(proc[p].todo)
         /\ proc'[p].basis = <<>>
         /\ \A q \in Processes \ {p} : proc'[q] = proc[q]
<1>1. proc[p] \in ProcRecord
  BY ProcTyped DEF DInv, DTInv
<1>2. proc[p].basis # <<>> /\ proc[p].todo # <<>>
  BY DEF DInv, DTInv, Store
<1>3. PICK new :
        /\ state' = new
        /\ new = Laid(Head(proc[p].todo), Head(proc[p].basis))
        /\ proc' = [proc EXCEPT ![p] =
             [@ EXCEPT !.basis = <<>>, !.todo = Tail(proc[p].todo), !.seen = <<new>>]]
  BY DEF Store
<1>4. proc'[p] = [proc[p] EXCEPT !.basis = <<>>, !.todo = Tail(proc[p].todo),
                                 !.seen = <<new>>]
  BY <1>3 DEF DInv, DTInv, DaemonTypeOK
<1>5. \A q \in Processes \ {p} : proc'[q] = proc[q]
  BY <1>3 DEF DInv, DTInv, DaemonTypeOK
<1>6. /\ proc'[p].pc = proc[p].pc
      /\ proc'[p].todo = Tail(proc[p].todo)
      /\ proc'[p].basis = <<>>
  BY <1>1, <1>4 DEF ProcRecord
<1> QED
  BY <1>2, <1>3, <1>5, <1>6

LEMMA DaemonStoreKept ==
  ASSUME DInv, DTInv', NEW d \in Pids, Store(d)
  PROVE  DInv'
<1> Pids \subseteq Processes /\ Starters \subseteq Processes
  BY DEF Processes
<1> DEFINE todo == proc[d].todo
<1>1. /\ proc[d].basis # <<>> /\ todo # <<>>
      /\ state' = Laid(Head(todo), Head(proc[d].basis))
      /\ proc'[d].pc = proc[d].pc
      /\ proc'[d].todo = Tail(todo)
      /\ proc'[d].basis = <<>>
      /\ \A q \in Processes \ {d} : proc'[q] = proc[q]
  BY Stores
<1>2. todo \in Seq(PatchRecord)
  BY ProcTyped DEF DInv, DTInv
<1>3. /\ Len(Tail(todo)) = Len(todo) - 1
      /\ \A i \in DOMAIN Tail(todo) : i + 1 \in DOMAIN todo /\ Tail(todo)[i] = todo[i + 1]
      /\ 1 \in DOMAIN todo /\ Head(todo) = todo[1]
  BY <1>1, <1>2
<1>4. Active(d) /\ \A e \in Pids : Active(e) => e = d
  BY <1>1 DEF DInv, DaemonKept
<1>5. \A e \in Pids \ {d} : ~Active(e) /\ ~Active(e)'
  BY <1>1, <1>4 DEF Active
<1>6. state'.pid = d
  <2>1. Head(todo).pid \in {Keep, d}
    BY <1>3 DEF DInv, DaemonKept
  <2>2. Head(proc[d].basis).pid = d \/ Head(todo).pid = d
    BY <1>1, <1>4 DEF DInv, StateKept, Introduces
  <2>3. d # Keep
    BY PidsAssumption, KeepAssumption
  <2> QED
    BY <1>1, <2>1, <2>2, <2>3 DEF Laid, Over
<1>7. proc[d].pc # "exit" => state'.status \notin Down
  <2>1. Head(proc[d].basis).status \notin Down
    BY <1>1, <1>4 DEF DInv, StateKept
  <2>2. proc[d].pc # "exit" => Head(todo).status \notin Down
    BY <1>3 DEF DInv, DaemonKept
  <2> QED
    BY <1>1, <2>1, <2>2 DEF Laid, Over
<1>8. proc[d].pc = "exit" => ~Active(d)'
  <2>1. proc[d].pc = "exit" => Len(todo) <= 1
    BY DEF DInv, DaemonKept
  <2>2. proc[d].pc = "exit" => Tail(todo) = <<>>
    BY <1>1, <1>2, <1>3, <2>1
  <2> QED
    BY <1>1, <2>2 DEF Active
<1>9. ASSUME NEW e \in Pids PROVE DaemonKept(e)'
  <2>1. CASE e = d
    <3>1. /\ proc'[d].pc \notin {"idle", "spawn"}
          /\ \A i \in DOMAIN Tail(todo) :
               /\ Tail(todo)[i].pid \in {Keep, d}
               /\ proc[d].pc # "exit" => Tail(todo)[i].status \notin Down
      BY <1>1, <1>3 DEF DInv, DaemonKept
    <3>2. ~Active(d)' => Tail(todo) = <<>>
      BY <1>1, <1>4 DEF Active
    <3>3. proc[d].pc = "exit" => Len(Tail(todo)) <= 1
      BY <1>2, <1>3 DEF DInv, DaemonKept
    <3> QED
      BY <1>1, <2>1, <3>1, <3>2, <3>3 DEF DaemonKept
  <2>2. CASE e # d
    <3>1. proc'[e] = proc[e]
      BY <1>1, <2>2
    <3> QED
      BY <3>1 DEF DInv, DaemonKept, Active
  <2> QED
    BY <2>1, <2>2
<1>10. ASSUME NEW e \in Pids PROVE StateKept(e)'
  BY <1>1, <1>5, <1>6, <1>7, <1>8 DEF StateKept
<1>11. ASSUME NEW s \in Starters PROVE StarterKept(s)'
  <2>1. proc'[s] = proc[s]
    BY <1>1, PidsAssumption
  <2>2. proc[s].pc # "spawn"
    BY <1>4 DEF DInv, StarterKept
  <2> QED
    BY <1>4, <1>5, <2>1, <2>2 DEF DInv, StarterKept, Introduces
<1> QED
  BY <1>5, <1>9, <1>10, <1>11 DEF DInv

LEMMA StarterStoreKept ==
  ASSUME OneStarter, DInv, DTInv', NEW s \in Starters, Store(s)
  PROVE  DInv'
<1> Pids \subseteq Processes /\ Starters \subseteq Processes
  BY DEF Processes
<1> DEFINE todo == proc[s].todo
<1>1. /\ proc[s].basis # <<>> /\ todo # <<>>
      /\ state' = Laid(Head(todo), Head(proc[s].basis))
      /\ proc'[s].pc = proc[s].pc
      /\ proc'[s].todo = Tail(todo)
      /\ proc'[s].basis = <<>>
      /\ \A q \in Processes \ {s} : proc'[q] = proc[q]
  BY Stores
<1>2. todo \in Seq(PatchRecord)
  BY ProcTyped DEF DInv, DTInv
<1>3. Tail(todo) = <<>>
  <2>1. Len(todo) <= 1
    BY DEF DInv, StarterKept
  <2> QED
    BY <1>1, <1>2, <2>1
<1>4. \A d \in Pids : proc'[d] = proc[d] /\ (Active(d)' <=> Active(d))
  BY <1>1, PidsAssumption DEF Active
<1>5. ASSUME NEW d \in Pids, Active(d)
      PROVE  state'.pid = d /\ state'.status \notin Down
  <2>1. proc[s].pc = "idle"
    BY <1>5 DEF DInv, StarterKept
  <2>2. /\ Head(todo).status = Keep /\ Head(todo).pid = d
        /\ Head(proc[s].basis).status \notin Down
    BY <1>1, <1>5, <2>1 DEF DInv, StarterKept, Introduces
  <2>3. d # Keep
    BY PidsAssumption, KeepAssumption
  <2> QED
    BY <1>1, <2>2, <2>3 DEF Laid, Over
<1>6. proc[s].pc = "spawn" => state'.status \notin Down
  <2>1. proc[s].pc = "spawn" => Head(todo).status = "starting"
    BY <1>1 DEF DInv, StarterKept, SetBoth, Patch
  <2>2. Keep # "starting"
    BY KeepAssumption DEF Status
  <2> QED
    BY <1>1, <2>1, <2>2 DEF Laid, Over, Down
<1>7. \A d \in Pids : DaemonKept(d)'
  BY <1>4 DEF DInv, DaemonKept
<1>8. ASSUME NEW d \in Pids PROVE StateKept(d)'
  BY <1>4, <1>5 DEF DInv, StateKept, Introduces
<1>9. ASSUME NEW t \in Starters PROVE StarterKept(t)'
  <2>1. t = s
    BY DEF OneStarter
  <2>2. proc'[s].pc \in {"idle", "spawn"} /\ Len(proc'[s].todo) <= 1
    BY <1>1, <1>3 DEF DInv, StarterKept
  <2>3. proc'[s].pc = "spawn" => \A d \in Pids : ~Active(d)'
    BY <1>1, <1>4 DEF DInv, StarterKept
  <2> QED
    BY <1>1, <1>3, <1>6, <2>1, <2>2, <2>3 DEF StarterKept
<1> QED
  BY <1>4, <1>7, <1>8, <1>9 DEF DInv

\* Whoever finds the daemon down, by its status or its process, is right.
LEMMA CheckKept ==
  ASSUME OneStarter, DInv, DTInv', NEW s \in Starters, Check(s)
  PROVE  DInv'
<1> Pids \subseteq Processes /\ Starters \subseteq Processes
  BY DEF Processes
<1>1. proc[s].pc = "idle" /\ proc[s].todo = <<>>
  BY DEF Check, Ready
<1>2. \A d \in Pids : ~Active(d)
  <2> SUFFICES ASSUME NEW d \in Pids, Active(d) PROVE FALSE
    OBVIOUS
  <2>1. \A t \in Starters : proc[t].todo = <<>>
    BY <1>1 DEF OneStarter
  <2>2. state.pid = d /\ state.status \notin Down
    BY <2>1 DEF DInv, StateKept
  <2>3. d \in Alive
    BY DEF Alive, Active
  <2> QED
    BY <2>2, <2>3 DEF Check
<1>3. /\ proc'[s] = At("spawn", <<SetBoth("starting", None)>>)
      /\ \A q \in Processes \ {s} : proc'[q] = proc[q]
      /\ state' = state
  BY DEF DInv, DTInv, DaemonTypeOK, Check
<1>4. \A d \in Pids : proc'[d] = proc[d] /\ ~Active(d)'
  BY <1>2, <1>3, PidsAssumption DEF Active
<1>5. \A d \in Pids : DaemonKept(d)' /\ StateKept(d)'
  BY <1>2, <1>4 DEF DInv, DaemonKept, StateKept
<1>6. ASSUME NEW t \in Starters PROVE StarterKept(t)'
  <2>1. t = s
    BY DEF OneStarter
  <2>2. /\ proc'[s].pc = "spawn"
        /\ proc'[s].todo = <<SetBoth("starting", None)>>
    BY <1>3 DEF At
  <2>3. /\ Len(proc'[s].todo) <= 1 /\ proc'[s].todo # <<>>
        /\ Head(proc'[s].todo) = SetBoth("starting", None)
    BY <2>2
  <2> QED
    BY <1>4, <2>1, <2>2, <2>3 DEF StarterKept
<1> QED
  BY <1>4, <1>5, <1>6 DEF DInv

LEMMA SpawnKept ==
  ASSUME OneStarter, DInv, DTInv', NEW s \in Starters, Spawn(s)
  PROVE  DInv'
<1> Pids \subseteq Processes /\ Starters \subseteq Processes
  BY DEF Processes
<1>0. PICK d \in Pids :
      /\ proc[d].pc = "unborn"
      /\ proc' = [proc EXCEPT
            ![s] = At("idle", <<Patch(Keep, d, Keep)>>),
            ![d] = At("loop", <<Patch("running", d, Keep)>>)]
  BY DEF Spawn
<1>1. proc[s].pc = "spawn" /\ proc[s].todo = <<>> /\ state' = state
  BY DEF Spawn, Ready
<1>2. s # d
  BY PidsAssumption
<1>3. /\ proc'[s] = At("idle", <<Patch(Keep, d, Keep)>>)
      /\ proc'[d] = At("loop", <<Patch("running", d, Keep)>>)
      /\ \A q \in Processes \ {s, d} : proc'[q] = proc[q]
  BY <1>0, <1>2 DEF DInv, DTInv, DaemonTypeOK
<1>4. /\ state.status \notin Down
      /\ \A e \in Pids : ~Active(e)
  BY <1>1 DEF DInv, StarterKept
<1>5. \A e \in Pids \ {d} : proc'[e] = proc[e] /\ ~Active(e)'
  BY <1>3, <1>4, PidsAssumption DEF Active
<1>6. /\ proc'[d].pc = "loop" /\ proc'[d].basis = <<>>
      /\ proc'[d].todo = <<Patch("running", d, Keep)>>
  BY <1>3, AtIs
<1>7. /\ proc'[s].pc = "idle" /\ proc'[s].basis = <<>>
      /\ proc'[s].todo = <<Patch(Keep, d, Keep)>>
  BY <1>3, AtIs
<1>8. Active(d)' /\ Introduces(d, d)' /\ Introduces(s, d)'
  <2>1. Patch("running", d, Keep).pid = d /\ Patch(Keep, d, Keep).pid = d
    BY DEF Patch
  <2>2. /\ proc'[d].todo # <<>> /\ Head(proc'[d].todo) = Patch("running", d, Keep)
        /\ proc'[s].todo # <<>> /\ Head(proc'[s].todo) = Patch(Keep, d, Keep)
    BY <1>6, <1>7
  <2> QED
    BY <1>6, <2>1, <2>2 DEF Active, Introduces
<1>9. ASSUME NEW e \in Pids PROVE DaemonKept(e)'
  <2>1. CASE e = d
    <3>1. \A i \in DOMAIN proc'[d].todo :
            proc'[d].todo[i].pid = d /\ proc'[d].todo[i].status = "running"
      <4>1. \A i \in DOMAIN proc'[d].todo :
              proc'[d].todo[i] = Patch("running", d, Keep)
        BY <1>6
      <4> QED
        BY <4>1 DEF Patch
    <3> QED
      BY <1>6, <1>8, <2>1, <3>1 DEF DaemonKept, Down
  <2>2. CASE e # d
    BY <1>4, <1>5, <2>2 DEF DInv, DaemonKept
  <2> QED
    BY <2>1, <2>2
<1>10. ASSUME NEW e \in Pids PROVE StateKept(e)'
  <2>1. \E t \in Starters : proc'[t].todo # <<>>
    BY <1>8 DEF Introduces
  <2> QED
    BY <1>1, <1>4, <1>5, <1>6, <1>8, <2>1 DEF StateKept
<1>11. ASSUME NEW t \in Starters PROVE StarterKept(t)'
  <2>1. t = s
    BY DEF OneStarter
  <2>2. Len(proc'[s].todo) <= 1 /\ Head(proc'[s].todo).status = Keep
    <3>1. Patch(Keep, d, Keep).status = Keep
      BY DEF Patch
    <3>2. Len(proc'[s].todo) = 1 /\ Head(proc'[s].todo) = Patch(Keep, d, Keep)
      BY <1>7
    <3> QED
      BY <3>1, <3>2
  <2> QED
    BY <1>5, <1>7, <1>8, <2>1, <2>2 DEF StarterKept
<1> QED
  BY <1>5, <1>9, <1>10, <1>11 DEF DInv

\* Neither a stop nor a resume writes that the daemon is down.
LEMMA UpdatesAreUp ==
  ASSUME DTInv, NEW batch \in InOrder(commands), NEW i \in DOMAIN Updates(batch)
  PROVE  Updates(batch)[i].pid = Keep /\ Updates(batch)[i].status \notin Down
<1>1. Beat.pid = Keep /\ Beat.status \notin Down
  BY KeepAssumption DEF Beat, Patch, Status
<1>2. ASSUME NEW c PROVE Applied(c).pid = Keep /\ Applied(c).status \notin Down
  BY DEF Applied, Set, SetBoth, Patch, Down
<1> DEFINE value(j) == IF j % 2 = 1 THEN Beat ELSE Applied(batch[j \div 2])
<1>3. i \in 1..2 * Len(batch) /\ Updates(batch)[i] = value(i)
  BY DEF Updates
<1>4. value(i) = Beat \/ value(i) = Applied(batch[i \div 2])
  OBVIOUS
<1> HIDE DEF value
<1> QED
  BY <1>1, <1>2, <1>3, <1>4

\* A daemon that has nothing in hand after a step, or one harmless update.
LEMMA GoKept ==
  ASSUME DInv, DTInv', NEW d \in Pids,
         proc[d].pc \in {"loop", "decide", "cycle", "run"}, proc[d].todo = <<>>,
         NEW r, r.pc \in {"loop", "decide", "cycle", "run", "exit"},
         Len(r.todo) <= 1, r.basis = <<>>,
         \A i \in DOMAIN r.todo :
           r.todo[i].pid = Keep /\ (r.pc # "exit" => r.todo[i].status \notin Down),
         proc'[d] = r, \A p \in Processes \ {d} : proc'[p] = proc[p],
         state' = state
  PROVE  DInv'
<1>1. proc'[d] = r
  OBVIOUS
<1>2. Active(d) /\ proc[d].todo = <<>>
  BY DEF Active
<1>3. ~Active(d)' => r.todo = <<>>
  BY <1>1 DEF Active
<1>4. DaemonKept(d)'
  BY <1>1, <1>3 DEF DaemonKept
<1> QED
  BY <1>2, <1>4, MoveKept

\* The patches it may have in hand, as a sequence.
LEMMA OnePatch ==
  ASSUME NEW pc, NEW patch, patch.pid = Keep,
         pc # "exit" => patch.status \notin Down
  PROVE  /\ Len(<<>>) <= 1 /\ Len(<<patch>>) <= 1
         /\ \A i \in DOMAIN <<patch>> :
              /\ <<patch>>[i].pid = Keep
              /\ pc # "exit" => <<patch>>[i].status \notin Down
OBVIOUS

LEMMA AtKept ==
  ASSUME DInv, DTInv', NEW d \in Pids,
         proc[d].pc \in {"loop", "decide", "cycle", "run"}, proc[d].todo = <<>>,
         NEW pc \in {"loop", "decide", "cycle", "run", "exit"},
         NEW patch, patch.pid = Keep, pc # "exit" => patch.status \notin Down,
         NEW todo \in {<<>>, <<patch>>},
         proc' = [proc EXCEPT ![d] = At(pc, todo)], state' = state
  PROVE  DInv'
<1>1. /\ Len(todo) <= 1
      /\ \A i \in DOMAIN todo :
           todo[i].pid = Keep /\ (pc # "exit" => todo[i].status \notin Down)
  <2>1. CASE todo = <<>>
    BY <2>1, OnePatch
  <2>2. CASE todo = <<patch>>
    BY <2>2, OnePatch
  <2> QED
    BY <2>1, <2>2
<1> DEFINE r == At(pc, todo)
<1>2. r.pc = pc /\ r.todo = todo /\ r.basis = <<>>
  BY AtIs
<1>3. proc'[d] = r /\ \A p \in Processes \ {d} : proc'[p] = proc[p]
  BY DEF DInv, DTInv, DaemonTypeOK, Processes
<1> HIDE DEF r
<1> QED
  BY <1>1, <1>2, <1>3, GoKept

LEMMA PatchesAreUp ==
  /\ Beat.pid = Keep /\ Beat.status \notin Down
  /\ \A s, r : /\ Set(s).pid = Keep /\ Set(s).status = s
               /\ SetBoth(s, r).pid = Keep /\ SetBoth(s, r).status = s
  /\ \A o \in Outcomes : o \notin Down
<1>1. Beat.pid = Keep /\ Beat.status = Keep
  BY DEF Beat, Patch
<1>2. Keep \notin Down
  BY KeepAssumption DEF Status
<1>3. \A o \in Outcomes : o \notin Down
  BY OutcomesAssumption DEF Down, Asking
<1> QED
  BY <1>1, <1>2, <1>3 DEF Set, SetBoth, Patch

LEMMA DaemonStepKept ==
  OneStarter /\ DInv /\ [DaemonNext]_daemonVars => DInv'
<1> SUFFICES ASSUME OneStarter, DInv, [DaemonNext]_daemonVars PROVE DInv'
  OBVIOUS
<1>1. DTInv /\ DTInv'
  BY DaemonStepTyped DEF DInv
<1> Pids \subseteq Processes /\ Starters \subseteq Processes
  BY DEF Processes
<1>2. ASSUME NEW p \in Processes, Load(p) PROVE DInv'
  BY <1>1, <1>2, LoadKept
<1>3. ASSUME NEW d \in Pids, Store(d) PROVE DInv'
  BY <1>1, <1>3, DaemonStoreKept
<1>4. ASSUME NEW s \in Starters, Store(s) PROVE DInv'
  BY <1>1, <1>4, StarterStoreKept
<1>5. ASSUME NEW d \in Pids, Drain(d) PROVE DInv'
  <2> PICK batch \in InOrder(commands) :
           proc' = [proc EXCEPT ![d] =
             [At("decide", Updates(batch)) EXCEPT
                !.stop = \E c \in commands : c.type = "stop"]]
    BY <1>5 DEF Drain
  <2> DEFINE r == [At("decide", Updates(batch)) EXCEPT
                     !.stop = \E c \in commands : c.type = "stop"]
  <2>1. r.pc = "decide" /\ r.todo = Updates(batch) /\ r.basis = <<>>
    BY DEF At
  <2>2. proc'[d] = r /\ \A p \in Processes \ {d} : proc'[p] = proc[p]
    BY DEF DInv, DTInv, DaemonTypeOK
  <2> HIDE DEF r
  <2>3. proc'[d] = r
    BY <2>2
  <2>4. Active(d) /\ Active(d)' /\ proc[d].todo = <<>>
    BY <1>5, <2>1, <2>3 DEF Drain, Ready, Active
  <2>5. DaemonKept(d)'
    BY <1>1, <2>1, <2>3, <2>4, UpdatesAreUp DEF DaemonKept
  <2>6. state' = state
    BY <1>5 DEF Drain
  <2> QED
    BY <1>1, <2>1, <2>2, <2>4, <2>5, <2>6, MoveKept
<1>6. ASSUME NEW d \in Pids, Decide(d) PROVE DInv'
  <2>1. proc[d].pc = "decide" /\ proc[d].todo = <<>> /\ state' = state
    BY <1>6 DEF Decide, Ready
  <2>2. CASE proc' = [proc EXCEPT ![d] = At("exit", <<Set("stopped")>>)]
    <3>1. Set("stopped").pid = Keep
      BY PatchesAreUp
    <3>2. <<Set("stopped")>> \in {<<>>, <<Set("stopped")>>}
      OBVIOUS
    <3> QED
      BY <1>1, <2>1, <2>2, <3>1, <3>2, AtKept
  <2>3. CASE proc' = [proc EXCEPT ![d] = At("loop", <<Beat>>)]
    <3>1. <<Beat>> \in {<<>>, <<Beat>>}
      OBVIOUS
    <3> QED
      BY <1>1, <2>1, <2>3, <3>1, PatchesAreUp, AtKept
  <2>4. CASE proc' = [proc EXCEPT ![d] = At("cycle", <<>>)]
    <3>1. <<>> \in {<<>>, <<Beat>>}
      OBVIOUS
    <3> QED
      BY <1>1, <2>1, <2>4, <3>1, PatchesAreUp, AtKept
  <2> QED
    BY <1>6, <2>2, <2>3, <2>4 DEF Decide
<1>7. ASSUME NEW d \in Pids, Cycle(d) PROVE DInv'
  <2>0. PICK r : r = [At("run", <<Set("running")>>) EXCEPT !.reply = state.reply]
    OBVIOUS
  <2>1. r.pc = "run" /\ r.todo = <<Set("running")>> /\ r.basis = <<>>
    BY <2>0 DEF At
  <2>2. proc'[d] = r /\ \A p \in Processes \ {d} : proc'[p] = proc[p]
    BY <1>7, <2>0 DEF Cycle, DInv, DTInv, DaemonTypeOK
  <2>3. Set("running").pid = Keep /\ Set("running").status \notin Down
    BY PatchesAreUp DEF Down
  <2> QED
    <3>1. proc[d].pc = "cycle" /\ proc[d].todo = <<>> /\ state' = state
      BY <1>7 DEF Cycle, Ready
    <3>2. /\ Len(r.todo) <= 1
          /\ \A i \in DOMAIN r.todo :
               r.todo[i].pid = Keep /\ (r.pc # "exit" => r.todo[i].status \notin Down)
      BY <2>1, <2>3, OnePatch
    <3>3. /\ r.pc \in {"loop", "decide", "cycle", "run", "exit"}
          /\ proc[d].pc \in {"loop", "decide", "cycle", "run"}
          /\ r.basis = <<>>
      BY <2>1, <3>1
    <3> QED
      BY <1>1, <2>2, <3>1, <3>2, <3>3, GoKept
<1>8. ASSUME NEW d \in Pids, RunEnds(d) PROVE DInv'
  <2> PICK o \in Outcomes : proc' = [proc EXCEPT ![d] = At("loop", <<SetBoth(o, None)>>)]
    BY <1>8 DEF RunEnds
  <2>1. SetBoth(o, None).pid = Keep /\ SetBoth(o, None).status \notin Down
    BY PatchesAreUp
  <2>2. proc[d].pc = "run" /\ proc[d].todo = <<>> /\ state' = state
    BY <1>8 DEF RunEnds, Ready
  <2>3. <<SetBoth(o, None)>> \in {<<>>, <<SetBoth(o, None)>>}
    OBVIOUS
  <2> QED
    BY <1>1, <2>1, <2>2, <2>3, AtKept
<1>9. ASSUME NEW d \in Pids, RunFails(d) PROVE DInv'
  <2>1. /\ proc[d].pc = "run" /\ proc[d].todo = <<>> /\ state' = state
        /\ proc' = [proc EXCEPT ![d] = At("exit", <<Set("error")>>)]
    BY <1>9 DEF RunFails, Ready
  <2>2. Set("error").pid = Keep
    BY PatchesAreUp
  <2>3. <<Set("error")>> \in {<<>>, <<Set("error")>>}
    OBVIOUS
  <2> QED
    BY <1>1, <2>1, <2>2, <2>3, AtKept
<1>10. ASSUME NEW d \in Pids, Exit(d) \/ Kill(d) PROVE DInv'
  <2>1. proc' = [proc EXCEPT ![d] = At("dead", <<>>)] /\ state' = state
    BY <1>10 DEF Exit, Kill
  <2>2. /\ proc'[d] = At("dead", <<>>)
        /\ \A p \in Processes \ {d} : proc'[p] = proc[p]
    BY <2>1 DEF DInv, DTInv, DaemonTypeOK
  <2>3. ~Active(d)' /\ DaemonKept(d)'
    BY <2>2, AtIs DEF Active, DaemonKept
  <2>4. At("dead", <<>>).basis = <<>>
    BY DEF At
  <2> QED
    BY <1>1, <2>1, <2>2, <2>3, <2>4, MoveKept
<1>11. ASSUME NEW s \in Starters, Check(s) PROVE DInv'
  BY <1>1, <1>11, CheckKept
<1>12. ASSUME NEW s \in Starters, Spawn(s) PROVE DInv'
  BY <1>1, <1>12, SpawnKept
<1>13. CASE RequestStop \/ RequestResume \/ Tick \/ UNCHANGED daemonVars
  <2>1. UNCHANGED <<proc, state>>
    BY <1>13 DEF RequestStop, RequestResume, Tick, daemonVars
  <2> QED
    BY <1>1, <2>1 DEF DInv, DaemonKept, StateKept, StarterKept, Active, Introduces
<1> QED
  BY <1>2, <1>3, <1>4, <1>5, <1>6, <1>7, <1>8, <1>9, <1>10, <1>11, <1>12, <1>13
     DEF DaemonNext, DaemonStep

LEMMA ServingIsActive ==
  ASSUME DInv, NEW d \in Serving
  PROVE  Active(d)
<1>1. d \in Pids /\ proc[d] \in ProcRecord
  BY ProcTyped DEF DInv, DTInv, Serving, Alive, Processes
<1> QED
  BY <1>1 DEF DInv, DaemonKept, Serving, Alive, Active, ProcRecord

(***************************************************************************)
(* With one process at a time to start daemons, one daemon works: whatever *)
(* the others still do is end.                                             *)
(***************************************************************************)
THEOREM DaemonsAreSingle == OneStarter /\ DaemonSpec => []OneDaemon
<1> SUFFICES ASSUME OneStarter PROVE DaemonSpec => []OneDaemon
  OBVIOUS
<1>1. DaemonInit => DInv
  BY DaemonInitKept
<1>2. DInv /\ [DaemonNext]_daemonVars => DInv'
  BY DaemonStepKept
<1>3. DInv => OneDaemon
  <2> SUFFICES ASSUME DInv, NEW d \in Serving, NEW e \in Serving PROVE d = e
    BY DEF OneDaemon
  <2>1. Active(d) /\ Active(e)
    BY ServingIsActive
  <2> QED
    BY <2>1 DEF DInv, Serving, Alive
<1> QED
  BY <1>1, <1>2, <1>3, PTL DEF DaemonSpec

(***************************************************************************)
(* Under the same condition, no daemon works while the state file says     *)
(* that it is stopped, failed or was never started.                        *)
(***************************************************************************)
THEOREM DownIsDown == OneStarter /\ DaemonSpec => []DownMeansDown
<1> SUFFICES ASSUME OneStarter PROVE DaemonSpec => []DownMeansDown
  OBVIOUS
<1>1. DaemonInit => DInv
  BY DaemonInitKept
<1>2. DInv /\ [DaemonNext]_daemonVars => DInv'
  BY DaemonStepKept
<1>3. DInv => DownMeansDown
  <2> SUFFICES ASSUME DInv, state.status \in Down, NEW d \in Serving PROVE FALSE
    BY DEF DownMeansDown
  <2>1. Active(d) /\ d \in Pids
    BY ServingIsActive DEF Serving, Alive
  <2> QED
    BY <2>1 DEF DInv, StateKept
<1> QED
  BY <1>1, <1>2, <1>3, PTL DEF DaemonSpec

===========================================================================

---------------------------- MODULE FileLock ----------------------------
(***************************************************************************)
(* The lock file that guards the worker pool and each worker slot          *)
(* (_file_lock of commander_harness.py), one file-system call per step.    *)
(*                                                                         *)
(* A process creates the file with O_CREAT|O_EXCL, writes its payload into *)
(* it (until then the file is empty), works, and on the way out re-reads   *)
(* the file and unlinks it if the payload is still its own.  A process     *)
(* that finds the file there reads it: a missing, unreadable or expired    *)
(* payload is "stale", and a stale file is unlinked.  Reading and          *)
(* unlinking are two system calls, and the file may change between them.   *)
(***************************************************************************)
EXTENDS Naturals

CONSTANTS
  Procs,       \* processes that take this lock
  NoProc,      \* owner_id of a payload whose writer is gone
  NoFile,      \* the lock file does not exist
  Patience,    \* fresh verdicts a process sits through before the deadline
  MaxCrashes   \* bound on crashes, for TLC

ASSUME ProcsAssumption    == NoProc \notin Procs
ASSUME PatienceAssumption == Patience \in Nat
ASSUME CrashAssumption    == MaxCrashes \in Nat
ASSUME NoFileAssumption   == NoFile \notin
         [by : Procs \cup {NoProc}, written : BOOLEAN, expired : BOOLEAN]

VARIABLES
  file,      \* the lock file: NoFile or [by, written, expired]
  pc,        \* where each process is in _file_lock
  tries,     \* fresh verdicts since the attempt began (stands for the deadline)
  crashes,   \* crashes so far
  takenOver  \* history: somebody unlinked the file of a process still using it

vars == <<file, pc, tries, crashes, takenOver>>

LockFile == [by : Procs \cup {NoProc}, written : BOOLEAN, expired : BOOLEAN]

Step == {"idle", "create", "inspect", "unlink", "wait", "timedOut",
         "write", "critical", "verify", "drop"}

\* The process passed O_EXCL and has not left the context manager.
Holding(p) == pc[p] \in {"write", "critical", "verify", "drop"}

Goto(p, step) == pc' = [pc EXCEPT ![p] = step]

\* Mutant: expires_at is ignored.
StaleUnlessReadable(f) == IF f = NoFile THEN TRUE ELSE ~f.written

(***************************************************************************)
(* _is_lock_stale(_load_lock_payload(path)): no file, an empty file (not   *)
(* JSON yet) and a payload past expires_at are all stale.                  *)
(***************************************************************************)
Stale(f) == IF f = NoFile THEN TRUE ELSE ~f.written \/ f.expired

\* The payload read back carries this call's owner_id.
Mine(p, f) == f # NoFile /\ f.by = p /\ f.written

Init ==
  /\ file = NoFile
  /\ pc = [p \in Procs |-> "idle"]
  /\ tries = [p \in Procs |-> 0]
  /\ crashes = 0
  /\ takenOver = FALSE

----------------------------------------------------------------------------

\* Enter the context manager: payload and deadline are computed here.
Begin(p) ==
  /\ pc[p] \in {"idle", "timedOut"}
  /\ Goto(p, "create")
  /\ tries' = [tries EXCEPT ![p] = 0]
  /\ UNCHANGED <<file, crashes, takenOver>>

\* Mutant: the file is opened without O_EXCL.
CreateWithoutExcl(p) ==
  /\ pc[p] = "create"
  /\ file' = [by |-> p, written |-> FALSE, expired |-> FALSE]
  /\ Goto(p, "write")
  /\ UNCHANGED <<tries, crashes, takenOver>>

\* os.open(O_CREAT | O_EXCL | O_WRONLY) succeeds: an empty file.
CreateWins(p) ==
  /\ pc[p] = "create"
  /\ file = NoFile
  /\ file' = [by |-> p, written |-> FALSE, expired |-> FALSE]
  /\ Goto(p, "write")
  /\ UNCHANGED <<tries, crashes, takenOver>>

\* ... or raises FileExistsError.
CreateFails(p) ==
  /\ pc[p] = "create"
  /\ file # NoFile
  /\ Goto(p, "inspect")
  /\ UNCHANGED <<file, tries, crashes, takenOver>>

\* Load the payload and judge it.
Inspect(p) ==
  /\ pc[p] = "inspect"
  /\ Goto(p, IF Stale(file) THEN "unlink" ELSE "wait")
  /\ UNCHANGED <<file, tries, crashes, takenOver>>

(***************************************************************************)
(* The stale verdict is acted on: whatever file is there now goes, and the *)
(* loop starts over without looking at the deadline.                       *)
(***************************************************************************)
UnlinkStale(p) ==
  /\ pc[p] = "unlink"
  /\ file' = NoFile
  /\ takenOver' = (takenOver \/ (file # NoFile /\ file.by \in Procs))
  /\ Goto(p, "create")
  /\ UNCHANGED <<tries, crashes>>

\* A fresh lock: sleep and retry while there is patience ...
Retry(p) ==
  /\ pc[p] = "wait"
  /\ tries[p] < Patience
  /\ tries' = [tries EXCEPT ![p] = @ + 1]
  /\ Goto(p, "create")
  /\ UNCHANGED <<file, crashes, takenOver>>

\* ... and raise SchemaValidationError at the deadline.
TimeOut(p) ==
  /\ pc[p] = "wait"
  /\ tries[p] = Patience
  /\ Goto(p, "timedOut")
  /\ UNCHANGED <<file, tries, crashes, takenOver>>

(***************************************************************************)
(* The payload goes through the descriptor: if the directory entry was     *)
(* unlinked in the meantime, it lands in a file nobody can see.            *)
(***************************************************************************)
WritePayload(p) ==
  /\ pc[p] = "write"
  /\ file' = IF file # NoFile /\ file.by = p
             THEN [file EXCEPT !.written = TRUE] ELSE file
  /\ Goto(p, "critical")
  /\ UNCHANGED <<tries, crashes, takenOver>>

\* The protected work ends (normally or by an exception).
Leave(p) ==
  /\ pc[p] = "critical"
  /\ Goto(p, "verify")
  /\ UNCHANGED <<file, tries, crashes, takenOver>>

\* finally: re-read the payload ...
VerifyOwner(p) ==
  /\ pc[p] = "verify"
  /\ Goto(p, IF Mine(p, file) THEN "drop" ELSE "idle")
  /\ UNCHANGED <<file, tries, crashes, takenOver>>

\* ... and unlink by name, whoever owns the name by now.
Drop(p) ==
  /\ pc[p] = "drop"
  /\ file' = NoFile
  /\ Goto(p, "idle")
  /\ UNCHANGED <<tries, crashes, takenOver>>

\* stale_after_seconds pass since the payload was built.
Expire ==
  /\ file # NoFile
  /\ file.written
  /\ ~file.expired
  /\ file' = [file EXCEPT !.expired = TRUE]
  /\ UNCHANGED <<pc, tries, crashes, takenOver>>

\* The process dies; its file stays.
Crash(p) ==
  /\ pc[p] # "idle"
  /\ crashes < MaxCrashes
  /\ crashes' = crashes + 1
  /\ file' = IF file # NoFile /\ file.by = p
             THEN [file EXCEPT !.by = NoProc] ELSE file
  /\ Goto(p, "idle")
  /\ UNCHANGED <<tries, takenOver>>

Proceed(p) ==
  \/ Begin(p)
  \/ CreateWins(p)
  \/ CreateFails(p)
  \/ Inspect(p)
  \/ UnlinkStale(p)
  \/ Retry(p)
  \/ TimeOut(p)
  \/ WritePayload(p)
  \/ Leave(p)
  \/ VerifyOwner(p)
  \/ Drop(p)

Next ==
  \/ \E p \in Procs : Proceed(p) \/ Crash(p)
  \/ Expire

Spec == Init /\ [][Next]_vars

(***************************************************************************)
(* Every live process keeps running and keeps coming back for the lock,    *)
(* and wall-clock time passes.  Nothing forces a crash.                    *)
(***************************************************************************)
FairSpec ==
  /\ Spec
  /\ \A p \in Procs : WF_vars(Proceed(p))
  /\ WF_vars(Expire)

----------------------------------------------------------------------------

\* Type invariant.
TypeOK ==
  /\ file \in LockFile \cup {NoFile}
  /\ pc \in [Procs -> Step]
  /\ tries \in [Procs -> 0..Patience]
  /\ crashes \in 0..MaxCrashes
  /\ takenOver \in BOOLEAN

(***************************************************************************)
(* Two processes hold the lock at once only after a stale verdict removed  *)
(* the file of a process that was still using it: O_EXCL, the owner check  *)
(* on release and a crash at any point never suffice (_file_lock).         *)
(***************************************************************************)
ExclusiveUnlessTakenOver ==
  ~takenOver => \A p, q \in Procs : Holding(p) /\ Holding(q) => p = q

(***************************************************************************)
(* A lock file left by a crashed holder does not wedge the pool: while     *)
(* processes keep asking, it is eventually recognised as stale and removed *)
(* (test_worker_pool_operations_clear_stale_lock_files).                   *)
(***************************************************************************)
Abandoned == file # NoFile /\ file.by = NoProc
AbandonedLockIsReclaimed == Abandoned ~> ~Abandoned

----------------------------------------------------------------------------

\* The inductive invariant behind ExclusiveUnlessTakenOver: as long as no
\* file was taken over, whoever holds the lock owns the file on disk.
HolderOwnsFile ==
  ~takenOver => \A p \in Procs : Holding(p) => file # NoFile /\ file.by = p

(***************************************************************************)
(* The documented protection: acquire, release, heartbeat and reconcile    *)
(* never work on the pool at the same time.                                *)
(***************************************************************************)
MutualExclusion ==
  \A p, q \in Procs : pc[p] = "critical" /\ pc[q] = "critical" => p = q
============================================================================

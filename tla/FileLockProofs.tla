------------------------- MODULE FileLockProofs -------------------------
(***************************************************************************)
(* Mutual exclusion of the lock file for any number of processes, any      *)
(* patience and any number of crashes.                                     *)
(***************************************************************************)
EXTENDS FileLock, TLAPS

\* The state of every process and of the lock file stays well formed.
THEOREM TypeCorrect == Spec => []TypeOK
<1>1. Init => TypeOK
  <2>1. 0 \in 0..Patience /\ 0 \in 0..MaxCrashes
    BY PatienceAssumption, CrashAssumption
  <2>2. QED
    BY <2>1, Zenon DEF Init, TypeOK, Step
<1>2. TypeOK /\ [Next]_vars => TypeOK'
  <2> SUFFICES ASSUME TypeOK, [Next]_vars PROVE TypeOK'
    OBVIOUS
  <2> USE PatienceAssumption, CrashAssumption, NoFileAssumption
      DEF TypeOK, LockFile, Step, Goto
  <2>1. ASSUME NEW p \in Procs, Begin(p) PROVE TypeOK'
    BY <2>1 DEF Begin
  <2>2. ASSUME NEW p \in Procs, CreateWins(p) PROVE TypeOK'
    BY <2>2 DEF CreateWins
  <2>3. ASSUME NEW p \in Procs, CreateFails(p) PROVE TypeOK'
    BY <2>3 DEF CreateFails
  <2>4. ASSUME NEW p \in Procs, Inspect(p) PROVE TypeOK'
    BY <2>4 DEF Inspect
  <2>5. ASSUME NEW p \in Procs, UnlinkStale(p) PROVE TypeOK'
    BY <2>5 DEF UnlinkStale
  <2>6. ASSUME NEW p \in Procs, Retry(p) PROVE TypeOK'
    BY <2>6 DEF Retry
  <2>7. ASSUME NEW p \in Procs, TimeOut(p) PROVE TypeOK'
    BY <2>7 DEF TimeOut
  <2>8. ASSUME NEW p \in Procs, WritePayload(p) PROVE TypeOK'
    BY <2>8 DEF WritePayload
  <2>9. ASSUME NEW p \in Procs, Leave(p) PROVE TypeOK'
    BY <2>9 DEF Leave
  <2>10. ASSUME NEW p \in Procs, VerifyOwner(p) PROVE TypeOK'
    BY <2>10 DEF VerifyOwner
  <2>11. ASSUME NEW p \in Procs, Drop(p) PROVE TypeOK'
    BY <2>11 DEF Drop
  <2>12. ASSUME NEW p \in Procs, Crash(p) PROVE TypeOK'
    BY <2>12 DEF Crash
  <2>13. ASSUME Expire PROVE TypeOK'
    BY <2>13 DEF Expire
  <2>14. ASSUME UNCHANGED vars PROVE TypeOK'
    BY <2>14 DEF vars
  <2>15. QED
    BY <2>1, <2>2, <2>3, <2>4, <2>5, <2>6, <2>7, <2>8, <2>9, <2>10,
       <2>11, <2>12, <2>13, <2>14 DEF Next, Proceed
<1>3. QED
  BY <1>1, <1>2, PTL DEF Spec

(***************************************************************************)
(* Until a live process's file is taken over, a holder owns the file on    *)
(* disk: the strengthening that makes mutual exclusion inductive.          *)
(***************************************************************************)
THEOREM OwnershipInvariant == Spec => []HolderOwnsFile
<1>1. Init => HolderOwnsFile
  BY DEF Init, HolderOwnsFile, Holding
<1>2. TypeOK /\ HolderOwnsFile /\ [Next]_vars => HolderOwnsFile'
  <2> SUFFICES ASSUME TypeOK, HolderOwnsFile, [Next]_vars
               PROVE HolderOwnsFile'
    OBVIOUS
  <2> USE NoFileAssumption, ProcsAssumption
      DEF TypeOK, LockFile, HolderOwnsFile, Holding, Goto
  <2>1. ASSUME NEW p \in Procs, Begin(p) PROVE HolderOwnsFile'
    BY <2>1 DEF Begin
  <2>2. ASSUME NEW p \in Procs, CreateWins(p) PROVE HolderOwnsFile'
    <3> SUFFICES ASSUME ~takenOver', NEW q \in Procs, Holding(q)'
                 PROVE  file' # NoFile /\ file'.by = q
      OBVIOUS
    <3>1. ~takenOver /\ file = NoFile
      BY <2>2 DEF CreateWins
    <3>2. file' \in LockFile /\ file'.by = p
      BY <2>2 DEF CreateWins
    <3>3. q = p
      \* The file did not exist, so nobody else was holding.
      BY <2>2, <3>1 DEF CreateWins
    <3>4. QED
      BY <3>2, <3>3
  <2>3. ASSUME NEW p \in Procs, CreateFails(p) PROVE HolderOwnsFile'
    BY <2>3 DEF CreateFails
  <2>4. ASSUME NEW p \in Procs, Inspect(p) PROVE HolderOwnsFile'
    BY <2>4 DEF Inspect
  <2>5. ASSUME NEW p \in Procs, UnlinkStale(p) PROVE HolderOwnsFile'
    \* Unlinking a holder's file is exactly what sets takenOver.
    BY <2>5 DEF UnlinkStale
  <2>6. ASSUME NEW p \in Procs, Retry(p) PROVE HolderOwnsFile'
    BY <2>6 DEF Retry
  <2>7. ASSUME NEW p \in Procs, TimeOut(p) PROVE HolderOwnsFile'
    BY <2>7 DEF TimeOut
  <2>8. ASSUME NEW p \in Procs, WritePayload(p) PROVE HolderOwnsFile'
    BY <2>8 DEF WritePayload
  <2>9. ASSUME NEW p \in Procs, Leave(p) PROVE HolderOwnsFile'
    BY <2>9 DEF Leave
  <2>10. ASSUME NEW p \in Procs, VerifyOwner(p) PROVE HolderOwnsFile'
    BY <2>10 DEF VerifyOwner
  <2>11. ASSUME NEW p \in Procs, Drop(p) PROVE HolderOwnsFile'
    \* The file is p's own, so no other process holds.
    BY <2>11 DEF Drop
  <2>12. ASSUME NEW p \in Procs, Crash(p) PROVE HolderOwnsFile'
    BY <2>12 DEF Crash
  <2>13. ASSUME Expire PROVE HolderOwnsFile'
    BY <2>13 DEF Expire
  <2>14. ASSUME UNCHANGED vars PROVE HolderOwnsFile'
    BY <2>14 DEF vars
  <2>15. QED
    BY <2>1, <2>2, <2>3, <2>4, <2>5, <2>6, <2>7, <2>8, <2>9, <2>10,
       <2>11, <2>12, <2>13, <2>14 DEF Next, Proceed
<1>3. QED
  BY <1>1, <1>2, TypeCorrect, PTL DEF Spec

\* Two holders at once imply that a stale verdict took over a live lock.
THEOREM ExclusionInvariant == Spec => []ExclusiveUnlessTakenOver
<1>1. HolderOwnsFile => ExclusiveUnlessTakenOver
  BY DEF HolderOwnsFile, ExclusiveUnlessTakenOver
<1>2. QED
  BY <1>1, OwnershipInvariant, PTL
============================================================================

----------------------- MODULE ApplyTransactionProofs -----------------------
(***************************************************************************)
(* Proofs about ApplyTransaction for any number of affected roots, faults  *)
(* and crashes, when AtomicWriteOwned fails only before its rename.        *)
(***************************************************************************)
EXTENDS ApplyTransaction, TLAPS

(* The approved states: every affected root differs between them. *)
Approved ==
  \A k \in Idx : /\ before[k] \in {"absent", "old"} /\ after[k] \in {"absent", "new"}
                 /\ before[k] # "absent" \/ after[k] # "absent"

(* The transaction root contains what is inside it. *)
Nesting == /\ ~root => jrnl = "none" /\ ~bdir
           /\ ~bdir => \A k \in Idx : ~backup[k]

(* An open journal records the baseline and can be rolled back to it. *)
OpenJournal ==
  jrnl = "open" =>
    \A k \in Idx : /\ original[k] <=> before[k] = "old"
                   /\ backup[k] => original[k]
                   /\ original[k] /\ ~backup[k] => host[k] = "old"

(* Without an open journal the Project is in one of the approved states. *)
ClosedJournal == /\ jrnl = "none" => host = before \/ host = after
                 /\ jrnl = "committed" => host = after

(* How far the loops have come. *)
Done(k) == host[k] = after[k] /\ (backup[k] <=> original[k])
Todo(k) == host[k] = before[k] /\ ~backup[k]

Progress ==
  /\ pc \in {"check", "newroot"} => ~root
  /\ pc \in {"newroot", "mkbackup", "stage", "journal"} =>
       jrnl = "none" /\ host = before /\ \A k \in Idx : ~backup[k]
  /\ pc \in {"mkbackup", "stage", "journal"} => root
  /\ pc \in {"stage", "journal"} => bdir
  /\ pc \in {"backup", "install", "verify", "commit", "rollback", "restore"} =>
       root /\ bdir /\ jrnl = "open"
  /\ pc \in {"backup", "install", "rollback", "restore"} => i \in Idx
  /\ pc = "backup" => /\ \A k \in 1 .. (i - 1) : Done(k)
                      /\ \A k \in i .. N : Todo(k)
  /\ pc = "install" => /\ \A k \in 1 .. (i - 1) : Done(k)
                       /\ host[i] = "absent" /\ (backup[i] <=> original[i])
                       /\ \A k \in (i + 1) .. N : Todo(k)
  /\ pc = "verify" => \A k \in Idx : Done(k)
  /\ pc \in {"commit", "mark"} => host = after
  /\ pc = "mark" => jrnl = "committed" /\ root
  /\ pc \in {"rollback", "restore"} => \A k \in (i + 1) .. N : Todo(k)
  /\ pc = "restore" => backup[i]
  /\ pc = "rm" => root
  /\ pc = "rm" /\ jrnl = "open" => \A k \in Idx : Todo(k)

IInv == TypeOK /\ Approved /\ Nesting /\ OpenJournal /\ ClosedJournal /\ Progress

------------------------------------------------------------------------------
(* Every initial state satisfies the inductive invariant. *)
LEMMA InitIInv == Init => IInv
<1> SUFFICES ASSUME Init PROVE IInv
  OBVIOUS
<1> USE ApplyAssumption DEF Init, Idx, None
<1>1. TypeOK
  <2>1. before \in Trees /\ after \in Trees
    BY DEF Trees, Contents
  <2>2. None \in [Idx -> BOOLEAN]
    BY DEF None
  <2>3. i \in 0 .. N /\ faults \in 0 .. MaxFaults /\ crashes \in 0 .. MaxCrashes
    OBVIOUS
  <2>4. backup = None /\ stage = None /\ original = None /\ host = before
    OBVIOUS
  <2> HIDE DEF None, Idx
  <2> QED
    BY <2>1, <2>2, <2>3, <2>4 DEF TypeOK, Steps, Results
<1>2. Approved
  BY DEF Approved
<1>3. Nesting /\ OpenJournal /\ ClosedJournal
  BY DEF Nesting, OpenJournal, ClosedJournal
<1>4. Progress
  BY DEF Progress
<1> QED
  BY <1>1, <1>2, <1>3, <1>4 DEF IInv

(* Every step of the transaction, every fault that leaves the old journal   *)
(* in place and every crash preserve the inductive invariant.               *)
LEMMA NextIInv == ASSUME SyncMayFail = FALSE, IInv, [Next]_vars PROVE IInv'
<1> USE ApplyAssumption DEF IInv
<1>1. CASE StartApply
  BY <1>1, SyncMayFail = FALSE DEF StartApply, Enter, TypeOK, Approved, Nesting, OpenJournal, ClosedJournal, Progress, Done, Todo, Idx, Trees, Contents, Steps, Results, None, tvars
<1>2. CASE StartResume
  BY <1>2, SyncMayFail = FALSE DEF StartResume, Enter, TypeOK, Approved, Nesting, OpenJournal, ClosedJournal, Progress, Done, Todo, Idx, Trees, Contents, Steps, Results, None, tvars
<1>3. CASE RecoverLocked
  BY <1>3, SyncMayFail = FALSE DEF RecoverLocked, Return, TypeOK, Approved, Nesting, OpenJournal, ClosedJournal, Progress, Done, Todo, Idx, Trees, Contents, Steps, Results, None, tvars
<1>4. CASE CheckBaseline
  BY <1>4, SyncMayFail = FALSE DEF CheckBaseline, Return, TypeOK, Approved, Nesting, OpenJournal, ClosedJournal, Progress, Done, Todo, Idx, Trees, Contents, Steps, Results, None, tvars
<1>5. CASE NewTransactionRoot
  BY <1>5, SyncMayFail = FALSE DEF NewTransactionRoot, TypeOK, Approved, Nesting, OpenJournal, ClosedJournal, Progress, Done, Todo, Idx, Trees, Contents, Steps, Results, None, tvars
<1>6. CASE MakeBackupDir
  BY <1>6, SyncMayFail = FALSE DEF MakeBackupDir, TypeOK, Approved, Nesting, OpenJournal, ClosedJournal, Progress, Done, Todo, Idx, Trees, Contents, Steps, Results, None, tvars
<1>7. CASE StageResult
  BY <1>7, SyncMayFail = FALSE DEF StageResult, TypeOK, Approved, Nesting, OpenJournal, ClosedJournal, Progress, Done, Todo, Idx, Trees, Contents, Steps, Results, None, tvars
<1>8. CASE WriteJournal
  <2> USE <1>8 DEF WriteJournal
  <2>1. TypeOK'
    BY DEF TypeOK, Trees, Contents, Steps, Results, Idx, None, Progress, tvars
  <2>2. Approved'
    BY DEF Approved, tvars
  <2>3. Nesting'
    BY DEF TypeOK, Nesting, Progress, Idx, None, tvars
  <2>4. OpenJournal'
    BY DEF OpenJournal, TypeOK, Trees, Approved, Progress, Done, Todo, Idx, None, tvars, Nesting
  <2>5. ClosedJournal'
    BY DEF ClosedJournal, OpenJournal, TypeOK, Trees, Approved, Progress, Todo, Idx, tvars
  <2>6. Progress'
    BY DEF Progress, Done, Todo, OpenJournal, Nesting, TypeOK, Trees, Approved, Idx, None, tvars
  <2> QED
    BY <2>1, <2>2, <2>3, <2>4, <2>5, <2>6
<1>9. CASE BackupEntry
  <2> USE <1>9 DEF BackupEntry
  <2>1. TypeOK'
    BY DEF TypeOK, Trees, Contents, Steps, Results, Idx, None, Progress, tvars
  <2>2. Approved'
    BY DEF Approved, tvars
  <2>3. Nesting'
    BY DEF TypeOK, Nesting, Progress, Idx, None, tvars
  <2>4. OpenJournal'
    <3> SUFFICES ASSUME NEW k \in Idx
                 PROVE (/\ original[k] <=> before[k] = "old"
                        /\ backup[k] => original[k]
                        /\ original[k] /\ ~backup[k] => host[k] = "old")'
      BY DEF OpenJournal, Idx
    <3>1. jrnl = "open" /\ i \in Idx /\ original' = original /\ before' = before
      BY DEF Progress
    <3>2. CASE k = i
      BY <3>1, <3>2 DEF OpenJournal, TypeOK, Trees
    <3>3. CASE k # i
      BY <3>1, <3>3 DEF OpenJournal, TypeOK, Trees
    <3> QED
      BY <3>2, <3>3
  <2>5. ClosedJournal'
    BY DEF ClosedJournal, OpenJournal, TypeOK, Trees, Approved, Progress, Todo, Idx, tvars
  <2>6. Progress'
    BY DEF Progress, Done, Todo, OpenJournal, Nesting, TypeOK, Trees, Approved, Idx, None, tvars
  <2> QED
    BY <2>1, <2>2, <2>3, <2>4, <2>5, <2>6
<1>10. CASE InstallEntry
  <2> USE <1>10 DEF InstallEntry
  <2>1. TypeOK'
    <3>1. i \in Idx /\ after[i] \in Contents
      BY DEF TypeOK, Trees, Progress
    <3>2. host' \in Trees /\ stage' \in [Idx -> BOOLEAN]
      BY <3>1 DEF TypeOK, Trees
    <3>3. i' \in 0 .. N /\ pc' \in Steps
      BY <3>1 DEF Idx, Steps
    <3> QED
      BY <3>2, <3>3 DEF TypeOK
  <2>2. Approved'
    BY DEF Approved, tvars
  <2>3. Nesting'
    BY DEF TypeOK, Nesting, Progress, Idx, None, tvars
  <2>4. OpenJournal'
    BY DEF OpenJournal, TypeOK, Trees, Approved, Progress, Done, Todo, Idx, None, tvars, Nesting
  <2>5. ClosedJournal'
    BY DEF ClosedJournal, OpenJournal, TypeOK, Trees, Approved, Progress, Todo, Idx, tvars
  <2>6. Progress'
    <3>1. /\ i \in Idx /\ jrnl = "open" /\ root /\ bdir
          /\ backup' = backup /\ original' = original /\ after' = after /\ before' = before
          /\ root' /\ bdir' /\ jrnl' = "open"
      BY DEF Progress
    <3>2. host'[i] = after[i] /\ \A k \in Idx : k # i => host'[k] = host[k]
      BY <3>1 DEF Progress, TypeOK, Trees
    <3>3. \A k \in 1 .. i : Done(k)'
      BY <3>1, <3>2 DEF Progress, Done, Idx
    <3>4. \A k \in (i + 1) .. N : Todo(k)'
      BY <3>1, <3>2 DEF Progress, Todo, Idx
    <3>5. CASE i = N
      BY <3>1, <3>3, <3>5 DEF Progress, Idx
    <3>6. CASE i # N
      BY <3>1, <3>3, <3>4, <3>6 DEF Progress, Idx
    <3> QED
      BY <3>5, <3>6
  <2> QED
    BY <2>1, <2>2, <2>3, <2>4, <2>5, <2>6
<1>11. CASE Verify
  BY <1>11, SyncMayFail = FALSE DEF Verify, TypeOK, Approved, Nesting, OpenJournal, ClosedJournal, Progress, Done, Todo, Idx, Trees, Contents, Steps, Results, None, tvars
<1>12. CASE CommitJournal
  BY <1>12, SyncMayFail = FALSE DEF CommitJournal, TypeOK, Approved, Nesting, OpenJournal, ClosedJournal, Progress, Done, Todo, Idx, Trees, Contents, Steps, Results, None, tvars
<1>13. CASE ProjectCommit
  BY <1>13, SyncMayFail = FALSE DEF ProjectCommit, TypeOK, Approved, Nesting, OpenJournal, ClosedJournal, Progress, Done, Todo, Idx, Trees, Contents, Steps, Results, None, tvars
<1>14. CASE RollbackEntry
  <2> USE <1>14 DEF RollbackEntry, RollbackDone
  <2>1. TypeOK'
    BY DEF TypeOK, Trees, Contents, Steps, Results, Idx, None, Progress, tvars
  <2>2. Approved'
    BY DEF Approved, tvars
  <2>3. Nesting'
    BY DEF TypeOK, Nesting, Progress, Idx, None, tvars
  <2>4. OpenJournal'
    BY DEF OpenJournal, TypeOK, Trees, Approved, Progress, Done, Todo, Idx, None, tvars, Nesting
  <2>5. ClosedJournal'
    BY DEF ClosedJournal, OpenJournal, TypeOK, Trees, Approved, Progress, Todo, Idx, tvars
  <2>6. Progress'
    <3>1. /\ i \in Idx /\ root' /\ bdir' /\ jrnl' = "open"
          /\ backup' = backup /\ before' = before /\ original' = original
          /\ \A k \in (i + 1) .. N : Todo(k)
      BY DEF Progress, tvars
    <3>2. \A k \in Idx : k # i => host'[k] = host[k]
      BY <3>1 DEF TypeOK, Trees
    <3>3. CASE backup[i]
      BY <3>1, <3>2, <3>3 DEF Progress, Todo, Idx
    <3>4. CASE ~backup[i]
      <4>1. host'[i] = before[i]
        BY <3>1, <3>4 DEF OpenJournal, Approved, TypeOK, Trees, Progress
      <4>2. \A k \in i .. N : Todo(k)'
        BY <3>1, <3>2, <3>4, <4>1 DEF Todo, Idx
      <4> QED
        BY <3>1, <3>4, <4>2 DEF Progress, Todo, Idx
    <3> QED
      BY <3>3, <3>4
  <2> QED
    BY <2>1, <2>2, <2>3, <2>4, <2>5, <2>6
<1>15. CASE RestoreEntry
  <2> USE <1>15 DEF RestoreEntry, RollbackDone
  <2>1. TypeOK'
    BY DEF TypeOK, Trees, Contents, Steps, Results, Idx, None, Progress, tvars
  <2>2. Approved'
    BY DEF Approved, tvars
  <2>3. Nesting'
    BY DEF TypeOK, Nesting, Progress, Idx, None, tvars
  <2>4. OpenJournal'
    BY DEF OpenJournal, TypeOK, Trees, Approved, Progress, Done, Todo, Idx, None, tvars, Nesting
  <2>5. ClosedJournal'
    BY DEF ClosedJournal, OpenJournal, TypeOK, Trees, Approved, Progress, Todo, Idx, tvars
  <2>6. Progress'
    BY DEF Progress, Done, Todo, OpenJournal, Nesting, TypeOK, Trees, Approved, Idx, None, tvars
  <2> QED
    BY <2>1, <2>2, <2>3, <2>4, <2>5, <2>6
<1>16. CASE RemoveTransactionRoot
  <2> USE <1>16 DEF RemoveTransactionRoot
  <2>1. TypeOK'
    BY DEF TypeOK, Trees, Contents, Steps, Results, Idx, None, Progress, tvars
  <2>2. Approved'
    BY DEF Approved, tvars
  <2>3. Nesting'
    <3>1. CASE bdir /\ bdir' = FALSE /\ backup' = None /\ UNCHANGED <<root, jrnl>>
      BY <3>1 DEF Nesting, None, Progress
    <3>2. CASE jrnl' = "none" /\ UNCHANGED <<root, bdir, backup>>
      BY <3>2 DEF Nesting, Idx
    <3>3. CASE ~bdir /\ jrnl = "none" /\ UNCHANGED <<bdir, backup, jrnl>>
      BY <3>3 DEF Nesting, Idx
    <3> QED
      BY <3>1, <3>2, <3>3
  <2>4. OpenJournal'
    BY ZenonT(60) DEF OpenJournal, TypeOK, Trees, Approved, Progress, Done, Todo, Idx, None, tvars, Nesting
  <2>5. ClosedJournal'
    <3>1. ASSUME jrnl = "open" PROVE host = before
      BY <3>1 DEF Progress, Todo, TypeOK, Trees
    <3>2. host' = host /\ before' = before /\ after' = after /\ jrnl' \in {jrnl, "none"}
      OBVIOUS
    <3> QED
      BY <3>1, <3>2 DEF ClosedJournal, TypeOK
  <2>6. Progress'
    BY DEF Progress, Done, Todo, OpenJournal, Nesting, TypeOK, Trees, Approved, Idx, None, tvars
  <2> QED
    BY <2>1, <2>2, <2>3, <2>4, <2>5, <2>6
<1>17. CASE Fault
  BY <1>17, SyncMayFail = FALSE DEF Fault, Return, JournalAfterFault, TypeOK, Approved, Nesting, OpenJournal, ClosedJournal, Progress, Done, Todo, Idx, Trees, Contents, Steps, Results, None, tvars
<1>18. CASE Crash
  BY <1>18, SyncMayFail = FALSE DEF Crash, Return, TypeOK, Approved, Nesting, OpenJournal, ClosedJournal, Progress, Done, Todo, Idx, Trees, Contents, Steps, Results, None, tvars
<1>19. CASE UNCHANGED vars
  BY <1>19 DEF vars, pvars, TypeOK, Approved, Nesting, OpenJournal, ClosedJournal, Progress, Done, Todo, Idx, Trees, Contents, Steps, Results, None, tvars
<1> QED
  BY <1>1, <1>2, <1>3, <1>4, <1>5, <1>6, <1>7, <1>8, <1>9, <1>10, <1>11, <1>12, <1>13, <1>14, <1>15, <1>16, <1>17, <1>18, <1>19, [Next]_vars DEF Next, Work

(* What the call's result says, at the instant it is returned and after. *)
Reported ==
  /\ result \in {"ok", "committed"} => host = after /\ jrnl # "open"
  /\ pc \in {"rm", "rollback", "restore"} /\ ret = "idle" => result \in {"ok", "failed"}
  /\ pc = "idle" /\ result = "rolledback" => host = before /\ ~root

(* The approved states differ, so a Project in one of them is not in the    *)
(* other.                                                                   *)
LEMMA StatesDiffer == ASSUME Approved PROVE before # after
  BY ApplyAssumption DEF Approved, Idx

LEMMA NextReported == ASSUME IInv, Reported, [Next]_vars PROVE Reported'
<1> USE DEF Reported
<1>1. before # after
  BY StatesDiffer DEF IInv
<1>2. CASE StartApply \/ StartResume
  BY <1>2 DEF StartApply, StartResume, Enter, tvars
<1>3. CASE RecoverLocked
  BY <1>3 DEF RecoverLocked, Return, tvars
<1>4. CASE CheckBaseline
  BY <1>4 DEF CheckBaseline, Return, tvars, IInv, Progress, Nesting
<1>5. CASE NewTransactionRoot \/ MakeBackupDir \/ StageResult \/ WriteJournal
  BY <1>1, <1>5 DEF NewTransactionRoot, MakeBackupDir, StageResult, WriteJournal, IInv, Progress
<1>6. CASE BackupEntry \/ InstallEntry \/ Verify \/ CommitJournal
  BY <1>6 DEF BackupEntry, InstallEntry, Verify, CommitJournal, tvars, IInv, Progress
<1>7. CASE ProjectCommit
  BY <1>7 DEF ProjectCommit, tvars, IInv, Progress
<1>8. CASE RollbackEntry \/ RestoreEntry
  BY <1>8 DEF RollbackEntry, RestoreEntry, RollbackDone, tvars, IInv, Progress
<1>9. CASE RemoveTransactionRoot
  BY <1>9 DEF RemoveTransactionRoot, IInv, TypeOK
<1>10. CASE Fault
  BY <1>1, <1>10 DEF Fault, Return, JournalAfterFault, IInv, Progress
<1>11. CASE Crash
  BY <1>11 DEF Crash, Return, tvars
<1>12. CASE UNCHANGED vars
  BY <1>12 DEF vars, tvars, pvars
<1> QED
  BY <1>2, <1>3, <1>4, <1>5, <1>6, <1>7, <1>8, <1>9, <1>10, <1>11, <1>12, [Next]_vars
  DEF Next, Work

(* The inductive invariant holds of every behaviour. *)
THEOREM Invariance == ASSUME SyncMayFail = FALSE PROVE Spec => [](IInv /\ Reported)
<1>1. Init => IInv /\ Reported
  BY InitIInv DEF Init, Reported
<1>2. IInv /\ Reported /\ [Next]_vars => IInv' /\ Reported'
  BY NextIInv, NextReported, SyncMayFail = FALSE
<1> QED
  BY <1>1, <1>2, PTL DEF Spec

(* The loops never leave the entries of the journal, not even where an      *)
(* error of AtomicWriteOwned comes after its rename.                        *)
Typed == TypeOK /\ (pc \in {"backup", "install", "rollback", "restore"} => i \in Idx)

LEMMA NextTyped == ASSUME Typed, [Next]_vars PROVE Typed'
<1> USE ApplyAssumption
<1>1. /\ host \in Trees /\ before \in Trees /\ after \in Trees
      /\ root \in BOOLEAN /\ bdir \in BOOLEAN
      /\ backup \in [Idx -> BOOLEAN] /\ stage \in [Idx -> BOOLEAN]
      /\ jrnl \in {"none", "open", "committed"} /\ original \in [Idx -> BOOLEAN]
      /\ pc \in Steps /\ mode \in {"apply", "resume"}
      /\ ret \in {"idle", "check"} /\ i \in 0 .. N
      /\ result \in Results /\ faults \in 0 .. MaxFaults /\ crashes \in 0 .. MaxCrashes
      /\ pc \in {"backup", "install", "rollback", "restore"} => i \in Idx
  BY DEF Typed, TypeOK
<1>2. None \in [Idx -> BOOLEAN] /\ N \in Idx /\ 1 \in Idx /\ 0 \in 0 .. N
  BY DEF None, Idx
<1>3. /\ [k \in Idx |-> after[k] # "absent"] \in [Idx -> BOOLEAN]
      /\ [k \in Idx |-> host[k] # "absent"] \in [Idx -> BOOLEAN]
  OBVIOUS
<1>4. CASE StartApply \/ StartResume \/ RecoverLocked \/ CheckBaseline \/ ProjectCommit
  BY <1>1, <1>2, <1>4
     DEF StartApply, StartResume, Enter, RecoverLocked, CheckBaseline, ProjectCommit, Return,
         Typed, TypeOK, tvars, Steps, Results, Idx
<1>5. CASE NewTransactionRoot \/ MakeBackupDir \/ StageResult \/ WriteJournal \/ CommitJournal
  <2>1. CASE NewTransactionRoot \/ MakeBackupDir \/ CommitJournal
    BY <1>1, <2>1 DEF NewTransactionRoot, MakeBackupDir, CommitJournal, Typed, TypeOK, Steps
  <2>2. CASE StageResult
    BY <1>1, <1>3, <2>2 DEF StageResult, Typed, TypeOK, Steps
  <2>3. CASE WriteJournal
    BY <1>1, <1>2, <1>3, <2>3 DEF WriteJournal, Typed, TypeOK, Steps, Idx
  <2> QED BY <1>5, <2>1, <2>2, <2>3
<1>6. CASE BackupEntry
  BY <1>1, <1>6 DEF BackupEntry, Typed, TypeOK, Trees, Contents, Steps
<1>7. CASE InstallEntry
  <2>1. host' \in Trees /\ stage' \in [Idx -> BOOLEAN]
    BY <1>1, <1>7 DEF InstallEntry, Trees, Contents
  <2>2. /\ pc' \in {"verify", "backup"} /\ i' \in 0 .. N
        /\ pc' \in {"backup", "install", "rollback", "restore"} => i' \in Idx
    BY <1>1, <1>7 DEF InstallEntry, Idx
  <2> QED BY <1>1, <1>7, <2>1, <2>2 DEF InstallEntry, Typed, TypeOK, Steps
<1>8. CASE Verify
  BY <1>1, <1>2, <1>8 DEF Verify, Typed, TypeOK, tvars, Steps, Results, Idx
<1>9. ASSUME RollbackDone, i \in Idx
      PROVE  /\ pc' \in Steps /\ i' \in 0 .. N
             /\ pc' \in {"backup", "install", "rollback", "restore"} => i' \in Idx
  BY <1>9 DEF RollbackDone, Steps, Idx
<1>10. CASE RollbackEntry
  <2>1. host' \in Trees
    BY <1>1, <1>10 DEF RollbackEntry, Trees, Contents
  <2>2. /\ pc' \in Steps /\ i' \in 0 .. N
        /\ pc' \in {"backup", "install", "rollback", "restore"} => i' \in Idx
    BY <1>1, <1>9, <1>10 DEF RollbackEntry, Steps
  <2> QED BY <1>1, <1>10, <2>1, <2>2 DEF RollbackEntry, Typed, TypeOK, tvars
<1>11. CASE RestoreEntry
  <2>1. host' \in Trees /\ backup' \in [Idx -> BOOLEAN]
    BY <1>1, <1>11 DEF RestoreEntry, Trees, Contents
  <2>2. /\ pc' \in Steps /\ i' \in 0 .. N
        /\ pc' \in {"backup", "install", "rollback", "restore"} => i' \in Idx
    BY <1>1, <1>9, <1>11 DEF RestoreEntry
  <2> QED BY <1>1, <1>11, <2>1, <2>2 DEF RestoreEntry, Typed, TypeOK
<1>12. CASE RemoveTransactionRoot
  <2>1. /\ root' \in BOOLEAN /\ bdir' \in BOOLEAN /\ jrnl' \in {"none", "open", "committed"}
        /\ backup' \in [Idx -> BOOLEAN] /\ stage' \in [Idx -> BOOLEAN]
        /\ original' \in [Idx -> BOOLEAN]
    BY <1>1, <1>2, <1>12 DEF RemoveTransactionRoot
  <2>2. pc' \in Steps /\ pc' \notin {"backup", "install", "rollback", "restore"}
    BY <1>1, <1>12 DEF RemoveTransactionRoot, Steps
  <2> QED BY <1>1, <1>12, <2>1, <2>2 DEF RemoveTransactionRoot, Typed, TypeOK
<1>13. CASE Fault
  <2>1. faults' \in 0 .. MaxFaults
    BY <1>1, <1>13 DEF Fault
  <2>2. jrnl' \in {"none", "open", "committed"} /\ original' \in [Idx -> BOOLEAN]
    BY <1>1, <1>3, <1>13 DEF Fault, JournalAfterFault
  <2>3. /\ pc' \in Steps /\ i' \in 0 .. N /\ ret' \in {"idle", "check"} /\ result' \in Results
        /\ pc' \in {"backup", "install", "rollback", "restore"} => i' \in Idx
    BY <1>1, <1>2, <1>13 DEF Fault, Return, Steps, Results
  <2> QED BY <1>1, <1>13, <2>1, <2>2, <2>3 DEF Fault, Typed, TypeOK
<1>14. CASE Crash
  BY <1>1, <1>14 DEF Crash, Return, Typed, TypeOK, tvars, Steps, Results
<1>15. CASE UNCHANGED vars
  BY <1>1, <1>15 DEF Typed, TypeOK, vars, tvars, pvars
<1> QED BY <1>4, <1>5, <1>6, <1>7, <1>8, <1>10, <1>11, <1>12, <1>13, <1>14, <1>15 DEF Next, Work

(* Every variable keeps its type and every loop its index, whatever fails   *)
(* or crashes (the loops of ApplyWorkSet and rollback over the journal).    *)
THEOREM TypeCorrect == Spec => []TypeOK
<1>1. Init => Typed
  BY InitIInv DEF IInv, Init, Typed
<1>2. Typed => TypeOK
  BY DEF Typed
<1> QED BY <1>1, <1>2, NextTyped, PTL DEF Spec

(* What recovery would leave is one of the approved states in every state   *)
(* of the inductive invariant.                                              *)
LEMMA RecoveredState ==
  ASSUME IInv
  PROVE  /\ jrnl = "open" => Recovered = before
         /\ jrnl # "open" => Recovered = host
<1>1. host \in Trees /\ before \in Trees
  BY DEF IInv, TypeOK
<1>2. ASSUME jrnl = "open" PROVE Recovered = before
  <2>1. ASSUME NEW k \in Idx PROVE Recovered[k] = before[k]
    BY <1>2, <2>1 DEF Recovered, IInv, OpenJournal, Approved
  <2> QED
    BY <1>1, <2>1 DEF Recovered, Trees
<1>3. ASSUME jrnl # "open" PROVE Recovered = host
  BY <1>1, <1>3 DEF Recovered, Trees
<1> QED
  BY <1>2, <1>3

(* All or nothing: for any number of affected roots, whichever operation    *)
(* fails and wherever the process dies, recovery of the Project yields the  *)
(* complete before-state or the complete after-state.                       *)
THEOREM Atomicity == ASSUME SyncMayFail = FALSE PROVE Spec => []AllOrNothing
<1>1. IInv => AllOrNothing
  BY RecoveredState DEF AllOrNothing, IInv, ClosedJournal, TypeOK
<1> QED
  BY <1>1, Invariance, SyncMayFail = FALSE, PTL

(* No original leaves both the Project and the backup directory before the  *)
(* approved result is in place.                                             *)
THEOREM OriginalsSurvive == ASSUME SyncMayFail = FALSE PROVE Spec => []OriginalsKept
<1>1. IInv => OriginalsKept
  BY DEF OriginalsKept, IInv, OpenJournal, ClosedJournal, TypeOK
<1> QED
  BY <1>1, Invariance, SyncMayFail = FALSE, PTL

(* The outcome a call reports is the state of the Project. *)
THEOREM ResultsAreHonest == ASSUME SyncMayFail = FALSE PROVE Spec => []HonestResult
<1>1. IInv /\ Reported => HonestResult
  BY DEF HonestResult, Reported
<1> QED
  BY <1>1, Invariance, SyncMayFail = FALSE, PTL

(* The transaction implements AtomicApply under the mapping that reads the  *)
(* Project through the recovery: the journal's commit is the only step that *)
(* changes what recovery would leave, and it changes all of it.             *)
THEOREM Refinement == ASSUME SyncMayFail = FALSE PROVE Spec => ImplementsAtomicApply
<1>1. Init => Atomic!AInit
  <2> SUFFICES ASSUME Init PROVE Atomic!AInit
    OBVIOUS
  <2>1. IInv /\ jrnl = "none" /\ host = before
    BY InitIInv DEF Init
  <2> QED
    BY <2>1, RecoveredState DEF Atomic!AInit, IInv, TypeOK
<1>2. ASSUME IInv, IInv', [Next]_vars PROVE [Atomic!ACommit]_(Atomic!avars)
  <2>1. /\ jrnl' = "open" => Recovered' = before'
        /\ jrnl' # "open" => Recovered' = host'
    <3>1. host' \in Trees /\ before' \in Trees
      BY <1>2 DEF IInv, TypeOK, Trees, Idx
    <3>2. ASSUME jrnl' = "open" PROVE Recovered' = before'
      <4>1. ASSUME NEW k \in Idx PROVE Recovered'[k] = before'[k]
        BY <1>2, <3>2, <4>1 DEF Recovered, IInv, OpenJournal, Approved, Idx
      <4> QED
        BY <3>1, <4>1 DEF Recovered, Trees
    <3>3. ASSUME jrnl' # "open" PROVE Recovered' = host'
      BY <3>1, <3>3 DEF Recovered, Trees
    <3> QED
      BY <3>2, <3>3
  <2>2. before' = before /\ after' = after
    BY <1>2 DEF Next, Work, StartApply, StartResume, Enter, RecoverLocked, CheckBaseline,
       NewTransactionRoot, MakeBackupDir, StageResult, WriteJournal, BackupEntry,
       InstallEntry, Verify, CommitJournal, ProjectCommit, RollbackEntry, RestoreEntry,
       RemoveTransactionRoot, Fault, Crash, vars
  <2>3. CASE CommitJournal
    BY <2>1, <2>2, <2>3, <1>2, RecoveredState
    DEF CommitJournal, IInv, Progress, Atomic!ACommit, Atomic!avars
  <2>4. CASE WriteJournal
    BY <2>1, <2>2, <2>4, <1>2, RecoveredState
    DEF WriteJournal, IInv, Progress, Atomic!avars
  <2>5. CASE BackupEntry \/ InstallEntry \/ RollbackEntry \/ RestoreEntry
    <3>1. (jrnl = "open" /\ jrnl' = "open") \/ (jrnl' = jrnl /\ host' = host)
      BY <2>5, <1>2 DEF BackupEntry, InstallEntry, RollbackEntry, RestoreEntry, tvars, IInv, Progress
    <3> QED
      BY <3>1, <2>1, <2>2, <1>2, RecoveredState DEF Atomic!avars
  <2>6. CASE RemoveTransactionRoot
    <3>1. ASSUME jrnl = "open" PROVE host = before
      BY <3>1, <2>6, <1>2 DEF RemoveTransactionRoot, IInv, Progress, Todo, TypeOK, Trees
    <3>2. host' = host /\ (jrnl' = jrnl \/ jrnl' = "none")
      BY <2>6 DEF RemoveTransactionRoot
    <3> QED
      BY <3>1, <3>2, <2>1, <2>2, <1>2, RecoveredState DEF Atomic!avars
  <2>7. CASE Fault
    <3>1. jrnl' = jrnl /\ host' = host
      BY <2>7, SyncMayFail = FALSE DEF Fault, JournalAfterFault, Return
    <3> QED
      BY <3>1, <2>1, <2>2, <1>2, RecoveredState DEF Atomic!avars
  <2>8. CASE jrnl' = jrnl /\ host' = host
    BY <2>8, <2>1, <2>2, <1>2, RecoveredState DEF Atomic!avars
  <2>9. ASSUME ~CommitJournal, ~WriteJournal, ~BackupEntry, ~InstallEntry, ~RollbackEntry,
               ~RestoreEntry, ~RemoveTransactionRoot, ~Fault
        PROVE  jrnl' = jrnl /\ host' = host
    BY <2>9, <1>2 DEF Next, Work, StartApply, StartResume, Enter, RecoverLocked, CheckBaseline,
       NewTransactionRoot, MakeBackupDir, StageResult, Verify, ProjectCommit, Crash, tvars, vars
  <2> QED
    BY <2>3, <2>4, <2>5, <2>6, <2>7, <2>8, <2>9
<1> QED
  BY <1>1, <1>2, Invariance, SyncMayFail = FALSE, PTL
  DEF Spec, ImplementsAtomicApply, Atomic!ASpec

=============================================================================

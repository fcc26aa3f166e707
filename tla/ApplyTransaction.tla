-------------------------- MODULE ApplyTransaction --------------------------
(***************************************************************************)
(* The host apply transaction of internal/apply: ApplyWorkSet and          *)
(* applyWorkSetLocked (workset.go), RecoverLocked, rollback and            *)
(* removeTransactionRoot (apply.go).  Every durable filesystem operation   *)
(* is one step; the process may fail or crash between any two of them.     *)
(*                                                                         *)
(* The N affected roots (affectedRoots) are pairwise disjoint subtrees, so *)
(* each is one slot of a function: "absent", the "old" tree or the "new"   *)
(* tree.  The Project lock admits one process at a time, so one program    *)
(* counter is enough; a crash releases the flock and loses everything but  *)
(* the files.                                                              *)
(***************************************************************************)
EXTENDS Naturals

CONSTANTS N,            \* number of affected roots
          SyncMayFail,  \* AtomicWriteOwned may fail after its rename
          MaxFaults,    \* bound on failing filesystem operations
          MaxCrashes    \* bound on process crashes

ASSUME ApplyAssumption == /\ N \in Nat \ {0}
                          /\ SyncMayFail \in BOOLEAN
                          /\ MaxFaults \in Nat
                          /\ MaxCrashes \in Nat

VARIABLES
  host,     \* contents of each affected root in the Project
  before,   \* contents at the baseline the plan was approved for
  after,    \* contents of the approved result
  root,     \* the directory .sunaba/transactions/sunaba-apply-* exists
  bdir,     \* its backup directory exists
  backup,   \* which originals are in the backup directory
  stage,    \* which approved results are in the stage directory
  jrnl,     \* journal.json: "none", "open", "committed"
  original, \* journalEntry.Original, as recorded in the journal
  pc,       \* the step the process is about to take
  mode,     \* "apply" (ApplyWorkSet) or "resume" (ResumeWorkSetTransaction)
  ret,      \* where removeTransactionRoot returns to
  i,        \* loop index over the journal's entries
  result,   \* outcome of the last call that ended
  faults, crashes

tvars == <<root, bdir, backup, stage, jrnl, original>>
pvars == <<pc, mode, ret, i>>
vars == <<host, before, after, tvars, pvars, result, faults, crashes>>

Idx == 1 .. N
Contents == {"absent", "old", "new"}
Trees == [Idx -> Contents]
Steps == {"idle", "recover", "check", "newroot", "mkbackup", "stage",
          "journal", "backup", "install", "verify", "commit", "mark", "rm",
          "rollback", "restore"}
Results == {"none", "ok", "committed", "rolledback", "refused", "failed"}

TypeOK ==
  /\ host \in Trees /\ before \in Trees /\ after \in Trees
  /\ root \in BOOLEAN /\ bdir \in BOOLEAN
  /\ backup \in [Idx -> BOOLEAN] /\ stage \in [Idx -> BOOLEAN]
  /\ jrnl \in {"none", "open", "committed"}
  /\ original \in [Idx -> BOOLEAN]
  /\ pc \in Steps /\ mode \in {"apply", "resume"}
  /\ ret \in {"idle", "check"} /\ i \in 0 .. N
  /\ result \in Results /\ faults \in 0 .. MaxFaults /\ crashes \in 0 .. MaxCrashes

None == [k \in Idx |-> FALSE]

(* A journal entry exists for a path that the change set adds, modifies or  *)
(* deletes: it is present before, after or both.                            *)
Init ==
  /\ before \in [Idx -> {"absent", "old"}]
  /\ after \in [Idx -> {"absent", "new"}]
  /\ \A k \in Idx : before[k] # "absent" \/ after[k] # "absent"
  /\ host = before
  /\ root = FALSE /\ bdir = FALSE /\ backup = None /\ stage = None
  /\ jrnl = "none" /\ original = None
  /\ pc = "idle" /\ mode = "apply" /\ ret = "idle" /\ i = 0
  /\ result = "none" /\ faults = 0 /\ crashes = 0

(* Mutant: the call does not recover the previous transaction first. *)
EnterWithoutRecovery(m) ==
  /\ pc = "idle"
  /\ pc' = "check" /\ mode' = m
  /\ UNCHANGED <<host, before, after, tvars, ret, i, result, faults, crashes>>

(* The call takes the Project lock and enters RecoverLocked. *)
Enter(m) ==
  /\ pc = "idle"
  /\ pc' = "recover" /\ mode' = m
  /\ UNCHANGED <<host, before, after, tvars, ret, i, result, faults, crashes>>

StartApply == Enter("apply")
StartResume == Enter("resume")

(* The call ends: it reports r and releases the Project lock. *)
Return(r) == pc' = "idle" /\ result' = r

(* Mutant: recovery removes an uncommitted transaction without a rollback. *)
RecoverWithoutRollback ==
  /\ pc = "recover"
  /\ IF root THEN pc' = "rm" /\ ret' = "check" ELSE pc' = "check" /\ UNCHANGED ret
  /\ UNCHANGED <<host, before, after, tvars, mode, i, result, faults, crashes>>

(* RecoverLocked looks at what the previous transaction left behind. *)
RecoverLocked ==
  /\ pc = "recover"
  /\ \/ ~root /\ pc' = "check" /\ UNCHANGED <<ret, i, result>>
     \/ /\ root /\ jrnl \in {"none", "committed"}
        /\ pc' = "rm" /\ ret' = "check" /\ UNCHANGED <<i, result>>
     \/ /\ root /\ jrnl = "open" /\ bdir
        /\ pc' = "rollback" /\ ret' = "check" /\ i' = N /\ UNCHANGED result
     \/ /\ root /\ jrnl = "open" /\ ~bdir      \* openDirectory(backup) fails
        /\ Return("failed") /\ UNCHANGED <<ret, i>>
  /\ UNCHANGED <<host, before, after, tvars, mode, faults, crashes>>

(* ApplyWorkSet compares the host with the plan's baseline before it        *)
(* consumes the grant; ResumeWorkSetTransaction classifies what it finds.   *)
CheckBaseline ==
  /\ pc = "check"
  /\ \/ mode = "apply" /\ host = before /\ pc' = "newroot" /\ UNCHANGED result
     \/ mode = "apply" /\ host # before /\ Return("refused")
     \/ mode = "resume" /\ host = after /\ Return("committed")
     \/ mode = "resume" /\ host = before /\ host # after /\ Return("rolledback")
     \/ mode = "resume" /\ host # before /\ host # after /\ Return("failed")
  /\ UNCHANGED <<host, before, after, tvars, mode, ret, i, faults, crashes>>

NewTransactionRoot ==
  /\ pc = "newroot"
  /\ root' = TRUE /\ pc' = "mkbackup"
  /\ UNCHANGED <<host, before, after, bdir, backup, stage, jrnl, original, mode, ret, i, result, faults, crashes>>

MakeBackupDir ==
  /\ pc = "mkbackup"
  /\ bdir' = TRUE /\ pc' = "stage"
  /\ UNCHANGED <<host, before, after, root, backup, stage, jrnl, original, mode, ret, i, result, faults, crashes>>

(* CreateApprovedSnapshotSubset copies the approved result of every         *)
(* affected root that the result contains.                                  *)
StageResult ==
  /\ pc = "stage"
  /\ stage' = [k \in Idx |-> after[k] # "absent"]
  /\ pc' = "journal"
  /\ UNCHANGED <<host, before, after, root, bdir, backup, jrnl, original, mode, ret, i, result, faults, crashes>>

(* Mutant: the journal records whether the entry is desired, not whether it *)
(* existed.                                                                 *)
WriteJournalOfResult ==
  /\ pc = "journal"
  /\ jrnl' = "open"
  /\ original' = [k \in Idx |-> after[k] # "absent"]
  /\ pc' = "backup" /\ i' = 1
  /\ UNCHANGED <<host, before, after, root, bdir, backup, stage, mode, ret, result, faults, crashes>>

WriteJournal ==
  /\ pc = "journal"
  /\ jrnl' = "open"
  /\ original' = [k \in Idx |-> host[k] # "absent"]
  /\ pc' = "backup" /\ i' = 1
  /\ UNCHANGED <<host, before, after, root, bdir, backup, stage, mode, ret, result, faults, crashes>>

(* renameRelative(root, path, backup, item): only for an existing original. *)
BackupEntry ==
  /\ pc = "backup"
  /\ IF original[i]
     THEN /\ backup' = [backup EXCEPT ![i] = TRUE]
          /\ host' = [host EXCEPT ![i] = "absent"]
     ELSE UNCHANGED <<backup, host>>
  /\ pc' = "install"
  /\ UNCHANGED <<before, after, root, bdir, stage, jrnl, original, mode, ret, i, result, faults, crashes>>

(* Mutant: the loop runs one entry too far. *)
InstallEntryTooFar ==
  /\ pc = "install"
  /\ IF after[i] # "absent"
     THEN /\ stage' = [stage EXCEPT ![i] = FALSE]
          /\ host' = [host EXCEPT ![i] = after[i]]
     ELSE UNCHANGED <<stage, host>>
  /\ IF i > N THEN pc' = "verify" /\ UNCHANGED i ELSE pc' = "backup" /\ i' = i + 1
  /\ UNCHANGED <<before, after, root, bdir, backup, jrnl, original, mode, ret, result, faults, crashes>>

(* renameRelative(stage, path, root, path): only for a desired entry. *)
InstallEntry ==
  /\ pc = "install"
  /\ IF after[i] # "absent"
     THEN /\ stage' = [stage EXCEPT ![i] = FALSE]
          /\ host' = [host EXCEPT ![i] = after[i]]
     ELSE UNCHANGED <<stage, host>>
  /\ IF i = N THEN pc' = "verify" /\ UNCHANGED i ELSE pc' = "backup" /\ i' = i + 1
  /\ UNCHANGED <<before, after, root, bdir, backup, jrnl, original, mode, ret, result, faults, crashes>>

(* verifyWorkSetProjection: a mismatch is an error before the commit. *)
Verify ==
  /\ pc = "verify"
  /\ \/ host = after /\ pc' = "commit" /\ UNCHANGED <<ret, i, result>>
     \/ host # after /\ pc' = "rollback" /\ i' = N /\ ret' = "idle" /\ result' = "failed"
  /\ UNCHANGED <<host, before, after, tvars, mode, faults, crashes>>

CommitJournal ==
  /\ pc = "commit"
  /\ jrnl' = "committed" /\ pc' = "mark"
  /\ UNCHANGED <<host, before, after, root, bdir, backup, stage, original, mode, ret, i, result, faults, crashes>>

(* cfg.ProjectCommit: the caller's durable marker, then the clean-up. *)
ProjectCommit ==
  /\ pc = "mark"
  /\ pc' = "rm" /\ ret' = "idle" /\ result' = "ok"
  /\ UNCHANGED <<host, before, after, tvars, mode, i, faults, crashes>>

(* Mutant: the rollback loop forgets to move to the next entry. *)
RollbackDoneStuck == IF i = 1 THEN pc' = "rm" /\ UNCHANGED i
                              ELSE pc' = "rollback" /\ UNCHANGED i

(* rollback visits the entries in reverse.  An entry with a backup is       *)
(* removed from the Project and restored; an entry that did not exist is    *)
(* removed; an original that was never moved is left alone.                 *)
RollbackDone == IF i = 1 THEN pc' = "rm" /\ UNCHANGED i
                         ELSE pc' = "rollback" /\ i' = i - 1

(* Mutant: an original that was never moved is removed as well. *)
RollbackEntryRemovesAll ==
  /\ pc = "rollback"
  /\ host' = [host EXCEPT ![i] = "absent"]
  /\ IF backup[i] THEN pc' = "restore" /\ UNCHANGED i ELSE RollbackDone
  /\ UNCHANGED <<before, after, tvars, mode, ret, result, faults, crashes>>

RollbackEntry ==
  /\ pc = "rollback"
  /\ \/ /\ backup[i]
        /\ host' = [host EXCEPT ![i] = "absent"]
        /\ pc' = "restore" /\ UNCHANGED i
     \/ /\ ~backup[i] /\ ~original[i]
        /\ host' = [host EXCEPT ![i] = "absent"]
        /\ RollbackDone
     \/ /\ ~backup[i] /\ original[i]
        /\ UNCHANGED host
        /\ RollbackDone
  /\ UNCHANGED <<before, after, tvars, mode, ret, result, faults, crashes>>

RestoreEntry ==
  /\ pc = "restore"
  /\ host' = [host EXCEPT ![i] = "old"]
  /\ backup' = [backup EXCEPT ![i] = FALSE]
  /\ RollbackDone
  /\ UNCHANGED <<before, after, root, bdir, stage, jrnl, original, mode, ret, result, faults, crashes>>

(* removeTransactionRoot is os.RemoveAll: it unlinks the children in        *)
(* directory order, which the filesystem chooses, and then the directory.   *)
RemoveTransactionRoot ==
  /\ pc = "rm"
  /\ \/ /\ bdir
        /\ bdir' = FALSE /\ backup' = None
        /\ UNCHANGED <<root, stage, jrnl, original, pc>>
     \/ /\ jrnl # "none"
        /\ jrnl' = "none"
        /\ UNCHANGED <<root, bdir, stage, backup, original, pc>>
     \/ /\ ~bdir /\ jrnl = "none"
        /\ root' = FALSE /\ stage' = None /\ original' = None /\ pc' = ret
        /\ UNCHANGED <<bdir, backup, jrnl>>
  /\ UNCHANGED <<host, before, after, mode, ret, i, result, faults, crashes>>

(* An operation fails.  Before the journal exists the new transaction is    *)
(* removed; with an open journal the deferred rollback runs; once the       *)
(* Project is committed, or during recovery, the error is simply returned.  *)
(* AtomicWriteOwned renames the file and then syncs the directory: when     *)
(* only the sync fails, the caller sees an error although the new journal   *)
(* is in place.                                                             *)
JournalAfterFault(written) == {jrnl} \cup (IF SyncMayFail THEN {written} ELSE {})

Fault ==
  /\ faults < MaxFaults /\ faults' = faults + 1
  /\ \/ /\ pc \in {"mkbackup", "stage"}
        /\ pc' = "rm" /\ ret' = "idle" /\ result' = "failed"
        /\ UNCHANGED <<i, jrnl, original>>
     \/ /\ pc = "journal"
        /\ jrnl' \in JournalAfterFault("open")
        /\ original' = [k \in Idx |-> host[k] # "absent"]
        /\ pc' = "rm" /\ ret' = "idle" /\ result' = "failed" /\ UNCHANGED i
     \/ /\ pc \in {"backup", "install", "verify"}
        /\ pc' = "rollback" /\ ret' = "idle" /\ i' = N /\ result' = "failed"
        /\ UNCHANGED <<jrnl, original>>
     \/ /\ pc = "commit"
        /\ jrnl' \in JournalAfterFault("committed")
        /\ pc' = "rollback" /\ ret' = "idle" /\ i' = N /\ result' = "failed"
        /\ UNCHANGED original
     \/ /\ pc \in {"recover", "check", "newroot", "mark", "rm", "rollback", "restore"}
        /\ Return("failed") /\ UNCHANGED <<ret, i, jrnl, original>>
  /\ UNCHANGED <<host, before, after, root, bdir, backup, stage, mode, crashes>>

Crash ==
  /\ pc # "idle" /\ crashes < MaxCrashes
  /\ crashes' = crashes + 1
  /\ Return("none")
  /\ UNCHANGED <<host, before, after, tvars, mode, ret, i, faults>>

Work == \/ RecoverLocked \/ CheckBaseline \/ NewTransactionRoot \/ MakeBackupDir
        \/ StageResult \/ WriteJournal \/ BackupEntry \/ InstallEntry \/ Verify
        \/ CommitJournal \/ ProjectCommit \/ RollbackEntry \/ RestoreEntry
        \/ RemoveTransactionRoot

Next == StartApply \/ StartResume \/ Work \/ Fault \/ Crash

Spec == Init /\ [][Next]_vars

(* A running call is a single goroutine that the operating system           *)
(* schedules; after a crash the user runs the command again.                *)
FairSpec == Spec /\ WF_vars(Work) /\ WF_vars(StartResume)

------------------------------------------------------------------------------
(* What the affected roots will contain once RecoverLocked has run. *)
Recovered == [k \in Idx |-> IF jrnl # "open" THEN host[k]
                            ELSE IF backup[k] THEN "old"
                            ELSE IF original[k] THEN host[k] ELSE "absent"]

Atomic == INSTANCE AtomicApply WITH Trees <- Trees, tree <- Recovered,
                                    before <- before, after <- after

(* The transaction implements the atomic apply: at every instant, recovery  *)
(* would leave the Project in the before-state or in the after-state, and   *)
(* the only visible change is the commit.                                   *)
ImplementsAtomicApply == Atomic!ASpec

(* Whatever step a fault or a crash interrupts, RecoverLocked finds enough  *)
(* in the transaction root to leave every affected root at its baseline or  *)
(* every one at its approved result (apply.go rollback, RecoverLocked).     *)
AllOrNothing == Recovered = before \/ Recovered = after

(* No original is destroyed before the commit: an affected root that        *)
(* existed is in the Project or in the backup directory until the journal   *)
(* says that the approved result is in place.                               *)
OriginalsKept ==
  (host # after) => \A k \in Idx : before[k] = "old" => host[k] = "old" \/ backup[k]

(* What ApplyWorkSet and ResumeWorkSetTransaction report is true of the     *)
(* Project: success and "committed" mean the complete after-state, "not     *)
(* committed" the complete before-state with nothing left to recover.       *)
HonestResult ==
  pc = "idle" => /\ result \in {"ok", "committed"} => host = after
                 /\ result = "rolledback" => host = before /\ ~root

(* Every call ends and gives the Project lock back. *)
CallReturns == (pc # "idle") ~> (pc = "idle")

(* "An uncommitted journal is rolled back" (workset.go, the comment of      *)
(* ResumeWorkSetTransaction): an open journal does not stay forever when    *)
(* the command is run again.  Broken when the removal of the transaction    *)
(* directory stops between backup and journal.json (N = 2, one fault or     *)
(* crash): no recovery accepts an open journal without a backup directory.  *)
UncommittedJournalRolledBack == (jrnl = "open") ~> (jrnl # "open")
=============================================================================

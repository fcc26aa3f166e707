------------------------- MODULE SecureTransaction -------------------------
(***************************************************************************)
(* The private file transaction of internal/securefs/transaction.go, which *)
(* replaces several private files together, as persistConfigAndPolicy uses *)
(* it: the declarative configuration and the effective policy.             *)
(*                                                                         *)
(* Two processes run: "w" calls WriteTransaction, "r" loads the policy and *)
(* calls RecoverTransaction first.  Both do so under the configuration     *)
(* lock of the Project, held from the first step of a call to its return.  *)
(***************************************************************************)
EXTENDS Naturals

CONSTANTS N,            \* number of files replaced together
          SyncMayFail,  \* AtomicWriteOwned may fail after its rename
          MaxFaults,    \* bound on failing filesystem operations
          MaxCrashes    \* bound on process crashes

ASSUME TransactionAssumption ==
  /\ N \in 2 .. 16        \* the range WriteTransaction accepts
  /\ SyncMayFail \in BOOLEAN
  /\ MaxFaults \in Nat /\ MaxCrashes \in Nat

VARIABLES
  target,  \* contents of each file: "absent", "old", "new"
  before,  \* contents when the transaction was prepared
  tmp,     \* the staged .sunaba-transaction-new-* file exists
  bak,     \* the .sunaba-transaction-old-* copy exists
  jrnl,    \* the journal on disk: "none", "committing", "rollback"
  pc,      \* what each process does next
  idx,     \* its loop index
  mem,     \* the state of the journal it works from
  err,     \* it has met an error it will report
  result,  \* what its last call returned, or "opening": it is in the recovery
           \* that WriteTransaction starts with
  faults, crashes

files == <<target, before, tmp, bak, jrnl>>
vars == <<files, pc, idx, mem, err, result, faults, crashes>>

Idx == 1 .. N
Procs == {"w", "r"}
Steps == {"idle", "read", "prepare", "journal", "replace", "rbjournal",
          "commit", "undo", "clean", "unlink"}
None == [k \in Idx |-> FALSE]
AllNew == [k \in Idx |-> "new"]
Existed(k) == before[k] = "old"

TypeOK ==
  /\ target \in [Idx -> {"absent", "old", "new"}]
  /\ before \in [Idx -> {"absent", "old"}]
  /\ tmp \in [Idx -> BOOLEAN] /\ bak \in [Idx -> BOOLEAN]
  /\ jrnl \in {"none", "committing", "rollback"}
  /\ pc \in [Procs -> Steps] /\ idx \in [Procs -> 0 .. N]
  /\ mem \in [Procs -> {"none", "committing", "rollback"}]
  /\ err \in [Procs -> BOOLEAN]
  /\ result \in [Procs -> {"none", "opening", "ok", "error"}]
  /\ faults \in 0 .. MaxFaults /\ crashes \in 0 .. MaxCrashes

Init ==
  /\ before \in [Idx -> {"absent", "old"}] /\ target = before
  /\ tmp = None /\ bak = None /\ jrnl = "none"
  /\ pc = [p \in Procs |-> "idle"] /\ idx = [p \in Procs |-> 0]
  /\ mem = [p \in Procs |-> "none"] /\ err = [p \in Procs |-> FALSE]
  /\ result = [p \in Procs |-> "none"] /\ faults = 0 /\ crashes = 0

Goto(p, step) == pc' = [pc EXCEPT ![p] = step]

(* RecoverTransaction, or the whole call, returns; a pending error is       *)
(* reported.  Only when the opening recovery has no error does              *)
(* WriteTransaction go on to its own files.                                 *)
Return(p, e) ==
  \/ /\ result[p] = "opening" /\ ~e
     /\ Goto(p, "prepare") /\ result' = [result EXCEPT ![p] = "none"]
  \/ /\ result[p] # "opening" \/ e
     /\ Goto(p, "idle")
     /\ result' = [result EXCEPT ![p] = IF e THEN "error" ELSE "ok"]

(* A call begins, under the lock, with the recovery of what an earlier one  *)
(* left behind.                                                             *)
Begin(p, r) ==
  /\ \A q \in Procs : pc[q] = "idle"
  /\ Goto(p, "read")
  /\ err' = [err EXCEPT ![p] = FALSE] /\ result' = [result EXCEPT ![p] = r]
  /\ UNCHANGED <<files, idx, mem, faults, crashes>>

BeginWrite == Begin("w", "opening")
BeginRead == Begin("r", "none")

(* RecoverTransaction reads the journal and chooses the direction; without  *)
(* one it returns.                                                          *)
ReadJournal(p) ==
  /\ pc[p] = "read"
  /\ mem' = [mem EXCEPT ![p] = jrnl]
  /\ \/ /\ jrnl = "committing"
        /\ Goto(p, "commit") /\ idx' = [idx EXCEPT ![p] = 1] /\ UNCHANGED result
     \/ /\ jrnl = "rollback"
        /\ Goto(p, "undo") /\ idx' = [idx EXCEPT ![p] = N] /\ UNCHANGED result
     \/ /\ jrnl = "none" /\ Return(p, err[p]) /\ UNCHANGED idx
  /\ UNCHANGED <<files, err, faults, crashes>>

Present == [k \in Idx |-> IF target[k] = "absent" THEN "absent" ELSE "old"]

(* Mutant: the old contents are not copied. *)
PrepareWithoutBackup ==
  /\ pc["w"] = "prepare"
  /\ before' = Present /\ target' = Present
  /\ tmp' = [k \in Idx |-> TRUE] /\ bak' = None
  /\ Goto("w", "journal")
  /\ UNCHANGED <<jrnl, idx, mem, err, result, faults, crashes>>

(* The new contents are staged and those on disk copied, under fresh names  *)
(* that nobody looks at before the journal names them.  What is on disk is  *)
(* called old from here on, also when an earlier transaction installed it.  *)
Prepare ==
  /\ pc["w"] = "prepare"
  /\ before' = Present /\ target' = Present
  /\ tmp' = [k \in Idx |-> TRUE] /\ bak' = [k \in Idx |-> Present[k] = "old"]
  /\ Goto("w", "journal")
  /\ UNCHANGED <<jrnl, idx, mem, err, result, faults, crashes>>

(* Mutant: the files are replaced before the journal is on disk. *)
ReplaceWithoutJournal ==
  /\ pc["w"] = "journal"
  /\ mem' = [mem EXCEPT !["w"] = "committing"]
  /\ Goto("w", "replace") /\ idx' = [idx EXCEPT !["w"] = 1]
  /\ UNCHANGED <<target, before, tmp, bak, jrnl, err, result, faults, crashes>>

WriteTransactionJournal ==
  /\ pc["w"] = "journal"
  /\ jrnl' = "committing" /\ mem' = [mem EXCEPT !["w"] = "committing"]
  /\ Goto("w", "replace") /\ idx' = [idx EXCEPT !["w"] = 1]
  /\ UNCHANGED <<target, before, tmp, bak, err, result, faults, crashes>>

(* After item idx[p] of an ascending loop: the next item, or step. *)
Advance(p, again, step) ==
  IF idx[p] = N THEN Goto(p, step) /\ idx' = [idx EXCEPT ![p] = 1]
                ELSE Goto(p, again) /\ idx' = [idx EXCEPT ![p] = @ + 1]

(* os.Rename(item.Temporary, item.Path): it fails when the file is gone. *)
Replace ==
  /\ pc["w"] = "replace"
  /\ LET k == idx["w"] IN
       \/ /\ tmp[k]
          /\ target' = [target EXCEPT ![k] = "new"] /\ tmp' = [tmp EXCEPT ![k] = FALSE]
          /\ Advance("w", "replace", "clean") /\ UNCHANGED err
       \/ /\ ~tmp[k]
          /\ Goto("w", "rbjournal") /\ err' = [err EXCEPT !["w"] = TRUE]
          /\ UNCHANGED <<target, tmp, idx>>
  /\ UNCHANGED <<before, bak, jrnl, mem, result, faults, crashes>>

(* rollbackTransaction records the new direction and recovers along it. *)
WriteRollbackJournal ==
  /\ pc["w"] = "rbjournal"
  /\ jrnl' = "rollback" /\ Goto("w", "read")
  /\ UNCHANGED <<target, before, tmp, bak, idx, mem, err, result, faults, crashes>>

(* Mutant: an item that is already in place is an error. *)
RecoverCommitStagedOnly(p) ==
  /\ pc[p] = "commit"
  /\ LET k == idx[p] IN
       \/ /\ tmp[k] /\ target[k] = before[k]
          /\ target' = [target EXCEPT ![k] = "new"] /\ tmp' = [tmp EXCEPT ![k] = FALSE]
          /\ Advance(p, "commit", "clean") /\ UNCHANGED result
       \/ /\ ~(tmp[k] /\ target[k] = before[k])
          /\ Return(p, TRUE) /\ UNCHANGED <<target, tmp, idx>>
  /\ UNCHANGED <<before, bak, jrnl, mem, err, faults, crashes>>

(* recoverCommit, one item: finish the rename, or check that it is done. *)
RecoverCommit(p) ==
  /\ pc[p] = "commit"
  /\ LET k == idx[p] IN
       \/ /\ tmp[k] /\ target[k] = before[k]
          /\ target' = [target EXCEPT ![k] = "new"] /\ tmp' = [tmp EXCEPT ![k] = FALSE]
          /\ Advance(p, "commit", "clean") /\ UNCHANGED result
       \/ /\ ~tmp[k] /\ target[k] = "new"
          /\ Advance(p, "commit", "clean") /\ UNCHANGED <<target, tmp, result>>
       \/ /\ IF tmp[k] THEN target[k] # before[k] ELSE target[k] # "new"
          /\ Return(p, TRUE) /\ UNCHANGED <<target, tmp, idx>>
  /\ UNCHANGED <<before, bak, jrnl, mem, err, faults, crashes>>

(* recoverRollback, one item, last one first. *)
RecoverRollback(p) ==
  /\ pc[p] = "undo"
  /\ LET k == idx[p]
         next == IF k = 1 THEN Goto(p, "clean") /\ UNCHANGED idx
                          ELSE Goto(p, "undo") /\ idx' = [idx EXCEPT ![p] = @ - 1]
     IN \/ /\ ~Existed(k) /\ target[k] \in {"absent", "new"}
           /\ target' = [target EXCEPT ![k] = "absent"] /\ next
           /\ UNCHANGED <<bak, result>>
        \/ /\ Existed(k) /\ bak[k] /\ target[k] \in {"old", "new"}
           /\ target' = [target EXCEPT ![k] = "old"] /\ bak' = [bak EXCEPT ![k] = FALSE]
           /\ next /\ UNCHANGED result
        \/ /\ Existed(k) /\ ~bak[k] /\ target[k] = "old"
           /\ next /\ UNCHANGED <<target, bak, result>>
        \/ /\ \/ ~Existed(k) /\ target[k] = "old"
              \/ Existed(k) /\ bak[k] /\ target[k] = "absent"
              \/ Existed(k) /\ ~bak[k] /\ target[k] # "old"
           /\ Return(p, TRUE) /\ UNCHANGED <<target, bak, idx>>
  /\ UNCHANGED <<before, tmp, jrnl, mem, err, faults, crashes>>

(* finishTransaction: cleanupTransactionArtifacts, then the journal. *)
CleanupArtifacts(p) ==
  /\ pc[p] = "clean"
  /\ tmp' = [tmp EXCEPT ![idx[p]] = FALSE] /\ bak' = [bak EXCEPT ![idx[p]] = FALSE]
  /\ Advance(p, "clean", "unlink")
  /\ UNCHANGED <<target, before, jrnl, mem, err, result, faults, crashes>>

(* Mutant: the cause of the rollback is not reported. *)
RemoveJournalForgetsCause(p) ==
  /\ pc[p] = "unlink"
  /\ jrnl' = "none" /\ Return(p, FALSE)
  /\ UNCHANGED <<target, before, tmp, bak, idx, mem, err, faults, crashes>>

RemoveJournal(p) ==
  /\ pc[p] = "unlink"
  /\ jrnl' = "none"
  /\ Return(p, err[p])
  /\ UNCHANGED <<target, before, tmp, bak, idx, mem, err, faults, crashes>>

(* A filesystem operation fails.  Before the journal the artifacts are      *)
(* removed; while replacing the rollback starts; writing the rollback       *)
(* journal and recovery give up; the clean-up carries on and reports.       *)
(* When only the directory sync after a rename fails, the rename has        *)
(* happened all the same (SyncMayFail for the journal itself).              *)
JournalAfterFault(written) == {jrnl} \cup (IF SyncMayFail THEN {written} ELSE {})

PrepareFails ==
  /\ pc["w"] = "prepare"
  /\ Return("w", TRUE)
  /\ UNCHANGED <<files, idx, mem, err>>

JournalWriteFails ==
  /\ pc["w"] = "journal"
  /\ jrnl' \in JournalAfterFault("committing")
  /\ tmp' = None /\ bak' = None
  /\ Return("w", TRUE)
  /\ UNCHANGED <<target, before, idx, mem, err>>

ReplaceFails ==
  /\ pc["w"] = "replace"
  /\ LET k == idx["w"] IN
       \/ tmp[k] /\ target' = [target EXCEPT ![k] = "new"] /\ tmp' = [tmp EXCEPT ![k] = FALSE]
       \/ UNCHANGED <<target, tmp>>
  /\ Goto("w", "rbjournal") /\ err' = [err EXCEPT !["w"] = TRUE]
  /\ UNCHANGED <<before, bak, jrnl, idx, mem, result>>

RollbackJournalWriteFails ==
  /\ pc["w"] = "rbjournal"
  /\ jrnl' \in JournalAfterFault("rollback")
  /\ Return("w", TRUE)
  /\ UNCHANGED <<target, before, tmp, bak, idx, mem, err>>

RecoveryFails(p) ==
  /\ pc[p] \in {"read", "commit", "undo"}
  /\ Return(p, TRUE)
  /\ UNCHANGED <<files, idx, mem, err>>

CleanupFails(p) ==
  /\ err' = [err EXCEPT ![p] = TRUE]
  /\ \/ pc[p] = "clean" /\ Advance(p, "clean", "unlink") /\ UNCHANGED result
     \/ pc[p] = "unlink" /\ Return(p, TRUE) /\ UNCHANGED idx
  /\ UNCHANGED <<files, mem>>

Fault ==
  /\ faults < MaxFaults /\ faults' = faults + 1
  /\ \/ PrepareFails \/ JournalWriteFails \/ ReplaceFails \/ RollbackJournalWriteFails
     \/ \E p \in Procs : RecoveryFails(p) \/ CleanupFails(p)
  /\ UNCHANGED crashes

Crash(p) ==
  /\ pc[p] # "idle" /\ crashes < MaxCrashes
  /\ crashes' = crashes + 1
  /\ Goto(p, "idle") /\ result' = [result EXCEPT ![p] = "none"]
  /\ UNCHANGED <<files, idx, mem, err, faults>>

Write == Prepare \/ WriteTransactionJournal \/ Replace \/ WriteRollbackJournal
Recover(p) == \/ ReadJournal(p) \/ RecoverCommit(p) \/ RecoverRollback(p)
              \/ CleanupArtifacts(p) \/ RemoveJournal(p)

Next == \/ BeginWrite \/ BeginRead \/ Write \/ Fault
        \/ \E p \in Procs : Recover(p) \/ Crash(p)

Spec == Init /\ [][Next]_vars

(* Both processes are scheduled, and the files are read again and again.    *)
FairSpec == /\ Spec /\ WF_vars(Write) /\ SF_vars(BeginRead)
            /\ \A p \in Procs : WF_vars(Recover(p))

------------------------------------------------------------------------------
(* When the configuration lock is free and no journal is left, policy and   *)
(* configuration are of one generation, whatever call was cut short and     *)
(* whoever finished it (persistConfigAndPolicy,                             *)
(* recoverConfigPolicyTransaction).                                         *)
AllOrNothing ==
  jrnl = "none" /\ (\A p \in Procs : pc[p] = "idle") => target = before \/ target = AllNew

(* A journal on disk can always be followed to its end: recoverCommit finds *)
(* every file staged or already replaced, recoverRollback every file backed *)
(* up or already restored.  Otherwise every later load fails for ever.      *)
Recoverable ==
  /\ jrnl = "committing" =>
       \A k \in Idx : IF tmp[k] THEN target[k] = before[k] ELSE target[k] = "new"
  /\ jrnl = "rollback" =>
       \A k \in Idx : IF Existed(k) THEN bak[k] \/ target[k] = "old" ELSE target[k] # "old"

(* A nil error means that every file holds the new contents. *)
SuccessIsComplete == result["w"] = "ok" => target = AllNew

(* An interrupted transaction is finished, in one direction or the other,   *)
(* once the faults stop and somebody reads the files.                       *)
Converges == (jrnl # "none") ~> (jrnl = "none")
=============================================================================

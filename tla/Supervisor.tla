----------------------------- MODULE Supervisor -----------------------------
(***************************************************************************)
(* Who answers for the work inside a Project VM: the Supervisor process    *)
(* (internal/cli/approval_control.go, internal/cli/supervisor.go), the     *)
(* export that freezes the VM (internal/session/session.go), the recovery  *)
(* record that survives it (internal/recovery/recovery.go), the command    *)
(* that takes a recorded VM up again (internal/cli/dev_recovery.go) and    *)
(* the cleanup that any command runs (internal/cleanup/cleanup.go).        *)
(*                                                                         *)
(* A Work Set has the number of the VM it was exported from.  Processes    *)
(* die between any two steps; what they leave is the state of the VMs and  *)
(* the files of the Project state.  Operations of a live Supervisor hold   *)
(* its mutex, so they follow one another; commands of other processes take *)
(* their steps in between.                                                 *)
(***************************************************************************)
EXTENDS Naturals

CONSTANTS Modes,      \* modes the Project may be configured with
          Events,     \* what may go wrong without anything being broken
          MaxVMs,     \* bound on VMs created
          MaxFaults,  \* bound on failing operations
          MaxCrashes  \* bound on processes killed and on host restarts

(* slow      a connection outlasts the three seconds a pause waits for it;  *)
(* console   a command of the dev console fails or outlasts its timeout;    *)
(* quiesce   the dev egress cannot be closed before an export;              *)
(* signal    the Supervisor process is told to terminate;                   *)
(* interrupt the user interrupts `changes export` before the VM is frozen;  *)
(* queued    another request waits for the mutex while an export runs.      *)
Circumstances == {"slow", "console", "quiesce", "signal", "interrupt", "queued"}

ASSUME SupervisorAssumption ==
  /\ Modes \subseteq {"secure", "dev"} /\ Modes # {}
  /\ Events \subseteq Circumstances
  /\ MaxVMs \in Nat /\ MaxFaults \in Nat /\ MaxCrashes \in Nat

VARIABLES
  mode,       \* the mode of the Project
  vm,         \* runtime state of every VM
  work,       \* VMs whose workspace differs from their baseline
  lock,       \* holder of the Project lock and of the guard of one VM
  sup,        \* the Supervisor process: next step (serve: its mutex is free),
              \* its VM, state of the controlledSession, whether its frozen
              \* record was saved, whether its main loop has been told to end
  starter,    \* a starting Supervisor that has passed the checks
  locator,    \* VM named by the control socket locator on disk, 0 for none
  record,     \* the recovery record; vm = 0 when there is none
  pending,    \* the pending Work Set, 0 when there is none
  rx,         \* the `changes export` that recovers a recorded VM
  persisted,  \* history: Work Sets that became pending
  applied,    \* history: Work Sets applied to the Project
  discarded,  \* history: VMs and Work Sets the user discarded explicitly
  faults, crashes

files == <<locator, record, pending>>
history == <<persisted, applied, discarded>>
bounds == <<faults, crashes>>
vars == <<mode, vm, work, lock, sup, starter, files, rx, history, bounds>>

VMs == 1 .. MaxVMs
Free == [by |-> "nobody", vm |-> 0]
NoRecord == [vm |-> 0, frozen |-> FALSE]
NoProcess == [pc |-> "none", vm |-> 0, sess |-> "none", saved |-> FALSE, exit |-> FALSE]

SessionStates ==
  {"none", "running", "paused", "failed", "recovery", "exported", "destroyed"}
Steps == {"none", "starting", "serve", "exporting", "refused", "frozen", "saved",
          "persisted", "removed"}

TypeOK ==
  /\ mode \in {"secure", "dev"}
  /\ vm \in [VMs -> {"absent", "running", "stopped", "removed"}]
  /\ work \subseteq VMs
  /\ lock \in [by : {"nobody", "supervisor", "export"}, vm : 0 .. MaxVMs]
  /\ sup \in [pc : Steps, vm : 0 .. MaxVMs, sess : SessionStates,
              saved : BOOLEAN, exit : BOOLEAN]
  /\ starter \in BOOLEAN
  /\ locator \in 0 .. MaxVMs
  /\ record \in [vm : 0 .. MaxVMs, frozen : BOOLEAN]
  /\ pending \in 0 .. MaxVMs
  /\ rx \in {"none", "running", "persist", "destroy", "finish", "record"}
  /\ persisted \subseteq VMs /\ applied \subseteq VMs /\ discarded \subseteq VMs
  /\ faults \in 0 .. MaxFaults /\ crashes \in 0 .. MaxCrashes

Init ==
  /\ mode \in Modes
  /\ vm = [v \in VMs |-> "absent"]
  /\ work = {} /\ lock = Free /\ sup = NoProcess /\ starter = FALSE
  /\ locator = 0 /\ record = NoRecord /\ pending = 0 /\ rx = "none"
  /\ persisted = {} /\ applied = {} /\ discarded = {}
  /\ faults = 0 /\ crashes = 0

Exists(v) == vm[v] \in {"running", "stopped"}
Open == sup.pc \notin {"none", "starting"}
Live == Open /\ locator = sup.vm
Stale == locator # 0 /\ ~Live

(* Either nothing fails, or the budget of faults pays for the failure. *)
Fault == faults < MaxFaults /\ faults' = faults + 1
NoFault == UNCHANGED faults
Happens(e) == e \in Events /\ UNCHANGED faults

-----------------------------------------------------------------------------
(* cleanup.Run: what it removes and what it refuses to touch.               *)

(* Mutant: a stopped VM without a record counts as an orphan as well. *)
OrphansEvenStopped == {v \in VMs : record.vm = 0 /\ Exists(v) /\ lock.vm # v}

Orphans == {v \in VMs : record.vm = 0 /\ vm[v] = "running" /\ lock.vm # v}
Refused == {v \in VMs : /\ Exists(v)
                        /\ IF record.vm # 0 THEN ~ (record.vm = v /\ vm[v] = "stopped")
                                            ELSE lock.vm # v /\ vm[v] = "stopped"}
Cleanup == vm' = [v \in VMs |-> IF v \in Orphans THEN "removed" ELSE vm[v]]

(* `down`, and every command of any Project that starts a session. *)
CleanupOrphans ==
  /\ Cleanup
  /\ UNCHANGED <<mode, work, lock, sup, starter, files, rx, history, bounds>>

(* `up` with a locator whose Supervisor is gone. *)
ReplaceStaleSupervisor ==
  /\ Stale /\ record.vm = 0 /\ Refused = {}
  /\ Cleanup /\ locator' = 0
  /\ UNCHANGED <<mode, work, lock, sup, starter, record, pending, rx, history, bounds>>

(* `down`, `recreate` and `destroy` with such a locator.  An unrelated VM    *)
(* that cleanup refuses stops them before the locator is removed.            *)
RecoverStaleSupervisor ==
  /\ Stale /\ lock.vm # locator /\ Refused \subseteq {locator}
  /\ Cleanup /\ locator' = 0
  /\ UNCHANGED <<mode, work, lock, sup, starter, record, pending, rx, history, bounds>>

-----------------------------------------------------------------------------
(* A session starts.                                                         *)

(* The checks before the VM is created; they hold no Project lock.  A secure *)
(* Supervisor is started only where no locator exists.                       *)
CheckStart ==
  /\ ~starter /\ pending = 0 /\ record.vm = 0
  /\ mode = "secure" => locator = 0
  /\ Cleanup
  /\ starter' = (Refused = {})
  /\ UNCHANGED <<mode, work, lock, sup, files, rx, history, bounds>>

(* session.Start: the Project lock, the guard, the VM. *)
CreateVM(v) ==
  /\ starter /\ lock.by = "nobody" /\ sup.pc = "none"
  /\ vm[v] = "absent" /\ \A u \in VMs : u < v => vm[u] # "absent"
  /\ starter' = FALSE
  /\ vm' = [vm EXCEPT ![v] = "running"]
  /\ lock' = [by |-> "supervisor", vm |-> v]
  /\ sup' = [NoProcess EXCEPT !.pc = "starting", !.vm = v]
  /\ UNCHANGED <<mode, work, files, rx, history, bounds>>

(* Another process holds the Project lock. *)
StartRefused ==
  /\ starter /\ lock.by # "nobody"
  /\ starter' = FALSE
  /\ UNCHANGED <<mode, vm, work, lock, sup, files, rx, history, bounds>>

(* newControlledSession and startApprovalControl. *)
StartControl ==
  /\ sup.pc = "starting"
  /\ locator' = sup.vm
  /\ sup' = [sup EXCEPT !.pc = "serve", !.sess = "running"]
  /\ UNCHANGED <<mode, vm, work, lock, starter, record, pending, rx, history, bounds>>

GuestWorks ==
  /\ sup.pc = "serve" /\ sup.sess = "running" /\ vm[sup.vm] = "running"
  /\ work' = work \cup {sup.vm}
  /\ UNCHANGED <<mode, vm, lock, sup, starter, files, rx, history, bounds>>

-----------------------------------------------------------------------------
(* Operations of the controlled session that keep the VM.                    *)

Stopping(v) == [vm EXCEPT ![v] = "stopped"]
Removing(v) == [vm EXCEPT ![v] = "removed"]
(* A pause that reports an error may have stopped the VM all the same.       *)
Undecided(v) == {vm, IF Exists(v) THEN Stopping(v) ELSE vm}

Unlocked(who) == IF lock.by = who THEN Free ELSE lock

(* Session.Destroy goes on when a channel does not close or an audit record  *)
(* fails, and reports the error when the VM has gone and its locks are free. *)
(* Where the runtime fails, the VM is stopped or as it was.                  *)
Destroyed(v) == vm' = Removing(v) /\ lock' = Unlocked("supervisor")
DestroyFails(v) == \/ Destroyed(v) /\ (Fault \/ Happens("slow"))
                   \/ vm' \in Undecided(v) /\ UNCHANGED lock /\ Fault

Paused == vm' = Stopping(sup.vm) /\ NoFault /\ sup' = [sup EXCEPT !.sess = "paused"]

(* A client's pause (`down`, the end of `agent`): an error is only reported. *)
Pause ==
  /\ sup.pc = "serve" /\ sup.sess = "running"
  /\ \/ Paused
     \/ /\ \/ Fault /\ vm' \in Undecided(sup.vm)
           \/ Happens("slow") /\ vm' = Stopping(sup.vm)
        /\ sup' = [sup EXCEPT !.sess = "failed"]
  /\ UNCHANGED <<mode, work, lock, starter, files, rx, history, crashes>>

(* The idle or the lifetime deadline passes: an error ends the process.      *)
DeadlinePasses ==
  /\ mode = "secure" /\ sup.pc = "serve" /\ ~sup.exit /\ sup.sess = "running"
  /\ \/ Paused
     \/ /\ \/ Fault /\ vm' \in Undecided(sup.vm)
           \/ Happens("slow") /\ vm' = Stopping(sup.vm)
        /\ sup' = [sup EXCEPT !.sess = "failed", !.exit = TRUE]
  /\ UNCHANGED <<mode, work, lock, starter, files, rx, history, crashes>>

Resume ==
  /\ sup.pc = "serve" /\ sup.sess = "paused"
  /\ \/ /\ vm' = [vm EXCEPT ![sup.vm] = "running"] /\ NoFault
        /\ sup' = [sup EXCEPT !.sess = "running"]
     \/ Fault /\ UNCHANGED vm /\ sup' = [sup EXCEPT !.sess = "failed"]
  /\ UNCHANGED <<mode, work, lock, starter, files, rx, history, crashes>>

-----------------------------------------------------------------------------
(* exportAndDestroyWithOptions, one action per durable effect.               *)

(* Sessions that an export or a destroy accepts.  Nothing but the end of the *)
(* process keeps a request that waited from a session left to recovery.      *)
Accepted == {"running", "paused", "failed"}
            \cup {outcome \in {"recovery"} : "queued" \in Events}

(* StopAndExport revokes the session and starts a stopped VM.                *)
BeginExport ==
  /\ sup.pc = "serve" /\ sup.sess \in Accepted /\ Exists(sup.vm)
  /\ vm' = [vm EXCEPT ![sup.vm] = "running"]
  /\ sup' = [sup EXCEPT !.pc = "exporting"]
  /\ UNCHANGED <<mode, work, lock, starter, files, rx, history, bounds>>

(* Dev egress could not be closed: StopAndExport pauses and returns a plain  *)
(* error, not one that asks for recovery.                                    *)
QuiesceFails ==
  /\ mode = "dev" /\ sup.pc = "exporting" /\ Happens("quiesce")
  /\ vm' \in Undecided(sup.vm)
  /\ sup' = [sup EXCEPT !.pc = "serve", !.sess = "failed"]
  /\ UNCHANGED <<mode, work, lock, starter, files, rx, history, crashes>>

(* The export is refused (changed baseline, External Git) or fails.  The     *)
(* VM is stopped, unless the request's context is the one that was canceled. *)
RefuseExport ==
  /\ sup.pc = "exporting"
  /\ \/ NoFault /\ vm' = Stopping(sup.vm)
     \/ Happens("interrupt") /\ UNCHANGED vm
  /\ sup' = [sup EXCEPT !.pc = "refused"]
  /\ UNCHANGED <<mode, work, lock, starter, files, rx, history, crashes>>

(* recovery.Save, which never replaces a record, and DetachForRecovery,      *)
(* which releases the locks of a stopped VM.                                 *)
Retaining(exits) ==
  /\ sup.pc = "refused"
  /\ \/ /\ record.vm = 0 /\ NoFault
        /\ record' = [vm |-> sup.vm, frozen |-> FALSE]
        /\ lock' = IF vm[sup.vm] = "stopped" THEN Free ELSE lock
     \/ record.vm # 0 /\ NoFault /\ UNCHANGED <<record, lock>>
     \/ Fault /\ UNCHANGED <<record, lock>>
  /\ sup' = [sup EXCEPT !.sess = "recovery", !.pc = "serve",
                        !.exit = sup.exit \/ exits]
  /\ UNCHANGED <<mode, vm, work, starter, locator, pending, rx, history, crashes>>

(* Mutant: the exit channel is not closed. *)
RetainWithoutExit == Retaining(FALSE)

RetainForRecovery == Retaining(TRUE)

(* The VM is stopped for good and its Work Set is computed. *)
Freeze ==
  /\ sup.pc = "exporting"
  /\ vm' = Stopping(sup.vm)
  /\ sup' = [sup EXCEPT !.pc = IF sup.vm \in work THEN "frozen" ELSE "persisted",
                        !.saved = FALSE]
  /\ UNCHANGED <<mode, work, lock, starter, files, rx, history, bounds>>

(* The frozen record, best effort. *)
SaveFrozenRecord ==
  /\ sup.pc = "frozen"
  /\ \/ /\ record.vm = 0 /\ NoFault
        /\ record' = [vm |-> sup.vm, frozen |-> TRUE]
        /\ sup' = [sup EXCEPT !.pc = "saved", !.saved = TRUE]
     \/ /\ Fault \/ (record.vm # 0 /\ NoFault)
        /\ UNCHANGED record
        /\ sup' = [sup EXCEPT !.pc = "saved"]
  /\ UNCHANGED <<mode, vm, work, lock, starter, locator, pending, rx, history, crashes>>

PersistPending ==
  /\ sup.pc = "saved" /\ pending = 0
  /\ pending' = sup.vm /\ persisted' = persisted \cup {sup.vm}
  /\ sup' = [sup EXCEPT !.pc = "persisted"]
  /\ UNCHANGED <<mode, vm, work, lock, starter, locator, record, rx, applied, discarded, bounds>>

(* persistPending fails: the stopped VM leaves the Supervisor's hands, with  *)
(* the record if it can be saved now.                                        *)
RetainFrozen ==
  /\ sup.pc = "saved" /\ (Fault \/ (pending # 0 /\ NoFault))
  /\ lock' = Free
  /\ record' \in IF sup.saved \/ record.vm # 0 THEN {record}
                 ELSE {record, [vm |-> sup.vm, frozen |-> TRUE]}
  /\ sup' = [sup EXCEPT !.sess = "recovery", !.pc = "serve", !.exit = TRUE]
  /\ UNCHANGED <<mode, vm, work, starter, locator, pending, rx, history, crashes>>

DestroyExported ==
  /\ sup.pc = "persisted"
  /\ \/ /\ Destroyed(sup.vm) /\ NoFault
        /\ sup' = [sup EXCEPT !.pc = "removed"]
     \/ /\ DestroyFails(sup.vm)
        /\ sup' = [sup EXCEPT !.pc = "serve", !.sess = "failed"]
  /\ UNCHANGED <<mode, work, starter, files, rx, history, crashes>>

(* A record that cannot be removed does not change the outcome.              *)
Finishing(outcome) ==
  /\ sup.pc = "removed"
  /\ \/ record' = (IF sup.saved THEN NoRecord ELSE record) /\ NoFault
     \/ sup.saved /\ UNCHANGED record /\ Fault
  /\ sup' = [sup EXCEPT !.sess = outcome, !.pc = "serve", !.exit = TRUE]
  /\ UNCHANGED <<mode, vm, work, lock, starter, locator, pending, rx, history, crashes>>

FinishExport == Finishing("exported")

-----------------------------------------------------------------------------
(* The Supervisor ends.                                                      *)

(* `recreate --discard-pending` and `destroy --discard-pending` on a live    *)
(* Supervisor.  What they checked before may be out of date: the request     *)
(* waits for the mutex while an export runs.                                 *)
DiscardLive ==
  /\ sup.pc = "serve" /\ sup.sess \in Accepted
  /\ discarded' = discarded \cup {sup.vm}
  /\ \/ /\ Destroyed(sup.vm) /\ NoFault
        /\ sup' = [sup EXCEPT !.sess = "destroyed", !.exit = TRUE]
     \/ /\ DestroyFails(sup.vm)
        /\ sup' = [sup EXCEPT !.sess = "failed"]
  /\ UNCHANGED <<mode, work, starter, files, rx, persisted, applied, crashes>>

(* The process leaves its main part: told to terminate, a dev console that   *)
(* returns an error, a dev session whose export has returned one.            *)
LeaveForeground ==
  /\ Open /\ ~sup.exit /\ UNCHANGED faults
  /\ \/ mode = "secure" /\ Happens("signal")
     \/ mode = "dev" /\ (sup.sess = "failed" \/ Happens("console"))
  /\ sup' = [sup EXCEPT !.exit = TRUE]
  /\ UNCHANGED <<mode, vm, work, lock, starter, files, rx, history, crashes>>

(* approvalControl.Close removes the locator; it waits three seconds for an  *)
(* operation that runs, which then goes on.                                  *)
CloseControl ==
  /\ Open /\ sup.exit /\ locator = sup.vm
  /\ locator' = 0
  /\ UNCHANGED <<mode, vm, work, lock, sup, starter, record, pending, rx, history, bounds>>

(* supervisorShutdown, once it has the mutex, then the end of the process. *)
Ending(settled) ==
  /\ sup.pc = "serve" /\ sup.exit /\ locator # sup.vm
  /\ IF sup.sess \in settled THEN NoFault /\ UNCHANGED vm
     ELSE \/ vm' = Removing(sup.vm) /\ NoFault
          \/ vm' \in Undecided(sup.vm) /\ Fault
  /\ sup' = NoProcess /\ lock' = Unlocked("supervisor")
  /\ UNCHANGED <<mode, work, starter, files, rx, history, crashes>>

(* Mutant: the shutdown does not ask whether the VM was left to recovery. *)
ShutdownAlways == Ending({"exported", "destroyed"})

Shutdown == Ending({"recovery", "exported", "destroyed"})

-----------------------------------------------------------------------------
(* `changes export` with a recovery record: exportDevRecovery.               *)

(* A pending Work Set stops the export unless the recorded VM is its source. *)
Recoverable == record.vm # 0 /\ ~Live /\ rx = "none" /\ pending \in {0, record.vm}
Adopt == lock.by = "nobody" /\ vm[record.vm] = "stopped" /\ lock' = [by |-> "export", vm |-> record.vm]

(* The record binds a Work Set that is already computed: persist it, or only *)
(* finish what its export left.                                              *)
RecoverFrozen ==
  /\ Recoverable /\ record.frozen
  /\ locator' = 0
  /\ \/ pending = 0 /\ Adopt /\ rx' = "persist"
     \/ pending # 0 /\ Adopt /\ rx' = "destroy"
     \/ pending # 0 /\ vm[record.vm] = "removed" /\ UNCHANGED lock /\ rx' = "record"
  /\ UNCHANGED <<mode, vm, work, sup, starter, record, pending, history, bounds>>

(* The record binds only the VM: export again, or finish an export that      *)
(* became pending, or drop the record of a VM that is gone.                  *)
RecoverRefused ==
  /\ Recoverable /\ ~record.frozen
  /\ locator' = 0
  /\ \/ /\ pending = 0 /\ Adopt
        /\ vm' = [vm EXCEPT ![record.vm] = "running"]
        /\ rx' = "running"
     \/ pending # 0 /\ vm[record.vm] = "stopped" /\ rx' = "finish" /\ UNCHANGED <<vm, lock>>
     \/ vm[record.vm] = "removed" /\ rx' = "record" /\ UNCHANGED <<vm, lock>>
  /\ UNCHANGED <<mode, work, sup, starter, record, pending, history, bounds>>

(* StopAndExport of the adopted VM and, when it fails, RetainForRecovery. *)
ExportAdopted ==
  /\ rx = "running" /\ NoFault
  /\ \/ /\ vm' = Stopping(record.vm) /\ UNCHANGED lock
        /\ rx' = IF record.vm \in work THEN "persist" ELSE "destroy"
     \/ vm' = Stopping(record.vm) /\ lock' = Free /\ rx' = "none"
     \/ Happens("interrupt") /\ UNCHANGED vm /\ lock' = Free /\ rx' = "none"
  /\ UNCHANGED <<mode, work, sup, starter, files, history, crashes>>

PersistAdopted ==
  /\ rx = "persist"
  /\ \/ /\ pending = 0 /\ NoFault
        /\ pending' = record.vm /\ persisted' = persisted \cup {record.vm}
        /\ rx' = "destroy" /\ UNCHANGED lock
     \/ /\ Fault \/ (pending # 0 /\ NoFault)
        /\ rx' = "none" /\ lock' = Free /\ UNCHANGED <<pending, persisted>>
  /\ UNCHANGED <<mode, vm, work, sup, starter, locator, record, applied, discarded, crashes>>

(* Session.Destroy, or the removal that finishRecoveryAfterExport makes      *)
(* without taking a lock.                                                    *)
DestroyAdopted ==
  /\ rx \in {"destroy", "finish"}
  /\ \/ vm' = Removing(record.vm) /\ rx' = "record" /\ NoFault
     \/ vm' \in {vm, Removing(record.vm)} /\ rx' = "none" /\ Fault
  /\ lock' = Unlocked("export")
  /\ UNCHANGED <<mode, work, sup, starter, files, history, crashes>>

RemoveRecord ==
  /\ rx = "record"
  /\ record' = NoRecord /\ rx' = "none"
  /\ UNCHANGED <<mode, vm, work, lock, sup, starter, locator, pending, history, bounds>>

-----------------------------------------------------------------------------
(* The user decides.                                                         *)

(* The apply holds the Project lock. *)
ApplyPending ==
  /\ pending # 0 /\ lock.by = "nobody"
  /\ applied' = applied \cup {pending} /\ pending' = 0
  /\ UNCHANGED <<mode, vm, work, lock, sup, starter, locator, record, rx, persisted, discarded, bounds>>

(* `recreate --discard-pending` removes the Work Set before all else. *)
DiscardPending ==
  /\ pending # 0 /\ rx = "none"
  /\ discarded' = discarded \cup {pending} /\ pending' = 0
  /\ UNCHANGED <<mode, vm, work, lock, sup, starter, locator, record, rx, persisted, applied, bounds>>

(* discardDevRecovery: first the VM, then the record. *)
DiscardRecorded ==
  /\ record.vm # 0 /\ ~Live /\ rx = "none" /\ pending = 0
  /\ locator' = 0
  /\ \/ /\ vm[record.vm] = "stopped" /\ vm' = Removing(record.vm)
        /\ UNCHANGED record
     \/ vm[record.vm] = "removed" /\ record' = NoRecord /\ UNCHANGED vm
  /\ discarded' = discarded \cup {record.vm}
  /\ UNCHANGED <<mode, work, lock, sup, starter, pending, rx, persisted, applied, bounds>>

(* discardUnrecordedStoppedVMs. *)
DiscardStopped ==
  /\ pending = 0 /\ record.vm = 0 /\ ~Live
  /\ \E v \in VMs :
       /\ vm[v] = "stopped" /\ lock.vm # v
       /\ vm' = Removing(v) /\ discarded' = discarded \cup {v}
  /\ UNCHANGED <<mode, work, lock, sup, starter, files, rx, persisted, applied, bounds>>

-----------------------------------------------------------------------------
(* A process is killed, or the host goes down with every VM.                 *)

Crash == crashes < MaxCrashes /\ crashes' = crashes + 1

KillSupervisor ==
  /\ sup.pc # "none" /\ Crash
  /\ sup' = NoProcess /\ lock' = Unlocked("supervisor")
  /\ UNCHANGED <<mode, vm, work, starter, files, rx, history, faults>>

KillExport ==
  /\ rx # "none" /\ Crash
  /\ rx' = "none" /\ lock' = Unlocked("export")
  /\ UNCHANGED <<mode, vm, work, sup, starter, files, history, faults>>

HostRestart ==
  /\ Crash
  /\ vm' = [v \in VMs |-> IF vm[v] = "running" THEN "stopped" ELSE vm[v]]
  /\ sup' = NoProcess /\ starter' = FALSE /\ rx' = "none" /\ lock' = Free
  /\ UNCHANGED <<mode, work, files, history, faults>>

Start == CheckStart \/ (\E v \in VMs : CreateVM(v)) \/ StartRefused \/ StartControl
Operate == GuestWorks \/ Pause \/ DeadlinePasses \/ Resume \/ BeginExport \/ DiscardLive
ExportStep == QuiesceFails \/ RefuseExport \/ RetainForRecovery \/ Freeze \/ SaveFrozenRecord
              \/ PersistPending \/ RetainFrozen \/ DestroyExported \/ FinishExport
EndStep == LeaveForeground \/ CloseControl \/ Shutdown
RecoveryStep == ExportAdopted \/ PersistAdopted \/ DestroyAdopted \/ RemoveRecord
Command == CleanupOrphans \/ ReplaceStaleSupervisor \/ RecoverStaleSupervisor \/ RecoverFrozen
           \/ RecoverRefused \/ ApplyPending \/ DiscardPending \/ DiscardRecorded \/ DiscardStopped
Die == KillSupervisor \/ KillExport \/ HostRestart

Next == Start \/ Operate \/ ExportStep \/ EndStep \/ RecoveryStep \/ Command \/ Die

Spec == Init /\ [][Next]_vars

(* A process that runs takes its next step; what users and guests do, and    *)
(* how an operation ends, is open.  The mutex goes to whoever waits longest, *)
(* so the shutdown gets it however many requests are in front of it.         *)
FairSpec ==
  Spec /\ WF_vars(ExportStep) /\ WF_vars(CloseControl) /\ SF_vars(Shutdown) /\ WF_vars(RecoveryStep)

-----------------------------------------------------------------------------
(* Properties.                                                               *)

Unexported(v) == v \in work \ (persisted \cup discarded)

(* What stopped without an owner, or was retained for recovery, is never     *)
(* removed before its Work Set is pending or the user discards it.  The two  *)
(* removals left out are named: the shutdown of a Supervisor that still had  *)
(* the session (supervisorShutdown), and the cleanup of a VM found running   *)
(* without an owner (cleanup.Run).                                           *)
RetainedWorkKept ==
  [][\A v \in VMs : Exists(v) /\ vm'[v] = "removed" /\ Unexported(v) =>
       \/ v \in discarded'
       \/ sup.exit /\ sup.vm = v /\ sup.sess \in {"running", "paused", "failed"}
       \/ vm[v] = "running" /\ lock.vm # v /\ record.vm = 0]_vars

(* A frozen record whose Work Set was never pending (a crash or a failure of *)
(* persistPending) always names a stopped VM, which persistFrozenRecovery    *)
(* can adopt.                                                                *)
FrozenRecordAdoptable ==
  record.frozen /\ Unexported(record.vm) => vm[record.vm] = "stopped"

(* A Supervisor whose session has ended (exported, destroyed or left to      *)
(* recovery) ends: it does not keep the control socket and the locks.        *)
OutcomeEndsSupervisor ==
  sup.sess \in {"recovery", "exported", "destroyed"} ~> sup.pc = "none"

(* Work leaves the VM only into a Work Set or by an explicit discard; a      *)
(* deadline, in particular, ends the session and never its work.  Broken by  *)
(* Events = {"slow"} in secure mode, and by "quiesce", "console", "signal".  *)
WorkKept ==
  \A v \in VMs : vm[v] = "removed" => ~Unexported(v)

(* The VM that a recovery record binds is stopped, except while the command  *)
(* that recovers it runs: no command accepts a running one.  Broken by       *)
(* Events = {"interrupt"}: the stop uses the cancelled context.              *)
RecordedVMStopped ==
  record.vm # 0 /\ vm[record.vm] = "running" => lock.vm = record.vm

=============================================================================

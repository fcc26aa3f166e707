-------------------------- MODULE SupervisorProofs --------------------------
(***************************************************************************)
(* Proofs about Supervisor for any number of VMs, faults and crashes and   *)
(* any circumstances but one: a request that waited for the mutex while an *)
(* export ended ("queued").                                                *)
(***************************************************************************)
EXTENDS Supervisor, TLAPS

-----------------------------------------------------------------------------
(* The inductive invariant.                                                   *)

NotQueued == "queued" \notin Events

Running == {"running", "paused", "failed"}
VMShape ==
  /\ record.vm # 0 => vm[record.vm] # "absent"
  /\ record.vm = 0 => ~record.frozen
  /\ sup.pc # "none" => sup.vm # 0 /\ vm[sup.vm] # "absent"
  /\ sup.pc = "none" => sup = NoProcess
  /\ sup.pc = "starting" <=> sup.pc # "none" /\ sup.sess = "none"
  /\ sup.pc \notin {"none", "starting", "serve"} => sup.sess \in Running
  /\ pending # 0 => pending \in persisted
  /\ sup.pc \in {"starting", "serve"} /\ sup.sess \in {"none", "running", "paused"} =>
       vm[sup.vm] # "removed"

\* The Project lock and the guard belong to a Supervisor from the creation of
\* its VM to the end of its session, which is over when the VM has gone, or to
\* the command that adopted the VM.
Owning == \/ sup.pc \in {"starting", "exporting", "refused", "frozen", "saved", "persisted"}
          \/ sup.pc = "serve" /\ sup.sess \in Running /\ vm[sup.vm] # "removed"
Adopted == {"running", "persist", "destroy"}
Locks ==
  /\ Owning => lock.by = "supervisor" /\ lock.vm = sup.vm
  /\ lock.by = "export" <=> rx \in Adopted
  /\ rx \in Adopted => lock.vm = record.vm
  /\ lock.by = "supervisor" => sup.pc # "none"

\* The command that recovers a record keeps it until its VM is gone,
Recovering ==
  /\ rx \in Adopted \cup {"finish"} => record.vm # 0
  /\ rx \in {"running", "finish"} => ~record.frozen
  /\ rx = "running" => vm[record.vm] = "running"
  /\ rx \in {"destroy", "finish"} => ~Unexported(record.vm)

\* as a Supervisor does that saved the record of the VM it exports.
Saving == {"saved", "persisted", "removed"}
Exporting ==
  /\ sup.pc \in {"frozen", "saved"} =>
       sup.vm \in work /\ (Unexported(sup.vm) => vm[sup.vm] = "stopped")
  /\ sup.pc = "frozen" => ~sup.saved
  /\ sup.pc \in {"persisted", "removed"} => ~Unexported(sup.vm)
  /\ sup.pc \in Saving /\ sup.saved => record.vm = 0 \/ (record.vm = sup.vm /\ record.frozen)
  /\ sup.pc = "removed" =>
       vm[sup.vm] = "removed" /\ (sup.saved => rx \notin Adopted \cup {"finish"})

\* A VM that may still work has no record; one whose record is frozen with its
\* Work Set not yet pending is exported once, and then left to recovery.
OneRecord ==
  /\ sup.pc \notin {"none"} \cup Saving /\ sup.sess \in {"none", "running", "paused"} =>
       record.vm # sup.vm
  /\ record.frozen /\ Unexported(record.vm) /\ record.vm = sup.vm =>
       (sup.pc = "saved" /\ sup.saved) \/ (sup.pc = "serve" /\ sup.sess = "recovery")

IInv == /\ TypeOK /\ VMShape /\ Locks /\ Recovering /\ Exporting /\ OneRecord
        /\ FrozenRecordAdoptable

USE SupervisorAssumption

-----------------------------------------------------------------------------
(* Every variable keeps its type.                                             *)

SupRecord == [pc : Steps, vm : 0 .. MaxVMs, sess : SessionStates, saved : BOOLEAN, exit : BOOLEAN]
LockRecord == [by : {"nobody", "supervisor", "export"}, vm : 0 .. MaxVMs]
Records == [vm : 0 .. MaxVMs, frozen : BOOLEAN]
VMStates == {"absent", "running", "stopped", "removed"}

LEMMA Types ==
  ASSUME IInv
  PROVE  /\ mode \in {"secure", "dev"} /\ vm \in [VMs -> VMStates] /\ work \subseteq VMs
         /\ lock \in LockRecord /\ sup \in SupRecord /\ starter \in BOOLEAN
         /\ locator \in 0 .. MaxVMs /\ record \in Records /\ pending \in 0 .. MaxVMs
         /\ persisted \subseteq VMs /\ applied \subseteq VMs /\ discarded \subseteq VMs
         /\ faults \in 0 .. MaxFaults /\ crashes \in 0 .. MaxCrashes
         /\ rx \in {"none", "running", "persist", "destroy", "finish", "record"}
         /\ Free \in LockRecord /\ NoRecord \in Records /\ NoProcess \in SupRecord
         /\ sup.vm \in VMs \/ sup.pc = "none"
BY DEF IInv, TypeOK, VMShape, VMs, Free, NoRecord, NoProcess, Steps, SessionStates, SupRecord,
       LockRecord, Records, VMStates

LEMMA NewRecord ==
  ASSUME IInv, sup.pc # "none"
  PROVE  [vm |-> sup.vm, frozen |-> FALSE] \in Records /\ [vm |-> sup.vm, frozen |-> TRUE] \in Records
BY Types DEF Records, VMs

LEMMA NewProcess ==
  ASSUME NEW v \in VMs, CreateVM(v)
  PROVE  /\ sup' = [pc |-> "starting", vm |-> v, sess |-> "none", saved |-> FALSE, exit |-> FALSE]
         /\ sup' \in SupRecord
<1>1. sup' = [pc |-> "starting", vm |-> v, sess |-> "none", saved |-> FALSE, exit |-> FALSE]
  BY DEF CreateVM, NoProcess
<1>2. "starting" \in Steps /\ "none" \in SessionStates /\ v \in 0 .. MaxVMs
  BY DEF Steps, SessionStates, VMs
<1> QED BY <1>1, <1>2 DEF SupRecord

LEMMA Budget ==
  ASSUME IInv
  PROVE  /\ Fault \/ NoFault => faults' \in 0 .. MaxFaults
         /\ Crash => crashes' \in 0 .. MaxCrashes
BY Types DEF Fault, NoFault, Crash

LEMMA StopsOrGoes ==
  ASSUME IInv, NEW v
  PROVE  /\ Undecided(v) \subseteq [VMs -> VMStates] /\ Stopping(v) \in [VMs -> VMStates]
         /\ Removing(v) \in [VMs -> VMStates] /\ [vm EXCEPT ![v] = "running"] \in [VMs -> VMStates]
BY Types DEF Undecided, Stopping, Removing, VMStates

\* What Session.Destroy does, or an error of it.
LEMMA Destroys ==
  ASSUME IInv, NEW v \in VMs, Destroyed(v) \/ DestroyFails(v)
  PROVE  /\ vm' \in {vm, Stopping(v), Removing(v)} /\ lock' \in {lock, Unlocked("supervisor")}
         /\ lock' # lock => vm' = Removing(v)
         /\ Destroyed(v) => vm' = Removing(v)
         /\ vm[v] = "removed" => vm' \in {vm, Removing(v)}
BY DEF Destroyed, DestroyFails, Undecided, Exists

LEMMA StartTypes == ASSUME IInv, Start PROVE TypeOK'
<1> USE Types, Budget DEF files, history, bounds
<1>1. CASE CheckStart
  <2>1. vm' \in [VMs -> VMStates]
    BY <1>1 DEF CheckStart, Cleanup, VMStates
  <2> QED BY <1>1, <2>1 DEF CheckStart, TypeOK, SupRecord, LockRecord, Records, VMStates
<1>2. CASE StartRefused
  BY <1>2 DEF StartRefused, TypeOK, SupRecord, LockRecord, Records, VMStates
<1>3. ASSUME NEW v \in VMs, CreateVM(v) PROVE TypeOK'
  <2>1. vm' \in [VMs -> VMStates]
    BY <1>3 DEF CreateVM, VMStates
  <2>2. lock' \in LockRecord
    BY <1>3 DEF CreateVM, LockRecord, VMs
  <2>3. sup' \in SupRecord
    BY <1>3, NewProcess
  <2> QED BY <1>3, <2>1, <2>2, <2>3 DEF CreateVM, TypeOK, SupRecord, LockRecord, Records, VMStates
<1>4. CASE StartControl
  <2>1. sup' \in SupRecord
    BY <1>4 DEF StartControl, Steps, SessionStates, SupRecord
  <2>2. locator' \in 0 .. MaxVMs
    BY <1>4 DEF StartControl, SupRecord
  <2> QED BY <1>4, <2>1, <2>2 DEF StartControl, TypeOK, SupRecord, LockRecord, Records, VMStates
<1> QED BY <1>1, <1>2, <1>3, <1>4 DEF Start

LEMMA OperateTypes == ASSUME IInv, Operate PROVE TypeOK'
<1> USE Types, Budget DEF files, history, bounds
<1>1. CASE GuestWorks
  <2>1. work' \subseteq VMs
    BY <1>1 DEF GuestWorks
  <2> QED BY <1>1, <2>1 DEF GuestWorks, TypeOK, SupRecord, LockRecord, Records, VMStates
<1>2. CASE Pause
  <2>1. vm' \in [VMs -> VMStates]
    BY <1>2, StopsOrGoes DEF Pause, Paused
  <2>2. sup' \in SupRecord
    BY <1>2 DEF Pause, Paused, SessionStates, SupRecord
  <2>3. faults' \in 0 .. MaxFaults
    BY <1>2 DEF Pause, Paused, Happens, NoFault
  <2> QED BY <1>2, <2>1, <2>2, <2>3 DEF Pause, TypeOK, SupRecord, LockRecord, Records, VMStates
<1>3. CASE DeadlinePasses
  <2>1. vm' \in [VMs -> VMStates]
    BY <1>3, StopsOrGoes DEF DeadlinePasses, Paused
  <2>2. sup' \in SupRecord
    BY <1>3 DEF DeadlinePasses, Paused, SessionStates, SupRecord
  <2>3. faults' \in 0 .. MaxFaults
    BY <1>3 DEF DeadlinePasses, Paused, Happens, NoFault
  <2> QED BY <1>3, <2>1, <2>2, <2>3 DEF DeadlinePasses, TypeOK, SupRecord, LockRecord, Records,
             VMStates
<1>4. CASE Resume
  <2>1. vm' \in [VMs -> VMStates]
    BY <1>4, StopsOrGoes DEF Resume
  <2>2. sup' \in SupRecord
    BY <1>4 DEF Resume, Steps, SessionStates, SupRecord
  <2>3. faults' \in 0 .. MaxFaults
    BY <1>4 DEF Resume, Happens, NoFault
  <2> QED BY <1>4, <2>1, <2>2, <2>3 DEF Resume, TypeOK, SupRecord, LockRecord, Records, VMStates
<1>5. CASE BeginExport
  <2>1. vm' \in [VMs -> VMStates]
    BY <1>5, StopsOrGoes DEF BeginExport
  <2>2. sup' \in SupRecord
    BY <1>5 DEF BeginExport, Steps, SessionStates, SupRecord
  <2> QED BY <1>5, <2>1, <2>2 DEF BeginExport, TypeOK, SupRecord, LockRecord, Records, VMStates
<1>6. CASE DiscardLive
  <2>0. sup.vm \in VMs /\ (Destroyed(sup.vm) \/ DestroyFails(sup.vm))
    BY <1>6 DEF DiscardLive
  <2>1. vm' \in [VMs -> VMStates]
    BY <2>0, StopsOrGoes, Destroys
  <2>2. sup' \in SupRecord
    BY <1>6 DEF DiscardLive, Steps, SessionStates, SupRecord
  <2>3. lock' \in LockRecord
    BY <2>0, Destroys DEF Unlocked
  <2>4. faults' \in 0 .. MaxFaults
    BY <1>6 DEF DiscardLive, DestroyFails, Happens, NoFault
  <2>5. discarded' \subseteq VMs
    BY <1>6 DEF DiscardLive
  <2> QED BY <1>6, <2>1, <2>2, <2>3, <2>4, <2>5 DEF DiscardLive, TypeOK, SupRecord, LockRecord,
             Records, VMStates
<1> QED BY <1>1, <1>2, <1>3, <1>4, <1>5, <1>6 DEF Operate

LEMMA ExportTypes == ASSUME IInv, ExportStep PROVE TypeOK'
<1> USE Types, Budget DEF files, history, bounds
<1>1. CASE QuiesceFails
  <2>1. vm' \in [VMs -> VMStates]
    BY <1>1, StopsOrGoes DEF QuiesceFails
  <2>2. sup' \in SupRecord
    BY <1>1 DEF QuiesceFails, Steps, SessionStates, SupRecord
  <2>3. faults' \in 0 .. MaxFaults
    BY <1>1 DEF QuiesceFails, Happens, NoFault
  <2> QED BY <1>1, <2>1, <2>2, <2>3 DEF QuiesceFails, TypeOK, SupRecord, LockRecord, Records,
             VMStates
<1>2. CASE RefuseExport
  <2>1. vm' \in [VMs -> VMStates]
    BY <1>2, StopsOrGoes DEF RefuseExport
  <2>2. sup' \in SupRecord
    BY <1>2 DEF RefuseExport, Steps, SessionStates, SupRecord
  <2>3. faults' \in 0 .. MaxFaults
    BY <1>2 DEF RefuseExport, Happens, NoFault
  <2> QED BY <1>2, <2>1, <2>2, <2>3 DEF RefuseExport, TypeOK, SupRecord, LockRecord, Records,
             VMStates
<1>3. CASE RetainForRecovery
  <2>1. sup' \in SupRecord
    BY <1>3 DEF RetainForRecovery, Retaining, Steps, SessionStates, SupRecord
  <2>2. lock' \in LockRecord
    BY <1>3 DEF RetainForRecovery, Retaining
  <2>3. faults' \in 0 .. MaxFaults
    BY <1>3 DEF RetainForRecovery, Retaining, Happens, NoFault
  <2>4. record' \in Records
    BY <1>3, NewRecord DEF RetainForRecovery, Retaining
  <2> QED BY <1>3, <2>1, <2>2, <2>3, <2>4 DEF RetainForRecovery, Retaining, TypeOK, SupRecord,
             LockRecord, Records, VMStates
<1>4. CASE Freeze
  <2>1. vm' \in [VMs -> VMStates]
    BY <1>4, StopsOrGoes DEF Freeze
  <2>2. sup' \in SupRecord
    BY <1>4 DEF Freeze, Steps, SessionStates, SupRecord
  <2> QED BY <1>4, <2>1, <2>2 DEF Freeze, TypeOK, SupRecord, LockRecord, Records, VMStates
<1>5. CASE SaveFrozenRecord
  <2>1. sup' \in SupRecord
    BY <1>5 DEF SaveFrozenRecord, Steps, SessionStates, SupRecord
  <2>2. faults' \in 0 .. MaxFaults
    BY <1>5 DEF SaveFrozenRecord, Happens, NoFault
  <2>3. record' \in Records
    BY <1>5, NewRecord DEF SaveFrozenRecord
  <2> QED BY <1>5, <2>1, <2>2, <2>3 DEF SaveFrozenRecord, TypeOK, SupRecord, LockRecord, Records,
             VMStates
<1>6. CASE PersistPending
  <2>1. sup' \in SupRecord
    BY <1>6 DEF PersistPending, Steps, SessionStates, SupRecord
  <2>2. pending' \in 0 .. MaxVMs /\ persisted' \subseteq VMs
    BY <1>6 DEF PersistPending, SupRecord
  <2> QED BY <1>6, <2>1, <2>2 DEF PersistPending, TypeOK, SupRecord, LockRecord, Records, VMStates
<1>7. CASE RetainFrozen
  <2>1. sup' \in SupRecord
    BY <1>7 DEF RetainFrozen, Steps, SessionStates, SupRecord
  <2>2. faults' \in 0 .. MaxFaults
    BY <1>7 DEF RetainFrozen, Happens, NoFault
  <2>3. record' \in Records
    BY <1>7, NewRecord DEF RetainFrozen
  <2> QED BY <1>7, <2>1, <2>2, <2>3 DEF RetainFrozen, TypeOK, SupRecord, LockRecord, Records,
             VMStates
<1>8. CASE DestroyExported
  <2>0. sup.vm \in VMs /\ (Destroyed(sup.vm) \/ DestroyFails(sup.vm))
    BY <1>8 DEF DestroyExported
  <2>1. vm' \in [VMs -> VMStates]
    BY <2>0, StopsOrGoes, Destroys
  <2>2. sup' \in SupRecord
    BY <1>8 DEF DestroyExported, Steps, SessionStates, SupRecord
  <2>3. lock' \in LockRecord
    BY <2>0, Destroys DEF Unlocked
  <2>4. faults' \in 0 .. MaxFaults
    BY <1>8 DEF DestroyExported, DestroyFails, Happens, NoFault
  <2> QED BY <1>8, <2>1, <2>2, <2>3, <2>4 DEF DestroyExported, TypeOK, SupRecord, LockRecord,
             Records, VMStates
<1>9. CASE FinishExport
  <2>1. sup' \in SupRecord
    BY <1>9 DEF FinishExport, Finishing, Steps, SessionStates, SupRecord
  <2>2. record' \in Records
    BY <1>9 DEF FinishExport, Finishing
  <2>3. faults' \in 0 .. MaxFaults
    BY <1>9 DEF FinishExport, Finishing
  <2> QED BY <1>9, <2>1, <2>2, <2>3 DEF FinishExport, Finishing, TypeOK, SupRecord, LockRecord, Records,
             VMStates
<1> QED BY <1>1, <1>2, <1>3, <1>4, <1>5, <1>6, <1>7, <1>8, <1>9 DEF ExportStep

LEMMA EndTypes == ASSUME IInv, EndStep \/ Die PROVE TypeOK'
<1> USE Types, Budget DEF files, history, bounds
<1>1. CASE LeaveForeground
  <2>1. sup' \in SupRecord
    BY <1>1 DEF LeaveForeground, Steps, SessionStates, SupRecord
  <2> QED BY <1>1, <2>1 DEF LeaveForeground, TypeOK, SupRecord, LockRecord, Records, VMStates
<1>2. CASE CloseControl
  <2>1. locator' \in 0 .. MaxVMs
    BY <1>2 DEF CloseControl
  <2> QED BY <1>2, <2>1 DEF CloseControl, TypeOK, SupRecord, LockRecord, Records, VMStates
<1>3. CASE Shutdown
  <2>1. vm' \in [VMs -> VMStates]
    BY <1>3, StopsOrGoes DEF Shutdown, Ending, Unlocked
  <2>2. lock' \in LockRecord
    BY <1>3 DEF Shutdown, Ending, Unlocked
  <2>3. faults' \in 0 .. MaxFaults
    BY <1>3 DEF Shutdown, Ending, Unlocked, Happens, NoFault
  <2> QED BY <1>3, <2>1, <2>2, <2>3 DEF Shutdown, Ending, Unlocked, TypeOK, SupRecord, LockRecord,
             Records, VMStates
<1>4. CASE KillSupervisor
  <2>1. lock' \in LockRecord
    BY <1>4 DEF KillSupervisor, Unlocked
  <2> QED BY <1>4, <2>1 DEF KillSupervisor, Unlocked, TypeOK, SupRecord, LockRecord, Records,
             VMStates
<1>5. CASE KillExport
  <2>1. lock' \in LockRecord
    BY <1>5 DEF KillExport, Unlocked
  <2>2. rx' = "none"
    BY <1>5 DEF KillExport, Unlocked
  <2> QED BY <1>5, <2>1, <2>2 DEF KillExport, Unlocked, TypeOK, SupRecord, LockRecord, Records,
             VMStates
<1>6. CASE HostRestart
  <2>1. vm' \in [VMs -> VMStates]
    BY <1>6 DEF HostRestart, VMStates
  <2> QED BY <1>6, <2>1 DEF HostRestart, TypeOK, SupRecord, LockRecord, Records, VMStates
<1> QED BY <1>1, <1>2, <1>3, <1>4, <1>5, <1>6 DEF EndStep, Die

LEMMA RecoveryTypes == ASSUME IInv, RecoveryStep PROVE TypeOK'
<1> USE Types, Budget DEF files, history, bounds
<1>1. CASE ExportAdopted
  <2>1. vm' \in [VMs -> VMStates]
    BY <1>1, StopsOrGoes DEF ExportAdopted
  <2>2. lock' \in LockRecord
    BY <1>1 DEF ExportAdopted
  <2>3. faults' \in 0 .. MaxFaults
    BY <1>1 DEF ExportAdopted, Happens, NoFault
  <2>4. rx' \in {"none", "persist", "destroy"}
    BY <1>1 DEF ExportAdopted
  <2> QED BY <1>1, <2>1, <2>2, <2>3, <2>4 DEF ExportAdopted, TypeOK, SupRecord, LockRecord,
             Records, VMStates
<1>2. CASE PersistAdopted
  <2>1. lock' \in LockRecord
    BY <1>2 DEF PersistAdopted
  <2>2. faults' \in 0 .. MaxFaults
    BY <1>2 DEF PersistAdopted, Happens, NoFault
  <2>3. pending' \in 0 .. MaxVMs /\ persisted' \subseteq VMs
    BY <1>2 DEF PersistAdopted, Records, IInv, Recovering, Adopted, VMs
  <2>4. rx' \in {"none", "persist", "destroy"}
    BY <1>2 DEF PersistAdopted
  <2> QED BY <1>2, <2>1, <2>2, <2>3, <2>4 DEF PersistAdopted, TypeOK, SupRecord, LockRecord,
             Records, VMStates
<1>3. CASE DestroyAdopted
  <2>1. vm' \in [VMs -> VMStates]
    BY <1>3, StopsOrGoes DEF DestroyAdopted, Unlocked
  <2>2. lock' \in LockRecord
    BY <1>3 DEF DestroyAdopted, Unlocked
  <2>3. faults' \in 0 .. MaxFaults
    BY <1>3 DEF DestroyAdopted, Unlocked, Happens, NoFault
  <2>4. rx' \in {"none", "record"}
    BY <1>3 DEF DestroyAdopted, Unlocked
  <2> QED BY <1>3, <2>1, <2>2, <2>3, <2>4 DEF DestroyAdopted, Unlocked, TypeOK, SupRecord,
             LockRecord, Records, VMStates
<1>4. CASE RemoveRecord
  BY <1>4 DEF RemoveRecord, TypeOK, SupRecord, LockRecord, Records, VMStates
<1> QED BY <1>1, <1>2, <1>3, <1>4 DEF RecoveryStep

LEMMA CommandTypes == ASSUME IInv, Command PROVE TypeOK'
<1> USE Types, Budget DEF files, history, bounds
<1>1. CASE CleanupOrphans
  <2>1. vm' \in [VMs -> VMStates]
    BY <1>1 DEF CleanupOrphans, Cleanup, VMStates
  <2> QED BY <1>1, <2>1 DEF CleanupOrphans, TypeOK, SupRecord, LockRecord, Records, VMStates
<1>2. CASE ReplaceStaleSupervisor
  <2>1. vm' \in [VMs -> VMStates]
    BY <1>2 DEF ReplaceStaleSupervisor, Cleanup, VMStates
  <2> QED BY <1>2, <2>1 DEF ReplaceStaleSupervisor, TypeOK, SupRecord, LockRecord, Records, VMStates
<1>3. CASE RecoverStaleSupervisor
  <2>1. vm' \in [VMs -> VMStates]
    BY <1>3 DEF RecoverStaleSupervisor, Cleanup, VMStates
  <2> QED BY <1>3, <2>1 DEF RecoverStaleSupervisor, TypeOK, SupRecord, LockRecord, Records, VMStates
<1>4. CASE RecoverFrozen
  <2>1. lock' \in LockRecord
    BY <1>4 DEF RecoverFrozen, Recoverable, Adopt, LockRecord, Records
  <2>2. rx' \in {"persist", "destroy", "record"}
    BY <1>4 DEF RecoverFrozen, Recoverable, Adopt
  <2> QED BY <1>4, <2>1, <2>2 DEF RecoverFrozen, TypeOK, SupRecord, LockRecord, Records, VMStates
<1>5. CASE RecoverRefused
  <2>1. vm' \in [VMs -> VMStates]
    BY <1>5, StopsOrGoes DEF RecoverRefused, Recoverable, Adopt
  <2>2. lock' \in LockRecord
    BY <1>5 DEF RecoverRefused, Recoverable, Adopt, LockRecord, Records
  <2>3. rx' \in {"running", "finish", "record"}
    BY <1>5 DEF RecoverRefused, Recoverable, Adopt
  <2> QED BY <1>5, <2>1, <2>2, <2>3 DEF RecoverRefused, Recoverable, Adopt, TypeOK, SupRecord,
             LockRecord, Records, VMStates
<1>6. CASE ApplyPending
  <2>1. applied' \subseteq VMs /\ pending' \in 0 .. MaxVMs
    BY <1>6 DEF ApplyPending, VMs
  <2> QED BY <1>6, <2>1 DEF ApplyPending, TypeOK, SupRecord, LockRecord, Records, VMStates
<1>7. CASE DiscardPending
  <2>1. discarded' \subseteq VMs /\ pending' \in 0 .. MaxVMs
    BY <1>7 DEF DiscardPending, VMs
  <2> QED BY <1>7, <2>1 DEF DiscardPending, TypeOK, SupRecord, LockRecord, Records, VMStates
<1>8. CASE DiscardRecorded
  <2>1. vm' \in [VMs -> VMStates]
    BY <1>8, StopsOrGoes DEF DiscardRecorded
  <2>2. record' \in Records
    BY <1>8 DEF DiscardRecorded
  <2>3. discarded' \subseteq VMs
    BY <1>8 DEF DiscardRecorded, Records, VMs
  <2> QED BY <1>8, <2>1, <2>2, <2>3 DEF DiscardRecorded, TypeOK, SupRecord, LockRecord, Records,
             VMStates
<1>9. CASE DiscardStopped
  <2>1. vm' \in [VMs -> VMStates]
    BY <1>9, StopsOrGoes DEF DiscardStopped
  <2> QED BY <1>9, <2>1 DEF DiscardStopped, TypeOK, SupRecord, LockRecord, Records, VMStates
<1> QED BY <1>1, <1>2, <1>3, <1>4, <1>5, <1>6, <1>7, <1>8, <1>9 DEF Command

LEMMA StepTypes == ASSUME IInv, Next PROVE TypeOK'
BY StartTypes, OperateTypes, ExportTypes, EndTypes, RecoveryTypes, CommandTypes DEF Next

-----------------------------------------------------------------------------
(* Steps that leave the export, its record and the adopted VM alone.          *)

\* The VM of a session that is starting, runs or is paused.
Claimed(v) == /\ sup.pc \in {"starting", "serve"} /\ sup.sess \in {"none", "running", "paused"}
              /\ v = sup.vm

\* Other processes, and what the Supervisor does besides its operations, take
\* away only what nobody owns and what the user discards.
Aside ==
  /\ UNCHANGED <<work, lock, record, rx>>
  /\ sup'.pc = sup.pc /\ sup'.vm = sup.vm /\ sup'.sess = sup.sess /\ sup'.saved = sup.saved
  /\ sup.pc = "none" => sup' = sup
  /\ persisted \subseteq persisted' /\ discarded \subseteq discarded'
  /\ pending' # 0 => pending' \in persisted'
  /\ \A v \in VMs : \/ vm'[v] = vm[v]
                    \/ /\ vm'[v] = "removed"
                       /\ \/ vm[v] = "stopped" /\ v \in discarded' /\ ~Claimed(v)
                          \/ v \in Orphans

LEMMA AsideKeeps == ASSUME IInv, TypeOK', Aside PROVE IInv'
<1>1. \A v : Unexported(v)' => Unexported(v)
  BY DEF Aside, Unexported
<1>2. \A v \in VMs : /\ vm[v] # "absent" => vm'[v] # "absent"
                     /\ vm[v] = "removed" => vm'[v] = "removed"
                     /\ vm[v] = "running" /\ record.vm # 0 => vm'[v] = "running"
                     /\ vm[v] = "stopped" /\ Unexported(v)' => vm'[v] = "stopped"
  BY DEF Aside, Orphans, Unexported
<1>3. record.vm # 0 => record.vm \in VMs
  BY Types DEF Records, VMs
<1>4. sup.pc # "none" => sup.vm \in VMs
  BY Types
<1>5. VMShape'
  <2>1. sup.pc \in {"starting", "serve"} /\ sup.sess \in {"none", "running", "paused"} =>
          vm'[sup.vm] # "removed"
    BY <1>4 DEF IInv, VMShape, Locks, Owning, Running, Claimed, Aside, Orphans
  <2> QED BY <1>2, <1>3, <1>4, <2>1 DEF IInv, VMShape, Aside
<1>6. Locks'
  BY <1>2, <1>4 DEF IInv, Locks, Owning, Adopted, Aside
<1>7. Recovering'
  BY <1>1, <1>2, <1>3 DEF IInv, Recovering, Adopted, Aside
<1>8. Exporting'
  BY <1>1, <1>2, <1>4 DEF IInv, Exporting, Saving, Adopted, Aside
<1>9. OneRecord'
  BY <1>1 DEF IInv, OneRecord, Saving, Aside
<1>10. FrozenRecordAdoptable'
  BY <1>1, <1>2, <1>3 DEF IInv, FrozenRecordAdoptable, VMShape, Aside
<1> QED BY <1>5, <1>6, <1>7, <1>8, <1>9, <1>10 DEF IInv

LEMMA CleanedVMs ==
  ASSUME IInv, Cleanup
  PROVE  \A v \in VMs : vm'[v] = vm[v] \/ (vm'[v] = "removed" /\ v \in Orphans)
BY DEF Cleanup

LEMMA CommandAside ==
  ASSUME IInv, \/ CheckStart \/ StartRefused \/ CloseControl \/ LeaveForeground
               \/ CleanupOrphans \/ ReplaceStaleSupervisor \/ RecoverStaleSupervisor
               \/ ApplyPending \/ DiscardPending \/ DiscardStopped \/ UNCHANGED vars
  PROVE  Aside
<1> USE DEF files, history, bounds
<1>1. CASE CheckStart \/ CleanupOrphans \/ ReplaceStaleSupervisor \/ RecoverStaleSupervisor
  BY <1>1, CleanedVMs DEF CheckStart, CleanupOrphans, ReplaceStaleSupervisor,
     RecoverStaleSupervisor, Aside, IInv, VMShape
<1>2. CASE StartRefused \/ CloseControl \/ UNCHANGED vars
  BY <1>2 DEF StartRefused, CloseControl, vars, Aside, IInv, VMShape
<1>3. CASE LeaveForeground
  <2>1. sup' = [sup EXCEPT !.exit = TRUE] /\ sup.pc # "none"
    BY <1>3 DEF LeaveForeground, Open
  <2>2. sup'.pc = sup.pc /\ sup'.vm = sup.vm /\ sup'.sess = sup.sess /\ sup'.saved = sup.saved
    BY <2>1, Types DEF SupRecord
  <2> QED BY <1>3, <2>1, <2>2 DEF LeaveForeground, Aside, IInv, VMShape
<1>4. CASE ApplyPending \/ DiscardPending
  BY <1>4 DEF ApplyPending, DiscardPending, Aside
<1>5. CASE DiscardStopped
  <2>1. PICK v \in VMs : /\ vm[v] = "stopped" /\ lock.vm # v
                         /\ vm' = Removing(v) /\ discarded' = discarded \cup {v}
    BY <1>5 DEF DiscardStopped
  <2>2. \A w \in VMs : vm'[w] = vm[w] \/ (w = v /\ vm'[w] = "removed")
    BY <2>1, Types DEF Removing
  <2>3. ~Claimed(v)
    BY <2>1 DEF Claimed, IInv, VMShape, Locks, Owning, Running
  <2> QED BY <1>5, <2>1, <2>2, <2>3 DEF DiscardStopped, Aside, IInv, VMShape
<1> QED BY <1>1, <1>2, <1>3, <1>4, <1>5

\* The operations by which a Supervisor that owns its VM starts and stops it.
Handles ==
  /\ sup.pc \in {"starting", "serve", "exporting"} /\ Owning
  /\ sup'.pc \in {"serve", "exporting", "refused"} /\ sup'.sess \in Running
  /\ sup'.vm = sup.vm /\ (sup'.sess = "failed" \/ sup.sess \in {"none", "running", "paused"})
  /\ sup.pc = "exporting" /\ sup'.pc = "serve" => sup'.sess = "failed"
  /\ \A v \in VMs : vm'[v] = vm[v] \/ (v = sup.vm /\ vm'[v] \in {"running", "stopped"})
  /\ UNCHANGED <<work, lock, record, pending, rx, persisted, discarded>>

LEMMA HandlesKeeps == ASSUME IInv, TypeOK', Handles PROVE IInv'
<1>1. \A v : Unexported(v)' <=> Unexported(v)
  BY DEF Handles, Unexported
<1>2. record.vm # 0 => record.vm \in VMs
  BY Types DEF Records, VMs
<1>3. sup.vm \in VMs /\ sup.vm # 0 /\ sup.pc # "none"
  BY Types DEF Handles, VMs
<1>4. lock.by = "supervisor" /\ rx \notin Adopted
  BY DEF IInv, Locks, Handles
<1>5. VMShape'
  <2>1. sup'.pc = "serve" /\ sup'.sess # "failed" =>
          /\ sup.pc \in {"starting", "serve"} /\ sup.sess \in {"none", "running", "paused"}
          /\ vm[sup.vm] # "removed"
    BY DEF IInv, VMShape, Handles
  <2>2. sup'.pc = "serve" /\ sup'.sess # "failed" => vm'[sup.vm] # "removed"
    BY <1>3, <2>1 DEF Handles
  <2> QED BY <1>2, <1>3, <2>2 DEF IInv, VMShape, Handles, Running
<1>6. Locks'
  BY <1>3 DEF IInv, Locks, Owning, Running, Handles
<1>7. Recovering'
  BY <1>1, <1>4 DEF IInv, Recovering, Adopted, Handles
<1>8. Exporting'
  BY DEF Exporting, Saving, Handles
<1>9. ~(record.frozen /\ Unexported(record.vm) /\ record.vm = sup.vm)
  BY DEF IInv, OneRecord, Handles, Owning, Running
<1>10. OneRecord'
  BY <1>1, <1>9 DEF IInv, OneRecord, Saving, Handles
<1>11. FrozenRecordAdoptable'
  BY <1>1, <1>2, <1>9 DEF IInv, FrozenRecordAdoptable, VMShape, Handles
<1> QED BY <1>5, <1>6, <1>7, <1>8, <1>10, <1>11 DEF IInv

\* A Supervisor that serves a session owns its VM, unless it was left to recovery.
LEMMA Accepts ==
  ASSUME IInv, NotQueued, sup.pc = "serve", sup.sess \in Accepted
  PROVE  sup.sess \in Running /\ (vm[sup.vm] # "removed" => Owning)
BY DEF Accepted, NotQueued, Owning, Running

LEMMA VMMoves ==
  ASSUME IInv, NEW v
  PROVE  /\ \A w \in VMs : w # v => /\ Stopping(v)[w] = vm[w] /\ Removing(v)[w] = vm[w]
                                    /\ [vm EXCEPT ![v] = "running"][w] = vm[w]
         /\ v \in VMs => /\ Stopping(v)[v] = "stopped" /\ Removing(v)[v] = "removed"
                         /\ [vm EXCEPT ![v] = "running"][v] = "running"
BY Types DEF Stopping, Removing

\* The fields of a Supervisor that takes a step.
LEMMA SupIs ==
  ASSUME IInv
  PROVE  /\ \A pc : LET s == [sup EXCEPT !.pc = pc] IN
              s.pc = pc /\ s.vm = sup.vm /\ s.sess = sup.sess /\ s.saved = sup.saved /\ s.exit = sup.exit
         /\ \A sess : LET s == [sup EXCEPT !.sess = sess] IN
              s.pc = sup.pc /\ s.vm = sup.vm /\ s.sess = sess /\ s.saved = sup.saved /\ s.exit = sup.exit
         /\ \A pc, sess : LET s == [sup EXCEPT !.pc = pc, !.sess = sess] IN
              s.pc = pc /\ s.vm = sup.vm /\ s.sess = sess /\ s.saved = sup.saved /\ s.exit = sup.exit
         /\ \A pc, saved : LET s == [sup EXCEPT !.pc = pc, !.saved = saved] IN
              s.pc = pc /\ s.vm = sup.vm /\ s.sess = sup.sess /\ s.saved = saved /\ s.exit = sup.exit
         /\ \A sess, exit : LET s == [sup EXCEPT !.sess = sess, !.exit = exit] IN
              s.pc = sup.pc /\ s.vm = sup.vm /\ s.sess = sess /\ s.saved = sup.saved /\ s.exit = exit
         /\ \A sess, pc, exit : LET s == [sup EXCEPT !.sess = sess, !.pc = pc, !.exit = exit] IN
              s.pc = pc /\ s.vm = sup.vm /\ s.sess = sess /\ s.saved = sup.saved /\ s.exit = exit
BY Types DEF SupRecord

LEMMA OperationHandles ==
  ASSUME IInv, NotQueued, \/ Pause \/ DeadlinePasses \/ Resume \/ BeginExport \/ StartControl
                          \/ QuiesceFails \/ RefuseExport
  PROVE  Handles
<1> USE DEF files, history, bounds
<1>1. \A w \in VMs : vm' \in {vm, Stopping(sup.vm), [vm EXCEPT ![sup.vm] = "running"]} =>
                       vm'[w] = vm[w] \/ (w = sup.vm /\ vm'[w] \in {"running", "stopped"})
  BY Types DEF Stopping
<1>2. CASE Pause
  <2>1. vm' \in {vm, Stopping(sup.vm)}
    BY <1>2 DEF Pause, Paused, Undecided
  <2>2. sup' = [sup EXCEPT !.sess = "paused"] \/ sup' = [sup EXCEPT !.sess = "failed"]
    BY <1>2 DEF Pause, Paused
  <2>3. sup'.pc = sup.pc /\ sup'.vm = sup.vm /\ sup'.sess \in {"paused", "failed"}
    BY <2>2, Types DEF SupRecord
  <2> QED BY <1>1, <1>2, <2>1, <2>3 DEF Pause, Handles, Owning, Running, IInv, VMShape
<1>3. CASE DeadlinePasses
  <2>1. vm' \in {vm, Stopping(sup.vm)}
    BY <1>3 DEF DeadlinePasses, Paused, Undecided
  <2>2. sup' = [sup EXCEPT !.sess = "paused"] \/ sup' = [sup EXCEPT !.sess = "failed", !.exit = TRUE]
    BY <1>3 DEF DeadlinePasses, Paused
  <2>3. sup'.pc = sup.pc /\ sup'.vm = sup.vm /\ sup'.sess \in {"paused", "failed"}
    BY <2>2, Types DEF SupRecord
  <2> QED BY <1>1, <1>3, <2>1, <2>3 DEF DeadlinePasses, Handles, Owning, Running, IInv, VMShape
<1>4. CASE Resume
  <2>1. vm' \in {vm, [vm EXCEPT ![sup.vm] = "running"]}
    BY <1>4 DEF Resume
  <2>2. sup' = [sup EXCEPT !.sess = "running"] \/ sup' = [sup EXCEPT !.sess = "failed"]
    BY <1>4 DEF Resume
  <2>3. sup'.pc = sup.pc /\ sup'.vm = sup.vm /\ sup'.sess \in {"running", "failed"}
    BY <2>2, Types DEF SupRecord
  <2> QED BY <1>1, <1>4, <2>1, <2>3 DEF Resume, Handles, Owning, Running, IInv, VMShape
<1>5. CASE BeginExport
  <2>1. Owning /\ sup.sess \in Running
    BY <1>5, Accepts DEF BeginExport, Exists
  <2>2. sup' = [sup EXCEPT !.pc = "exporting"] /\ vm' = [vm EXCEPT ![sup.vm] = "running"]
    BY <1>5 DEF BeginExport
  <2>3. sup'.pc = "exporting" /\ sup'.vm = sup.vm /\ sup'.sess = sup.sess
    BY <2>2, SupIs
  <2> QED BY <1>1, <1>5, <2>1, <2>2, <2>3 DEF BeginExport, Handles, Running
<1>6. CASE StartControl
  <2>1. sup' = [sup EXCEPT !.pc = "serve", !.sess = "running"] /\ sup.sess = "none"
    BY <1>6 DEF StartControl, IInv, VMShape
  <2>2. sup'.pc = "serve" /\ sup'.vm = sup.vm /\ sup'.sess = "running"
    BY <2>1, SupIs
  <2> QED BY <1>6, <2>1, <2>2 DEF StartControl, Handles, Owning, Running
<1>7. CASE QuiesceFails
  <2>1. sup' = [sup EXCEPT !.pc = "serve", !.sess = "failed"] /\ vm' \in {vm, Stopping(sup.vm)}
    BY <1>7 DEF QuiesceFails, Undecided
  <2>2. sup'.pc = "serve" /\ sup'.vm = sup.vm /\ sup'.sess = "failed"
    BY <2>1, SupIs
  <2> QED BY <1>1, <1>7, <2>1, <2>2 DEF QuiesceFails, Handles, Owning, Running
<1>8. CASE RefuseExport
  <2>1. sup' = [sup EXCEPT !.pc = "refused"] /\ vm' \in {vm, Stopping(sup.vm)} /\ sup.sess \in Running
    BY <1>8 DEF RefuseExport, IInv, VMShape
  <2>2. sup'.pc = "refused" /\ sup'.vm = sup.vm /\ sup'.sess = sup.sess
    BY <2>1, SupIs
  <2> QED BY <1>1, <1>8, <2>1, <2>2 DEF RefuseExport, Handles, Owning, Running
<1> QED BY <1>2, <1>3, <1>4, <1>5, <1>6, <1>7, <1>8

-----------------------------------------------------------------------------
(* The guest works; a VM is created.                                          *)

LEMMA GuestWorksStep == ASSUME IInv, GuestWorks PROVE IInv'
<1> USE DEF files, history, bounds
<1>1. TypeOK'
  BY OperateTypes DEF Operate
<1>2. record.vm # sup.vm /\ sup.pc = "serve"
  BY DEF IInv, OneRecord, Saving, GuestWorks
<1>3. Unexported(record.vm)' <=> Unexported(record.vm)
  BY <1>2 DEF GuestWorks, Unexported
<1>4. VMShape' /\ Locks'
  BY DEF IInv, VMShape, Locks, Owning, GuestWorks
<1>5. Recovering'
  BY <1>3 DEF IInv, Recovering, Unexported, GuestWorks
<1>6. Exporting'
  BY <1>2 DEF Exporting, Saving, GuestWorks
<1>7. OneRecord' /\ FrozenRecordAdoptable'
  BY <1>2, <1>3 DEF IInv, OneRecord, FrozenRecordAdoptable, Unexported, GuestWorks
<1> QED BY <1>1, <1>4, <1>5, <1>6, <1>7 DEF IInv

LEMMA CreateStep == ASSUME IInv, NEW v \in VMs, CreateVM(v) PROVE IInv'
<1> USE DEF files, history, bounds
<1>1. TypeOK'
  BY StartTypes DEF Start
<1>2. /\ sup'.pc = "starting" /\ sup'.vm = v /\ sup'.sess = "none" /\ v # 0
      /\ lock'.by = "supervisor" /\ lock'.vm = v /\ sup.pc = "none" /\ lock.by = "nobody"
  <2>1. /\ sup'.pc = "starting" /\ sup'.vm = v /\ sup'.sess = "none"
    BY NewProcess
  <2>2. lock' = [by |-> "supervisor", vm |-> v] /\ sup.pc = "none" /\ lock.by = "nobody" /\ v # 0
    BY DEF CreateVM, VMs
  <2> QED BY <2>1, <2>2
<1>3. record.vm # v /\ (record.vm # 0 => record.vm \in VMs)
  BY Types DEF IInv, VMShape, CreateVM, Records, VMs
<1>4. vm'[v] = "running" /\ \A w \in VMs : w # v => vm'[w] = vm[w]
  BY Types DEF CreateVM
<1>5. \A w : Unexported(w)' <=> Unexported(w)
  BY DEF CreateVM, Unexported
<1>6. VMShape'
  BY <1>2, <1>3, <1>4 DEF IInv, VMShape, CreateVM
<1>7. Locks'
  BY <1>2 DEF IInv, Locks, Owning, Adopted, CreateVM
<1>8. Recovering'
  BY <1>3, <1>4, <1>5 DEF IInv, Recovering, Adopted, CreateVM
<1>9. Exporting' /\ OneRecord'
  BY <1>2, <1>3 DEF Exporting, OneRecord, Saving, CreateVM
<1>10. FrozenRecordAdoptable'
  BY <1>3, <1>4, <1>5 DEF IInv, FrozenRecordAdoptable, VMShape, CreateVM
<1> QED BY <1>1, <1>6, <1>7, <1>8, <1>9, <1>10 DEF IInv

-----------------------------------------------------------------------------
(* The end of an export.                                                      *)

\* A VM is left to recovery, with the record or without it.
Retires ==
  /\ sup.pc \in {"refused", "saved"} /\ sup'.pc = "serve" /\ sup'.sess = "recovery"
  /\ sup'.vm = sup.vm /\ lock' \in {lock, Free}
  /\ \/ record' = record
     \/ /\ record.vm = 0 /\ record'.vm = sup.vm
        /\ record'.frozen => sup.pc = "saved"
  /\ UNCHANGED <<vm, work, pending, rx, persisted, discarded>>

LEMMA RetiresKeeps == ASSUME IInv, TypeOK', Retires PROVE IInv'
<1>1. \A v : Unexported(v)' <=> Unexported(v)
  BY DEF Retires, Unexported
<1>2. sup.vm \in VMs /\ sup.vm # 0 /\ vm[sup.vm] # "absent"
  BY Types DEF Retires, VMs, IInv, VMShape
<1>3. lock.by = "supervisor" /\ rx \notin Adopted
  BY DEF IInv, Locks, Owning, Retires
<1>4. VMShape'
  BY <1>2 DEF IInv, VMShape, Retires
<1>5. Locks'
  BY <1>3 DEF IInv, Locks, Owning, Running, Free, Retires
<1>6. Recovering'
  BY <1>1, <1>3 DEF IInv, Recovering, Adopted, Retires
<1>7. Exporting' /\ OneRecord'
  BY DEF Exporting, OneRecord, Saving, Retires
<1>8. FrozenRecordAdoptable'
  <2>1. CASE record' = record
    BY <1>1, <2>1 DEF IInv, FrozenRecordAdoptable, Retires
  <2>2. CASE record'.vm = sup.vm /\ (record'.frozen => sup.pc = "saved")
    BY <1>1, <2>2 DEF IInv, Exporting, FrozenRecordAdoptable, Retires
  <2> QED BY <2>1, <2>2 DEF Retires
<1> QED BY <1>4, <1>5, <1>6, <1>7, <1>8 DEF IInv

LEMMA RetainStep == ASSUME IInv, RetainForRecovery \/ RetainFrozen PROVE IInv'
<1> USE DEF files, history, bounds
<1>1. TypeOK'
  BY ExportTypes DEF ExportStep
<1>2. CASE RetainForRecovery
  <2>1. PICK exit \in BOOLEAN : sup' = [sup EXCEPT !.sess = "recovery", !.pc = "serve", !.exit = exit]
    BY <1>2, Types DEF RetainForRecovery, Retaining, SupRecord
  <2>2. sup'.pc = "serve" /\ sup'.vm = sup.vm /\ sup'.sess = "recovery"
    BY <2>1, SupIs
  <2>3. Retires
    BY <1>2, <2>2 DEF RetainForRecovery, Retaining, Retires
  <2> QED BY <1>1, <2>3, RetiresKeeps
<1>3. CASE RetainFrozen
  <2>1. sup' = [sup EXCEPT !.sess = "recovery", !.pc = "serve", !.exit = TRUE]
    BY <1>3 DEF RetainFrozen
  <2>2. sup'.pc = "serve" /\ sup'.vm = sup.vm /\ sup'.sess = "recovery"
    BY <2>1, SupIs
  <2>3. record' = record \/ (record.vm = 0 /\ record'.vm = sup.vm)
    BY <1>3 DEF RetainFrozen
  <2>4. Retires
    BY <1>3, <2>2, <2>3 DEF RetainFrozen, Retires
  <2> QED BY <1>1, <2>4, RetiresKeeps
<1> QED BY <1>2, <1>3

LEMMA FreezeStep == ASSUME IInv, Freeze PROVE IInv'
<1> USE DEF files, history, bounds
<1>1. TypeOK'
  BY ExportTypes DEF ExportStep
<1>2. /\ sup'.pc = (IF sup.vm \in work THEN "frozen" ELSE "persisted") /\ sup'.vm = sup.vm
      /\ sup'.sess = sup.sess /\ sup'.saved = FALSE /\ sup.pc = "exporting"
  BY SupIs DEF Freeze
<1>3. sup.vm \in VMs /\ sup.vm # 0 /\ sup.sess \in Running /\ (record.vm # 0 => record.vm \in VMs)
  BY <1>2, Types DEF VMs, IInv, VMShape, Records
<1>4. vm'[sup.vm] = "stopped" /\ \A w \in VMs : w # sup.vm => vm'[w] = vm[w]
  BY <1>3, VMMoves DEF Freeze
<1>5. \A w : Unexported(w)' <=> Unexported(w)
  BY DEF Freeze, Unexported
<1>6. lock.by = "supervisor" /\ rx \notin Adopted
  BY <1>2 DEF IInv, Locks, Owning
<1>7. VMShape'
  BY <1>2, <1>3, <1>4 DEF IInv, VMShape, Freeze
<1>8. Locks'
  BY <1>2 DEF IInv, Locks, Owning, Freeze
<1>9. Recovering'
  BY <1>5, <1>6 DEF IInv, Recovering, Adopted, Freeze
<1>10. Exporting'
  BY <1>2, <1>4, <1>5 DEF Exporting, Saving, Unexported, Freeze
<1>11. OneRecord' /\ FrozenRecordAdoptable'
  BY <1>2, <1>3, <1>4, <1>5 DEF IInv, OneRecord, FrozenRecordAdoptable, VMShape, Saving, Running,
     Freeze
<1> QED BY <1>1, <1>7, <1>8, <1>9, <1>10, <1>11 DEF IInv

LEMMA SaveStep == ASSUME IInv, SaveFrozenRecord PROVE IInv'
<1> USE DEF files, history, bounds
<1>1. TypeOK'
  BY ExportTypes DEF ExportStep
<1>2. \/ /\ record.vm = 0 /\ record'.vm = sup.vm /\ record'.frozen /\ sup'.saved
      \/ record' = record /\ sup'.saved = sup.saved
  <2>1. CASE /\ record.vm = 0 /\ record' = [vm |-> sup.vm, frozen |-> TRUE]
             /\ sup' = [sup EXCEPT !.pc = "saved", !.saved = TRUE]
    BY <2>1, SupIs
  <2>2. CASE record' = record /\ sup' = [sup EXCEPT !.pc = "saved"]
    BY <2>2, SupIs
  <2> QED BY <2>1, <2>2 DEF SaveFrozenRecord
<1>3. sup'.pc = "saved" /\ sup'.vm = sup.vm /\ sup'.sess = sup.sess /\ sup.pc = "frozen" /\ ~sup.saved
  BY Types DEF SaveFrozenRecord, SupRecord, IInv, Exporting
<1>4. sup.vm \in VMs /\ sup.vm # 0 /\ sup.sess \in Running /\ vm[sup.vm] # "absent"
  BY <1>3, Types DEF VMs, IInv, VMShape
<1>5. \A w : Unexported(w)' <=> Unexported(w)
  BY DEF SaveFrozenRecord, Unexported
<1>6. lock.by = "supervisor" /\ rx \notin Adopted
  BY <1>3 DEF IInv, Locks, Owning
<1>7. VMShape'
  BY <1>2, <1>3, <1>4 DEF IInv, VMShape, SaveFrozenRecord
<1>8. Locks'
  BY <1>3, <1>6 DEF IInv, Locks, Owning, SaveFrozenRecord
<1>9. Recovering'
  BY <1>2, <1>5, <1>6 DEF IInv, Recovering, Adopted, SaveFrozenRecord
<1>10. Exporting'
  BY <1>2, <1>3, <1>5 DEF IInv, Exporting, Saving, SaveFrozenRecord
<1>11. OneRecord'
  BY <1>2, <1>3, <1>5 DEF IInv, OneRecord, Saving
<1>12. FrozenRecordAdoptable'
  BY <1>2, <1>3, <1>5 DEF IInv, Exporting, FrozenRecordAdoptable, SaveFrozenRecord
<1> QED BY <1>1, <1>7, <1>8, <1>9, <1>10, <1>11, <1>12 DEF IInv

LEMMA PersistStep == ASSUME IInv, PersistPending PROVE IInv'
<1> USE DEF files, history, bounds
<1>1. TypeOK'
  BY ExportTypes DEF ExportStep
<1>2. /\ sup'.pc = "persisted" /\ sup'.vm = sup.vm /\ sup'.sess = sup.sess /\ sup.pc = "saved"
      /\ sup'.saved = sup.saved
  BY SupIs DEF PersistPending
<1>3. \A w : Unexported(w)' => Unexported(w)
  BY DEF PersistPending, Unexported
<1>4. ~Unexported(sup.vm)'
  BY DEF PersistPending, Unexported
<1>5. VMShape' /\ Locks'
  BY <1>2 DEF IInv, VMShape, Locks, Owning, PersistPending
<1>6. Recovering'
  BY <1>3 DEF IInv, Recovering, PersistPending
<1>7. Exporting'
  BY <1>2, <1>4 DEF IInv, Exporting, Saving, Unexported, PersistPending
<1>8. OneRecord'
  BY <1>2, <1>4 DEF OneRecord, Saving, Unexported, PersistPending
<1>9. FrozenRecordAdoptable'
  BY <1>3 DEF IInv, FrozenRecordAdoptable, PersistPending
<1> QED BY <1>1, <1>5, <1>6, <1>7, <1>8, <1>9 DEF IInv

LEMMA DestroyStep == ASSUME IInv, DestroyExported PROVE IInv'
<1> USE DEF files, history, bounds
<1>1. TypeOK'
  BY ExportTypes DEF ExportStep
<1>2. /\ sup'.vm = sup.vm /\ sup'.saved = sup.saved /\ sup.pc = "persisted"
      /\ \/ sup'.pc = "removed" /\ sup'.sess = sup.sess /\ Destroyed(sup.vm)
         \/ sup'.pc = "serve" /\ sup'.sess = "failed" /\ DestroyFails(sup.vm)
  BY Types DEF DestroyExported, SupRecord
<1>3. sup.vm \in VMs /\ sup.vm # 0 /\ sup.sess \in Running /\ (record.vm # 0 => record.vm \in VMs)
  BY <1>2, Types DEF VMs, IInv, VMShape, Records
<1>4. /\ \A w \in VMs : w # sup.vm => vm'[w] = vm[w]
      /\ vm'[sup.vm] \in {vm[sup.vm], "stopped", "removed"}
      /\ sup'.pc = "removed" \/ lock' # lock => vm'[sup.vm] = "removed"
      /\ lock' \in {lock, Unlocked("supervisor")}
  <2>1. /\ vm' \in {vm, Stopping(sup.vm), Removing(sup.vm)} /\ lock' \in {lock, Unlocked("supervisor")}
        /\ sup'.pc = "removed" \/ lock' # lock => vm' = Removing(sup.vm)
    BY <1>2, <1>3, Destroys
  <2> QED BY <1>3, <2>1, VMMoves
<1>5. \A w : Unexported(w)' <=> Unexported(w)
  BY DEF DestroyExported, Unexported
<1>6. lock.by = "supervisor" /\ rx \notin Adopted /\ ~Unexported(sup.vm)
  BY <1>2 DEF IInv, Locks, Owning, Exporting
<1>7. VMShape'
  BY <1>2, <1>3, <1>4 DEF IInv, VMShape, Running, DestroyExported
<1>8. Locks'
  BY <1>2, <1>4, <1>6 DEF IInv, Locks, Owning, Running, Free, Unlocked, DestroyExported
<1>9. Recovering'
  BY <1>5, <1>6 DEF IInv, Recovering, Adopted, DestroyExported
<1>10. Exporting'
  BY <1>2, <1>4, <1>5, <1>6 DEF IInv, Exporting, Recovering, Saving, DestroyExported
<1>11. OneRecord'
  BY <1>2, <1>5, <1>6 DEF OneRecord, Saving, DestroyExported
<1>12. FrozenRecordAdoptable'
  BY <1>3, <1>4, <1>5, <1>6 DEF IInv, FrozenRecordAdoptable, VMShape, DestroyExported
<1> QED BY <1>1, <1>7, <1>8, <1>9, <1>10, <1>11, <1>12 DEF IInv

LEMMA FinishStep == ASSUME IInv, FinishExport PROVE IInv'
<1> USE DEF files, history, bounds
<1>1. TypeOK'
  BY ExportTypes DEF ExportStep
<1>2. /\ sup'.pc = "serve" /\ sup'.vm = sup.vm /\ sup'.sess = "exported" /\ sup.pc = "removed"
      /\ record' = record \/ (sup.saved /\ record' = NoRecord)
  BY SupIs DEF FinishExport, Finishing
<1>3. record' = record \/ (record'.vm = 0 /\ ~record'.frozen /\ rx \notin Adopted \cup {"finish"})
  BY <1>2 DEF NoRecord, IInv, Exporting
<1>4. \A w : Unexported(w)' <=> Unexported(w)
  BY DEF FinishExport, Finishing, Unexported
<1>5. ~Unexported(sup.vm)
  BY <1>2 DEF IInv, Exporting
<1>6. VMShape'
  BY <1>2, <1>3 DEF IInv, VMShape, FinishExport, Finishing
<1>7. Locks'
  BY <1>2, <1>3 DEF IInv, Locks, Owning, Running, FinishExport, Finishing
<1>8. Recovering'
  BY <1>3, <1>4 DEF IInv, Recovering, Adopted, FinishExport, Finishing
<1>9. Exporting' /\ OneRecord'
  BY <1>2, <1>3, <1>4, <1>5 DEF Exporting, OneRecord, Saving
<1>10. FrozenRecordAdoptable'
  BY <1>3, <1>4 DEF IInv, FrozenRecordAdoptable, FinishExport, Finishing
<1> QED BY <1>1, <1>6, <1>7, <1>8, <1>9, <1>10 DEF IInv

-----------------------------------------------------------------------------
(* The end of a Supervisor.                                                   *)

LEMMA DiscardLiveStep == ASSUME IInv, NotQueued, DiscardLive PROVE IInv'
<1> USE DEF files, history, bounds
<1>1. TypeOK'
  BY OperateTypes DEF Operate
<1>2. /\ sup'.vm = sup.vm /\ sup'.pc = "serve" /\ sup.pc = "serve" /\ sup.sess \in Accepted
      /\ \/ sup'.sess = "destroyed" /\ Destroyed(sup.vm)
         \/ sup'.sess = "failed" /\ DestroyFails(sup.vm)
  BY Types DEF DiscardLive, SupRecord
<1>3. sup.sess \in Running /\ (vm[sup.vm] # "removed" => Owning)
  BY <1>2, Accepts
<1>4. sup.vm \in VMs /\ sup.vm # 0 /\ (record.vm # 0 => record.vm \in VMs)
  BY <1>2, Types DEF VMs, Records
<1>5. /\ \A w \in VMs : w # sup.vm => vm'[w] = vm[w]
      /\ vm'[sup.vm] \in {vm[sup.vm], "stopped", "removed"}
      /\ sup'.sess = "destroyed" \/ lock' # lock \/ vm[sup.vm] = "removed" => vm'[sup.vm] = "removed"
      /\ lock' \in {lock, Unlocked("supervisor")}
  <2>1. /\ vm' \in {vm, Stopping(sup.vm), Removing(sup.vm)} /\ lock' \in {lock, Unlocked("supervisor")}
        /\ sup'.sess = "destroyed" \/ lock' # lock => vm' = Removing(sup.vm)
        /\ vm[sup.vm] = "removed" => vm' \in {vm, Removing(sup.vm)}
    BY <1>2, <1>4, Destroys
  <2> QED BY <1>4, <2>1, VMMoves
<1>6. ~Unexported(sup.vm)' /\ \A w : Unexported(w)' => Unexported(w) /\ w # sup.vm
  <2>1. discarded' = discarded \cup {sup.vm} /\ UNCHANGED <<work, persisted>>
    BY DEF DiscardLive
  <2>2. \A w : Unexported(w)' => Unexported(w) /\ w # sup.vm
    BY <2>1 DEF Unexported
  <2>3. ~Unexported(sup.vm)'
    BY <1>2, <2>1 DEF Unexported
  <2> QED BY <2>2, <2>3
<1>7. rx = "running" => record.vm # 0 /\ record.vm # sup.vm
  BY <1>3 DEF IInv, Locks, Recovering, Adopted
<1>8. VMShape'
  BY <1>2, <1>3, <1>4, <1>5 DEF IInv, VMShape, Running, DiscardLive
<1>9. Locks'
  <2>1. Owning' => Owning /\ lock' = lock
    BY <1>2, <1>3, <1>5 DEF Owning, Running
  <2> QED BY <1>2, <1>5, <2>1 DEF IInv, Locks, Unlocked, Adopted, Free, DiscardLive
<1>10. Recovering'
  BY <1>4, <1>5, <1>6, <1>7 DEF IInv, Recovering, Adopted, DiscardLive
<1>11. Exporting'
  BY <1>2 DEF Exporting, Saving
<1>12. OneRecord'
  BY <1>2, <1>6 DEF OneRecord, Saving, DiscardLive
<1>13. FrozenRecordAdoptable'
  BY <1>4, <1>5, <1>6 DEF IInv, FrozenRecordAdoptable, VMShape, DiscardLive
<1> QED BY <1>1, <1>8, <1>9, <1>10, <1>11, <1>12, <1>13 DEF IInv

\* A Supervisor is gone; it has touched its VM only if the session was its own.
Leaves ==
  /\ sup' = NoProcess /\ lock' = Unlocked("supervisor")
  /\ \A v \in VMs : \/ vm'[v] = vm[v]
                    \/ v = sup.vm /\ sup.pc = "serve" /\ sup.sess \in Running /\ vm'[v] # "absent"
  /\ UNCHANGED <<work, record, pending, rx, persisted, discarded>>

LEMMA LeavesKeeps == ASSUME IInv, TypeOK', Leaves PROVE IInv'
<1>1. \A v : Unexported(v)' <=> Unexported(v)
  BY DEF Leaves, Unexported
<1>2. record.vm # 0 => record.vm \in VMs
  BY Types DEF Records, VMs
<1>3. sup'.pc = "none" /\ sup'.vm = 0 /\ sup'.sess = "none"
  BY DEF Leaves, NoProcess
<1>4. rx = "running" => vm'[record.vm] = vm[record.vm]
  BY <1>2 DEF IInv, Locks, Recovering, Owning, Adopted, Leaves
<1>5. record.frozen /\ Unexported(record.vm) => record.vm # 0 /\ vm'[record.vm] = vm[record.vm]
  BY <1>2 DEF IInv, OneRecord, VMShape, Running, Leaves
<1>6. VMShape'
  BY <1>2, <1>3 DEF IInv, VMShape, NoProcess, Leaves
<1>7. Locks'
  BY <1>3 DEF IInv, Locks, Owning, Adopted, Unlocked, Free, Leaves
<1>8. Recovering'
  BY <1>1, <1>4 DEF IInv, Recovering, Leaves
<1>9. Exporting'
  BY <1>3 DEF Exporting, Saving
<1>10. OneRecord'
  BY <1>1, <1>3, <1>5 DEF OneRecord, Leaves
<1>11. FrozenRecordAdoptable'
  BY <1>1, <1>5 DEF IInv, FrozenRecordAdoptable, Leaves
<1> QED BY <1>6, <1>7, <1>8, <1>9, <1>10, <1>11 DEF IInv

LEMMA LeaveStep == ASSUME IInv, Shutdown \/ KillSupervisor PROVE IInv'
<1> USE DEF files, history, bounds
<1>1. TypeOK'
  BY EndTypes DEF EndStep, Die
<1>2. CASE Shutdown
  <2>1. sup.pc = "serve" /\ sup.sess \in Running \cup {"recovery", "exported", "destroyed"}
    BY <1>2, Types DEF Shutdown, Ending, IInv, VMShape, SupRecord, SessionStates, Running
  <2>2. sup' = NoProcess /\ lock' = Unlocked("supervisor")
    BY <1>2 DEF Shutdown, Ending
  <2>3. UNCHANGED <<work, record, pending, rx, persisted, discarded>>
    BY <1>2 DEF Shutdown, Ending
  <2>4. vm' = vm \/ (sup.sess \in Running /\ vm' \in Undecided(sup.vm) \cup {Removing(sup.vm)})
    BY <1>2, <2>1 DEF Shutdown, Ending
  <2>5. \A v \in VMs : \/ vm'[v] = vm[v]
                       \/ v = sup.vm /\ sup.sess \in Running /\ vm'[v] # "absent"
    <3>1. CASE vm' = vm
      BY <3>1
    <3>2. CASE sup.sess \in Running /\ vm' \in Undecided(sup.vm) \cup {Removing(sup.vm)}
      <4>1. \A v \in VMs : vm'[v] = vm[v] \/ (v = sup.vm /\ vm'[v] \in {"stopped", "removed"})
        BY <3>2, VMMoves DEF Undecided
      <4> QED BY <3>2, <4>1
    <3> QED BY <2>4, <3>1, <3>2
  <2>6. Leaves
    BY <2>1, <2>2, <2>3, <2>5 DEF Leaves
  <2> QED BY <1>1, <2>6, LeavesKeeps
<1>3. CASE KillSupervisor
  <2>1. Leaves
    BY <1>3 DEF KillSupervisor, Leaves
  <2> QED BY <1>1, <2>1, LeavesKeeps
<1> QED BY <1>2, <1>3

LEMMA RestartStep == ASSUME IInv, HostRestart PROVE IInv'
<1> USE DEF files, history, bounds
<1>1. TypeOK'
  BY EndTypes DEF Die
<1>2. sup' = NoProcess /\ sup'.pc = "none" /\ sup'.vm = 0 /\ sup'.sess = "none" /\ lock' = Free /\ rx' = "none"
  BY DEF HostRestart, NoProcess
<1>3. \A v \in VMs : vm'[v] = (IF vm[v] = "running" THEN "stopped" ELSE vm[v])
  BY DEF HostRestart
<1>4. \A w : Unexported(w)' <=> Unexported(w)
  BY DEF HostRestart, Unexported
<1>5. record.vm # 0 => record.vm \in VMs
  BY Types DEF Records, VMs
<1>6. VMShape'
  BY <1>2, <1>3, <1>5 DEF IInv, VMShape, HostRestart
<1>7. Locks'
  BY <1>2 DEF Locks, Owning, Adopted, Free
<1>8. Recovering' /\ Exporting'
  BY <1>2 DEF Recovering, Exporting, Saving, Adopted
<1>9. FrozenRecordAdoptable'
  BY <1>3, <1>4, <1>5 DEF IInv, FrozenRecordAdoptable, VMShape, HostRestart
<1>10. OneRecord'
  BY <1>2 DEF IInv, VMShape, OneRecord, HostRestart
<1> QED BY <1>1, <1>6, <1>7, <1>8, <1>9, <1>10 DEF IInv

-----------------------------------------------------------------------------
(* A recorded VM is taken up again, or discarded.                             *)

\* The command takes over a recorded VM that nobody owns.
LEMMA RecoverFrozenStep == ASSUME IInv, RecoverFrozen PROVE IInv'
<1> USE DEF files, history, bounds
<1>1. TypeOK'
  BY CommandTypes DEF Command
<1>2. /\ record.vm # 0 /\ record.vm \in VMs /\ record.frozen /\ rx = "none"
      /\ pending # 0 => ~Unexported(record.vm)
  BY Types DEF RecoverFrozen, Recoverable, Records, VMs, IInv, VMShape, Unexported
<1>3. \/ /\ rx' \in {"persist", "destroy"} /\ (rx' = "destroy" => pending # 0)
         /\ lock.by = "nobody" /\ vm[record.vm] = "stopped"
         /\ lock'.by = "export" /\ lock'.vm = record.vm
      \/ rx' = "record" /\ lock' = lock
  BY DEF RecoverFrozen, Adopt
<1>4. \A w : Unexported(w)' <=> Unexported(w)
  BY DEF RecoverFrozen, Unexported
<1>5. ~(sup.pc = "removed" /\ sup.saved /\ vm[record.vm] = "stopped")
  BY <1>2 DEF IInv, Exporting, Saving
<1>6. VMShape' /\ OneRecord' /\ FrozenRecordAdoptable'
  BY <1>4 DEF IInv, VMShape, OneRecord, FrozenRecordAdoptable, RecoverFrozen
<1>7. Locks'
  BY <1>2, <1>3 DEF IInv, Locks, Owning, Adopted, RecoverFrozen
<1>8. Recovering'
  BY <1>2, <1>3, <1>4 DEF Recovering, Adopted, RecoverFrozen
<1>9. Exporting'
  BY <1>3, <1>4, <1>5 DEF IInv, Exporting, Adopted, RecoverFrozen
<1> QED BY <1>1, <1>6, <1>7, <1>8, <1>9 DEF IInv

LEMMA RecoverRefusedStep == ASSUME IInv, RecoverRefused PROVE IInv'
<1> USE DEF files, history, bounds
<1>1. TypeOK'
  BY CommandTypes DEF Command
<1>2. /\ record.vm # 0 /\ record.vm \in VMs /\ ~record.frozen /\ rx = "none"
      /\ pending # 0 => ~Unexported(record.vm)
  BY Types DEF RecoverRefused, Recoverable, Records, VMs, IInv, VMShape, Unexported
<1>3. \/ /\ rx' = "running" /\ lock.by = "nobody" /\ vm[record.vm] = "stopped"
         /\ lock'.by = "export" /\ lock'.vm = record.vm /\ vm' = [vm EXCEPT ![record.vm] = "running"]
      \/ /\ rx' \in {"finish", "record"} /\ (rx' = "finish" => pending # 0)
         /\ UNCHANGED <<vm, lock>>
  BY DEF RecoverRefused, Adopt
<1>4. \A w : Unexported(w)' <=> Unexported(w)
  BY DEF RecoverRefused, Unexported
<1>5. /\ \A w \in VMs : w # record.vm => vm'[w] = vm[w]
      /\ vm'[record.vm] = vm[record.vm] \/ (vm[record.vm] = "stopped" /\ vm'[record.vm] = "running")
      /\ rx' = "running" => vm'[record.vm] = "running"
  <2>1. CASE vm' = [vm EXCEPT ![record.vm] = "running"] /\ vm[record.vm] = "stopped"
    BY <1>2, <2>1, VMMoves
  <2>2. CASE vm' = vm /\ rx' # "running"
    BY <2>2
  <2> QED BY <1>3, <2>1, <2>2
<1>6. sup.pc # "none" => sup.vm \in VMs
  BY Types
<1>7. VMShape'
  BY <1>2, <1>5, <1>6 DEF IInv, VMShape, RecoverRefused
<1>8. Locks'
  <2>1. sup.pc # "none" => (vm'[sup.vm] = "removed" <=> vm[sup.vm] = "removed")
    BY <1>5, <1>6
  <2>2. Owning' <=> Owning
    BY <2>1 DEF Owning, RecoverRefused
  <2> QED BY <1>2, <1>3, <2>2 DEF IInv, Locks, Adopted, RecoverRefused
<1>9. Recovering'
  BY <1>2, <1>3, <1>4, <1>5 DEF Recovering, Adopted, RecoverRefused
<1>10. Exporting'
  <2>1. sup.pc \in {"frozen", "saved"} => lock.by # "nobody"
    BY DEF IInv, Locks, Owning
  <2>2. sup.pc \in {"frozen", "saved"} => vm' = vm
    BY <1>3, <2>1
  <2>3. sup.pc = "removed" => vm'[sup.vm] = "removed" /\ ~sup.saved
    BY <1>2, <1>5, <1>6 DEF IInv, Exporting, Saving
  <2> QED BY <1>4, <2>2, <2>3 DEF IInv, Exporting, Saving, RecoverRefused
<1>11. OneRecord' /\ FrozenRecordAdoptable'
  BY <1>2, <1>4 DEF IInv, OneRecord, FrozenRecordAdoptable, RecoverRefused
<1> QED BY <1>1, <1>7, <1>8, <1>9, <1>10, <1>11 DEF IInv

LEMMA ExportAdoptedStep == ASSUME IInv, ExportAdopted PROVE IInv'
<1> USE DEF files, history, bounds
<1>1. TypeOK'
  BY RecoveryTypes DEF RecoveryStep
<1>2. /\ rx = "running" /\ record.vm # 0 /\ record.vm \in VMs /\ ~record.frozen
      /\ vm[record.vm] = "running" /\ lock.by = "export" /\ lock.vm = record.vm
  BY Types DEF ExportAdopted, IInv, Recovering, Locks, Adopted, Records, VMs
<1>3. \/ /\ rx' = (IF record.vm \in work THEN "persist" ELSE "destroy") /\ lock' = lock
      \/ rx' = "none" /\ lock' = Free
  BY DEF ExportAdopted
<1>4. /\ \A w \in VMs : w # record.vm => vm'[w] = vm[w]
      /\ vm'[record.vm] \in {"running", "stopped"}
  <2>1. CASE vm' = Stopping(record.vm)
    BY <1>2, <2>1, VMMoves
  <2>2. CASE vm' = vm
    BY <1>2, <2>2
  <2> QED BY <2>1, <2>2 DEF ExportAdopted
<1>5. \A w : Unexported(w)' <=> Unexported(w)
  BY DEF ExportAdopted, Unexported
<1>6. ~Owning
  BY <1>2 DEF IInv, Locks
<1>7. sup.pc # "none" => sup.vm \in VMs
  BY Types
<1>8. VMShape'
  BY <1>2, <1>4, <1>7 DEF IInv, VMShape, ExportAdopted
<1>9. Locks'
  <2>1. sup.pc # "none" => (vm'[sup.vm] = "removed" <=> vm[sup.vm] = "removed")
    BY <1>2, <1>4, <1>7
  <2>2. ~Owning'
    BY <1>6, <2>1 DEF Owning, ExportAdopted
  <2> QED BY <1>2, <1>3, <2>2 DEF Locks, Adopted, Free, ExportAdopted
<1>10. Recovering'
  BY <1>2, <1>3, <1>5 DEF Recovering, Adopted, Unexported, ExportAdopted
<1>11. Exporting'
  <2>1. sup.pc \notin {"frozen", "saved", "persisted"}
    BY <1>6 DEF Owning
  <2>2. sup.pc = "removed" => sup.vm # record.vm /\ vm'[sup.vm] = "removed" /\ ~sup.saved
    BY <1>2, <1>4, <1>7 DEF IInv, Exporting, Adopted
  <2> QED BY <1>5, <2>1, <2>2 DEF IInv, Exporting, Saving, ExportAdopted
<1>12. OneRecord' /\ FrozenRecordAdoptable'
  BY <1>2, <1>5 DEF IInv, OneRecord, FrozenRecordAdoptable, ExportAdopted
<1> QED BY <1>1, <1>8, <1>9, <1>10, <1>11, <1>12 DEF IInv

LEMMA PersistAdoptedStep == ASSUME IInv, PersistAdopted PROVE IInv'
<1> USE DEF files, history, bounds
<1>1. TypeOK'
  BY RecoveryTypes DEF RecoveryStep
<1>2. /\ rx = "persist" /\ record.vm # 0 /\ record.vm \in VMs
      /\ lock.by = "export" /\ lock.vm = record.vm
  BY Types DEF PersistAdopted, IInv, Recovering, Locks, Adopted, Records, VMs
<1>3. \/ /\ rx' = "destroy" /\ lock' = lock
         /\ pending' = record.vm /\ persisted' = persisted \cup {record.vm}
      \/ rx' = "none" /\ lock' = Free /\ UNCHANGED <<pending, persisted>>
  BY DEF PersistAdopted
<1>4. \A w : Unexported(w)' => Unexported(w)
  BY DEF PersistAdopted, Unexported
<1>5. ~Owning
  BY <1>2 DEF IInv, Locks
<1>6. VMShape'
  BY <1>3 DEF IInv, VMShape, PersistAdopted
<1>7. Locks'
  <2>1. ~Owning'
    BY <1>5 DEF Owning, PersistAdopted
  <2> QED BY <1>2, <1>3, <2>1 DEF Locks, Adopted, Free, PersistAdopted
<1>8. Recovering'
  BY <1>2, <1>3 DEF Recovering, Adopted, Unexported, PersistAdopted
<1>9. Exporting'
  BY <1>2, <1>4 DEF IInv, Exporting, Adopted, PersistAdopted
<1>10. OneRecord' /\ FrozenRecordAdoptable'
  BY <1>4 DEF IInv, OneRecord, FrozenRecordAdoptable, PersistAdopted
<1> QED BY <1>1, <1>6, <1>7, <1>8, <1>9, <1>10 DEF IInv

LEMMA DestroyAdoptedStep == ASSUME IInv, DestroyAdopted PROVE IInv'
<1> USE DEF files, history, bounds
<1>1. TypeOK'
  BY RecoveryTypes DEF RecoveryStep
<1>2. /\ rx \in {"destroy", "finish"} /\ record.vm # 0 /\ record.vm \in VMs
      /\ ~Unexported(record.vm) /\ rx' \in {"none", "record"}
  BY Types DEF DestroyAdopted, IInv, Recovering, Adopted, Records, VMs
<1>3. /\ \A w \in VMs : w # record.vm => vm'[w] = vm[w]
      /\ vm'[record.vm] = vm[record.vm] \/ vm'[record.vm] = "removed"
  <2>1. CASE vm' = Removing(record.vm)
    BY <1>2, <2>1, VMMoves
  <2>2. CASE vm' = vm
    BY <2>2
  <2> QED BY <2>1, <2>2 DEF DestroyAdopted
<1>4. \A w : Unexported(w)' <=> Unexported(w)
  BY DEF DestroyAdopted, Unexported
<1>5. lock' = IF lock.by = "export" THEN Free ELSE lock
  BY DEF DestroyAdopted, Unlocked
<1>6. sup.pc # "none" => sup.vm \in VMs
  BY Types
<1>7. VMShape'
  <2>1. sup.pc \in {"starting", "serve"} /\ sup.sess \in {"none", "running", "paused"} =>
          record.vm # sup.vm
    BY DEF IInv, OneRecord, Saving
  <2> QED BY <1>2, <1>3, <1>6, <2>1 DEF IInv, VMShape, DestroyAdopted
<1>8. Locks'
  <2>1. Owning' => Owning
    BY <1>3, <1>6 DEF Owning, DestroyAdopted
  <2> QED BY <1>2, <1>5, <2>1 DEF IInv, Locks, Adopted, Free, DestroyAdopted
<1>9. Recovering'
  BY <1>2 DEF Recovering, Adopted
<1>10. Exporting'
  <2>1. sup.pc \in {"frozen", "saved"} /\ Unexported(sup.vm) => vm'[sup.vm] = vm[sup.vm]
    BY <1>2, <1>3, <1>6
  <2>2. sup.pc = "removed" => vm'[sup.vm] = "removed"
    BY <1>3, <1>6 DEF IInv, Exporting
  <2> QED BY <1>2, <1>4, <2>1, <2>2 DEF IInv, Exporting, Adopted, DestroyAdopted
<1>11. OneRecord' /\ FrozenRecordAdoptable'
  BY <1>2, <1>4 DEF IInv, OneRecord, FrozenRecordAdoptable, DestroyAdopted
<1> QED BY <1>1, <1>7, <1>8, <1>9, <1>10, <1>11 DEF IInv

\* The record goes when its VM has gone, or when the user discards it.
Drops ==
  /\ rx \in {"none", "record"} /\ rx' = "none" /\ record' = NoRecord
  /\ discarded \subseteq discarded'
  /\ UNCHANGED <<vm, work, lock, sup, pending, persisted>>

LEMMA DropsKeeps == ASSUME IInv, TypeOK', Drops PROVE IInv'
<1>1. \A w : Unexported(w)' => Unexported(w)
  BY DEF Drops, Unexported
<1>2. record'.vm = 0 /\ ~record'.frozen
  BY DEF Drops, NoRecord
<1>3. VMShape' /\ OneRecord' /\ FrozenRecordAdoptable'
  BY <1>2 DEF IInv, VMShape, OneRecord, FrozenRecordAdoptable, Drops
<1>4. Locks' /\ Recovering'
  BY DEF IInv, Locks, Owning, Recovering, Adopted, Drops
<1>5. Exporting'
  BY <1>1, <1>2 DEF IInv, Exporting, Adopted, Drops
<1> QED BY <1>3, <1>4, <1>5 DEF IInv

LEMMA DropStep == ASSUME IInv, RemoveRecord \/ DiscardRecorded PROVE IInv'
<1> USE DEF files, history, bounds
<1>1. TypeOK'
  BY RecoveryTypes, CommandTypes DEF RecoveryStep, Command
<1>2. CASE RemoveRecord
  <2>1. Drops
    BY <1>2 DEF RemoveRecord, Drops
  <2> QED BY <1>1, <2>1, DropsKeeps
<1>3. CASE DiscardRecorded
  <2>1. CASE vm[record.vm] = "stopped" /\ vm' = Removing(record.vm) /\ record' = record
    <3>1. record.vm \in VMs
      BY <1>3, Types DEF DiscardRecorded, Records, VMs
    <3>2. \A v \in VMs : \/ vm'[v] = vm[v]
                         \/ vm'[v] = "removed" /\ vm[v] = "stopped" /\ v = record.vm
      BY <2>1, <3>1, VMMoves
    <3>3. ~Claimed(record.vm)
      BY DEF Claimed, IInv, OneRecord, Saving
    <3>4. Aside
      BY <1>3, <2>1, <3>2, <3>3 DEF DiscardRecorded, Aside, IInv, VMShape
    <3> QED BY <1>1, <3>4, AsideKeeps
  <2>2. CASE record' = NoRecord /\ vm' = vm
    <3>1. Drops
      BY <1>3, <2>2 DEF DiscardRecorded, Drops
    <3> QED BY <1>1, <3>1, DropsKeeps
  <2> QED BY <1>3, <2>1, <2>2 DEF DiscardRecorded
<1> QED BY <1>2, <1>3

LEMMA KillExportStep == ASSUME IInv, KillExport PROVE IInv'
<1> USE DEF files, history, bounds
<1>1. TypeOK'
  BY EndTypes DEF Die
<1>2. rx' = "none" /\ lock' = IF lock.by = "export" THEN Free ELSE lock
  BY DEF KillExport, Unlocked
<1>3. \A w : Unexported(w)' <=> Unexported(w)
  BY DEF KillExport, Unexported
<1>4. VMShape'
  BY DEF IInv, VMShape, KillExport
<1>5. Locks'
  <2>1. Owning' <=> Owning
    BY DEF Owning, KillExport
  <2> QED BY <1>2, <2>1 DEF IInv, Locks, Adopted, Free, KillExport
<1>6. Recovering'
  BY <1>2 DEF Recovering, Adopted
<1>7. Exporting'
  BY <1>2, <1>3 DEF IInv, Exporting, Adopted, KillExport
<1>8. OneRecord' /\ FrozenRecordAdoptable'
  BY <1>3 DEF IInv, OneRecord, FrozenRecordAdoptable, KillExport
<1> QED BY <1>1, <1>4, <1>5, <1>6, <1>7, <1>8 DEF IInv

-----------------------------------------------------------------------------
(* Every step.                                                                *)

LEMMA InitIInv == ASSUME Init PROVE IInv
<1>1. TypeOK
  <2>1. vm \in [VMs -> {"absent", "running", "stopped", "removed"}] /\ lock \in LockRecord
    BY DEF Init, Free, LockRecord
  <2>2. sup \in SupRecord /\ record \in Records
    BY DEF Init, NoRecord, NoProcess, Steps, SessionStates, SupRecord, Records
  <2>3. mode \in {"secure", "dev"} /\ faults \in 0 .. MaxFaults /\ crashes \in 0 .. MaxCrashes
    BY DEF Init
  <2>4. /\ work = {} /\ starter = FALSE /\ locator = 0 /\ pending = 0 /\ rx = "none"
        /\ persisted = {} /\ applied = {} /\ discarded = {}
    BY DEF Init
  <2>5. 0 \in 0 .. MaxVMs
    OBVIOUS
  <2>6. /\ work \subseteq VMs /\ starter \in BOOLEAN /\ locator \in 0 .. MaxVMs /\ pending \in 0 .. MaxVMs
        /\ rx \in {"none", "running", "persist", "destroy", "finish", "record"}
        /\ persisted \subseteq VMs /\ applied \subseteq VMs /\ discarded \subseteq VMs
    BY <2>4, <2>5
  <2> QED BY <2>1, <2>2, <2>3, <2>6, Zenon DEF TypeOK, LockRecord, SupRecord, Records
<1>2. /\ sup.pc = "none" /\ sup.sess = "none" /\ sup = NoProcess /\ record.vm = 0 /\ ~record.frozen
      /\ lock.by = "nobody" /\ rx = "none" /\ pending = 0
  BY DEF Init, NoProcess, NoRecord, Free
<1> QED
  BY <1>1, <1>2 DEF IInv, VMShape, Locks, Owning, Adopted, Recovering, Exporting, Saving, OneRecord,
     FrozenRecordAdoptable

LEMMA StepIInv == ASSUME NotQueued, IInv, [Next]_vars PROVE IInv'
<1>1. CASE UNCHANGED vars
  <2>1. TypeOK'
    BY <1>1 DEF IInv, TypeOK, vars, files, history, bounds
  <2> QED BY <1>1, <2>1, CommandAside, AsideKeeps
<1>2. CASE Next
  <2>1. TypeOK'
    BY <1>2, StepTypes
  <2>2. CASE Start
    BY <2>1, <2>2, CommandAside, AsideKeeps, OperationHandles, HandlesKeeps, CreateStep DEF Start
  <2>3. CASE Operate
    BY <2>1, <2>3, OperationHandles, HandlesKeeps, GuestWorksStep, DiscardLiveStep DEF Operate
  <2>4. CASE ExportStep
    BY <2>1, <2>4, OperationHandles, HandlesKeeps, RetainStep, FreezeStep, SaveStep, PersistStep,
       DestroyStep, FinishStep DEF ExportStep
  <2>5. CASE EndStep \/ Die
    BY <2>1, <2>5, CommandAside, AsideKeeps, LeaveStep, RestartStep, KillExportStep DEF EndStep, Die
  <2>6. CASE RecoveryStep
    BY <2>6, ExportAdoptedStep, PersistAdoptedStep, DestroyAdoptedStep, DropStep DEF RecoveryStep
  <2>7. CASE Command
    BY <2>1, <2>7, CommandAside, AsideKeeps, RecoverFrozenStep, RecoverRefusedStep,
       DropStep DEF Command
  <2> QED BY <1>2, <2>2, <2>3, <2>4, <2>5, <2>6, <2>7 DEF Next
<1> QED BY <1>1, <1>2

LEMMA Inductive == ASSUME NotQueued PROVE Spec => []IInv
<1>1. Init => IInv
  BY InitIInv
<1>2. IInv /\ [Next]_vars => IInv'
  BY StepIInv
<1> QED BY <1>1, <1>2, PTL DEF Spec

(* A frozen record whose Work Set is in no other place names a stopped VM     *)
(* (persistFrozenRecovery adopts it, internal/cli/dev_recovery.go): saved     *)
(* between the freeze and the removal, it is never the record of a VM that    *)
(* a Supervisor, a recovery or a cleanup may start or remove.                 *)
THEOREM RecordAdoptable == ASSUME NotQueued PROVE Spec => []FrozenRecordAdoptable
<1>1. IInv => FrozenRecordAdoptable
  BY DEF IInv
<1> QED BY <1>1, Inductive, PTL

-----------------------------------------------------------------------------
(* What a step may remove.                                                    *)

\* The three ways in which work may go with its VM.
Lost(v) == \/ v \in discarded'
           \/ sup.exit /\ sup.vm = v /\ sup.sess \in {"running", "paused", "failed"}
           \/ vm[v] = "running" /\ lock.vm # v /\ record.vm = 0

LEMMA AsideLoses ==
  ASSUME IInv, Aside, NEW v \in VMs, Exists(v), vm'[v] = "removed", Unexported(v)
  PROVE  Lost(v)
BY DEF Aside, Orphans, Exists, Lost

LEMMA StopsLoseNothing ==
  ASSUME IInv, NEW v \in VMs, Exists(v), vm'[v] = "removed",
         vm' = vm \/ Handles \/ (\E u \in VMs : CreateVM(u)) \/ Freeze \/ RecoverRefused
         \/ ExportAdopted \/ HostRestart
  PROVE  FALSE
<1>1. vm[v] # "removed"
  BY DEF Exists
<1>2. CASE vm' = vm \/ Handles \/ HostRestart
  BY <1>1, <1>2 DEF Handles, HostRestart
<1>3. ASSUME NEW u \in VMs, CreateVM(u) PROVE FALSE
  <2>1. vm' = [vm EXCEPT ![u] = "running"]
    BY <1>3 DEF CreateVM
  <2> QED BY <1>1, <2>1, Types
<1>4. CASE Freeze
  BY <1>1, <1>4, VMMoves, Types DEF Freeze
<1>5. CASE RecoverRefused
  <2>1. record.vm \in VMs
    BY <1>5, Types DEF RecoverRefused, Recoverable, Records, VMs
  <2>2. vm' = vm \/ vm' = [vm EXCEPT ![record.vm] = "running"]
    BY <1>5 DEF RecoverRefused
  <2> QED BY <1>1, <2>1, <2>2, Types
<1>6. CASE ExportAdopted
  <2>1. record.vm \in VMs
    BY <1>6, Types DEF ExportAdopted, IInv, Recovering, Adopted, Records, VMs
  <2> QED BY <1>1, <1>6, <2>1, VMMoves DEF ExportAdopted
<1> QED BY <1>2, <1>3, <1>4, <1>5, <1>6

LEMMA RemovalsLose ==
  ASSUME IInv, NEW v \in VMs, Exists(v), vm'[v] = "removed", Unexported(v),
         DestroyExported \/ DestroyAdopted \/ DiscardLive \/ DiscardRecorded \/ Shutdown
  PROVE  Lost(v)
<1>1. vm[v] # "removed"
  BY DEF Exists
<1>2. CASE DestroyExported
  <2>0. sup.vm \in VMs
    BY <1>2, Types DEF DestroyExported
  <2>1. ~Unexported(sup.vm) /\ vm' \in {vm, Stopping(sup.vm), Removing(sup.vm)}
    BY <1>2, <2>0, Destroys DEF DestroyExported, IInv, Exporting
  <2> QED BY <1>1, <2>1, VMMoves
<1>3. CASE DestroyAdopted
  <2>1. ~Unexported(record.vm) /\ vm' \in {vm, Removing(record.vm)}
    BY <1>3 DEF DestroyAdopted, IInv, Recovering
  <2> QED BY <1>1, <2>1, VMMoves
<1>4. CASE DiscardLive
  <2>0. sup.vm \in VMs
    BY <1>4, Types DEF DiscardLive
  <2>1. discarded' = discarded \cup {sup.vm} /\ vm' \in {vm, Stopping(sup.vm), Removing(sup.vm)}
    BY <1>4, <2>0, Destroys DEF DiscardLive
  <2> QED BY <1>1, <2>1, VMMoves DEF Lost
<1>5. CASE DiscardRecorded
  <2>1. discarded' = discarded \cup {record.vm} /\ vm' \in {vm, Removing(record.vm)}
    BY <1>5 DEF DiscardRecorded
  <2> QED BY <1>1, <2>1, VMMoves DEF Lost
<1>6. CASE Shutdown
  <2>1. /\ sup.pc = "serve" /\ sup.exit
        /\ \/ vm' = vm
           \/ /\ sup.sess \notin {"recovery", "exported", "destroyed"}
              /\ vm' \in {vm, Stopping(sup.vm), Removing(sup.vm)}
    BY <1>6 DEF Shutdown, Ending, Undecided
  <2>2. sup.sess \in {"recovery", "exported", "destroyed", "running", "paused", "failed"}
    BY <2>1, Types DEF IInv, VMShape, SupRecord, SessionStates
  <2>3. v = sup.vm
    BY <1>1, <2>1, VMMoves
  <2>4. vm' # vm
    BY <1>1
  <2> QED BY <2>1, <2>2, <2>3, <2>4 DEF Lost
<1> QED BY <1>2, <1>3, <1>4, <1>5, <1>6

LEMMA StepLoses ==
  ASSUME NotQueued, IInv, [Next]_vars, NEW v \in VMs, Exists(v), vm'[v] = "removed", Unexported(v)
  PROVE  Lost(v)
<1> USE AsideLoses, CommandAside, StopsLoseNothing, RemovalsLose
<1>1. CASE UNCHANGED vars
  BY <1>1
<1>2. CASE Start
  BY <1>2, OperationHandles DEF Start
<1>3. CASE Operate
  <2>1. GuestWorks => vm' = vm
    BY DEF GuestWorks
  <2> QED BY <1>3, <2>1, OperationHandles DEF Operate
<1>4. CASE ExportStep
  <2>1. RetainForRecovery \/ SaveFrozenRecord \/ PersistPending \/ RetainFrozen \/ FinishExport => vm' = vm
    BY DEF RetainForRecovery, Retaining, SaveFrozenRecord, PersistPending, RetainFrozen,
       FinishExport,
       Finishing
  <2> QED BY <1>4, <2>1, OperationHandles DEF ExportStep
<1>5. CASE EndStep \/ Die
  <2>1. KillSupervisor \/ KillExport => vm' = vm
    BY DEF KillSupervisor, KillExport
  <2> QED BY <1>5, <2>1 DEF EndStep, Die
<1>6. CASE RecoveryStep
  <2>1. PersistAdopted \/ RemoveRecord => vm' = vm
    BY DEF PersistAdopted, RemoveRecord
  <2> QED BY <1>6, <2>1 DEF RecoveryStep
<1>7. CASE Command
  <2>1. RecoverFrozen => vm' = vm
    BY DEF RecoverFrozen
  <2> QED BY <1>7, <2>1 DEF Command
<1> QED BY <1>1, <1>2, <1>3, <1>4, <1>5, <1>6, <1>7 DEF Next

(* Work that is in no Work Set goes with its VM only in three ways: the user  *)
(* discards it, the Supervisor that ends still has the session                *)
(* (supervisorShutdown), or the VM runs without owner and record (cleanup.Run).*)
(* An export, a recovery and their crashes at any step never lose it.         *)
THEOREM RetainedKept == ASSUME NotQueued PROVE Spec => RetainedWorkKept
<1>1. ASSUME IInv, [Next]_vars
      PROVE  [\A v \in VMs : Exists(v) /\ vm'[v] = "removed" /\ Unexported(v) =>
                \/ v \in discarded'
                \/ sup.exit /\ sup.vm = v /\ sup.sess \in {"running", "paused", "failed"}
                \/ vm[v] = "running" /\ lock.vm # v /\ record.vm = 0]_vars
  BY <1>1, StepLoses DEF Lost
<1> QED BY <1>1, Inductive, PTL DEF Spec, RetainedWorkKept

=============================================================================

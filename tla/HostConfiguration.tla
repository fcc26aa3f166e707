------------------------- MODULE HostConfiguration -------------------------
(***************************************************************************)
(* The host-only configuration: which OpenCode the installation runs       *)
(* (versions.json declares it, versions.lock.json and config.json bind it, *)
(* an update candidate waits in a quarantine) and how each Project is set  *)
(* up (project.json declares it, policy.json applies it and binds it to a  *)
(* dependency manifest).  Commands of several processes change these files *)
(* under two kinds of lock: the global operation lock, which an update or  *)
(* a setup takes exclusively and everything else shares, and one           *)
(* configuration lock per Project.  Two journals make the changes that     *)
(* touch more than one file recoverable.  A lock is never waited for: a    *)
(* command that finds one taken ends.                                      *)
(***************************************************************************)
EXTENDS Integers, FiniteSets

CONSTANTS Procs,        \* processes that run commands
          Projects,     \* Project directories
          Registered,   \* the Projects that are registered at the start
          Settings,     \* contents of a project.json
          Default,      \* the settings project init writes
          Shape,        \* Settings -> what a VM must be recreated for
          Ids,          \* identities of update candidates
          None,
          Channel,      \* the declaration that tracks v1-stable
          MaxManifest,  \* published versions are 1 .. MaxManifest
          MaxCommands, MaxFaults, MaxEdits   \* bounds of a run

ASSUME ConfigurationAssumption ==
    /\ None \notin Procs \cup Settings
    /\ Registered \subseteq Projects /\ Default \in Settings
    /\ DOMAIN Shape = Settings
    /\ {MaxManifest, MaxCommands, MaxFaults, MaxEdits} \subseteq Nat

VARIABLES
    decl,       \* versions.json: an exact version, Channel or None
    lock,       \* versions.lock.json: [gen, man] or None
    active,     \* the binding in config.json: [gen, man] or None
    journal,    \* updates/apply-journal.json
    candidate,  \* updates/candidate.json
    arts,       \* updates/artifacts: the candidates whose files are there
    conf,       \* project.json of a Project, or None
    policy,     \* policy.json: [dep, conf, rev] or None
    ctx,        \* .config-policy-transaction.json: a journal or None
    vm,         \* the Project's VM: what it was created with, or None
    served,     \* Projects whose Supervisor lives; it shares the operation lock
    ex, sh, cfg,   \* who holds the operation lock and the configuration locks
    run,        \* what each process is doing
    used        \* commands, faults and hand edits so far

files == <<decl, lock, active, journal, candidate, arts>>
project == <<conf, policy, ctx>>
vms == <<vm, served>>
locks == <<ex, sh, cfg>>
vars == <<files, project, vms, locks, run, used>>

(***************************************************************************)
(* Manifests.  0 is the bootstrap manifest in the form an older release    *)
(* wrote, which setup migrates to 1; the others stand for their version.   *)
(***************************************************************************)
Bootstrap == 1
Migrated(man) == IF man = 0 THEN Bootstrap ELSE man
Manifests == 0 .. MaxManifest
Forms(man) == {m \in Manifests : Migrated(m) = man}
Versions == 1 .. MaxManifest
Resolved(d) == IF d = Channel THEN Versions ELSE {d}

\* A lock in the form of an older release reads as what it migrates to.
LegacyLock == lock # None /\ lock.man = 0
LockState ==
    IF lock = None THEN [missing |-> TRUE, legacy |-> FALSE, gen |-> 1, man |-> Bootstrap]
    ELSE [missing |-> FALSE, legacy |-> LegacyLock, gen |-> lock.gen, man |-> Migrated(lock.man)]

\* loadVersionLock refuses a lock setup has to migrate; activeVersionLock also
\* compares config.json.
Usable == ~LockState.missing /\ ~LockState.legacy
IsActive == Usable /\ active = lock

\* requireActiveProjectDependency
BoundToActive(pol) == IsActive /\ pol.dep = lock.man

\* ListProjectStates sees the directory of a Project whose init was cut short.
Listed == {p \in Projects : policy[p] # None \/ ctx[p] # None}

Idle == [cmd |-> "none", at |-> "idle"]
At(c, cmds, at) == run[c].cmd \in cmds /\ run[c].at = at
Goto(c, at) == run' = [run EXCEPT ![c].at = at]

(***************************************************************************)
(* Locks.                                                                  *)
(***************************************************************************)
MayShareAlways == TRUE
MayShare == ex = None
MayExclude == ex = None /\ sh = {} /\ served = {}
ConfigFree(p) == cfg[p] = None

Released(c) == /\ ex' = IF ex = c THEN None ELSE ex
               /\ sh' = sh \ {c}
               /\ cfg' = [p \in Projects |-> IF cfg[p] = c THEN None ELSE cfg[p]]
End(c) == Released(c) /\ run' = [run EXCEPT ![c] = Idle]

Begin(c, r) == /\ run[c] = Idle
               /\ used.commands < MaxCommands
               /\ used' = [used EXCEPT !.commands = @ + 1]
               /\ run' = [run EXCEPT ![c] = r]

Fault == /\ used.faults < MaxFaults
         /\ used' = [used EXCEPT !.faults = @ + 1]

(***************************************************************************)
(* A Project's configuration transaction renames project.json, then        *)
(* policy.json; done counts the renames.  Recovery goes on only over a     *)
(* file that still has the content the journal names.                      *)
(***************************************************************************)
Transaction(c, old, newConf, newPolicy) ==
    [by |-> c, oldConf |-> old.conf, newConf |-> newConf,
     oldPolicy |-> old.pol, newPolicy |-> newPolicy, done |-> 0]

ConfHolds(p) == conf[p] = IF ctx[p].done = 0 THEN ctx[p].oldConf ELSE ctx[p].newConf
PolicyHolds(p) == policy[p] = IF ctx[p].done < 2 THEN ctx[p].oldPolicy ELSE ctx[p].newPolicy
Recoverable(p) == ctx[p] # None => ConfHolds(p) /\ PolicyHolds(p)

AfterRecovery(p) == IF ctx[p] = None THEN [conf |-> conf[p], pol |-> policy[p]]
                    ELSE [conf |-> ctx[p].newConf, pol |-> ctx[p].newPolicy]

Recovers(p) ==
    /\ Recoverable(p)
    /\ conf' = [conf EXCEPT ![p] = AfterRecovery(p).conf]
    /\ policy' = [policy EXCEPT ![p] = AfterRecovery(p).pol]

\* WriteTransaction recovers what was interrupted, stages the files under
\* names of its own, and writes its journal.
Journals(c, p, newConf, newPolicy) ==
    /\ Recovers(p)
    /\ ctx' = [ctx EXCEPT ![p] = Transaction(c, AfterRecovery(p), newConf, newPolicy)]

\* The file of the next rename is there: the journal is still the writer's
\* own, and no load has renamed the file.
Staged(c, p, done) == ctx[p] # None /\ ctx[p].by = c /\ ctx[p].done = done

\* loadEffectivePolicy: recover the transaction, then read the policy.
Loads(p) ==
    /\ Recovers(p) /\ AfterRecovery(p).pol # None
    /\ ctx' = [ctx EXCEPT ![p] = None]

\* loadPolicy refuses unless the declaration is what was applied.
Matches(seen) == seen.conf = seen.pol.conf

Rewritten(pol, dep) == [pol EXCEPT !.dep = dep, !.rev = @ + 1]
Compiled(pol, dep, declared) == [dep |-> dep, conf |-> declared, rev |-> pol.rev + 1]
NewPolicy(dep) == [dep |-> dep, conf |-> Default, rev |-> 0]
Declaration(pol) == pol.conf

\* A running Supervisor or a VM it has left behind.
NoVMOf(p) == vm[p] = None

(***************************************************************************)
(* versions set, versions track, and the user's editor on versions.json.   *)
(***************************************************************************)
Declarations == Versions \cup {Channel}

SetVersion(d) ==
    /\ MayShare /\ decl # None /\ d # decl
    /\ used.commands < MaxCommands
    /\ used' = [used EXCEPT !.commands = @ + 1]
    /\ decl' = d
    /\ UNCHANGED <<lock, active, journal, candidate, arts, project, vms, locks, run>>

EditVersions(d) ==
    /\ decl # None /\ d # decl /\ used.edits < MaxEdits
    /\ used' = [used EXCEPT !.edits = @ + 1]
    /\ decl' = d
    /\ UNCHANGED <<lock, active, journal, candidate, arts, project, vms, locks, run>>

(***************************************************************************)
(* update check: resolve the declaration, download the artifacts into the  *)
(* quarantine, write the candidate, remove the other artifacts.            *)
(***************************************************************************)
BeginCheck(c) ==
    /\ MayShare /\ decl # None
    /\ LockState.missing \/ IsActive
    /\ \E v \in Resolved(decl) :
         /\ v # LockState.man
         /\ Begin(c, [cmd |-> "check", at |-> "download",
                      cand |-> [id |-> None, decl |-> decl, base |-> lock,
                                target |-> v, fresh |-> TRUE]])
    /\ sh' = sh \cup {c}
    /\ UNCHANGED <<files, project, vms, ex, cfg>>

Download(c) ==
    /\ At(c, {"check"}, "download")
    /\ \E id \in Ids \ (arts \cup (IF candidate = None THEN {} ELSE {candidate.id})) :
         /\ arts' = arts \cup {id}
         /\ run' = [run EXCEPT ![c].at = "save", ![c].cand.id = id]
    /\ UNCHANGED <<decl, lock, active, journal, candidate, project, vms, locks, used>>

SaveCandidate(c) ==
    /\ At(c, {"check"}, "save")
    /\ candidate' = run[c].cand
    /\ Goto(c, "prune")
    /\ UNCHANGED <<decl, lock, active, journal, arts, project, vms, locks, used>>

PruneArtifacts(c) ==
    /\ At(c, {"check"}, "prune")
    /\ arts' = arts \cap {run[c].cand.id}
    /\ End(c)
    /\ UNCHANGED <<decl, lock, active, journal, candidate, project, vms, used>>

\* Any error after the download removes the check's own artifacts, even when
\* the candidate that names them has been written.
CheckFails(c) ==
    /\ At(c, {"check"}, "save") \/ At(c, {"check"}, "prune")
    /\ Fault
    /\ arts' = arts \ {run[c].cand.id}
    /\ End(c)
    /\ UNCHANGED <<decl, lock, active, journal, candidate, project, vms>>

\* A candidate expires after a day.
Expire ==
    /\ candidate # None /\ candidate.fresh
    /\ used.edits < MaxEdits /\ used' = [used EXCEPT !.edits = @ + 1]
    /\ candidate' = [candidate EXCEPT !.fresh = FALSE]
    /\ UNCHANGED <<decl, lock, active, journal, arts, project, vms, locks, run>>

(***************************************************************************)
(* update apply and setup begin by recovering an interrupted transaction.  *)
(***************************************************************************)
Updaters == {"update", "setup"}

NoJournal == [phase |-> "none", sourceActive |-> FALSE, source |-> None,
              target |-> None, projects |-> {}, legacy |-> FALSE]
Journaled == journal # NoJournal

Decided == journal.phase = "commit-decided"
Chosen == IF Decided THEN journal.target ELSE journal.source
Activated == Decided \/ journal.sourceActive

BeginUpdater(c, cmd) ==
    /\ MayExclude
    /\ Begin(c, [cmd |-> cmd, at |-> "recover", todo |-> journal.projects, undo |-> FALSE])
    /\ ex' = c
    /\ UNCHANGED <<files, project, vms, sh, cfg>>

RecoverNothing(c) ==
    /\ At(c, Updaters, "recover") /\ ~Journaled
    /\ Goto(c, "plan")
    /\ UNCHANGED <<files, project, vms, locks, used>>

RecoverPolicy(c) ==
    /\ At(c, Updaters, "recover")
    /\ \E p \in run[c].todo :
         /\ policy[p] # None
         /\ policy' = [policy EXCEPT ![p] = Rewritten(@, Chosen.man)]
         /\ run' = [run EXCEPT ![c].todo = @ \ {p}]
    /\ UNCHANGED <<files, conf, ctx, vms, locks, used>>

\* A policy the journal names cannot be read any more.
RecoverRefused(c) ==
    /\ At(c, Updaters, "recover")
    /\ \E p \in run[c].todo : policy[p] = None
    /\ End(c)
    /\ UNCHANGED <<files, project, vms, used>>

RecoverLock(c) ==
    /\ At(c, Updaters, "recover") /\ Journaled /\ run[c].todo = {}
    /\ lock' = IF Activated THEN Chosen ELSE None
    /\ Goto(c, "recover active")
    /\ UNCHANGED <<decl, active, journal, candidate, arts, project, vms, locks, used>>

RecoverActiveForgotten(c) ==
    /\ At(c, Updaters, "recover active")
    /\ Goto(c, "recover end")
    /\ UNCHANGED <<files, project, vms, locks, used>>

RecoverActive(c) ==
    /\ At(c, Updaters, "recover active")
    /\ active' = IF Activated THEN Chosen ELSE None
    /\ Goto(c, "recover end")
    /\ UNCHANGED <<decl, lock, journal, candidate, arts, project, vms, locks, used>>

RecoverEnd(c) ==
    /\ At(c, Updaters, "recover end")
    /\ journal' = NoJournal
    /\ IF run[c].undo THEN End(c) ELSE Goto(c, "plan") /\ UNCHANGED locks
    /\ UNCHANGED <<decl, lock, active, candidate, arts, project, vms, used>>

(***************************************************************************)
(* update apply takes the candidate that was checked for this declaration  *)
(* and this lock; every Project must be bound to the lock, and no VM exist.*)
(***************************************************************************)
NoVM == \A p \in Projects : NoVMOf(p)
UpdateInventory(man) ==
    NoVM /\ \A p \in Listed : policy[p] # None /\ policy[p].dep = man

Plan(c, next, base, sourceActive, legacy) ==
    run' = [run EXCEPT ![c] =
              [cmd |-> @.cmd, at |-> "prepare", undo |-> FALSE, todo |-> Listed,
               list |-> [p \in Listed |-> policy[p]],
               whole |-> {p \in Listed : ctx[p] = None},
               decl |-> decl, next |-> next, base |-> base,
               sourceActive |-> sourceActive, legacy |-> legacy]]

CandidateFits ==
    /\ candidate # None
    /\ candidate.id \in arts
    /\ candidate.decl = decl /\ candidate.base = lock
    /\ candidate.fresh

\* Before any setup an update starts from the bootstrap manifest.
UpdateSource == [gen |-> IF LockState.missing THEN 0 ELSE lock.gen, man |-> LockState.man]

PlanUpdate(c) ==
    /\ At(c, {"update"}, "plan")
    /\ decl # None
    /\ IF LockState.missing THEN active = None ELSE IsActive
    /\ CandidateFits
    /\ UpdateInventory(UpdateSource.man)
    /\ Plan(c, [gen |-> UpdateSource.gen + 1, man |-> candidate.target],
            UpdateSource, ~LockState.missing, FALSE)
    /\ UNCHANGED <<files, project, vms, locks, used>>

(***************************************************************************)
(* setup writes the declaration if there is none, and locks the bootstrap  *)
(* version, or the locked one again when a Project or the lock itself has  *)
(* to be migrated.                                                         *)
(***************************************************************************)
SetupDeclares(c) ==
    /\ At(c, {"setup"}, "plan") /\ decl = None
    /\ decl' = Bootstrap
    /\ UNCHANGED <<lock, active, journal, candidate, arts, project, vms, locks, run, used>>

\* validateBootstrapGlobalState
BindingFits ==
    IF LockState.legacy THEN active # None /\ (active = lock \/ active.man = LockState.man)
    ELSE active # None => active.man = LockState.man

SetupInventory(man) ==
    NoVM /\ \A p \in Listed : policy[p] # None /\ policy[p].dep \in Forms(man)
MigrationNeeded(man) == \E p \in Listed : policy[p].dep # man

PlanSetup(c) ==
    LET man == LockState.man
        next == [gen |-> LockState.gen, man |-> man]
    IN  /\ At(c, {"setup"}, "plan") /\ decl # None
        /\ LockState.missing => decl = Bootstrap
        /\ BindingFits
        /\ SetupInventory(man)
        /\ IsActive => MigrationNeeded(man)
        /\ Plan(c, next, IF LockState.legacy THEN lock ELSE next,
                LockState.legacy \/ IsActive, LockState.legacy)
        /\ UNCHANGED <<files, project, vms, locks, used>>

(***************************************************************************)
(* commitDependencyUpdateInternal.                                         *)
(***************************************************************************)
Prepare(c) ==
    /\ At(c, Updaters, "prepare") /\ ~Journaled
    /\ run[c].cmd = "update" => decl = run[c].decl
    /\ journal' = [phase |-> "prepared", sourceActive |-> run[c].sourceActive,
                   source |-> run[c].base, target |-> run[c].next,
                   projects |-> run[c].todo, legacy |-> run[c].legacy]
    /\ Goto(c, "bind")
    /\ UNCHANGED <<decl, lock, active, candidate, arts, project, vms, locks, used>>

\* Save creates the Project's directory again if it has gone.
BindPolicy(c) ==
    /\ At(c, Updaters, "bind")
    /\ \E p \in run[c].todo :
         /\ policy' = [policy EXCEPT ![p] = Rewritten(run[c].list[p], run[c].next.man)]
         /\ run' = [run EXCEPT ![c].todo = @ \ {p}]
    /\ UNCHANGED <<files, conf, ctx, vms, locks, used>>

DecideEarly(c) ==
    /\ At(c, Updaters, "bind")
    /\ journal' = [journal EXCEPT !.phase = "commit-decided"]
    /\ Goto(c, "save lock")
    /\ UNCHANGED <<decl, lock, active, candidate, arts, project, vms, locks, used>>

Decide(c) ==
    /\ At(c, Updaters, "bind") /\ run[c].todo = {}
    /\ journal' = [journal EXCEPT !.phase = "commit-decided"]
    /\ Goto(c, "save lock")
    /\ UNCHANGED <<decl, lock, active, candidate, arts, project, vms, locks, used>>

SaveLock(c) ==
    /\ At(c, Updaters, "save lock")
    /\ lock' = run[c].next
    /\ Goto(c, "save active")
    /\ UNCHANGED <<decl, active, journal, candidate, arts, project, vms, locks, used>>

SaveActive(c) ==
    /\ At(c, Updaters, "save active")
    /\ active' = run[c].next
    /\ Goto(c, "commit end")
    /\ UNCHANGED <<decl, lock, journal, candidate, arts, project, vms, locks, used>>

CommitEnd(c) ==
    /\ At(c, Updaters, "commit end")
    /\ journal' = NoJournal
    /\ IF run[c].cmd = "update" THEN Goto(c, "clear") /\ UNCHANGED locks ELSE End(c)
    /\ UNCHANGED <<decl, lock, active, candidate, arts, project, vms, used>>

ClearArtifacts(c) ==
    /\ At(c, {"update"}, "clear")
    /\ arts' = {}
    /\ Goto(c, "clear candidate")
    /\ UNCHANGED <<decl, lock, active, journal, candidate, project, vms, locks, used>>

ClearCandidate(c) ==
    /\ At(c, {"update"}, "clear candidate")
    /\ candidate' = None
    /\ End(c)
    /\ UNCHANGED <<decl, lock, active, journal, arts, project, vms, used>>

(***************************************************************************)
(* An error before the decision restores what was there; the journal stays *)
(* for the next update or setup.  A legacy migration runs the recovery.    *)
(***************************************************************************)
CommitFails(c) ==
    /\ At(c, Updaters, "bind")
    /\ Fault
    /\ run' = [run EXCEPT ![c].at = IF run[c].legacy THEN "recover" ELSE "restore",
                          ![c].undo = TRUE, ![c].todo = DOMAIN run[c].list]
    /\ UNCHANGED <<files, project, vms, locks>>

RestorePolicy(c) ==
    /\ At(c, Updaters, "restore")
    /\ \E p \in run[c].todo :
         /\ policy' = [policy EXCEPT ![p] = run[c].list[p]]
         /\ run' = [run EXCEPT ![c].todo = @ \ {p}]
    /\ UNCHANGED <<files, conf, ctx, vms, locks, used>>

RestoreLock(c) ==
    /\ At(c, Updaters, "restore") /\ run[c].todo = {}
    /\ lock' = IF run[c].sourceActive THEN run[c].base ELSE None
    /\ Goto(c, "restore active")
    /\ UNCHANGED <<decl, active, journal, candidate, arts, project, vms, locks, used>>

RestoreActivation(c) ==
    /\ At(c, Updaters, "restore active")
    /\ active' = IF run[c].sourceActive THEN run[c].base ELSE None
    /\ End(c)
    /\ UNCHANGED <<decl, lock, journal, candidate, arts, project, vms, used>>

(***************************************************************************)
(* config apply and config edit.  Both read the settings, take the         *)
(* configuration lock later, bind the policy to the active lock and save   *)
(* only over what they read.  edit also replaces the declaration.          *)
(***************************************************************************)
LoadForChange(c, p, cmd, new) ==
    /\ Begin(c, [cmd |-> cmd, at |-> "lock", p |-> p, new |-> new, seen |-> AfterRecovery(p)])
    /\ ConfigFree(p) /\ Loads(p)
    /\ AfterRecovery(p).conf # None
    /\ IF cmd = "apply" THEN new = AfterRecovery(p).conf
       ELSE new # AfterRecovery(p).conf
    /\ new # AfterRecovery(p).pol.conf
    /\ UNCHANGED <<files, vms, locks>>

TakeConfigLock(c) ==
    /\ ConfigFree(run[c].p)
    /\ cfg' = [cfg EXCEPT ![run[c].p] = c]
    /\ Goto(c, "plan")
    /\ UNCHANGED <<files, vms, ex, sh, used>>

LockForApply(c) ==
    /\ At(c, {"apply"}, "lock")
    /\ TakeConfigLock(c)
    /\ UNCHANGED project

\* edit reads the settings again under the lock and compares.
LockForEdit(c) ==
    /\ At(c, {"edit"}, "lock")
    /\ TakeConfigLock(c)
    /\ Loads(run[c].p) /\ AfterRecovery(run[c].p) = run[c].seen

\* ClassifyApplication: what a VM would have to be recreated for.
NeedsRecreation(pol, new) == pol.dep # new.dep \/ Shape[pol.conf] # Shape[new.conf]
ApplyAllowed(p, pol, new) == NeedsRecreation(pol, new) => NoVMOf(p)

PlanChange(c) ==
    /\ At(c, {"apply", "edit"}, "plan")
    /\ MayShare /\ IsActive
    /\ ApplyAllowed(run[c].p, run[c].seen.pol,
                    Compiled(run[c].seen.pol, lock.man, run[c].new))
    /\ sh' = sh \cup {c}
    /\ Goto(c, "save")
    /\ UNCHANGED <<files, project, vms, ex, cfg, used>>

\* verifyConfigMutationSnapshot
SnapshotHolds(p, seen) == policy[p] = seen.pol /\ conf[p] = seen.conf

\* One file or the transaction.
SaveChange(c) ==
    LET p == run[c].p
        pol == Compiled(run[c].seen.pol, lock.man, run[c].new)
    IN  /\ At(c, {"apply", "edit"}, "save")
        /\ SnapshotHolds(p, run[c].seen)
        /\ IF run[c].cmd = "apply"
           THEN /\ policy' = [policy EXCEPT ![p] = pol]
                /\ End(c) /\ UNCHANGED <<conf, ctx>>
           ELSE Journals(c, p, run[c].new, pol) /\ Goto(c, "write") /\ UNCHANGED locks
        /\ UNCHANGED <<files, vms, used>>

(***************************************************************************)
(* model, git, web and up --mode change one field of a policy that matches *)
(* its declaration, and write both under the lock.                         *)
(***************************************************************************)
ChangePolicy(c, p, new) ==
    LET seen == AfterRecovery(p)
    IN  /\ Begin(c, [cmd |-> "policy", at |-> "bind", p |-> p, new |-> new, seen |-> seen])
        /\ ConfigFree(p) /\ Loads(p) /\ Matches(seen)
        /\ new # Declaration(seen.pol)
        /\ cfg' = [cfg EXCEPT ![p] = c]
        /\ UNCHANGED <<files, vms, ex, sh>>

\* What a running VM does not depend on may change at any time.
SameShape(p, new) == AfterRecovery(p).pol # None /\ Shape[AfterRecovery(p).pol.conf] = Shape[new]
ModelPolicy(c, p, new) == ChangePolicy(c, p, new) /\ SameShape(p, new)
GitPolicy(c, p, new) == ChangePolicy(c, p, new) /\ SameShape(p, new)
WebPolicy(c, p, new) == ChangePolicy(c, p, new) /\ SameShape(p, new)
SetMode(c, p, new) == NoVMOf(p) /\ ChangePolicy(c, p, new)

SavePolicyAndConfigUnlocked(c) ==
    LET p == run[c].p
        pol == Compiled(run[c].seen.pol, run[c].seen.pol.dep, run[c].new)
    IN  /\ At(c, {"policy"}, "bind")
        /\ BoundToActive(run[c].seen.pol)
        /\ Journals(c, p, run[c].new, pol)
        /\ Goto(c, "write")
        /\ UNCHANGED <<files, vms, locks, used>>

\* savePolicyAndConfigLocked
SavePolicyAndConfig(c) ==
    LET p == run[c].p
        pol == Compiled(run[c].seen.pol, run[c].seen.pol.dep, run[c].new)
    IN  /\ At(c, {"policy"}, "bind")
        /\ MayShare /\ BoundToActive(run[c].seen.pol)
        /\ sh' = sh \cup {c}
        /\ Journals(c, p, run[c].new, pol)
        /\ Goto(c, "write")
        /\ UNCHANGED <<files, vms, ex, cfg, used>>

(***************************************************************************)
(* project init holds no configuration lock: nobody can load a Project     *)
(* that has no policy, until its transaction is journaled.  Two inits of   *)
(* one Project at once are left to SecureTransaction.                      *)
(***************************************************************************)
BeginInit(c, p) ==
    /\ MayShare /\ IsActive
    /\ policy[p] = None /\ conf[p] = None /\ ctx[p] = None
    /\ \A d \in Procs : run[d].cmd = "init" => run[d].p # p
    /\ Begin(c, [cmd |-> "init", at |-> "write", p |-> p, new |-> Default])
    /\ sh' = sh \cup {c}
    /\ Journals(c, p, Declaration(NewPolicy(lock.man)), NewPolicy(lock.man))
    /\ UNCHANGED <<files, vms, ex, cfg>>

(***************************************************************************)
(* WriteTransaction of a journaled change.                                 *)
(***************************************************************************)
Writers == {"edit", "policy", "init"}

RenameConf(c) ==
    LET p == run[c].p
    IN  /\ At(c, Writers, "write") /\ Staged(c, p, 0)
        /\ conf' = [conf EXCEPT ![p] = ctx[p].newConf]
        /\ ctx' = [ctx EXCEPT ![p].done = 1]
        /\ Goto(c, "write policy")
        /\ UNCHANGED <<files, policy, vms, locks, used>>

RenamePolicy(c) ==
    LET p == run[c].p
    IN  /\ At(c, Writers, "write policy") /\ Staged(c, p, 1)
        /\ policy' = [policy EXCEPT ![p] = ctx[p].newPolicy]
        /\ ctx' = [ctx EXCEPT ![p].done = 2]
        /\ Goto(c, "write end")
        /\ UNCHANGED <<files, conf, vms, locks, used>>

EndWrite(c) ==
    /\ At(c, Writers, "write end")
    /\ ctx' = [ctx EXCEPT ![run[c].p] = None]
    /\ End(c)
    /\ UNCHANGED <<files, conf, policy, vms, used>>

\* The staged file has gone: a load has recovered the transaction of an init,
\* or destroy has removed the directory.  init removes both directories.  (The
\* rollback of another command over a Project that was destroyed and
\* registered again meanwhile is left to SecureTransaction.)
WriteFails(c) ==
    LET p == run[c].p
    IN  /\ \/ At(c, Writers, "write") /\ ~Staged(c, p, 0)
           \/ At(c, Writers, "write policy") /\ ~Staged(c, p, 1)
        /\ IF run[c].cmd = "init"
           THEN /\ conf' = [conf EXCEPT ![p] = None]
                /\ policy' = [policy EXCEPT ![p] = None]
                /\ ctx' = [ctx EXCEPT ![p] = None]
           ELSE UNCHANGED project
        /\ End(c)
        /\ UNCHANGED <<files, vms, used>>

(***************************************************************************)
(* Every other command loads the policy: it finishes an interrupted        *)
(* transaction, or fails, possibly after it has renamed the first file.    *)
(***************************************************************************)
Look(p) ==
    /\ ConfigFree(p) /\ ctx[p] # None /\ Loads(p)
    /\ UNCHANGED <<files, vms, locks, run, used>>

LookFails(p) ==
    /\ ConfigFree(p) /\ ctx[p] # None /\ ctx[p].done = 0
    /\ ConfHolds(p) /\ ~PolicyHolds(p)
    /\ conf' = [conf EXCEPT ![p] = ctx[p].newConf]
    /\ ctx' = [ctx EXCEPT ![p].done = 1]
    /\ UNCHANGED <<files, policy, vms, locks, run, used>>

\* snapshot import-gitignore changes the declaration alone, and so does the
\* user's editor, which takes no lock.  The command loads the policy first and
\* gives the lock back (Look); when it has it again, to read and to save the
\* declaration, it does not look at the policy or its transaction any more.
ImportGitignore(p, new) ==
    /\ ConfigFree(p)
    /\ conf[p] # None /\ new # conf[p]
    /\ used.commands < MaxCommands
    /\ used' = [used EXCEPT !.commands = @ + 1]
    /\ conf' = [conf EXCEPT ![p] = new]
    /\ UNCHANGED <<files, policy, ctx, vms, locks, run>>

EditConfig(p, new) ==
    /\ conf[p] # None /\ new # conf[p]
    /\ used.edits < MaxEdits /\ used' = [used EXCEPT !.edits = @ + 1]
    /\ conf' = [conf EXCEPT ![p] = new]
    /\ UNCHANGED <<files, policy, ctx, vms, locks, run>>

(***************************************************************************)
(* The VM.  Its creation holds the configuration lock; its Supervisor      *)
(* keeps the share of the operation lock, and may leave a VM behind.       *)
(***************************************************************************)
BeginStartUnlocked(c, p) ==
    LET seen == AfterRecovery(p)
    IN  /\ Begin(c, [cmd |-> "start", at |-> "boot", p |-> p, seen |-> seen])
        /\ ConfigFree(p) /\ Loads(p) /\ Matches(seen)
        /\ MayShare /\ vm[p] = None
        /\ sh' = sh \cup {c}
        /\ UNCHANGED <<files, vms, ex, cfg>>

BeginStart(c, p) ==
    LET seen == AfterRecovery(p)
    IN  /\ Begin(c, [cmd |-> "start", at |-> "boot", p |-> p, seen |-> seen])
        /\ ConfigFree(p) /\ Loads(p) /\ Matches(seen)
        /\ MayShare /\ vm[p] = None
        /\ cfg' = [cfg EXCEPT ![p] = c] /\ sh' = sh \cup {c}
        /\ UNCHANGED <<files, vms, ex>>

Boot(c) ==
    /\ At(c, {"start"}, "boot")
    /\ BoundToActive(run[c].seen.pol)
    /\ LET p == run[c].p
       IN  /\ vm' = [vm EXCEPT ![p] = [dep |-> run[c].seen.pol.dep,
                                       shape |-> Shape[run[c].seen.pol.conf]]]
           /\ served' = served \cup {p}
    /\ End(c)
    /\ UNCHANGED <<files, project, used>>

SupervisorEnds(p, left) ==
    /\ p \in served
    /\ served' = served \ {p}
    /\ vm' = [vm EXCEPT ![p] = IF left THEN @ ELSE None]
    /\ UNCHANGED <<files, project, locks, run, used>>

DropVM(p) ==
    /\ vm[p] # None /\ p \notin served
    /\ vm' = [vm EXCEPT ![p] = None]
    /\ UNCHANGED <<files, project, served, locks, run, used>>

(***************************************************************************)
(* destroy takes neither lock.                                             *)
(***************************************************************************)
BeginDestroy(c, p) ==
    /\ vm[p] = None /\ p \in Listed
    /\ Begin(c, [cmd |-> "destroy", at |-> "state", p |-> p])
    /\ UNCHANGED <<files, project, vms, locks>>

DestroyState(c) ==
    /\ At(c, {"destroy"}, "state")
    /\ policy' = [policy EXCEPT ![run[c].p] = None]
    /\ ctx' = [ctx EXCEPT ![run[c].p] = None]
    /\ Goto(c, "config")
    /\ UNCHANGED <<files, conf, vms, locks, used>>

DestroyConfig(c) ==
    /\ At(c, {"destroy"}, "config")
    /\ conf' = [conf EXCEPT ![run[c].p] = None]
    /\ End(c)
    /\ UNCHANGED <<files, policy, ctx, vms, used>>

(***************************************************************************)
(* A command may be refused, or fail, wherever it has only read; it may    *)
(* be killed anywhere, and then its locks go with it.                      *)
(***************************************************************************)
ReadsOnly(c) ==
    \/ At(c, {"check"}, "download")
    \/ At(c, Updaters, "plan") \/ At(c, Updaters, "prepare")
    \/ At(c, {"apply", "edit"}, "lock") \/ At(c, {"apply", "edit"}, "plan")
    \/ At(c, {"apply", "edit"}, "save") \/ At(c, {"policy"}, "bind")
    \/ At(c, {"start"}, "boot") \/ At(c, {"destroy"}, "state")

Refuse(c) == /\ ReadsOnly(c) /\ End(c)
             /\ UNCHANGED <<files, project, vms, used>>

Crash(c) == /\ run[c] # Idle /\ ~ReadsOnly(c)
            /\ Fault /\ End(c)
            /\ UNCHANGED <<files, project, vms>>

(***************************************************************************)
(* The installation at the start: nothing set up, the bootstrap release    *)
(* with an update already checked, or a lock an older release wrote.       *)
(***************************************************************************)
CheckedUpdate == [id |-> CHOOSE id \in Ids : TRUE, decl |-> Channel,
                  base |-> [gen |-> 1, man |-> Bootstrap],
                  target |-> MaxManifest, fresh |-> TRUE]

Installed(man) ==
    /\ lock = [gen |-> 1, man |-> man] /\ active = lock
    /\ policy = [p \in Projects |-> IF p \in Registered
                   THEN [dep |-> man, conf |-> Default, rev |-> 0] ELSE None]
    /\ conf = [p \in Projects |-> IF p \in Registered THEN Default ELSE None]

Init ==
    /\ \/ /\ decl = None /\ lock = None /\ active = None
          /\ policy = [p \in Projects |-> None] /\ conf = policy
          /\ candidate = None
       \/ Installed(0) /\ decl = Bootstrap /\ candidate = None
       \/ Installed(Bootstrap) /\ decl = Channel /\ candidate = CheckedUpdate
    /\ journal = NoJournal
    /\ arts = IF candidate = None THEN {} ELSE {candidate.id}
    /\ ctx = [p \in Projects |-> None]
    /\ vm = [p \in Projects |-> None] /\ served = {}
    /\ ex = None /\ sh = {} /\ cfg = [p \in Projects |-> None]
    /\ run = [c \in Procs |-> Idle]
    /\ used = [commands |-> 0, faults |-> 0, edits |-> 0]

Check(c) == BeginCheck(c) \/ Download(c) \/ SaveCandidate(c) \/ PruneArtifacts(c) \/ CheckFails(c)

Recovery(c) == \/ RecoverNothing(c) \/ RecoverPolicy(c) \/ RecoverRefused(c)
               \/ RecoverLock(c) \/ RecoverActive(c) \/ RecoverEnd(c)

Update(c) == \/ \E cmd \in Updaters : BeginUpdater(c, cmd)
             \/ Recovery(c) \/ PlanUpdate(c) \/ SetupDeclares(c) \/ PlanSetup(c)
             \/ Prepare(c) \/ BindPolicy(c) \/ Decide(c) \/ SaveLock(c) \/ SaveActive(c)
             \/ CommitEnd(c) \/ ClearArtifacts(c) \/ ClearCandidate(c)
             \/ CommitFails(c) \/ RestorePolicy(c)
             \/ RestoreLock(c) \/ RestoreActivation(c)

Configure(c) ==
    \/ \E p \in Projects, new \in Settings :
         \/ \E cmd \in {"apply", "edit"} : LoadForChange(c, p, cmd, new)
         \/ ModelPolicy(c, p, new) \/ GitPolicy(c, p, new) \/ WebPolicy(c, p, new)
         \/ SetMode(c, p, new)
    \/ \E p \in Projects : BeginInit(c, p) \/ BeginStart(c, p) \/ BeginDestroy(c, p)
    \/ LockForApply(c) \/ LockForEdit(c) \/ PlanChange(c) \/ SaveChange(c) \/ SavePolicyAndConfig(c)
    \/ RenameConf(c) \/ RenamePolicy(c) \/ EndWrite(c) \/ WriteFails(c)
    \/ Boot(c) \/ DestroyState(c) \/ DestroyConfig(c)

Next ==
    \/ \E c \in Procs : Check(c) \/ Update(c) \/ Configure(c) \/ Refuse(c) \/ Crash(c)
    \/ \E d \in Declarations : SetVersion(d) \/ EditVersions(d)
    \/ Expire
    \/ \E p \in Projects :
         \/ Look(p) \/ LookFails(p) \/ DropVM(p)
         \/ \E left \in BOOLEAN : SupervisorEnds(p, left)
         \/ \E new \in Settings : ImportGitignore(p, new) \/ EditConfig(p, new)

Spec == Init /\ [][Next]_vars

-----------------------------------------------------------------------------

Locks == [gen : Nat \ {0}, man : Manifests]
Policies == [dep : Manifests, conf : Settings, rev : Nat]

\* Every file holds what its reader accepts, and every lock a process.
TypeOK ==
    /\ decl \in Declarations \cup {None}
    /\ lock \in Locks \cup {None} /\ active \in Locks \cup {None}
    /\ Journaled => journal.projects \subseteq Projects /\ journal.target \in Locks
    /\ candidate # None => candidate.id \in Ids /\ candidate.target \in Versions
    /\ arts \subseteq Ids /\ served \subseteq Projects
    /\ conf \in [Projects -> Settings \cup {None}]
    /\ policy \in [Projects -> Policies \cup {None}]
    /\ \A p \in Projects : ctx[p] # None => ctx[p].done \in 0 .. 2
    /\ ex \in Procs \cup {None} /\ sh \subseteq Procs
    /\ cfg \in [Projects -> Procs \cup {None}]

\* Whatever died, a lock and a binding that differ are covered by a journal,
\* so the advice to run setup again (activeVersionLock) can help.
TransactionIsWhole == ~Journaled /\ ex = None => lock = active

\* Between the inventory and the end of an update no other command changes
\* the settings of a Project that had no interrupted transaction.
UpdateKeepsSettings ==
    \A c \in Procs : At(c, Updaters, "bind") =>
        \A p \in run[c].whole :
            policy[p] # None => policy[p].conf = run[c].list[p].conf

\* What update apply installs is the candidate that lies in the quarantine,
\* checked against the lock it replaces: no check swaps it underneath.
AppliedAsChecked ==
    \A c \in Procs : run[c].cmd = "update" /\ run[c].at \in {"prepare", "bind", "save lock"} =>
        /\ candidate.target = run[c].next.man /\ candidate.id \in arts
        /\ candidate.base = lock

\* The journal goes only when its decision is carried out everywhere: the
\* lock, the binding and every policy it names say the same.
JournalEndsWhole ==
    [][Journaled /\ ~Journaled' =>
        /\ lock' = active'
        /\ lock' = IF Activated THEN Chosen ELSE None
        /\ \A p \in journal.projects :
              policy'[p] # None => policy'[p].dep = Chosen.man]_vars

\* Only an update moves a policy to another manifest; every other command that
\* rewrites a policy leaves it bound to the active lock.  And while a VM exists
\* that fits the policy, no command changes what the VM would have to be
\* recreated for.  (Recovery of an update is left out of that for the manifest:
\* it looks for no VM, and one can be started between the crash and the
\* recovery.)
PolicyKept ==
    [][\A p \in Projects :
        policy[p] # None /\ policy'[p] # None =>
        /\ policy'[p].dep # policy[p].dep /\ ex = None => IsActive /\ policy'[p].dep = lock.man
        /\ vm[p] # None /\ vm[p].shape = Shape[policy[p].conf] =>
             Shape[policy'[p].conf] = vm[p].shape
        /\ vm[p] # None /\ vm[p].dep = policy[p].dep /\ (\A c \in Procs : run[c].at # "recover") =>
             policy'[p].dep = vm[p].dep]_vars

\* An interrupted update can be recovered: the policies its journal names
\* are there.  The code does not keep this: destroy takes no operation lock
\* (Registered = {p}: setup dies after its journal, then p is destroyed).
JournalRecoverable ==
    Journaled /\ ex = None => \A p \in journal.projects : policy[p] # None

\* An interrupted configuration change can be recovered.  The code does not
\* keep this: an update rewrites the policy underneath (the constants of
\* HostConfiguration.cfg show it).
ConfigurationRecoverable == \A p \in Projects : Recoverable(p)
=============================================================================

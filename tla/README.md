# TLA+ specifications of sunaba

sunaba runs a coding agent inside a virtual machine and lets nothing of what
the agent did reach the user's Project until the user has reviewed and approved
it. The specifications in this directory model the parts of the program that
keep this promise: the algebra that turns two trees into a Work Set, the
screens on which it is decided, the transaction that applies it, the files that
carry it from the VM to that transaction, the process that owns the VM and the
authority a session holds, the push of a commit to an upstream, and the
configuration and versions all of this runs with.

All paths below are relative to the repository. `PROJECT.json` maps every
definition to the lines it stands for.

## 1. The system

### 1.1 From a session to an applied result

1. `up`, `agent` or `console` starts a *Supervisor* (a detached process in
   secure mode, the foreground command in dev mode). It takes the Project lock,
   creates a VM from a snapshot of the Project and serves a control socket.
2. The session is paused (VM stopped), resumed with new credentials, or paused
   by its idle and lifetime deadlines.
3. `changes export` stops the VM for good, compares its frozen file system with
   the baseline, captures large ("Bulk") paths into `retained/objects` and
   writes the *pending Work Set* (`pending/change.json`, `resolution.json`).
   Then the VM is removed. When an export is refused or fails, a *recovery
   record* binds the stopped VM instead.
4. `changes bulk resolve` gives every Bulk path a disposition.
5. `changes apply` re-checks the pending Work Set, writes the *retention
   journal*, runs the *host transaction* over the affected paths of the Project
   and then a *retention phase* that moves, lists or deletes the Bulk objects.
6. The *trusted TUI* offers 3 to 5 as screens. Each screen is a view shown by a
   one-shot helper process that returns one event; every decision and every
   effect stays in the coordinator.
7. While a session runs, the guest reaches the outside through *gateways* only:
   model, web and Git. Each has an admission gate that the end of the session
   revokes. A push is put into a quarantine repository and waits for
   `approvals approve` on the host.
8. `setup`, `update apply`, `config apply`, `init` change the versions and
   policies every later session is started with.

### 1.2 Components

| Component | State it keeps | Operations | Hard behaviour | What makes it correct |
|---|---|---|---|---|
| Host apply transaction (`internal/apply`) | the Project's files; `.sunaba/transactions/*` with `journal.json`, `backup`, `stage` | `ApplyWorkSet`, `ResumeWorkSetTransaction`, `RecoverLocked` | a crash or an error between any two renames, also during recovery | all or nothing; no original is lost; what is reported is true |
| Private file transaction (`internal/securefs`) | 2 to 16 files, staged and old copies, a journal | `WriteTransaction`, `RecoverTransaction` | crash, repeated recovery, a reader that recovers someone else's transaction | files of one generation; a journal can be followed to its end |
| Pending Work Set, apply command, retention (`internal/cli/cli.go`, `pending.go`, `internal/retention`) | pending Work Set, Resolution, retention journal, Bulk objects, artifacts, item records and receipts | export, resolve, apply, status, recreate, `retained discard` | several command processes without a common lock; crash between two phases | what was to be kept is kept; a commit is never without its journal; applied once |
| Work Set algebra (`internal/workspace`) | none (functions on trees) | walk, partition, diff, resolve, review normally, plan, verify | paths that change between Core and Bulk, whole-tree renames, directories against files | the result is what the guest had; Bulk stays unless it is chosen |
| Session and Supervisor (`internal/session`, `internal/cli/supervisor*.go`, `approval_control.go`, `dev_recovery.go`) | VM, session state, deadlines and their revision, locator, recovery record, locks | start, pause, resume, heartbeat, exec, export, destroy, shutdown, recovery export | timers against operations, signals, partial failures of an export, a dead Supervisor | work in a VM goes into a Work Set or is discarded on request; a deadline that has passed ends the session and no other does |
| Lease, cleanup, recovery (`internal/lease`, `cleanup`, `recovery`) | lease files, VM guards, record | register, activate, revoke, guard, `cleanup.Run`, `recovery.Save/Remove` | cleanup by one command while another works | only what nobody owns and cannot hold work is removed; a lease is revoked with its session |
| Capability gate and model gateway (`internal/capability`, `modelgateway`) | quota and concurrency counters, revoked flag | admit, release, revoke, audit | requests under way while the authority is taken away; audit failure | never more than the quota; nothing is admitted for a session that is over |
| Git push (`internal/gitgateway`, `internal/cli/gateways.go`) | quarantine repository, one-time requests and grants, the broker's indexes | advertise, hook, request, approve, reject, execute, sync | double use, expiry, an upstream that changed, a lost answer | the upstream changes only as approved, from the value that was shown, once |
| Configuration, policy (`internal/projectconfig`, `policy`, `usersettings`) | `project.json`, `policy.json`, a journal for both | init, config apply, load, recovery | crash between the two files; a VM that was made with the old policy | both of one generation; no change under a VM |
| Versions, updater (`internal/updater`, `versionconfig`, `internal/cli/version_commands.go`) | declaration, lock, active binding, candidate, artifacts, journal | check, apply, setup, recovery | crash between the files, active VMs, concurrent commands | lock, binding and policies of one version, or a journal |
| Locks and Project state (`internal/state`) | flock files, Project directories | acquire, look up, create | process death | one holder |
| Trusted TUI (`internal/cli/tui_coordinator.go`, `internal/tui`) | the coordinator's local variables; the exchange with a helper | home, changes, Bulk paths, confirm, apply, snapshot approval | a state that changes behind a screen; a helper that hangs or crashes | what takes effect is what was shown and confirmed |
| Web gateway (`internal/webgateway`) | tunnels, resolver answers, block list | CONNECT, check, relay | DNS answers that change, limits | only the checked address is dialled |
| Development network and firewall (`internal/devnetwork`, `firewall`) | network, pf anchors | activate, quiesce, close, recover | partial failure, crash | direct egress is closed before an export |
| Guest and attach relays (`internal/guestrelay`, `attachrelay`) | connections | accept, relay, close | shutdown with open connections | bounded, closed with the session |
| Audit log (`internal/audit`) | log segments | append, prune | rotation against append, crash | append-only within retention |
| OAuth and secrets (`internal/openauth`, `secretstore`) | tokens in the keychain | login, refresh | concurrent refresh | a refresh token is used once |
| External Git guard, runtime driver, image, OpenCode, command line | none, or owned by external programs | — | — | — |

The components interact through files of the Project state (pending Work Set,
retention journal, recovery record, locator), through flocks (Project lock, VM
guard, configuration and operation locks), through the control socket, whose
handlers share one mutex, and through the container runtime.

`PROJECT.json` lists every component with its status and, under `hazards`,
every place found so far where an order of steps, a crash or a partial failure
can go wrong, with the properties that watch it.

## 2. Modules

```
AtomicApply            what an apply promises          (abstract)
   ^ implemented by (refinement mapping, checked and proved)
ApplyTransaction       internal/apply                  ApplyTransactionProofs
   . used as one atomic step by
ChangesApply           changes apply, retention        ChangesApplyProofs
WorkSet                what is exported, resolved, planned and applied
ReviewConsole          the screens that decide it      ReviewConsoleProofs

SecureTransaction      internal/securefs              SecureTransactionProofs
   . used as single renames by
HostConfiguration      configuration, versions         HostConfigurationProofs

Supervisor             the VM and the Project state:  SupervisorProofs
   .                   export, recovery, cleanup
   . its operations, step by step, with gateways, leases and timers:
SessionControl         the authority of a session      SessionControlProofs

ApprovedPush           what a push promises            (abstract)
   ^ implemented by (refinement mapping, checked and proved)
GitPush                quarantine, approval, push      GitPushProofs
```

Constants that are not numbers or sets of strings, and symmetries, are in an MC
module (`MCGitPush`, `MCWorkSet`, `MCHostConfiguration`, `MCReviewConsole`,
`MCChangesApply`); the other specifications are checked directly.

### 2.1 AtomicApply and ApplyTransaction

`AtomicApply` is the contract: a tree that changes once, from the approved
before-state to the approved after-state.

`ApplyTransaction` is `applyWorkSetLocked`, `ResumeWorkSetTransaction`,
`RecoverLocked`, `rollback` and `removeTransactionRoot`, one action per durable
file operation.

| In the model | In the code |
|---|---|
| `host[k]` | contents of the k-th affected root (`affectedRoots`: disjoint subtrees), absent, old or new |
| `root`, `bdir`, `backup`, `stage` | the transaction directory, its `backup` and `stage` directories and their entries |
| `jrnl`, `original` | `journal.json`: its state and the `Original` flags |
| `pc`, `mode`, `ret`, `i` | the running call; the Project lock admits one, so one program counter is enough |
| `RecoverLocked` ... `RemoveTransactionRoot` | the calls of the same name; `BackupEntry`/`InstallEntry` are the two renames of the main loop, `RollbackEntry`/`RestoreEntry` those of `rollback` |
| `Fault`, `Crash` | an operation returns an error and the code's error path runs; the process dies |

`RemoveTransactionRoot` may stop after any part of `os.RemoveAll`. A failing
write of the journal either leaves the old file or, with `SyncMayFail`, the new
one (`AtomicWriteOwned` renames and then syncs the directory).

The refinement mapping is `Recovered`: what the Project would contain once
`RecoverLocked` had run on the files now on disk. An interrupted transaction is
thus an atomic apply that has, or has not, happened.

### 2.2 SecureTransaction

Two processes: `w` in `WriteTransaction`, `r` in a load of the policy, which
recovers first. The module is about the files of the configuration, which
`persistConfigAndPolicy` replaces and `loadEffectivePolicy` reads under one lock
(`AcquireConfigLock`), held here from the first step of a call to its return. The
pending Work Set, whose reader takes no lock, is not covered (3.3).
`WriteTransaction` begins with a recovery as well; `result` is then `opening`, and
`Prepare` follows when no journal is left. `idx` is the loop index of each process,
`mem` the journal state it works from, `err` the error it will report. Targets,
staged files and old copies are functions over the files; a new transaction finds
what the last one left (`Present` calls it old again).

### 2.3 ChangesApply

Processes `Cli` run `changes apply`, one action per durable effect or check:
`Load`, `Resume`, `Plan`, `Confirm`, `Reload`, `Prepare`, `Apply`, `Mark`,
`Finalize` and its per-object operations `Move`, `Record`, `Purge`, then
`RemovePending` and `RemoveFinalized`; `Failed`/`DropFailed` is the error path.
The other commands (export, status, resolve, `recreate --discard-pending`,
`retained discard` and the user's editor) run between those steps as far as
`Meanwhile` allows; the editor takes no lock. `Status` ends at once, or begins
`CleanupFinalizedPending`, which removes what is pending and then the journal it has
read (`cleaning`), and may stop in between. The host transaction is one step,
`Apply`: that is what ApplyTransactionProofs proves it to be.

Project contents are numbers that stand for digests: an edit may bring back any
content the Project had before, and a result may equal its baseline. A Work Set has
a baseline and a result, a Bulk object a place (`objects`, `artifacts`, `trash`,
`gone`), an item record and a receipt. `author` is the plan that wrote each of the
two records: one that another plan wrote is a conflict (`recordMatches`). `onhost`,
a history, is the Work Set that was committed last, 0 once the user has edited.

### 2.4 Supervisor

| In the model | In the code |
|---|---|
| `vm[v]` | runtime state of a VM |
| `sup.pc` | where the process is in `exportAndDestroyWithOptions`, or `serve`: its mutex is free |
| `sup.sess` | `controlledSession.state` |
| `sup.exit` | its main loop has been told to end (`signalExit`, a signal, an error) |
| `lock` | holder of the Project lock and the VM guard, which are taken and released together |
| `starter` | a starting process that has passed the checks of `startManagedSession` |
| `locator`, `record`, `pending` | the control locator, `recovery.json`, `pending/change.json` |
| `rx` | a `changes export` that works from a recovery record |
| `persisted`, `applied`, `discarded` | history: what became pending, was applied, was discarded by the user |

`Events` selects circumstances in which no operation is broken: a connection
slower than the three seconds a pause waits for it, a failing console command,
a dev network that cannot be closed, a signal, an interrupted export, a request
that waited for the mutex. `Fault` is an operation that fails. `Undecided`,
`Destroyed` and `DestroyFails` are what a failing pause or destroy may leave: the
VM as it was, stopped or, when only a channel or an audit record failed, gone.

What is coarser than the code: `cleanup.Run` is one step (it lists, inspects
and locks one VM after the other); a pause is one step with the outcomes a
failing `Pause` may leave; leases, gateways, relays and the runtime directory
are left out; a start is two steps (checks, creation); a Supervisor is created
only when the last process has ended. The Project lock enforces the latter
except between the release of the lock and the end of the process, an interval
the model leaves out.

### 2.5 SessionControl

The operations of one Supervisor on one VM, cut into the steps after which the
code may fail or somebody else may run.

| In the model | In the code |
|---|---|
| `op` | the operation that holds `controlledSession.mu`, and its place in `Order`: the calls of `Start`, `ResumeWith`, `Pause`, `StopAndExport` (`quiesce` and then `export`), `Destroy` and their deferred clean-ups; `op.left` is the set of gateways a step that goes over all of them has still to do (in an arbitrary order, the code's is fixed by its lists; no property depends on it) |
| `ctl`, `changed` | state, `expiresAt`, `lastActivity`; the one-place notification channel |
| `loop` | the main loop: the timers it has armed, whether they were armed for the current revision, and the timer that has fired |
| `sess`, `lease`, `gate` | listeners, relay, VM; the lease file; the admission gate of each gateway and session |
| `req` | guest requests: accepted by the wrapper of a listener, admitted by the gate, answered, audited |

A request passes the wrapper's check and the gate in two steps; `Admit` counts
before it takes a slot; `Continue` is what a stop does after an error.
`Activate` ... `Enable` may fail at each step and go to `fail` or `abandon`.
`Dev` says whether the session is of a dev VM, whose export first closes the direct
egress (`Quiesce`, session.go:1138-1150): it succeeds; or fails, and the session is
paused; or fails, with nothing left to pause; or only its audit record fails, and
the export is over with everything as it was. `now` is a discrete clock that stops
at `MaxTime`.

What is coarser: the checks of one gate (revoked, expired, quota, slot) are one
step; reading a request body and the upstream call are one step; the runtime
commands of one operation step are one step.

### 2.6 ApprovedPush and GitPush

`ApprovedPush` is the contract with the owner of the repository: a set of
approved transitions; `Push` takes one, if the upstream still has the approved
old values, and changes all its refs together. Others push as they like.

`GitPush` is the path of a push: `Sync` and the advertisement, the hook with its
updates, `Resolves` (the binding with old values, deletions and forced updates),
`LookUp` of a grant and of a pending request, `Decide`, `Execute`, `Consume`, the
push itself in `transit` between host and upstream, `Record`, `Answer`. `Users`
are `approvals` commands: list, confirm, approve, reject. An `item` is a nonce
with its place in the manager (`mgr`), in `pending` and `byDigest` (`listed`) and
in `approved` (`usable`). Pushes are leased and atomic at the upstream, which is
external, as `git push --force-with-lease --atomic` asks. Answers get lost, the
guest leaves, a session ends with its broker, requests and grants expire. A `Sync`
that fails may have fetched all the same (its audit record comes last), and
`Answer` moves the refs of the quarantine one by one, as receive-pack does after
the hook: some of an accepted push may be refused there.

The refinement mapping takes as approved the transitions whose item was
confirmed and not consumed, and those in transit.

### 2.7 WorkSet

Trees are functions from a small set of paths to entries; nothing is enumerated
beyond `Paths`. The operators carry the names of the code's ideas: `Partition`
(`BuildPartitionedSnapshotManifest`, `classifyBulkRoots` with rules, hard, soft
and structural admission), `MergedView`, `BuildChangeSet` with rename groups,
`BuildWorkSet` (`PartitionResultManifest`), `Derive` ("review normally"),
`PlanBuilds`, `AffectedRoots`, `GuardsHold`, `Staged`, `Renamed`, `Verified`. The
actions are `Start`, `GuestEdit`, `Export`, `Resolve`, `ReviewNormally`,
`PreparePlan`, `HostEdit` and the outcomes of an application. `Apply` applies
the roots the way `applyWorkSetLocked` does: the old subtree moves away, the
staged one moves in.

What is left out: byte limits (they are compared as entry limits are), links,
the reading of overlay upper layers (`prepareGuestExport` always produces a
merged export), secret and case-fold checks.

### 2.8 HostConfiguration

| In the model | In the code |
|---|---|
| `decl`, `lock`, `active` | `versions.json`, `versions.lock.json`, the binding in `config.json` |
| `candidate`, `arts`, `journal` | `updates/candidate.json`, `updates/artifacts`, `updates/apply-journal.json` |
| `conf`, `policy`, `ctx` | `project.json`, `policy.json`, `.config-policy-transaction.json` of each Project |
| `vm`, `served` | what a Project's VM was created with; whether its Supervisor lives |
| `ex`, `sh`, `cfg` | operation lock (exclusive, shared) and configuration locks |
| `run[c]` | the command process c runs and its next step |

Every rename of a file is a step. `BeginUpdater` ... `ClearCandidate` are `update
apply` and `setup`, `Recover*` is `recoverDependencyUpdate`, `Restore*` the error
path before the commit decision, one step per file. `LoadForChange` ...
`SaveChange` and `ChangePolicy` ... `SavePolicyAndConfig` are the commands that
change settings, `RenameConf`, `RenamePolicy`, `EndWrite`, `WriteFails` their
transaction, `Look` a load that recovers it. A transaction names its writer
(`by`): `WriteTransaction` stages the new files under names of its own before it
writes its journal, so that a rename is possible only while the journal is still
the writer's (`Staged`); a load that has finished the transaction first, or
`destroy`, makes it fail. `BeginStart` and `Boot` make a VM; `BeginDestroy` ...
remove the Project. `Crash` ends a process anywhere and releases its locks; the
user may edit `project.json` and `versions.json`.

What is left out: two `init` of the same Project at the same time; errors that
are reported after a rename (`SyncDir`), that of the commit decision of an update
included; `versions set` is one step, and so is the gitignore import from its second
load on (the first is a `Look`); a download, a digest check or an image build is a
possible refusal. Of the migrations only that of the legacy lock is there: policies
have the current schema, so that a load does not write one (`LoadAndMigrate` saves
an older one under the configuration lock alone, `internal/policy/store.go:124`).

### 2.9 ReviewConsole

`tui` is the coordinator: the screen it is at and its local variables (the
loaded Work Set, the review built from it, the identity that was confirmed).
`ui` is the exchange with one helper. A screen is two steps: `Show...` reads the
state and launches a helper with a view, `Handle...` gets the event. Between
them every command of another terminal may run (`...Elsewhere`), the user may
edit the Project (`EditProject`), and the Supervisor may fail.

A helper is a process of its own, counted in `ui.helpers` from its launch to its
exit. It connects (`HelperConnects`) or not; it sends an offered event, or one
that was not offered and that `ValidFor` refuses (`HelperAnswers`); it exits
(`HelperExits`), before or after, or is killed (`Kill`). `exchangeUIView` returns in
a step of its own, once the process it waits for has gone (`Awaited`, `Returns`).
`Fits` is the check of a view. `Identity` is `IdentityOf...` of the code: Work Set
digest and Resolution digest. `tui.confirmed` is the Work Set whose identity the
confirmation was opened with; `tui.review` is the review whose summary the
confirmation shows, which may be of an older one (3.2).

Contents are numbers that stand for digests, and an edit may bring one back.

What is coarser: Escape and the cancellation of a view are `back`, the exit event is
`exit`. What is left out: the settings, setup and Project selection screens, the list of
Bulk paths beyond one page, sanitisation, sizes of labels, the nonce and process
checks of the endpoint.

## 3. Runs

States are distinct states; times are for two workers. A run is named as in
`PROJECT.json`.

### 3.1 Runs that pass

**apply_transaction** (`ApplyTransaction.cfg`; 148 thousand states, 20 s).
Three affected roots in every combination of created, changed and deleted, two
failing operations and two crashes. Three roots make the loop have a done, a
current and an untouched entry; two crashes interrupt a recovery of an
interrupted apply; two faults do the same within one process.
- `AllOrNothing`: recovery leads to all-before or all-after.
- `OriginalsKept`: until the complete result is in place, every original is in
  the Project or in the backup directory.
- `HonestResult`: success means the after-state; "not committed" means the
  before-state with nothing left behind.
- `ImplementsAtomicApply`: the refinement of `AtomicApply`.
- `CallReturns`: every call ends and releases the Project lock. (It may well end
  with an error, and leave a journal that no recovery accepts: 3.3.)

**secure_transaction** (`SecureTransaction.cfg`; 394 thousand states, 47 s).
Three files, a writer and a reader under one lock, three faults, two crashes, no
failing sync. The files are those of the configuration.
- `AllOrNothing`: files read without a journal are of one generation.
- `Recoverable`: a journal on disk can be followed to its end.
- `SuccessIsComplete`: a nil error means that all files are new.
- `Converges`: an interrupted transaction is eventually finished.

**changes_apply** (`ChangesApply.cfg`; 237 thousand states, 28 s). One process,
two Bulk paths with all dispositions, two contents (so that a result differs from
its baseline or not, and an edit brings a content back), two faults, two crashes;
`changes status` may come at any moment, the other commands between unfinished
applies only.
- `KeptDataIsThere`: once finalized, each object is where its disposition says; a
  listed item has its object.
- `CommitIsRecorded`: a committed Work Set that is still pending has its journal.
- `PendingLeaves`: a pending Work Set goes only by an apply or a discard.
- `Completes`: an unfinished retention journal is completed by running again.

**changes_apply_together** (`ChangesApplyTogether.cfg`; 1.9 million states,
47 s). Two processes, which are exchangeable, every other command between their
steps (`changes status` begins between applies only, and goes on among their
steps), a crash, one Bulk path, `MaxContents = 1`: contents 0 and 1.
- `DeletedOnlyAsApproved`: an object is deleted only where an applied plan or
  the user says so.
- `AppliedOnce`: a Work Set whose result the Project holds is not committed again.
  Where the user, or another Work Set, has moved the Project since, it may be (3.3).

**supervisor** (`Supervisor.cfg`; 675 thousand states, 90 s). Both modes, two
VMs, two faults, two deaths (Supervisor, exporting command or host). Two VMs
are enough for one that is left behind and one that is started afterwards; two
deaths kill an export and then the command that recovers it.
- `RetainedWorkKept`: a VM with unexported work that stopped without an owner or
  was left to recovery is not removed before its Work Set is pending or the user
  discards it.
- `FrozenRecordAdoptable`: a frozen record whose Work Set was never pending
  names a stopped VM, which the next `changes export` can take up.
- `OutcomeEndsSupervisor`: a Supervisor whose session was exported, destroyed or
  left to recovery ends.

**session_control** (`SessionControl.cfg`; 3.6 million states, 95 s). Two
sessions of a dev VM, one gateway, two requests, a quota and a concurrency of one,
two faults (one that ends an export without its audit record, and one after it).
Two sessions are a session and the one a resume makes of it; two
requests are one under way and one that is refused or comes later.
- `QuietAfterwards`: a pause that succeeded leaves no request and no usable
  lease; no end of a session leaves a listener, a relay or a running VM; outside
  a running session every capability is revoked, unless an export of a dev session
  ended because its audit record failed: then all of it is still there (3.3).
- `LimitsKept`: slots are those of admitted requests, the quota holds.
- `AdmittedInTime`: an admission is for the session that runs, or was left so,
  before it expires.
- `NoEarlyPause`: the main loop pauses only when a deadline of that session has
  passed.

**session_deadline** (`SessionDeadline.cfg`; 111 thousand states, 60 s). The same with
one request and no fault.
- `DeadlineEnds`: a session whose deadline has passed is paused or extended.

**git_push** (`GitPush.cfg`; 2.7 million states, 115 s). Two connections, one ref, one
`approvals` command at a time, two nonces, two sessions, a clock of one
lifetime, one fault (a lost answer, a failing audit record, a failing step). Pushes
of several refs and two commands at once are covered by the proofs only (4.7).
- `Implements`: the refinement of `ApprovedPush`, which is the main result.
- `OneRequestPerPush`: a binding has at most one request and one grant; a listed
  request is pending in the manager, which does not say that it can still be
  approved: an expired one stays listed and is refused. A grant was confirmed, and
  one attempt at a time holds it.
- `GuestSeesUpstream`: what the guest is advertised was once the upstream's, and
  a push it is told accepted has reached the upstream.

**work_set** (`WorkSet.cfg`; 123 thousand states, 57 s). Five paths at two
levels; four Projects that differ in which directories are Bulk, small, oversized
or absent; two guest edits, one host edit. Any entry may become any other, a
subtree may appear or go, so that two edits make a root change its side.
- `ResultIsWhole`: Core and Bulk records together are the result of the guest, each
  path in one of them. The baseline of a path may be shown in Core beside it (3.3).
  No path is excluded in this run.
- `ReplayGivesResult`: the planned moves turn the baseline into that result.
- `BulkKept`: of the Bulk roots it knows (those of the approved partition and those of
  the Work Set), an application changes one only where a disposition says so, and
  then only where nothing is. One that came to the host after the export it may
  destroy (`HostBulkKept`, 3.3).

**host_config** (`HostConfiguration.cfg`; 521 thousand states, 55 s). Two
processes with three commands between them, two Projects, one registered, two
published versions, one fault, one hand edit. Three commands are an update that
dies, a command in between and the recovery. With one Project and four commands
the same properties hold (1.4 million states).
- `TransactionIsWhole`: a lock and a binding that differ have a journal.
- `UpdateKeepsSettings`: the settings an update has read are still the ones it
  rewrites.
- `AppliedAsChecked`: the candidate that is installed is the one that was
  checked, with its artifacts.
- `JournalEndsWhole`: the journal goes when lock, binding and every policy agree.
- `PolicyKept`: any other command that moves a policy to other versions moves it
  to the active lock; while a VM exists that fits its policy, no command changes
  what the VM would have to be recreated for, and only the recovery of an update
  changes the versions.

**review_console** (`ReviewConsole.cfg`; 1.3 million states, 182 s). Two exported
Work Sets, the first with a Bulk path only, the second with one file as well, which
makes two pages with that of a promoted Bulk path; two pages of diff, two
dispositions, two contents, which may come back.
- `AppliedAsConfirmed`: what is applied is the Work Set the confirmation was opened
  for, with the disposition of each Bulk path that the screen listed. The Normal
  files are not its matter: they are that of `AppliedAsReviewed` (3.2).
- `DecidedAsShown`: a disposition in force was chosen for that content. With one
  Bulk path no choice is carried into a derived Work Set: that clause only the proof
  covers.
- `StartedAsApproved`: a VM is made of an approved content.
- `TerminalIsFree`: no helper lives beside OpenCode, the user's shell after the end
  of the TUI, or another helper, however an exchange ended.
- `ExchangeEnds`: every exchange comes to an end.

Every module has a type invariant `TypeOK`. The run of ApplyTransaction checks it
and `TypeCorrect` proves it; the invariants of the other proofs contain the
shapes they need (`Shape`, `ItemShape`, ...). In the other modules `TypeOK` holds
with the constants of their runs, which leave it out in favour of the properties
above.

`CHECK_DEADLOCK FALSE` stands where the system may stop: when every Work Set, VM,
session, command or moment of the bounds is used up and nobody runs a command,
or the TUI has been left, nothing happens any more.

### 3.2 A run that finds a violation

**review_console_stale** (`ReviewConsoleStale.cfg`), `AppliedAsReviewed`. The
pending Work Set has one Bulk path and nothing else. The TUI shows the Bulk paths
at once; the user (or another terminal) moves the path to the Normal lane with
"Review normally". `changesForPending` reads the pending Work Set again, but the
review it built before is still the empty one: the confirmation says "0 files; all
included" and the application writes files that no screen has shown. The plan
document says that an apply covers the Change Set that is displayed.

### 3.3 What the code does not keep

The specifications state more than holds. Each of the following is a definition
of its module, has been found broken by TLC with the constants its comment names,
and is no property of a run above.

| Module | Property | What happens |
|---|---|---|
| ApplyTransaction | `UncommittedJournalRolledBack` | `os.RemoveAll` is interrupted after `backup` and before `journal.json`; every later recovery refuses the open journal without a backup directory (`internal/apply/workset.go:272` says that an uncommitted journal is rolled back) |
| ApplyTransaction, SecureTransaction | `AllOrNothing`, `Recoverable` with `SyncMayFail = TRUE` | only the directory sync of a journal fails: the journal is on disk although its writer takes the error path |
| SessionControl | `QuietAfterwards` without the exception for `Unaudited` | the export of a dev session has closed the egress, but the audit record of that fails (`internal/session/session.go:1147`): the export returns a plain error, the control session is marked failed (`internal/cli/approval_control.go:337`), VM, gates and lease stay as they were, and a failed session arms no timer that would end them; only the end of the Supervisor does |
| ChangesApply | `CommittedIsFinalized` | the user edits the Project, resolves again or discards after the commit; the resumed command insists on the after-state and never gets to the retention phase |
| ChangesApply | `DiscardIsFinal` | a resumed retention phase lists an item again that the user has discarded |
| ChangesApply | `CommitIsRecorded` with two `Cli` | a second apply overwrites, then removes, the journal of the first |
| ChangesApply | `CommitIsRecorded` with `"resolve"` in `Meanwhile` | the Resolution is changed after the commit: the journal that finishes the retention phase is one of another Resolution |
| ChangesApply | `PendingLeaves` with `"export"` in `Meanwhile` | an apply that is about to remove its pending Work Set, or the next one that finds its finalized journal, removes the Work Set that was exported meanwhile |
| Supervisor | `WorkKept` | a response that streams when the deadline passes makes the pause report an error; the Supervisor ends and removes the stopped VM. A dev network that cannot be closed, a failing console command and a signal end the same way |
| Supervisor | `RecordedVMStopped` | an interrupted export cannot stop the VM with its cancelled context; the record binds a running VM that no command accepts |
| Supervisor | `FrozenRecordAdoptable`, `RetainedWorkKept` with `"queued"` | an export or a destroy that waited for the mutex works on a session in state recovery: its VM may have been adopted, and is started, frozen or removed a second time |
| WorkSet | `HostBulkKept` | the guest replaces a directory by a file or changes its mode; the user makes a Bulk directory in it after the export. The Core of the host still matches, and the application renames the whole directory away and removes it |
| WorkSet | `HiddenKept` | a changed directory with an excluded host file is renamed away as a whole and the file goes with the backup (the plan document, line 487, says that `snapshot.exclude` keeps it out of the host apply). A nested `.git` is lost the same way |
| WorkSet | `CoreAndBulkApart` | a Core directory grows past the soft limit in the VM: its baseline is in Core, its result in Bulk (the comment at `internal/workspace/bulk.go:297` says that this is prevented) |
| HostConfiguration | `JournalRecoverable` | a Project that an open update journal names is destroyed, which takes no operation lock: every later `setup` and `update apply` stops at the missing policy |
| HostConfiguration | `ConfigurationRecoverable` | an update rewrites a policy under an interrupted configuration transaction; every later load says that the target changed before the commit |

Other behaviour the models made visible, or the code shows, without a property of
its own:
- The pending Work Set: `loadPending` recovers the transaction over `change.json` and
  `resolution.json` without the lock its writers hold (`internal/cli/pending.go:192`),
  so that the two may end up in two generations. SecureTransaction is about the
  files whose readers hold the lock.
- ChangesApply: a user who puts the Project back to the baseline while its Work Set is
  still pending (an apply that died before it removed it, or that failed after
  the commit) has the Work Set applied again: the code compares digests, and has
  no memory of the commit beyond the journal.
- Supervisor: a frozen record that outlives the apply of its Work Set makes it
  pending a second time.
- SessionControl: an export revokes the lease before the gates, so a request that
  has passed the wrapper may still be admitted; a failing resume ignores the
  error of the lease; the last `pause` of a TUI carries no session identity.
- GitPush: between the look-up of a grant and that of a pending request a second
  request can be made for a push that has just been approved; a rejection of it
  does not withdraw the grant. Expired requests stay listed until they are
  repeated or decided, and 128 of them refuse every other. The upstream may have
  changed although the guest was told failure.
- WorkSet: a `chmod` or a removal of a directory that contains an untracked Bulk
  root can never be planned, only discarded. "Review normally" of a root whose
  parent exceeds the soft limit makes every application roll back
  (`ApplyRollsBack`). A `.git` made by the guest anywhere makes the export fail.
- HostConfiguration: `init` after a crash between the commit decision and the new
  lock binds the new Project to the old version, and the journal does not name
  it. Two `init` at once: the failing one removes the registration of the other.
  A recovered update may change the policy under a VM that was started after the
  crash. `destroy` during `update apply`: `policy.Save` makes the directory
  again.
- ReviewConsole: a middle page with Bulk paths has one action more than
  `MaxActions`, so that its view is refused; "resume" on a Home screen that is out
  of date starts a new VM (of the approved content).

### 3.4 Fairness

- ApplyTransaction: `WF(Work)`, a running call is one goroutine that the system
  schedules; `WF(StartResume)`, the user runs the command again. Starts of new
  applies, faults and crashes are not fair.
- SecureTransaction: `WF` of the writer's and each process's recovery steps;
  `SF(BeginRead)`, the files are loaded again and again, by a reader that waits
  for a lock its writer releases time after time.
- ChangesApply: `WF` of a running command's steps and of a discard's; the
  command is run again while a journal exists. Without that assumption nothing
  finishes an interrupted retention phase: there is no background process.
- Supervisor: `WF` of the steps of a running export, of the close of the control
  socket and of a running recovery export; `SF(Shutdown)`, since the shutdown
  waits for a mutex that passes to the longest waiter. What users, guests and
  deadlines do is not fair.
- SessionControl: `WF(OpStep)`, an operation that holds the mutex goes on (each
  step has a timeout of its own in the code). `SF` of arming a timer, of the
  pause it leads to and of the shutdown: they wait for a mutex that passes to the
  longest waiter. `SF` of the two timers: `select` picks among the ready channels
  at random, so one that is ready again and again is taken. Guests, users and the
  clock are not fair.
- ReviewConsole: `WF` of `ExchangeBreaks` (the deadlines of the endpoint),
  `HelperExits` (a helper that has sent its event exits), `Kill` and `Returns`
  together: one of them can be taken at every step of an exchange, and each brings
  it nearer to its end. A helper that sent its event and never exits would hang the
  coordinator, which waits without a limit (`tui_coordinator.go:179`): its side of
  this assumption is `src/ui/src/lifecycle.ts`, and the property does not cover it.
- GitPush, WorkSet and HostConfiguration state no fairness: their properties are
  safety properties, and nothing in them has to happen unless a user asks.

## 4. Proofs

Eight modules hold the proofs. They are checked for every value of the constants
their named assumptions admit; each theorem but `Invariance` states a property
that a run checks. Every inductive invariant named below was checked by TLC on a
small instance before it was proved.

### 4.1 ApplyTransactionProofs

For any number of affected roots, faults and crashes; under the assumption
`SyncMayFail = FALSE` except for `TypeCorrect`, which holds either way:

| Theorem | Statement |
|---|---|
| `TypeCorrect` | `Spec => []TypeOK` |
| `Invariance` | `Spec => []IInv` |
| `Atomicity` | `Spec => []AllOrNothing` |
| `OriginalsSurvive` | `Spec => []OriginalsKept` |
| `ResultsAreHonest` | `Spec => []HonestResult` |
| `Refinement` | `Spec => ImplementsAtomicApply` |

The assumption is needed: with `SyncMayFail = TRUE` the first property fails.
The others used are the named ones of the module (`ApplyAssumption`).

`AllOrNothing` alone is not inductive: it does not say what the next step of
the process will do to the files. `IInv` adds
- `Approved`: what the before- and after-trees look like; with it they differ
  in every slot (`StatesDiffer`), so that "done" and "untouched" exclude each
  other;
- `Nesting`: no journal or backup without the directory around it;
- `OpenJournal`: an open journal recorded the baseline, and an original that is
  not in the backup is still in the Project, so rolling back is possible;
- `ClosedJournal`: without an open journal the Project is in an approved state,
  with a committed one in the after-state;
- `Progress`: which entries each loop has passed, for every value of `pc`.

`InitIInv` shows that it holds at first; `NextIInv` that each action preserves
it, one step per action. `RecoveredState` reads off `IInv` that recovery leads
to `before` or `after`. `Atomicity` and `OriginalsSurvive` follow from `IInv`;
`HonestResult` needs the step as well as the state, since a result outlives the
call (`NextReported`). For `Refinement`, every step is shown to leave
`Recovered` unchanged or to be the one step from `before` to `after`.

### 4.2 SecureTransactionProofs

For any number of files the code accepts, any faults and crashes, under the
assumption `SyncMayFail = FALSE`, without which `AllOrNothing` fails. They are about
the files whose readers hold the lock of the writer, which is how the module is
written.

| Theorem | Statement |
|---|---|
| `OneGeneration` | `Spec => []AllOrNothing` |
| `JournalsFinish` | `Spec => []Recoverable` |
| `SuccessComplete` | `Spec => []SuccessIsComplete` |

`AllOrNothing` speaks of moments in which nobody works. The invariant `IInv`
covers the others: `Exclusive` (one process at a time, from the lock),
`Generation` (no journal, one generation, at every moment), `Progress` (what each
loop has passed, and that a backup exists of every file that had contents as long
as a rollback may start) and `Honest` (a writer in recovery has an error to
report, unless it is the recovery it opens with, `Opening`). `OnlyOne` is the use
of the lock: a step of one process has only its own progress to show. `Leaves` is
the crash, or a call that gives up: whatever is left is the next reader's to
finish, by `Recoverable`.

### 4.3 HostConfigurationProofs

For any Projects, processes and bounds, under `ConfigurationAssumption` alone.

| Theorem | Statement |
|---|---|
| `WholeTransaction` | `Spec => []TransactionIsWhole` |
| `CheckedUpdates` | `Spec => []AppliedAsChecked` |
| `KeptSettings` | `Spec => []UpdateKeepsSettings` |
| `JournalEnds` | `Spec => JournalEndsWhole` |
| `PoliciesKept` | `Spec => PolicyKept` |

- `LockInv` is the base of all: an updater holds the operation lock alone, a
  command that writes under the shared lock holds it, and nobody shares while an
  updater runs.
- `WholeInv` adds, per step of an updater, which of lock, binding and journal are
  already written. Everyone else leaves the three alone.
- `CheckedInv` adds that a candidate between check and installation is complete.
  A check and an update exclude each other by `SharedAlone`.
- `KeptInv` adds what an updater remembers of the inventory (`Follows`). A step of
  any other process is `Gentle`: it changes no policy without an open
  transaction, unless it removes it. That is shown once per command
  (`ConfigurePolicy`, `AlonePolicy`) and used for every updater (`GentleKeeps`).
- `EndsInv`, for `JournalEnds`, says which of its policies an update or its recovery
  has bound already (`Ends`), and that they stay bound (`Bound`). What could unbind
  one is the transaction of an interrupted `config edit` that somebody completes:
  its new policy names the old version. `RevInv` rules that out. Every rewrite
  counts the revision up, so a policy that was bound is no longer the one the
  transaction expects, and its completion is refused. `JournalGoes` then looks at
  the two steps that remove the journal.
- `PoliciesKept` rests on `ProjectInv`, the conjunction of `UpdateInv` (all of the
  above but `CheckedInv`) with six parts that follow one Project. What happens to
  it is classified once for all commands: a step is `Mild` (a load, a rename, a
  removal) or `Writes` (`ConfigureWrites`, `AloneMild`).
  - `CfgInv`: who holds which configuration lock. `OwnedInv`: a writer whose
    journal is still its own finds the policy the journal expects.
  - `DepInv`: a pending transaction that would bind its Project to another version
    binds it to the active lock (`MovesInv`); while an update waits for its
    recovery, a Project its journal does not name is bound to the old lock
    (`OutsideInv`). This gives the first part of `PolicyKept` (`BindsToActive`).
  - `SettledInv`: nothing is pending over a policy that was read under the
    configuration lock. Whoever else comes to that Project can only go on with a
    journal of its own, end or remove (`Tame`, `Guarded`), or be an `init`, which
    takes no configuration lock and begins where there is nothing.
  - `ClearInv`: an updater past its inventory has seen that there is no VM.
  - `FitsInv`: the policy of a Project that has a VM, and what a pending
    transaction would make of it, have the shape the VM was created with, or the
    default of a Project that was registered again under a VM that was left; and
    what a command has read and is about to save or to boot agrees with both
    (`Keeping`, `Changing`, `Starting`). `FitsVM` gives the other two parts.

  The recovery of an update is the exception of the third part: a VM may have been
  started between the crash and the recovery. The proof shows that it is the only
  one, and that it keeps the shape.

### 4.4 ReviewConsoleProofs

For any Work Sets, contents, actions and bounds, under `ConsoleAssumption`.

| Theorem | Statement |
|---|---|
| `TerminalFree` | `Spec => []TerminalIsFree` |
| `ConfirmedApply` | `Spec => AppliedAsConfirmed` |
| `ApprovedStart` | `Spec => StartedAsApproved` |
| `Decided` | `Spec => []DecidedAsShown` |

- `ExchangeInv`: a helper lives only in an exchange that has not returned, on a screen
  that shows a view; so a launch finds no other, and OpenCode and the shell none.
- `ConfirmInv`: while a confirmation can be answered, and until its apply is done,
  the Work Set it was opened for is the copy the coordinator applies. What the
  screen says of its files is not in it.
- `ApprovalInv`: the stored approval, and the digest a start carries, are among the
  contents the user approved.
- `DecidedInv`: the pending Work Set is the last one exported, so a recorded choice
  is about it; one that "Review normally" carries over keeps its Bulk path.

### 4.5 ChangesApplyProofs

For any number of Work Sets, Bulk paths, faults and crashes, under
`ChangesAssumption`.

| Theorem | Statement | Hypothesis |
|---|---|---|
| `OnlyAsApproved` | `Spec => []DeletedOnlyAsApproved` | none: any processes, any commands between their steps |
| `AtMostOnce` | `Spec => AppliedOnce` | none |
| `KeptDataStays` | `Spec => []KeptDataIsThere` | `OneApply` |
| `LeavesApplied` | `Spec => PendingLeaves` | `OneApply` |
| `CommitHasJournal` | `Spec => []CommitIsRecorded` | `OneApply`, no `"resolve"` in `Meanwhile` |

`OneApply` says that there is one `changes apply` at a time and that nothing is
exported while it, or its journal, is unfinished. Status, `bulk resolve`,
`recreate`, `retained discard` and edits of the Project may come between any two
of its steps: more than the run `changes_apply` lets happen, where no other
command does. The code does not enforce `OneApply`; it is what a user does who
works in one terminal. Section 3.3 says what fails without it, and what a
changed Resolution does to `CommitIsRecorded`.

`IInv` needs no hypothesis. That data is deleted as approved is not inductive:
`Approved` adds that whoever may move, record or purge an object works for a plan
that was committed with that disposition, and that a journal in phase
`project_committed` is proof of such a commit. That a Work Set is not committed over
its own result comes from `LastCommit`: until somebody moves the Project it holds
the result of the commit, and an apply demands the baseline in the step that
changes the files.

`Alone` is `IInv` with what holds of a single process:
- `Latest`, `OwnJournal`, `Revised`: plan, journal and history are about the Work Set
  that is pending, or was last; `Revised`, which only the last theorem uses, that
  they are about its Resolution;
- `Knows(p)`: which journal there is at every step of the process. After a crash
  or another command this is what the journal says, not what the process wrote;
- `Cleanup`: what `changes status` is about to remove is finalized, and no process is
  at work on it;
- `Untouched`: before the commit nothing has happened to the Bulk data;
- `Retention`: after it each object is on the way its disposition wants
  (`OnTheWay`), the objects before the loop's `cur` are there (`Settled`), and only
  objects to be kept on the host can be listed, so that a discard by the user
  never works on what the retention phase moves.

TLC had found `Alone` to hold with every command but `export` in `Meanwhile`.

### 4.6 SessionControlProofs

For any gateways, guest requests, sessions, lifetimes, quotas and concurrency
limits, under `SessionAssumption`.

| Theorem | Statement |
|---|---|
| `Quiet` | `Spec => []QuietAfterwards` |
| `Quotas` | `Spec => []LimitsKept` |
| `InTime` | `Spec => AdmittedInTime` |
| `OnlyWhenDue` | `Spec => NoEarlyPause` |

All follow from one invariant, since the properties speak of the moments in
which no operation holds the mutex and hide what an operation has done so far:
- `Runs`, `Serves`: a session that runs, or that a failed audit record of an export has
  left (`Unaudited`), has all its parts; a `quiesce` finds it so or over;
- `Capabilities`: only the current session has a live gate; an ending operation
  that has stopped the gateways has closed every gate, one that is at it those of
  the gateways it has done;
- `Entrance`, `Machine`: requests enter while the session runs or has just begun
  to end, and what has entered finds the VM running or its gate closed. This is
  why a request between the wrapper's check and the gate cannot be admitted too
  late;
- `Released`, `Ended`: relay, listeners and VM, per step of an ending operation;
- `Leases`, `Pausing`: the leases of earlier sessions are spent, and a pause that
  has met no error has waited for every request; one that met an error remembers
  it (`err`) and does not end as a pause;
- `Limits`: slots count admitted requests, `admitted <= used <= MaxRequests`.

`Leases` needs no hypothesis on how an operation ended: a lease that a step could
not revoke is of the current session. The lemmas `Proceeds`, `Retains` and `Ends`
say what the way an operation goes on has to show, so that each step has one proof
for all the operations it belongs to. `OnlyWhenDue` needs only that a timer fired
at a moment that has passed (`loop.at <= now`): the step that begins the pause
compares that moment with the deadlines in force.

### 4.7 GitPushProofs

For any refs, wishes, connections, `approvals` commands at the same time, nonces,
sessions, lifetimes and faults, under `GitAssumption`.

| Theorem | Statement |
|---|---|
| `Refinement` | `Spec => Implements`: the broker implements `ApprovedPush` |
| `OneRequest` | `Spec => []OneRequestPerPush` |
| `GuestSees` | `Spec => []GuestSeesUpstream` |

- `OnePlace`: a nonce is in one place: with the broker as a request, with the
  command that decides it, with the broker as a grant, with the connection that
  executes it, or on its way. Two commands or two connections never hold the
  same one; single use rests on it.
- `Approved`, `OwnGrant`: from the answer of the user until it is spent a grant
  stays confirmed, and a connection executes the grant of its own binding.
- `Reached`, `Told`: every value the upstream has is one it had, and a connection
  is at `record` or `accept` only when its updates have been there.

For the refinement each step is shown to be one of the abstract specification
under the mapping, or a stutter: `ManagerConfirm` is the approval, what drops a
grant unused a withdrawal, `Arrives` the push, or a withdrawal when a lease
does not hold. Since what is in transit was confirmed
and is nowhere else (`OnePlace`), no approval is used twice; since the push is
leased, it changes exactly the values that were shown.

### 4.8 SupervisorProofs

For both modes and any number of VMs, failing operations, killed processes and
host restarts, under `SupervisorAssumption` and the hypothesis `NotQueued`
(`"queued" \notin Events`): no request was waiting for the mutex when an export
left the session to recovery. With such a request both properties are false
(3.3); every other circumstance may occur.

| Theorem | Statement |
|---|---|
| `RecordAdoptable` | `NotQueued` implies `Spec => []FrozenRecordAdoptable` |
| `RetainedKept` | `NotQueued` implies `Spec => RetainedWorkKept` |

The two properties speak of the record and of VMs; what keeps them is which of
four parties (a Supervisor, the command that recovers, the cleanup, the user)
may touch a VM at a moment, so the invariant says who owns what:

- `Locks`: a Supervisor holds lock and guard from the creation of its VM to the
  end of its session, or until the VM has gone (`Owning`; a destroy that reports
  an error may have removed it and given the locks back, `Destroys`); `changes
  export` holds them from the adoption of the recorded VM to its removal. Never
  both, so a running export and a recovery exclude each other.
- `Recovering`: the record stays as long as a command works on its VM, and the
  command removes a VM only when its Work Set has become pending or was
  discarded; `rx = "finish"`, which takes no lock, as well.
- `Exporting`: a frozen VM has work and is stopped until its Work Set is pending,
  it is removed only afterwards, and a record that this export saved is its own.
- `OneRecord`: a VM that may still work has no record, and a frozen record of an
  unexported VM belongs to an export that is about to persist or to a session in
  recovery. A shutdown therefore never removes the VM of such a record.
- `VMShape`: the record, the Supervisor and the pending Work Set name what there is.

Most actions do nothing the invariant is about. Three lemmas cover them in
groups: `AsideKeeps` (steps of other processes and of the user, which remove at
most orphans and what is discarded), `HandlesKeeps` (operations of the Supervisor
on the VM it owns) and `LeavesKeeps` (the end of a Supervisor). TLC had checked
`IInv` with the constants of **supervisor**.

### 4.9 Only model-checked

- Liveness (`CallReturns`, `Converges`, `Completes`, `OutcomeEndsSupervisor`,
  `DeadlineEnds`, `ExchangeEnds`): liveness under fairness is outside what the
  proof system handles.
- `ResultIsWhole`, `ReplayGivesResult` and `BulkKept` of WorkSet: what the algebra
  computes over a tree needs induction over paths, which is out of reach too.

## 5. Abstractions that hold everywhere

- Paths, digests, JSON and audit records are left out; a comparison of digests is
  an equality of contents. An audit append that fails is a fault of the
  operation it belongs to.
- A crash keeps every durable operation done before it. The code syncs files
  and directories before it relies on them; losing a synced write is not
  modelled.
- Checks of owner, mode and link count of private files always succeed: only
  the program writes there.
- Bounds (`MaxFaults`, `MaxCrashes`, `MaxSets`, `MaxRev`, `MaxContents`,
  `MaxEdits`, `MaxVMs`, `MaxSessions`, `MaxTime`, `MaxNonces`, `MaxCommands`,
  `MaxManifest`, `MaxGuestEdits`, `MaxHostEdits`) are guards of the actions that
  would exceed them, in the specification and not in a state constraint. No
  counter of the program is bounded by them; `MaxRequests`, `MaxConcurrent`,
  `MaxEntries`, `MaxActions` are limits of the code.

## 6. Not modelled, and why

- Web gateway: beyond its gate and its start and stop (SessionControl) it checks
  one request at a time; DNS pinning is the use of an address that was just
  checked.
- Development network and firewall: one caller that runs external commands; a
  failing quiesce is an event of Supervisor.
- Guest and attach relays: they copy bytes; SessionControl counts them.
- Audit log: local to one file and one lock; its failures are in the models.
- OAuth and secrets: one mutex around one refresh; the keychain is external.
- External Git guard, container runtime, image, OpenCode and doctor commands:
  they run external programs and parse their output.
- Compilation and validation of settings; argument parsing, rendering, wizard.
- `cleanup.Run` in its separate steps; the removal of the Project state by
  `destroy` against a running export; edits of the Project between the last
  comparison of an apply and its renames. They are listed as hazards.

## 7. Plan

1. `cleanup.Run` as list, inspect and lock, with `RetainedWorkKept` as its test; the
   two checks of a start within SessionControl.
2. An edit of the host between comparison and rename in ApplyTransaction.
3. `DevNetwork` and `Audit`, if their code grows a protocol.

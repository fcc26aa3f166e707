---------------------- MODULE HostConfigurationProofs ----------------------
(***************************************************************************)
(* Proofs about HostConfiguration for any number of processes, Projects,   *)
(* commands, failures and hand edits.                                      *)
(***************************************************************************)
EXTENDS HostConfiguration, TLAPS

-----------------------------------------------------------------------------
(* The operation lock *)

IsRun(r) == {"cmd", "at"} \subseteq DOMAIN r

\* Where a process has the share of the operation lock.
Shares(r) ==
  \/ r.cmd \in {"check", "start"}
  \/ r.cmd \in Writers /\ r.at \in {"write", "write policy", "write end"}
  \/ r.cmd \in {"apply", "edit"} /\ r.at = "save"

LockInv ==
  /\ run = [c \in Procs |-> run[c]]
  /\ \A c \in Procs : IsRun(run[c])
  /\ \A c \in Procs : run[c].cmd \in Updaters => ex = c
  /\ ex # None => sh = {}
  /\ \A c \in Procs : Shares(run[c]) => c \in sh

\* A process moves on, and the locks of the others stay as they are.
LEMMA MoveLocks ==
  ASSUME LockInv, NEW c \in Procs, NEW r, IsRun(r),
         run' = [run EXCEPT ![c] = r],
         r.cmd \in Updaters => ex' = c,
         \A d \in Procs \ {c} : ex = d => ex' = d,
         ex' # None => sh' = {},
         Shares(r) => c \in sh',
         \A d \in Procs \ {c} : d \in sh => d \in sh'
  PROVE  LockInv'
<1>1. run'[c] = r /\ \A d \in Procs \ {c} : run'[d] = run[d]
  BY DEF LockInv
<1>2. run' = [d \in Procs |-> run'[d]]
  BY DEF LockInv
<1> QED BY <1>1, <1>2 DEF LockInv

LEMMA EndLocks ==
  ASSUME LockInv, NEW c \in Procs, End(c)
  PROVE  LockInv'
<1>1. IsRun(Idle) /\ ~Shares(Idle) /\ Idle.cmd \notin Updaters
  BY DEF IsRun, Shares, Idle, Writers, Updaters
<1>2. /\ run' = [run EXCEPT ![c] = Idle]
      /\ ex' = IF ex = c THEN None ELSE ex
      /\ sh' = sh \ {c}
  BY DEF End, Released
<1> QED BY <1>1, <1>2, MoveLocks DEF LockInv

\* A step at which a process takes and gives no lock.
LEMMA KeepLocks ==
  ASSUME LockInv, NEW c \in Procs, NEW r, IsRun(r), run' = [run EXCEPT ![c] = r],
         r.cmd \in Updaters => run[c].cmd \in Updaters,
         Shares(r) => Shares(run[c]),
         UNCHANGED <<ex, sh>>
  PROVE  LockInv'
BY MoveLocks DEF LockInv

LEMMA GotoLocks ==
  ASSUME LockInv, NEW c \in Procs, NEW at, Goto(c, at), UNCHANGED <<ex, sh>>,
         \/ run[c].cmd \in {"check"} \cup Updaters
         \/ at \notin {"write", "write policy", "write end", "save"}
         \/ Shares(run[c]) /\ at # "save"
  PROVE  LockInv'
<1> DEFINE r == [run[c] EXCEPT !.at = at]
<1>1. IsRun(run[c])
  BY DEF LockInv
<1>2. run' = [run EXCEPT ![c] = r]
  BY DEF Goto
<1>3. IsRun(r) /\ r.cmd = run[c].cmd /\ r.at = at
  BY <1>1 DEF IsRun
<1>4. Shares(r) => Shares(run[c])
  BY <1>3 DEF Shares, Writers, Updaters
<1> HIDE DEF r
<1> QED BY <1>2, <1>3, <1>4, KeepLocks

\* A process that finds the operation lock free shares it.
LEMMA ShareLocks ==
  ASSUME LockInv, NEW c \in Procs, NEW r, IsRun(r), run' = [run EXCEPT ![c] = r],
         r.cmd \notin Updaters, MayShare, sh' = sh \cup {c}, UNCHANGED ex
  PROVE  LockInv'
BY MoveLocks DEF LockInv, MayShare

LEMMA CheckLocks ==
  ASSUME LockInv, NEW c \in Procs, Check(c)
  PROVE  LockInv'
<1>1. CASE BeginCheck(c)
  BY <1>1, ShareLocks DEF BeginCheck, Begin, IsRun, Updaters
<1>2. CASE Download(c)
  <2>1. PICK id : run' = [run EXCEPT ![c].at = "save", ![c].cand.id = id]
    BY <1>2 DEF Download
  <2> DEFINE r == [[run[c] EXCEPT !.at = "save"] EXCEPT !.cand.id = id]
  <2>2. run' = [run EXCEPT ![c] = r]
    BY <2>1 DEF LockInv
  <2>3. IsRun(r) /\ r.cmd = run[c].cmd
    BY DEF LockInv, IsRun
  <2>4. run[c].cmd = "check" /\ UNCHANGED <<ex, sh>>
    BY <1>2 DEF Download, At, locks
  <2> HIDE DEF r
  <2> QED BY <2>2, <2>3, <2>4, KeepLocks DEF Shares
<1>3. CASE SaveCandidate(c)
  BY <1>3, GotoLocks DEF SaveCandidate, At, locks
<1>4. CASE PruneArtifacts(c) \/ CheckFails(c)
  BY <1>4, EndLocks DEF PruneArtifacts, CheckFails
<1> QED BY <1>1, <1>2, <1>3, <1>4 DEF Check

\* A step of an updater that only writes what is left to do.
LEMMA TodoLocks ==
  ASSUME LockInv, NEW c \in Procs, NEW todo,
         run' = [run EXCEPT ![c].todo = todo], UNCHANGED <<ex, sh>>
  PROVE  LockInv'
<1> DEFINE r == [run[c] EXCEPT !.todo = todo]
<1>1. run' = [run EXCEPT ![c] = r]
  BY DEF LockInv
<1>2. IsRun(r) /\ r.cmd = run[c].cmd /\ r.at = run[c].at
  BY DEF LockInv, IsRun
<1> HIDE DEF r
<1> QED BY <1>1, <1>2, KeepLocks DEF Shares

LEMMA PlanLocks ==
  ASSUME LockInv, NEW c \in Procs, NEW next, NEW base, NEW sourceActive, NEW legacy,
         Plan(c, next, base, sourceActive, legacy), run[c].cmd \in Updaters,
         UNCHANGED <<ex, sh>>
  PROVE  LockInv'
<1> DEFINE r == [cmd |-> run[c].cmd, at |-> "prepare", undo |-> FALSE, todo |-> Listed,
                 list |-> [p \in Listed |-> policy[p]],
                 whole |-> {p \in Listed : ctx[p] = None},
                 decl |-> decl, next |-> next, base |-> base,
                 sourceActive |-> sourceActive, legacy |-> legacy]
<1>1. run' = [run EXCEPT ![c] = r]
  BY DEF Plan, LockInv
<1>2. IsRun(r) /\ r.cmd = run[c].cmd /\ r.at = "prepare"
  BY DEF IsRun
<1> HIDE DEF r
<1>3. ~Shares(r)
  BY <1>2 DEF Shares, Writers, Updaters
<1> QED BY <1>1, <1>2, <1>3, KeepLocks

LEMMA UpdateLocks ==
  ASSUME LockInv, NEW c \in Procs, Update(c)
  PROVE  LockInv'
<1>1. ASSUME NEW cmd \in Updaters, BeginUpdater(c, cmd) PROVE LockInv'
  <2> DEFINE r == [cmd |-> cmd, at |-> "recover", todo |-> journal.projects, undo |-> FALSE]
  <2>1. run' = [run EXCEPT ![c] = r]
    BY <1>1 DEF BeginUpdater, Begin
  <2>2. IsRun(r) /\ r.cmd = cmd /\ ~Shares(r)
    BY DEF IsRun, Shares, Writers, Updaters
  <2>3. ex = None /\ sh = {} /\ ex' = c /\ sh' = sh
    BY <1>1 DEF BeginUpdater, MayExclude
  <2> HIDE DEF r
  <2>4. \A d \in Procs : ex # d
    BY <2>3, ConfigurationAssumption
  <2> QED BY <2>1, <2>2, <2>3, <2>4, MoveLocks
<1>2. CASE \/ RecoverNothing(c) \/ RecoverLock(c) \/ RecoverActive(c) \/ Prepare(c)
           \/ Decide(c) \/ SaveLock(c) \/ SaveActive(c) \/ ClearArtifacts(c) \/ RestoreLock(c)
  BY <1>2, GotoLocks
  DEF RecoverNothing, RecoverLock, RecoverActive, Prepare, Decide, SaveLock, SaveActive,
      ClearArtifacts, RestoreLock, At, locks, Updaters
<1>3. CASE RecoverPolicy(c) \/ BindPolicy(c) \/ RestorePolicy(c)
  BY <1>3, TodoLocks DEF RecoverPolicy, BindPolicy, RestorePolicy, locks
<1>4. CASE RecoverRefused(c) \/ ClearCandidate(c) \/ RestoreActivation(c)
  BY <1>4, EndLocks DEF RecoverRefused, ClearCandidate, RestoreActivation
<1>5. CASE RecoverEnd(c) \/ CommitEnd(c)
  BY <1>5, EndLocks, GotoLocks DEF RecoverEnd, CommitEnd, At, locks
<1>6. CASE PlanUpdate(c)
  BY <1>6, PlanLocks DEF PlanUpdate, At, locks, Updaters
<1>7. CASE PlanSetup(c)
  BY <1>7, PlanLocks DEF PlanSetup, At, locks, Updaters
<1>8. CASE SetupDeclares(c)
  BY <1>8 DEF SetupDeclares, locks, LockInv
<1>9. CASE CommitFails(c)
  <2> DEFINE at == IF run[c].legacy THEN "recover" ELSE "restore"
             todo == DOMAIN run[c].list
  <2>1. /\ at \in {"recover", "restore"}
        /\ run' = [run EXCEPT ![c].at = at, ![c].undo = TRUE, ![c].todo = todo]
    BY <1>9 DEF CommitFails
  <2> HIDE DEF at, todo
  <2> DEFINE r == [run[c] EXCEPT !.at = at, !.undo = TRUE, !.todo = todo]
  <2>2. run' = [run EXCEPT ![c] = r]
    BY <2>1 DEF LockInv
  <2>3. IsRun(r) /\ r.cmd = run[c].cmd /\ r.at = at
    BY DEF LockInv, IsRun
  <2>4. run[c].cmd \in Updaters /\ UNCHANGED <<ex, sh>>
    BY <1>9 DEF CommitFails, At, locks
  <2> HIDE DEF r
  <2>5. ~Shares(r)
    BY <2>1, <2>3, <2>4 DEF Shares, Writers, Updaters
  <2> QED BY <2>2, <2>3, <2>4, <2>5, KeepLocks
<1> QED BY <1>1, <1>2, <1>3, <1>4, <1>5, <1>6, <1>7, <1>8, <1>9 DEF Update, Recovery

LEMMA ChangeLocks ==
  ASSUME LockInv, NEW c \in Procs, NEW p, NEW new, ChangePolicy(c, p, new)
  PROVE  LockInv'
<1> DEFINE r == [cmd |-> "policy", at |-> "bind", p |-> p, new |-> new,
                 seen |-> AfterRecovery(p)]
<1>1. run' = [run EXCEPT ![c] = r] /\ UNCHANGED <<ex, sh>>
  BY DEF ChangePolicy, Begin
<1>2. IsRun(r) /\ r.cmd \notin Updaters /\ ~Shares(r)
  BY DEF IsRun, Shares, Writers, Updaters
<1> HIDE DEF r
<1> QED BY <1>1, <1>2, KeepLocks

LEMMA ConfigureLocks ==
  ASSUME LockInv, NEW c \in Procs, Configure(c)
  PROVE  LockInv'
<1>1. ASSUME NEW p \in Projects, NEW new \in Settings, NEW cmd \in {"apply", "edit"},
             LoadForChange(c, p, cmd, new)
      PROVE  LockInv'
  <2> DEFINE r == [cmd |-> cmd, at |-> "lock", p |-> p, new |-> new,
                   seen |-> AfterRecovery(p)]
  <2>1. run' = [run EXCEPT ![c] = r] /\ UNCHANGED <<ex, sh>>
    BY <1>1 DEF LoadForChange, Begin, locks
  <2>2. IsRun(r) /\ r.cmd \notin Updaters /\ ~Shares(r)
    BY DEF IsRun, Shares, Writers, Updaters
  <2> HIDE DEF r
  <2> QED BY <2>1, <2>2, KeepLocks
<1>2. ASSUME NEW p \in Projects, NEW new \in Settings,
             \/ ModelPolicy(c, p, new) \/ GitPolicy(c, p, new) \/ WebPolicy(c, p, new)
             \/ SetMode(c, p, new)
      PROVE  LockInv'
  BY <1>2, ChangeLocks DEF ModelPolicy, GitPolicy, WebPolicy, SetMode
<1>3. ASSUME NEW p \in Projects, BeginInit(c, p) PROVE LockInv'
  BY <1>3, ShareLocks DEF BeginInit, Begin, IsRun, Updaters
<1>4. ASSUME NEW p \in Projects, BeginStart(c, p) PROVE LockInv'
  <2> DEFINE r == [cmd |-> "start", at |-> "boot", p |-> p, seen |-> AfterRecovery(p)]
  <2>1. run' = [run EXCEPT ![c] = r] /\ MayShare /\ sh' = sh \cup {c} /\ UNCHANGED ex
    BY <1>4 DEF BeginStart, Begin
  <2>2. IsRun(r) /\ r.cmd \notin Updaters
    BY DEF IsRun, Updaters
  <2> HIDE DEF r
  <2> QED BY <2>1, <2>2, ShareLocks
<1>5. ASSUME NEW p \in Projects, BeginDestroy(c, p) PROVE LockInv'
  <2> DEFINE r == [cmd |-> "destroy", at |-> "state", p |-> p]
  <2>1. run' = [run EXCEPT ![c] = r] /\ UNCHANGED <<ex, sh>>
    BY <1>5 DEF BeginDestroy, Begin, locks
  <2>2. IsRun(r) /\ r.cmd \notin Updaters /\ ~Shares(r)
    BY DEF IsRun, Shares, Writers, Updaters
  <2> HIDE DEF r
  <2> QED BY <2>1, <2>2, KeepLocks
<1>6. CASE LockForApply(c) \/ LockForEdit(c)
  BY <1>6, GotoLocks DEF LockForApply, LockForEdit, TakeConfigLock
<1>7. CASE PlanChange(c) \/ SavePolicyAndConfig(c)
  <2>1. PICK at : Goto(c, at)
    BY <1>7 DEF PlanChange, SavePolicyAndConfig
  <2>2. MayShare /\ sh' = sh \cup {c} /\ UNCHANGED ex
    BY <1>7 DEF PlanChange, SavePolicyAndConfig
  <2> DEFINE r == [run[c] EXCEPT !.at = at]
  <2>3. run' = [run EXCEPT ![c] = r]
    BY <2>1 DEF Goto
  <2>4. IsRun(r) /\ r.cmd = run[c].cmd
    BY DEF LockInv, IsRun
  <2> HIDE DEF r
  <2>5. run[c].cmd \in {"apply", "edit", "policy"}
    BY <1>7 DEF PlanChange, SavePolicyAndConfig, At
  <2> QED BY <2>2, <2>3, <2>4, <2>5, ShareLocks DEF Updaters
<1>8. CASE SaveChange(c)
  BY <1>8, EndLocks, GotoLocks DEF SaveChange, At, Shares, locks
<1>9. CASE RenameConf(c) \/ RenamePolicy(c)
  BY <1>9, GotoLocks DEF RenameConf, RenamePolicy, At, Shares, locks
<1>10. CASE EndWrite(c) \/ WriteFails(c) \/ Boot(c) \/ DestroyConfig(c)
  BY <1>10, EndLocks DEF EndWrite, WriteFails, Boot, DestroyConfig
<1>11. CASE DestroyState(c)
  BY <1>11, GotoLocks DEF DestroyState, locks
<1> QED BY <1>1, <1>2, <1>3, <1>4, <1>5, <1>6, <1>7, <1>8, <1>9, <1>10, <1>11 DEF Configure

\* What happens without one of the commands that are followed step by step.
Alone ==
  \/ \E d \in Declarations : SetVersion(d) \/ EditVersions(d)
  \/ Expire
  \/ \E p \in Projects :
       \/ Look(p) \/ LookFails(p) \/ DropVM(p)
       \/ \E left \in BOOLEAN : SupervisorEnds(p, left)
       \/ \E new \in Settings : ImportGitignore(p, new) \/ EditConfig(p, new)

LEMMA AloneLocks == Alone => UNCHANGED <<locks, run, lock, active, journal, arts>>
BY DEF Alone, SetVersion, EditVersions, Expire, Look, LookFails, DropVM, SupervisorEnds,
       ImportGitignore, EditConfig, locks, files

\* The operation lock excludes updates from what shares it, always.
LEMMA NextLocks == LockInv /\ [Next]_vars => LockInv'
<1> SUFFICES ASSUME LockInv, [Next]_vars PROVE LockInv' OBVIOUS
<1>1. ASSUME NEW c \in Procs, Refuse(c) \/ Crash(c) PROVE LockInv'
  BY <1>1, EndLocks DEF Refuse, Crash
<1>2. CASE Alone \/ UNCHANGED vars
  BY <1>2, AloneLocks DEF vars, locks, LockInv
<1> QED BY <1>1, <1>2, CheckLocks, UpdateLocks, ConfigureLocks DEF Next, Alone

LEMMA InitLocks == Init => LockInv
<1> SUFFICES ASSUME Init PROVE LockInv OBVIOUS
<1>1. run = [c \in Procs |-> Idle] /\ ex = None
  BY DEF Init
<1>2. IsRun(Idle) /\ ~Shares(Idle) /\ Idle.cmd \notin Updaters
  BY DEF IsRun, Shares, Idle, Writers, Updaters
<1>3. \A c \in Procs : run[c] = Idle
  BY <1>1
<1>4. run = [c \in Procs |-> run[c]]
  BY <1>1
<1> QED BY <1>1, <1>2, <1>3, <1>4 DEF LockInv

-----------------------------------------------------------------------------
(* The update journal *)

\* What an updater has planned, once it has.
IsPlanned(r) == {"list", "whole", "next", "base", "sourceActive", "todo"} \subseteq DOMAIN r

\* What an updater knows of the lock and the binding where it is.
Progress(r) ==
  /\ r.at \in {"recover active", "bind", "save lock", "save active", "restore",
               "restore active"} => Journaled
  /\ r.at = "recover active" => lock = IF Activated THEN Chosen ELSE None
  /\ r.at = "save active" => lock = r.next
  /\ r.at \in {"recover end", "commit end"} => lock = active
  /\ r.at \in {"prepare", "bind", "save lock", "save active"} => IsPlanned(r)

WholeInv ==
  /\ LockInv
  /\ "phase" \in DOMAIN journal
  /\ ~Journaled => lock = active
  /\ \A c \in Procs : run[c].cmd \in Updaters => Progress(run[c])

\* Only c moves, and everything it knows it keeps.
Only(c) == \A d \in Procs \ {c} : run'[d] = run[d]
Kept(c) == /\ DOMAIN run'[c] = DOMAIN run[c]
           /\ \A f \in DOMAIN run[c] \ {"at", "undo", "todo"} : run'[c][f] = run[c][f]

SamePlan(c) ==
  /\ IsPlanned(run'[c])
  /\ run'[c].list = run[c].list /\ run'[c].whole = run[c].whole /\ run'[c].next = run[c].next
  /\ run'[c].base = run[c].base /\ run'[c].sourceActive = run[c].sourceActive

LEMMA SamePlanned ==
  ASSUME NEW c \in Procs, Kept(c), IsPlanned(run[c])
  PROVE  SamePlan(c)
BY DEF Kept, IsPlanned, SamePlan

LEMMA GotoKeeps ==
  ASSUME LockInv, NEW c \in Procs, NEW at, Goto(c, at)
  PROVE  /\ Only(c) /\ Kept(c) /\ run'[c].at = at /\ run'[c].cmd = run[c].cmd
         /\ "todo" \in DOMAIN run[c] => run'[c].todo = run[c].todo
<1>1. run' = [run EXCEPT ![c] = [run[c] EXCEPT !.at = at]]
  BY DEF Goto, LockInv
<1>2. run'[c] = [run[c] EXCEPT !.at = at] /\ Only(c)
  BY <1>1 DEF LockInv, Only
<1>3. IsRun(run[c])
  BY DEF LockInv
<1> QED BY <1>2, <1>3 DEF Kept, IsRun

LEMMA TodoKeeps ==
  ASSUME LockInv, NEW c \in Procs, NEW todo, run' = [run EXCEPT ![c].todo = todo]
  PROVE  /\ Only(c) /\ Kept(c) /\ run'[c].at = run[c].at /\ run'[c].cmd = run[c].cmd
         /\ "todo" \in DOMAIN run[c] => run'[c].todo = todo
<1>1. run'[c] = [run[c] EXCEPT !.todo = todo] /\ Only(c)
  BY DEF LockInv, Only
<1>2. IsRun(run[c])
  BY DEF LockInv
<1> QED BY <1>1, <1>2 DEF Kept, IsRun

LEMMA FailKeeps ==
  ASSUME LockInv, NEW c \in Procs, CommitFails(c)
  PROVE  /\ Only(c) /\ run'[c].at \in {"recover", "restore"}
         /\ run[c].cmd \in Updaters /\ run'[c].cmd = run[c].cmd /\ run[c].at = "bind"
         /\ IsPlanned(run[c]) => SamePlan(c) /\ run'[c].todo = DOMAIN run[c].list
<1> DEFINE at == IF run[c].legacy THEN "recover" ELSE "restore"
           todo == DOMAIN run[c].list
<1>1. /\ at \in {"recover", "restore"}
      /\ run' = [run EXCEPT ![c].at = at, ![c].undo = TRUE, ![c].todo = todo]
      /\ run[c].cmd \in Updaters /\ run[c].at = "bind"
  BY DEF CommitFails, At
<1>4. todo = DOMAIN run[c].list
  OBVIOUS
<1> HIDE DEF at, todo
<1>2. run'[c] = [run[c] EXCEPT !.at = at, !.undo = TRUE, !.todo = todo] /\ Only(c)
  BY <1>1 DEF LockInv, Only
<1>3. IsRun(run[c])
  BY DEF LockInv
<1>5. /\ run'[c].at = at /\ run'[c].cmd = run[c].cmd /\ DOMAIN run'[c] = DOMAIN run[c]
      /\ \A f \in DOMAIN run[c] \ {"at", "undo", "todo"} : run'[c][f] = run[c][f]
      /\ "todo" \in DOMAIN run[c] => run'[c].todo = todo
  BY <1>2, <1>3 DEF IsRun
<1>6. IsPlanned(run[c]) => SamePlan(c)
  BY <1>5, SamePlanned DEF Kept
<1> QED BY <1>1, <1>2, <1>4, <1>5, <1>6 DEF IsPlanned

LEMMA EndKeeps ==
  ASSUME LockInv, NEW c \in Procs, End(c)
  PROVE  Only(c) /\ run'[c] = Idle
BY DEF End, LockInv, Only

\* A plan lists the Projects as they are.
Plans(c, next, base, sourceActive) ==
  /\ Only(c) /\ run'[c].cmd = run[c].cmd /\ run'[c].at = "prepare"
  /\ IsPlanned(run'[c])
  /\ run'[c].list = [p \in Listed |-> policy[p]] /\ run'[c].todo = Listed
  /\ run'[c].whole = {p \in Listed : ctx[p] = None} /\ run'[c].next = next
  /\ run'[c].base = base /\ run'[c].sourceActive = sourceActive

LEMMA PlanKeeps ==
  ASSUME LockInv, NEW c \in Procs, NEW next, NEW base, NEW sourceActive, NEW legacy,
         Plan(c, next, base, sourceActive, legacy)
  PROVE  Plans(c, next, base, sourceActive)
<1>1. run'[c] = [cmd |-> run[c].cmd, at |-> "prepare", undo |-> FALSE, todo |-> Listed,
                 list |-> [p \in Listed |-> policy[p]],
                 whole |-> {p \in Listed : ctx[p] = None},
                 decl |-> decl, next |-> next, base |-> base,
                 sourceActive |-> sourceActive, legacy |-> legacy]
  BY DEF Plan, LockInv
<1>2. Only(c)
  BY DEF Plan, LockInv, Only
<1> QED BY <1>1, <1>2 DEF IsPlanned, Plans

LEMMA PlanUpdateDeed ==
  ASSUME LockInv, NEW c \in Procs, PlanUpdate(c)
  PROVE  /\ Plans(c, [gen |-> UpdateSource.gen + 1, man |-> candidate.target],
                  UpdateSource, ~LockState.missing)
         /\ run[c].cmd = "update" /\ run[c].at = "plan" /\ UNCHANGED <<files, project, vms>>
<1>1. /\ Plan(c, [gen |-> UpdateSource.gen + 1, man |-> candidate.target],
               UpdateSource, ~LockState.missing, FALSE)
      /\ run[c].cmd = "update" /\ run[c].at = "plan" /\ UNCHANGED <<files, project, vms>>
  BY DEF PlanUpdate, At
<1> QED BY <1>1, PlanKeeps

LEMMA PlanSetupDeed ==
  ASSUME LockInv, NEW c \in Procs, PlanSetup(c)
  PROVE  LET next == [gen |-> LockState.gen, man |-> LockState.man]
         IN  /\ Plans(c, next, IF LockState.legacy THEN lock ELSE next,
                       LockState.legacy \/ IsActive)
             /\ run[c].cmd = "setup" /\ run[c].at = "plan" /\ UNCHANGED <<files, project, vms>>
<1> DEFINE next == [gen |-> LockState.gen, man |-> LockState.man]
<1>1. /\ Plan(c, next, IF LockState.legacy THEN lock ELSE next,
               LockState.legacy \/ IsActive, LockState.legacy)
      /\ run[c].cmd = "setup" /\ run[c].at = "plan" /\ UNCHANGED <<files, project, vms>>
  BY DEF PlanSetup, At
<1> QED BY <1>1, PlanKeeps

\* A process other than the updater leaves what the updater knows.
LEMMA OtherWhole ==
  ASSUME WholeInv, LockInv', NEW c \in Procs, Only(c), run'[c].cmd \notin Updaters,
         UNCHANGED <<lock, active, journal>>
  PROVE  WholeInv'
<1> SUFFICES ASSUME NEW d \in Procs, run'[d].cmd \in Updaters
             PROVE  Progress(run[d])'
  BY DEF WholeInv, Journaled
<1>1. run'[d] = run[d]
  BY DEF Only
<1> QED BY <1>1 DEF WholeInv, Progress, Journaled, Activated, Chosen, Decided

\* An updater is alone.
LEMMA UpdaterWhole ==
  ASSUME WholeInv, LockInv', NEW c \in Procs, run[c].cmd \in Updaters, Only(c),
         "phase" \in DOMAIN journal', (~Journaled => lock = active)',
         run'[c].cmd \in Updaters => Progress(run[c])'
  PROVE  WholeInv'
<1> SUFFICES ASSUME NEW d \in Procs, run'[d].cmd \in Updaters
             PROVE  Progress(run[d])'
  BY DEF WholeInv
<1>1. CASE d = c
  BY <1>1
<1>2. CASE d # c
  <2>1. run'[d] = run[d]
    BY <1>2 DEF Only
  <2>2. ex = c /\ ex = d
    BY <2>1 DEF WholeInv, LockInv
  <2> QED BY <1>2, <2>2
<1> QED BY <1>1, <1>2

LEMMA UpdateWhole ==
  ASSUME WholeInv, LockInv', NEW c \in Procs, Update(c)
  PROVE  WholeInv'
<1>0. LockInv /\ IsRun(run[c])
  BY DEF WholeInv, LockInv
<1>1. ASSUME NEW cmd \in Updaters, BeginUpdater(c, cmd) PROVE WholeInv'
  <2>1. run'[c] = [cmd |-> cmd, at |-> "recover", todo |-> journal.projects, undo |-> FALSE]
    BY <1>0, <1>1 DEF BeginUpdater, Begin, LockInv
  <2>2. Only(c) /\ UNCHANGED <<lock, active, journal>> /\ run'[c].at = "recover"
    BY <1>0, <1>1, <2>1 DEF BeginUpdater, Begin, LockInv, Only, files
  <2>3. ASSUME NEW d \in Procs, run'[d].cmd \in Updaters PROVE Progress(run[d])'
    <3>1. CASE d = c
      BY <2>2, <3>1 DEF Progress
    <3>2. CASE d # c
      BY <2>2, <2>3, <3>2 DEF Only, WholeInv, Progress, Journaled, Activated, Chosen, Decided
    <3> QED BY <3>1, <3>2
  <2> QED BY <2>2, <2>3 DEF WholeInv, Journaled
<1>2. CASE run[c].cmd \in Updaters /\ ~(\E cmd \in Updaters : BeginUpdater(c, cmd))
  <2>0. Progress(run[c])
    BY <1>2 DEF WholeInv
  <2>1. CASE RecoverNothing(c)
    <3>1. Goto(c, "plan") /\ UNCHANGED <<lock, active, journal>>
      BY <2>1 DEF RecoverNothing, files
    <3>2. Only(c) /\ run'[c].at = "plan"
      BY <1>0, <3>1, GotoKeeps
    <3> QED BY <1>2, <3>1, <3>2, UpdaterWhole DEF Progress, WholeInv, Journaled
  <2>2. CASE RecoverPolicy(c) \/ RestorePolicy(c) \/ BindPolicy(c)
    <3>1. PICK todo : run' = [run EXCEPT ![c].todo = todo]
      BY <2>2 DEF RecoverPolicy, RestorePolicy, BindPolicy
    <3>2. UNCHANGED <<lock, active, journal>>
          /\ run[c].at \in {"recover", "restore", "bind"}
      BY <2>2 DEF RecoverPolicy, RestorePolicy, BindPolicy, At, files
    <3>3. Only(c) /\ Kept(c) /\ run'[c].at = run[c].at
      BY <1>0, <3>1, TodoKeeps
    <3>4. Progress(run[c])'
      BY <2>0, <3>2, <3>3 DEF Progress, Journaled, IsPlanned, Kept
    <3> QED BY <1>2, <3>2, <3>3, <3>4, UpdaterWhole DEF WholeInv, Journaled
  <2>3. CASE RecoverRefused(c) \/ ClearCandidate(c)
    <3>1. End(c) /\ UNCHANGED <<lock, active, journal>>
      BY <2>3 DEF RecoverRefused, ClearCandidate, files
    <3>2. Only(c) /\ run'[c].cmd \notin Updaters
      BY <1>0, <3>1, EndKeeps DEF Idle, Updaters
    <3> QED BY <1>2, <3>1, <3>2, OtherWhole
  <2>4. CASE RecoverLock(c)
    <3>1. Goto(c, "recover active") /\ Journaled /\ UNCHANGED <<active, journal>>
          /\ lock' = IF Activated THEN Chosen ELSE None
      BY <2>4 DEF RecoverLock
    <3>2. Only(c) /\ run'[c].at = "recover active"
      BY <1>0, <3>1, GotoKeeps
    <3>3. Progress(run[c])'
      BY <3>1, <3>2 DEF Progress, Journaled, Activated, Chosen, Decided
    <3> QED BY <1>2, <3>1, <3>2, <3>3, UpdaterWhole DEF WholeInv, Journaled
  <2>5. CASE RecoverActive(c)
    <3>1. Goto(c, "recover end") /\ run[c].at = "recover active" /\ UNCHANGED <<lock, journal>>
          /\ active' = IF Activated THEN Chosen ELSE None
      BY <2>5 DEF RecoverActive, At
    <3>2. Only(c) /\ run'[c].at = "recover end"
      BY <1>0, <3>1, GotoKeeps
    <3>3. lock' = active' /\ Journaled
      BY <2>0, <3>1 DEF Progress
    <3> QED BY <1>2, <3>1, <3>2, <3>3, UpdaterWhole DEF Progress, WholeInv, Journaled
  <2>6. CASE RecoverEnd(c) \/ CommitEnd(c)
    <3>1. lock = active /\ UNCHANGED <<lock, active>> /\ journal' = NoJournal
      BY <2>0, <2>6 DEF RecoverEnd, CommitEnd, At, Progress
    <3>2. \/ End(c)
          \/ \E at \in {"plan", "clear"} : Goto(c, at)
      BY <2>6 DEF RecoverEnd, CommitEnd
    <3>3. Only(c) /\ (run'[c].cmd \in Updaters => run'[c].at \in {"plan", "clear"})
      BY <1>0, <3>2, EndKeeps, GotoKeeps DEF Idle, Updaters
    <3>4. "phase" \in DOMAIN journal'
      BY <3>1 DEF NoJournal
    <3> QED BY <1>2, <3>1, <3>3, <3>4, UpdaterWhole DEF Progress
  <2>7. CASE PlanUpdate(c) \/ PlanSetup(c)
    <3>1. /\ Only(c) /\ run'[c].at = "prepare" /\ IsPlanned(run'[c])
          /\ UNCHANGED <<lock, active, journal>>
      BY <1>0, <2>7, PlanUpdateDeed, PlanSetupDeed DEF Plans, files
    <3> QED BY <1>2, <3>1, UpdaterWhole DEF Progress, WholeInv, Journaled
  <2>8. CASE SetupDeclares(c)
    <3>1. UNCHANGED <<run, lock, active, journal>>
      BY <2>8 DEF SetupDeclares
    <3>2. Progress(run[c])'
      BY <2>0, <3>1 DEF Progress, Journaled, Activated, Chosen, Decided
    <3> QED BY <1>2, <3>1, <3>2, UpdaterWhole DEF WholeInv, Journaled, Only
  <2>9. CASE Prepare(c)
    <3>1. Goto(c, "bind") /\ run[c].at = "prepare" /\ UNCHANGED <<lock, active>>
          /\ journal'.phase = "prepared" /\ "phase" \in DOMAIN journal'
      BY <2>9 DEF Prepare, At
    <3>2. Only(c) /\ Kept(c) /\ run'[c].at = "bind"
      BY <1>0, <3>1, GotoKeeps
    <3>3. Journaled'
      BY <3>1 DEF Journaled, NoJournal
    <3>4. Progress(run[c])'
      BY <2>0, <3>1, <3>2, <3>3 DEF Progress, IsPlanned, Kept
    <3> QED BY <1>2, <3>1, <3>2, <3>3, <3>4, UpdaterWhole
  <2>10. CASE Decide(c)
    <3>1. Goto(c, "save lock") /\ run[c].at = "bind" /\ UNCHANGED <<lock, active>>
          /\ journal' = [journal EXCEPT !.phase = "commit-decided"]
      BY <2>10 DEF Decide, At
    <3>2. Only(c) /\ Kept(c) /\ run'[c].at = "save lock"
      BY <1>0, <3>1, GotoKeeps
    <3>3. "phase" \in DOMAIN journal' /\ journal'.phase = "commit-decided"
      BY <3>1 DEF WholeInv
    <3>4. Journaled'
      BY <3>3 DEF Journaled, NoJournal
    <3>5. Progress(run[c])'
      BY <2>0, <3>1, <3>2, <3>4 DEF Progress, IsPlanned, Kept
    <3> QED BY <1>2, <3>2, <3>3, <3>4, <3>5, UpdaterWhole
  <2>11. CASE SaveLock(c)
    <3>1. Goto(c, "save active") /\ run[c].at = "save lock" /\ UNCHANGED <<active, journal>>
          /\ lock' = run[c].next
      BY <2>11 DEF SaveLock, At
    <3>2. Only(c) /\ Kept(c) /\ run'[c].at = "save active"
      BY <1>0, <3>1, GotoKeeps
    <3>3. Journaled /\ IsPlanned(run[c])
      BY <2>0, <3>1 DEF Progress
    <3>4. Progress(run[c])'
      BY <3>1, <3>2, <3>3 DEF Progress, IsPlanned, Kept, Journaled
    <3> QED BY <1>2, <3>1, <3>2, <3>3, <3>4, UpdaterWhole DEF WholeInv, Journaled
  <2>12. CASE SaveActive(c)
    <3>1. Goto(c, "commit end") /\ run[c].at = "save active" /\ UNCHANGED <<lock, journal>>
          /\ active' = run[c].next
      BY <2>12 DEF SaveActive, At
    <3>2. Only(c) /\ run'[c].at = "commit end"
      BY <1>0, <3>1, GotoKeeps
    <3>3. lock' = active' /\ Journaled
      BY <2>0, <3>1 DEF Progress
    <3> QED BY <1>2, <3>1, <3>2, <3>3, UpdaterWhole DEF Progress, WholeInv, Journaled
  <2>13. CASE ClearArtifacts(c)
    <3>1. Goto(c, "clear candidate") /\ UNCHANGED <<lock, active, journal>>
      BY <2>13 DEF ClearArtifacts
    <3>2. Only(c) /\ run'[c].at = "clear candidate"
      BY <1>0, <3>1, GotoKeeps
    <3> QED BY <1>2, <3>1, <3>2, UpdaterWhole DEF Progress, WholeInv, Journaled
  <2>14. CASE CommitFails(c)
    <3>1. UNCHANGED <<lock, active, journal>>
      BY <2>14 DEF CommitFails, files
    <3>2. Journaled'
      BY <2>0, <2>14, <3>1 DEF CommitFails, At, Progress, Journaled
    <3> QED BY <1>0, <1>2, <2>14, <3>1, <3>2, FailKeeps, UpdaterWhole DEF Progress, WholeInv, Journaled
  <2>15. CASE RestoreLock(c)
    <3>1. Goto(c, "restore active") /\ run[c].at = "restore" /\ UNCHANGED <<active, journal>>
      BY <2>15 DEF RestoreLock, At
    <3>2. Only(c) /\ run'[c].at = "restore active"
      BY <1>0, <3>1, GotoKeeps
    <3>3. Journaled'
      BY <2>0, <3>1 DEF Progress, Journaled
    <3> QED BY <1>2, <3>1, <3>2, <3>3, UpdaterWhole DEF Progress, WholeInv
  <2>16. CASE RestoreActivation(c)
    <3>1. End(c) /\ run[c].at = "restore active" /\ UNCHANGED journal
      BY <2>16 DEF RestoreActivation, At
    <3>2. Only(c) /\ run'[c].cmd \notin Updaters
      <4>1. Only(c) /\ run'[c] = Idle
        BY <1>0, <3>1, EndKeeps
      <4> QED BY <4>1 DEF Idle, Updaters
    <3>3. Journaled'
      BY <2>0, <3>1 DEF Progress, Journaled
    <3> QED BY <1>2, <3>1, <3>2, <3>3, UpdaterWhole DEF WholeInv
  <2> QED
    BY <1>2, <2>1, <2>2, <2>3, <2>4, <2>5, <2>6, <2>7, <2>8, <2>9, <2>10, <2>11, <2>12,
       <2>13, <2>14, <2>15, <2>16
    DEF Update, Recovery
<1>3. (\E cmd \in Updaters : BeginUpdater(c, cmd)) \/ run[c].cmd \in Updaters
  BY DEF Update, Recovery, RecoverNothing, RecoverPolicy, RecoverRefused, RecoverLock,
         RecoverActive, RecoverEnd, PlanUpdate, SetupDeclares, PlanSetup, Prepare,
         BindPolicy, Decide, SaveLock, SaveActive, CommitEnd, ClearArtifacts,
         ClearCandidate, CommitFails, RestorePolicy, RestoreLock, RestoreActivation, At, Updaters
<1> QED BY <1>1, <1>2, <1>3

\* A command other than an updater moves only itself.
LEMMA BeginKeeps ==
  ASSUME LockInv, NEW c \in Procs, NEW r, Begin(c, r)
  PROVE  Only(c) /\ run'[c] = r /\ run[c] = Idle
BY DEF Begin, LockInv, Only

LEMMA CheckKeeps ==
  ASSUME LockInv, NEW c \in Procs, Check(c)
  PROVE  Only(c) /\ run'[c].cmd \in {"check", "none"} /\ UNCHANGED <<lock, active, journal>>
<1>0. IsRun(run[c])
  BY DEF LockInv
<1>1. CASE BeginCheck(c)
  <2>1. PICK v : Begin(c, [cmd |-> "check", at |-> "download",
                           cand |-> [id |-> None, decl |-> decl, base |-> lock,
                                     target |-> v, fresh |-> TRUE]])
    BY <1>1 DEF BeginCheck
  <2> QED BY <1>1, <2>1, BeginKeeps DEF BeginCheck, files
<1>2. CASE Download(c)
  <2>1. PICK id : run' = [run EXCEPT ![c].at = "save", ![c].cand.id = id]
    BY <1>2 DEF Download
  <2>2. run'[c] = [[run[c] EXCEPT !.at = "save"] EXCEPT !.cand.id = id] /\ Only(c)
    BY <2>1 DEF LockInv, Only
  <2>3. run'[c].cmd = "check"
    BY <1>0, <1>2, <2>2 DEF Download, At, IsRun
  <2> QED BY <1>2, <2>2, <2>3 DEF Download
<1>3. CASE SaveCandidate(c)
  BY <1>3, GotoKeeps DEF SaveCandidate, At
<1>4. CASE PruneArtifacts(c) \/ CheckFails(c)
  BY <1>4, EndKeeps DEF PruneArtifacts, CheckFails, Idle
<1> QED BY <1>1, <1>2, <1>3, <1>4 DEF Check

\* The commands about the OpenCode that is installed.
Commands == Updaters \cup {"check"}

LEMMA ConfigureKeeps ==
  ASSUME LockInv, NEW c \in Procs, Configure(c)
  PROVE  Only(c) /\ run'[c].cmd \notin Commands /\ UNCHANGED files
<1>1. ASSUME NEW p \in Projects, NEW new \in Settings, NEW cmd \in {"apply", "edit"},
             LoadForChange(c, p, cmd, new)
      PROVE  Only(c) /\ run'[c].cmd \notin Commands /\ UNCHANGED files
  <2>1. Begin(c, [cmd |-> cmd, at |-> "lock", p |-> p, new |-> new, seen |-> AfterRecovery(p)])
        /\ UNCHANGED files
    BY <1>1 DEF LoadForChange
  <2> QED BY <2>1, BeginKeeps DEF Commands, Updaters
<1>2. ASSUME NEW p \in Projects, NEW new \in Settings, ChangePolicy(c, p, new)
      PROVE  Only(c) /\ run'[c].cmd \notin Commands /\ UNCHANGED files
  <2>1. Begin(c, [cmd |-> "policy", at |-> "bind", p |-> p, new |-> new,
                  seen |-> AfterRecovery(p)]) /\ UNCHANGED files
    BY <1>2 DEF ChangePolicy
  <2> QED BY <2>1, BeginKeeps DEF Commands, Updaters
<1>3. ASSUME NEW p \in Projects, BeginInit(c, p)
      PROVE  Only(c) /\ run'[c].cmd \notin Commands /\ UNCHANGED files
  <2>1. Begin(c, [cmd |-> "init", at |-> "write", p |-> p, new |-> Default])
        /\ UNCHANGED files
    BY <1>3 DEF BeginInit
  <2> QED BY <2>1, BeginKeeps DEF Commands, Updaters
<1>4. ASSUME NEW p \in Projects, BeginStart(c, p)
      PROVE  Only(c) /\ run'[c].cmd \notin Commands /\ UNCHANGED files
  <2>1. Begin(c, [cmd |-> "start", at |-> "boot", p |-> p, seen |-> AfterRecovery(p)])
        /\ UNCHANGED files
    BY <1>4 DEF BeginStart
  <2> QED BY <2>1, BeginKeeps DEF Commands, Updaters
<1>5. ASSUME NEW p \in Projects, BeginDestroy(c, p)
      PROVE  Only(c) /\ run'[c].cmd \notin Commands /\ UNCHANGED files
  <2>1. Begin(c, [cmd |-> "destroy", at |-> "state", p |-> p]) /\ UNCHANGED files
    BY <1>5 DEF BeginDestroy
  <2> QED BY <2>1, BeginKeeps DEF Commands, Updaters
<1>6. CASE \/ LockForApply(c) \/ LockForEdit(c) \/ PlanChange(c) \/ SavePolicyAndConfig(c)
           \/ RenameConf(c) \/ RenamePolicy(c) \/ DestroyState(c)
  <2>1. (\E at : Goto(c, at)) /\ UNCHANGED files
    BY <1>6 DEF LockForApply, LockForEdit, TakeConfigLock, PlanChange, SavePolicyAndConfig,
                RenameConf, RenamePolicy, DestroyState
  <2>2. run[c].cmd \notin Commands
    BY <1>6 DEF LockForApply, LockForEdit, PlanChange, SavePolicyAndConfig, RenameConf,
                RenamePolicy, DestroyState, At, Writers, Commands, Updaters
  <2> QED BY <2>1, <2>2, GotoKeeps
<1>7. CASE SaveChange(c)
  <2>1. End(c) \/ Goto(c, "write")
    BY <1>7 DEF SaveChange
  <2>2. run[c].cmd \notin Commands /\ UNCHANGED files
    BY <1>7 DEF SaveChange, At, Commands, Updaters
  <2> QED BY <2>1, <2>2, EndKeeps, GotoKeeps DEF Idle, Commands, Updaters
<1>8. CASE EndWrite(c) \/ WriteFails(c) \/ Boot(c) \/ DestroyConfig(c)
  <2>1. End(c) /\ UNCHANGED files
    BY <1>8 DEF EndWrite, WriteFails, Boot, DestroyConfig
  <2> QED BY <2>1, EndKeeps DEF Idle, Commands, Updaters
<1> QED BY <1>1, <1>2, <1>3, <1>4, <1>5, <1>6, <1>7, <1>8
        DEF Configure, ModelPolicy, GitPolicy, WebPolicy, SetMode

LEMMA RefuseKeeps ==
  ASSUME LockInv, NEW c \in Procs, Refuse(c) \/ Crash(c)
  PROVE  Only(c) /\ run'[c] = Idle /\ UNCHANGED <<files, project>>
<1>1. End(c) /\ UNCHANGED <<files, project>>
  BY DEF Refuse, Crash
<1> QED BY <1>1, EndKeeps

LEMMA NextWhole == WholeInv /\ [Next]_vars => WholeInv'
<1> SUFFICES ASSUME WholeInv, [Next]_vars PROVE WholeInv' OBVIOUS
<1>0. LockInv /\ LockInv'
  BY NextLocks DEF WholeInv
<1>1. ASSUME NEW c \in Procs, Check(c) \/ Configure(c) \/ Refuse(c) \/ Crash(c)
      PROVE  WholeInv'
  <2>1. Only(c) /\ run'[c].cmd \notin Updaters /\ UNCHANGED <<lock, active, journal>>
    BY <1>0, <1>1, CheckKeeps, ConfigureKeeps, RefuseKeeps DEF files, Commands, Updaters, Idle
  <2> QED BY <1>0, <2>1, OtherWhole
<1>2. ASSUME NEW c \in Procs, Update(c) PROVE WholeInv'
  BY <1>0, <1>2, UpdateWhole
<1>3. CASE Alone \/ UNCHANGED vars
  <2>1. UNCHANGED <<run, lock, active, journal>>
    BY <1>3, AloneLocks DEF vars, files
  <2> QED BY <1>0, <2>1 DEF WholeInv, Progress, Journaled, Activated, Chosen, Decided
<1> QED BY <1>1, <1>2, <1>3 DEF Next, Alone

LEMMA InitWhole == Init => WholeInv
<1> SUFFICES ASSUME Init PROVE WholeInv OBVIOUS
<1>1. lock = active /\ journal = NoJournal
  BY DEF Init, Installed
<1>2. "phase" \in DOMAIN journal
  BY <1>1 DEF NoJournal
<1>3. \A c \in Procs : run[c].cmd \notin Updaters
  BY DEF Init, Idle, Updaters
<1> QED BY <1>1, <1>2, <1>3, InitLocks DEF WholeInv

\* Whatever died, a lock and a binding that differ are covered by a journal
\* (commitDependencyUpdateInternal, recoverDependencyUpdate).
THEOREM WholeTransaction == Spec => []TransactionIsWhole
<1>1. WholeInv => TransactionIsWhole
  BY DEF WholeInv, TransactionIsWhole
<1> QED BY <1>1, InitWhole, NextWhole, PTL DEF Spec

-----------------------------------------------------------------------------
(* The candidate of an update *)

IsCandidate(cand) == {"id", "target", "base"} \subseteq DOMAIN cand

CheckedInv ==
  /\ candidate # None => IsCandidate(candidate)
  /\ \A c \in Procs : run[c].cmd = "check" => /\ "cand" \in DOMAIN run[c]
                                              /\ IsCandidate(run[c].cand)
  /\ \A c \in Procs : run[c].cmd = "update" /\ run[c].at \in {"prepare", "bind", "save lock"}
       => IsCandidate(candidate)
  /\ AppliedAsChecked

\* Where a process shares the operation lock there is no updater.
LEMMA SharedAlone ==
  ASSUME LockInv, NEW c \in Procs, Shares(run[c]) \/ MayShare
  PROVE  ex = None /\ \A d \in Procs : run[d].cmd \notin Updaters
BY ConfigurationAssumption DEF LockInv, MayShare

\* A check moves on with its candidate.
LEMMA CheckChecked ==
  ASSUME WholeInv, CheckedInv, NEW c \in Procs, Check(c)
  PROVE  CheckedInv'
<1>0. LockInv /\ IsRun(run[c])
  BY DEF WholeInv, LockInv
<1>1. Only(c) /\ run'[c].cmd \notin Updaters
  BY <1>0, CheckKeeps DEF Updaters
<1>2. MayShare \/ Shares(run[c])
  BY DEF Check, BeginCheck, Download, SaveCandidate, PruneArtifacts, CheckFails, At, Shares
<1>3. \A d \in Procs : run[d].cmd \notin Updaters
  BY <1>0, <1>2, SharedAlone
<1>4. \A d \in Procs : run'[d].cmd \notin Updaters
  BY <1>1, <1>3 DEF Only
<1>5. /\ candidate' # None => IsCandidate(candidate')
      /\ run'[c].cmd = "check" => "cand" \in DOMAIN run'[c] /\ IsCandidate(run'[c].cand)
  <2>1. CASE BeginCheck(c)
    <3>1. PICK v : Begin(c, [cmd |-> "check", at |-> "download",
                             cand |-> [id |-> None, decl |-> decl, base |-> lock,
                                       target |-> v, fresh |-> TRUE]])
      BY <2>1 DEF BeginCheck
    <3>2. UNCHANGED candidate
      BY <2>1 DEF BeginCheck, files
    <3>3. "cand" \in DOMAIN run'[c] /\ DOMAIN run'[c].cand = {"id", "decl", "base", "target", "fresh"}
      BY <1>0, <3>1, BeginKeeps
    <3>4. IsCandidate(run'[c].cand)
      BY <3>3 DEF IsCandidate
    <3> QED BY <3>2, <3>3, <3>4 DEF CheckedInv, IsCandidate
  <2>2. CASE Download(c)
    <3>1. PICK id : run' = [run EXCEPT ![c].at = "save", ![c].cand.id = id]
      BY <2>2 DEF Download
    <3>2. run'[c] = [[run[c] EXCEPT !.at = "save"] EXCEPT !.cand.id = id]
      BY <1>0, <3>1 DEF LockInv
    <3>3. "cand" \in DOMAIN run[c] /\ IsCandidate(run[c].cand) /\ UNCHANGED candidate
      BY <2>2 DEF Download, At, CheckedInv
    <3>4. "cand" \in DOMAIN run'[c] /\ DOMAIN run'[c].cand = DOMAIN run[c].cand
      BY <3>2, <3>3
    <3> QED BY <3>3, <3>4 DEF CheckedInv, IsCandidate
  <2>3. CASE SaveCandidate(c)
    <3>1. Goto(c, "prune") /\ candidate' = run[c].cand /\ run[c].cmd = "check"
      BY <2>3 DEF SaveCandidate, At
    <3>2. "cand" \in DOMAIN run[c] /\ IsCandidate(run[c].cand)
      BY <3>1 DEF CheckedInv
    <3> QED BY <1>0, <3>1, <3>2, GotoKeeps DEF Kept
  <2>4. CASE PruneArtifacts(c) \/ CheckFails(c)
    <3>1. End(c) /\ UNCHANGED candidate
      BY <2>4 DEF PruneArtifacts, CheckFails
    <3>2. run'[c].cmd = "none"
      BY <1>0, <3>1, EndKeeps DEF Idle
    <3> QED BY <3>1, <3>2 DEF CheckedInv, IsCandidate
  <2> QED BY <2>1, <2>2, <2>3, <2>4 DEF Check
<1> QED BY <1>1, <1>4, <1>5 DEF CheckedInv, AppliedAsChecked, Only, Updaters

\* A command that is neither leaves the candidate.
LEMMA OtherChecked ==
  ASSUME CheckedInv, NEW c \in Procs, Only(c),
         run'[c].cmd \notin Commands, UNCHANGED files
  PROVE  CheckedInv'
BY DEF CheckedInv, AppliedAsChecked, Only, files, Commands, Updaters

LEMMA UpdateChecked ==
  ASSUME WholeInv, WholeInv', CheckedInv, NEW c \in Procs, Update(c)
  PROVE  CheckedInv'
<1>0. LockInv
  BY DEF WholeInv
<1> DEFINE Applying(r) == r.cmd = "update" /\ r.at \in {"prepare", "bind", "save lock"}
<1>1. ASSUME Only(c), run'[c].cmd \in Updaters \/ run'[c] = Idle,
             run[c].cmd \in Updaters \/ run[c] = Idle,
             candidate' # None => IsCandidate(candidate'),
             Applying(run'[c]) => /\ IsCandidate(candidate')
                                  /\ candidate'.target = run'[c].next.man
                                  /\ candidate'.id \in arts'
                                  /\ candidate'.base = lock',
             UNCHANGED <<candidate, arts, lock>> \/ run[c].cmd \in Updaters
      PROVE  CheckedInv'
  <2>1. ASSUME NEW d \in Procs, Applying(run'[d])
        PROVE  /\ IsCandidate(candidate') /\ candidate'.target = run'[d].next.man
               /\ candidate'.id \in arts' /\ candidate'.base = lock'
    <3>1. CASE d = c
      BY <1>1, <2>1, <3>1
    <3>2. CASE d # c
      <4>1. run'[d] = run[d] /\ run[d].cmd \in Updaters
        BY <1>1, <2>1, <3>2 DEF Only, Updaters
      <4>2. ex = d
        BY <1>0, <4>1 DEF LockInv
      <4>3. run[c].cmd \notin Updaters
        BY <1>0, <3>2, <4>2 DEF LockInv
      <4> QED BY <1>1, <2>1, <4>1, <4>3 DEF CheckedInv, AppliedAsChecked
    <3> QED BY <3>1, <3>2
  <2>2. ASSUME NEW d \in Procs, run'[d].cmd = "check"
        PROVE  "cand" \in DOMAIN run'[d] /\ IsCandidate(run'[d].cand)
    <3>1. run'[c].cmd # "check"
      <4>1. Idle.cmd # "check" /\ "check" \notin Updaters
        BY DEF Idle, Updaters
      <4> QED BY <1>1, <4>1
    <3>2. d # c
      BY <2>2, <3>1
    <3> QED BY <1>1, <2>2, <3>2 DEF Only, CheckedInv
  <2> QED BY <1>1, <2>1, <2>2 DEF CheckedInv, AppliedAsChecked
<1>2. ASSUME NEW cmd \in Updaters, BeginUpdater(c, cmd) PROVE CheckedInv'
  <2>1. /\ Begin(c, [cmd |-> cmd, at |-> "recover", todo |-> journal.projects, undo |-> FALSE])
        /\ UNCHANGED <<candidate, arts, lock>>
    BY <1>2 DEF BeginUpdater, files
  <2>2. Only(c) /\ run[c] = Idle /\ run'[c].cmd = cmd /\ run'[c].at = "recover"
    BY <1>0, <2>1, BeginKeeps
  <2> QED BY <1>1, <2>1, <2>2 DEF CheckedInv
<1>3. CASE run[c].cmd \in Updaters
  <2>0. Progress(run[c])
    BY <1>3 DEF WholeInv
  <2>1. CASE \/ RecoverNothing(c) \/ RecoverLock(c) \/ RecoverActive(c) \/ SaveLock(c)
             \/ SaveActive(c) \/ ClearArtifacts(c) \/ RestoreLock(c)
    <3>1. (\E at \in {"plan", "recover active", "recover end", "save active", "commit end",
                      "clear candidate", "restore active"} : Goto(c, at)) /\ UNCHANGED candidate
      BY <2>1 DEF RecoverNothing, RecoverLock, RecoverActive, SaveLock, SaveActive,
                  ClearArtifacts, RestoreLock, files
    <3>2. Only(c) /\ run'[c].cmd = run[c].cmd /\ ~Applying(run'[c])
      BY <1>0, <3>1, GotoKeeps
    <3> QED BY <1>1, <1>3, <3>1, <3>2 DEF CheckedInv
  <2>2. CASE Prepare(c) \/ Decide(c)
    <3>1. /\ \E at : Goto(c, at)
          /\ run[c].at \in {"prepare", "bind"} /\ UNCHANGED <<candidate, arts, lock>>
      BY <2>2 DEF Prepare, Decide, At
    <3>2. Only(c) /\ Kept(c) /\ run'[c].cmd = run[c].cmd
      BY <1>0, <3>1, GotoKeeps
    <3>3. run'[c].next = run[c].next
      BY <2>0, <3>1, <3>2 DEF Progress, IsPlanned, Kept
    <3> QED BY <1>1, <1>3, <3>1, <3>2, <3>3 DEF CheckedInv, AppliedAsChecked
  <2>3. CASE RecoverPolicy(c) \/ BindPolicy(c) \/ RestorePolicy(c)
    <3>1. /\ \E todo : run' = [run EXCEPT ![c].todo = todo]
          /\ run[c].at \in {"recover", "bind", "restore"} /\ UNCHANGED <<candidate, arts, lock>>
      BY <2>3 DEF RecoverPolicy, BindPolicy, RestorePolicy, At, files
    <3>2. Only(c) /\ Kept(c) /\ run'[c].cmd = run[c].cmd /\ run'[c].at = run[c].at
      BY <1>0, <3>1, TodoKeeps
    <3>3. run[c].at = "bind" => run'[c].next = run[c].next
      BY <2>0, <3>2 DEF Progress, IsPlanned, Kept
    <3> QED BY <1>1, <1>3, <3>1, <3>2, <3>3 DEF CheckedInv, AppliedAsChecked
  <2>4. CASE RecoverRefused(c) \/ ClearCandidate(c) \/ RestoreActivation(c)
    <3>1. End(c) /\ (UNCHANGED candidate \/ candidate' = None)
      BY <2>4 DEF RecoverRefused, ClearCandidate, RestoreActivation, files
    <3>2. Only(c) /\ run'[c] = Idle /\ ~Applying(Idle)
      BY <1>0, <3>1, EndKeeps DEF Idle
    <3> QED BY <1>1, <1>3, <3>1, <3>2 DEF CheckedInv
  <2>5. CASE RecoverEnd(c) \/ CommitEnd(c)
    <3>1. (End(c) \/ \E at \in {"plan", "clear"} : Goto(c, at)) /\ UNCHANGED candidate
      BY <2>5 DEF RecoverEnd, CommitEnd
    <3>2. /\ Only(c) /\ ~Applying(run'[c])
          /\ run'[c] = Idle \/ run'[c].cmd = run[c].cmd
      <4>1. CASE End(c)
        <5>1. Only(c) /\ run'[c] = Idle
          BY <1>0, <4>1, EndKeeps
        <5>2. Idle.cmd # "update"
          BY DEF Idle
        <5> QED BY <5>1, <5>2
      <4>2. CASE \E at \in {"plan", "clear"} : Goto(c, at)
        BY <1>0, <4>2, GotoKeeps
      <4> QED BY <3>1, <4>1, <4>2
    <3>3. (run'[c].cmd \in Updaters \/ run'[c] = Idle)
          /\ (candidate' # None => IsCandidate(candidate'))
      BY <1>3, <3>1, <3>2 DEF CheckedInv
    <3> QED BY <1>1, <1>3, <3>2, <3>3
  <2>6. CASE PlanUpdate(c)
    <3>1. /\ Only(c) /\ run'[c].cmd = run[c].cmd
          /\ run'[c].next = [gen |-> UpdateSource.gen + 1, man |-> candidate.target]
          /\ UNCHANGED <<candidate, arts, lock>>
      BY <1>0, <2>6, PlanUpdateDeed DEF Plans, files
    <3>2. candidate # None /\ candidate.id \in arts /\ candidate.base = lock
      BY <2>6 DEF PlanUpdate, CandidateFits
    <3>3. /\ run'[c].next.man = candidate'.target /\ candidate'.id \in arts'
          /\ candidate'.base = lock' /\ candidate' # None /\ IsCandidate(candidate')
          /\ run'[c].cmd \in Updaters
      <4>1. run'[c].next.man = candidate.target
        BY <3>1
      <4> QED BY <1>3, <3>1, <3>2, <4>1 DEF CheckedInv, IsCandidate
    <3> QED BY <1>1, <1>3, <3>1, <3>3
  <2>7. CASE PlanSetup(c)
    <3>1. /\ Only(c) /\ run'[c].cmd = "setup" /\ UNCHANGED candidate
      BY <1>0, <2>7, PlanSetupDeed DEF Plans, files
    <3> QED BY <1>1, <1>3, <3>1 DEF CheckedInv, Updaters
  <2>8. CASE SetupDeclares(c)
    BY <2>8 DEF SetupDeclares, CheckedInv, AppliedAsChecked
  <2>9. CASE CommitFails(c)
    <3>1. Only(c) /\ run'[c].cmd = run[c].cmd /\ ~Applying(run'[c]) /\ UNCHANGED candidate
      BY <1>0, <2>9, FailKeeps DEF CommitFails, files
    <3> QED BY <1>1, <1>3, <3>1 DEF CheckedInv
  <2> QED BY <1>2, <2>1, <2>2, <2>3, <2>4, <2>5, <2>6, <2>7, <2>8, <2>9
          DEF Update, Recovery
<1>4. (\E cmd \in Updaters : BeginUpdater(c, cmd)) \/ run[c].cmd \in Updaters
  BY DEF Update, Recovery, RecoverNothing, RecoverPolicy, RecoverRefused, RecoverLock,
         RecoverActive, RecoverEnd, PlanUpdate, SetupDeclares, PlanSetup, Prepare,
         BindPolicy, Decide, SaveLock, SaveActive, CommitEnd, ClearArtifacts,
         ClearCandidate, CommitFails, RestorePolicy, RestoreLock, RestoreActivation, At, Updaters
<1> QED BY <1>2, <1>3, <1>4

LEMMA NextChecked == WholeInv /\ CheckedInv /\ [Next]_vars => CheckedInv'
<1> SUFFICES ASSUME WholeInv, CheckedInv, [Next]_vars PROVE CheckedInv' OBVIOUS
<1>0. LockInv /\ WholeInv'
  BY NextWhole DEF WholeInv
<1>1. ASSUME NEW c \in Procs, Configure(c) \/ Refuse(c) \/ Crash(c) PROVE CheckedInv'
  <2>1. Only(c) /\ UNCHANGED files /\ run'[c].cmd \notin Commands
    BY <1>0, <1>1, ConfigureKeeps, RefuseKeeps DEF Commands, Updaters, Idle
  <2> QED BY <2>1, OtherChecked
<1>2. CASE Expire
  <2>1. candidate # None /\ candidate' = [candidate EXCEPT !.fresh = FALSE]
        /\ UNCHANGED <<run, lock, arts>>
    BY <1>2 DEF Expire
  <2>2. IsCandidate(candidate)
    BY <2>1 DEF CheckedInv
  <2>3. /\ DOMAIN candidate' = DOMAIN candidate
        /\ candidate'.id = candidate.id /\ candidate'.target = candidate.target
        /\ candidate'.base = candidate.base
    BY <2>1, <2>2 DEF IsCandidate
  <2>4. IsCandidate(candidate')
    BY <2>2, <2>3 DEF IsCandidate
  <2>5. AppliedAsChecked'
    <3>1. run' = run /\ lock' = lock /\ arts' = arts
      BY <2>1
    <3>2. AppliedAsChecked
      BY DEF CheckedInv
    <3> QED BY <2>3, <3>1, <3>2 DEF AppliedAsChecked
  <2> QED BY <2>1, <2>4, <2>5 DEF CheckedInv
<1>3. CASE (Alone /\ ~Expire) \/ UNCHANGED vars
  <2>1. UNCHANGED <<run, lock, arts, candidate>>
    BY <1>3
    DEF Alone, SetVersion, EditVersions, Look, LookFails, DropVM, SupervisorEnds,
        ImportGitignore, EditConfig, files, vars
  <2> QED BY <2>1 DEF CheckedInv, AppliedAsChecked
<1>4. ASSUME NEW c \in Procs, Check(c) \/ Update(c) PROVE CheckedInv'
  BY <1>0, <1>4, CheckChecked, UpdateChecked
<1> QED BY <1>1, <1>2, <1>3, <1>4 DEF Next, Alone

\* What update apply installs is the candidate that was checked against the
\* lock it replaces (updateApply, Service.Check).
THEOREM CheckedUpdates == Spec => []AppliedAsChecked
<1>1. Init => WholeInv /\ CheckedInv
  <2> SUFFICES ASSUME Init PROVE CheckedInv
    BY InitWhole
  <2>1. \A c \in Procs : run[c].cmd = "none"
    BY DEF Init, Idle
  <2>2. candidate # None => IsCandidate(candidate)
    BY DEF Init, CheckedUpdate, IsCandidate
  <2> QED BY <2>1, <2>2 DEF CheckedInv, AppliedAsChecked
<1>2. CheckedInv => AppliedAsChecked
  BY DEF CheckedInv
<1> QED BY <1>1, <1>2, NextWhole, NextChecked, PTL DEF Spec

-----------------------------------------------------------------------------
(* The policies *)

IsPolicy(pol) == {"dep", "conf", "rev"} \subseteq DOMAIN pol /\ pol.rev \in Nat
IsTransaction(j) ==
  /\ {"by", "oldPolicy", "newPolicy", "done"} \subseteq DOMAIN j
  /\ IsPolicy(j.newPolicy) /\ j.done \in 0 .. 2
  /\ j.oldPolicy # None => IsPolicy(j.oldPolicy)

\* The commands about one Project, and those that act on what they have read.
Readers == {"apply", "edit", "policy", "start"}
Changers == {"apply", "edit", "policy"}
IsCommand(r) ==
  /\ r.cmd \in Readers \cup {"init", "destroy"} => "p" \in DOMAIN r /\ r.p \in Projects
  /\ r.cmd \in Readers => "seen" \in DOMAIN r /\ r.seen.pol # None /\ IsPolicy(r.seen.pol)
  /\ r.cmd \in Changers => "new" \in DOMAIN r

IsMaps == policy = [p \in Projects |-> policy[p]] /\ ctx = [p \in Projects |-> ctx[p]]

PolicyInv ==
  /\ IsMaps
  /\ \A p \in Projects : policy[p] # None => IsPolicy(policy[p])
  /\ \A p \in Projects : ctx[p] # None => IsTransaction(ctx[p])
  /\ \A c \in Procs : IsCommand(run[c])

\* What a step does to the policy and the transaction of a Project: it recovers
\* the transaction, begins another, moves one on, ends it, replaces the policy,
\* or removes both.
After(p) == AfterRecovery(p).pol
Elsewhere(p) == \A q \in Projects \ {p} : policy'[q] = policy[q] /\ ctx'[q] = ctx[q]
Same(p) == policy'[p] = policy[p] /\ ctx'[p] = ctx[p]
Recovered(p) == (ctx[p] # None => PolicyHolds(p)) /\ policy'[p] = After(p)
Loaded(p) == Recovered(p) /\ ctx'[p] = None
Opened(p, c, pol) ==
  /\ Recovered(p)
  /\ {"by", "oldPolicy", "newPolicy", "done"} \subseteq DOMAIN ctx'[p]
  /\ ctx'[p].by = c /\ ctx'[p].done = 0
  /\ ctx'[p].oldPolicy = policy'[p] /\ ctx'[p].newPolicy = pol
Moved(p, from) ==
  /\ ctx[p] # None /\ ctx[p].done = from
  /\ DOMAIN ctx'[p] = DOMAIN ctx[p]
  /\ ctx'[p].by = ctx[p].by /\ ctx'[p].done = from + 1
  /\ ctx'[p].oldPolicy = ctx[p].oldPolicy /\ ctx'[p].newPolicy = ctx[p].newPolicy
Renamed(p) == Moved(p, 0) /\ policy'[p] = policy[p]
Replaced(p) == Moved(p, 1) /\ policy'[p] = ctx[p].newPolicy
Saved(p, pol) == policy'[p] = pol /\ ctx'[p] = ctx[p]
Ended(p) == policy'[p] = policy[p] /\ ctx'[p] = None
Removed(p) == policy'[p] = None /\ ctx'[p] = None

\* What a command does that shares no lock with an update.
Gentle ==
  \A p \in Projects : Same(p) \/ Removed(p) \/ Renamed(p) \/ (ctx[p] # None /\ Loaded(p))

LEMMA AfterIs ==
  ASSUME NEW p
  PROVE  After(p) = IF ctx[p] = None THEN policy[p] ELSE ctx[p].newPolicy
BY DEF After, AfterRecovery

\* One Project is written.
LEMMA WriteOne ==
  ASSUME IsMaps, NEW p \in Projects, NEW pol, NEW j,
         policy' = [policy EXCEPT ![p] = pol] \/ (policy' = policy /\ pol = policy[p]),
         ctx' = [ctx EXCEPT ![p] = j] \/ (ctx' = ctx /\ j = ctx[p])
  PROVE  IsMaps' /\ Elsewhere(p) /\ policy'[p] = pol /\ ctx'[p] = j
<1>1. IsMaps'
  BY DEF IsMaps
<1>2. policy'[p] = pol /\ ctx'[p] = j
  BY DEF IsMaps
<1>3. Elsewhere(p)
  BY DEF IsMaps, Elsewhere
<1> QED BY <1>1, <1>2, <1>3

LEMMA LoadDeed ==
  ASSUME PolicyInv, NEW p \in Projects, Loads(p)
  PROVE  IsMaps' /\ Elsewhere(p) /\ Loaded(p) /\ After(p) # None
<1>1. /\ policy' = [policy EXCEPT ![p] = After(p)] /\ ctx' = [ctx EXCEPT ![p] = None]
      /\ After(p) # None /\ (ctx[p] # None => PolicyHolds(p))
  BY DEF Loads, Recovers, Recoverable, After
<1>2. IsMaps' /\ Elsewhere(p) /\ policy'[p] = After(p) /\ ctx'[p] = None
  BY <1>1, WriteOne DEF PolicyInv
<1> QED BY <1>1, <1>2 DEF Loaded, Recovered

LEMMA JournalDeed ==
  ASSUME PolicyInv, NEW c, NEW p \in Projects, NEW newConf, NEW pol,
         Journals(c, p, newConf, pol)
  PROVE  IsMaps' /\ Elsewhere(p) /\ Opened(p, c, pol)
<1> DEFINE j == Transaction(c, AfterRecovery(p), newConf, pol)
<1>1. /\ policy' = [policy EXCEPT ![p] = After(p)] /\ ctx' = [ctx EXCEPT ![p] = j]
      /\ ctx[p] # None => PolicyHolds(p)
  BY DEF Journals, Recovers, Recoverable, After
<1>2. /\ {"by", "oldPolicy", "newPolicy", "done"} \subseteq DOMAIN j
      /\ j.by = c /\ j.done = 0 /\ j.oldPolicy = After(p) /\ j.newPolicy = pol
  BY DEF Transaction, After
<1> HIDE DEF j
<1>3. IsMaps' /\ Elsewhere(p) /\ policy'[p] = After(p) /\ ctx'[p] = j
  BY <1>1, WriteOne DEF PolicyInv
<1> QED BY <1>1, <1>2, <1>3 DEF Opened, Recovered

LEMMA MoveDeed ==
  ASSUME PolicyInv, NEW p \in Projects, NEW from, ctx[p] # None, ctx[p].done = from,
         ctx' = [ctx EXCEPT ![p].done = from + 1],
         policy' = policy \/ policy' = [policy EXCEPT ![p] = ctx[p].newPolicy]
  PROVE  /\ IsMaps' /\ Elsewhere(p) /\ Moved(p, from)
         /\ policy' = policy => policy'[p] = policy[p]
         /\ policy' = [policy EXCEPT ![p] = ctx[p].newPolicy] => policy'[p] = ctx[p].newPolicy
<1> DEFINE j == [ctx[p] EXCEPT !.done = from + 1]
<1>1. ctx' = [ctx EXCEPT ![p] = j]
  OBVIOUS
<1>2. IsTransaction(ctx[p])
  BY DEF PolicyInv
<1>3. /\ DOMAIN j = DOMAIN ctx[p]
      /\ j.by = ctx[p].by /\ j.done = from + 1
      /\ j.oldPolicy = ctx[p].oldPolicy /\ j.newPolicy = ctx[p].newPolicy
  BY <1>2 DEF IsTransaction
<1> HIDE DEF j
<1>4. IsMaps' /\ Elsewhere(p) /\ ctx'[p] = j
  <2>1. PICK pol : policy' = [policy EXCEPT ![p] = pol] \/ (policy' = policy /\ pol = policy[p])
    OBVIOUS
  <2> QED BY <1>1, <2>1, WriteOne DEF PolicyInv
<1> QED BY <1>3, <1>4 DEF Moved, PolicyInv, IsMaps

\* The types of what a step of one command writes.
LEMMA DeedTypes ==
  ASSUME LockInv, PolicyInv, IsMaps', NEW c \in Procs, Only(c), IsCommand(run'[c]),
         NEW p \in Projects, Elsewhere(p),
         policy'[p] # None => IsPolicy(policy'[p]),
         ctx'[p] # None => IsTransaction(ctx'[p])
  PROVE  PolicyInv'
<1>1. ASSUME NEW q \in Projects
      PROVE  /\ policy'[q] # None => IsPolicy(policy'[q])
             /\ ctx'[q] # None => IsTransaction(ctx'[q])
  BY DEF Elsewhere, PolicyInv
<1>2. ASSUME NEW d \in Procs PROVE IsCommand(run'[d])
  BY DEF Only, PolicyInv
<1> QED BY <1>1, <1>2 DEF PolicyInv, IsPolicy, IsTransaction, IsCommand

LEMMA RecoveredTypes ==
  ASSUME PolicyInv, NEW p \in Projects, Recovered(p)
  PROVE  policy'[p] # None => IsPolicy(policy'[p])
BY AfterIs DEF PolicyInv, Recovered, IsTransaction

LEMMA OpenedTypes ==
  ASSUME PolicyInv, NEW p \in Projects, NEW c, NEW pol, IsPolicy(pol), Opened(p, c, pol)
  PROVE  /\ policy'[p] # None => IsPolicy(policy'[p])
         /\ IsTransaction(ctx'[p])
BY RecoveredTypes DEF Opened, IsTransaction

LEMMA MovedTypes ==
  ASSUME PolicyInv, NEW p \in Projects, NEW from \in {0, 1}, Moved(p, from)
  PROVE  IsTransaction(ctx'[p]) /\ IsPolicy(ctx[p].newPolicy)
BY DEF PolicyInv, Moved, IsTransaction

-----------------------------------------------------------------------------
(* What the commands about one Project do *)

\* A command moves on with what it knows.
LEMMA GotoCommand ==
  ASSUME LockInv, PolicyInv, NEW c \in Procs, NEW at, Goto(c, at)
  PROVE  /\ Only(c) /\ IsCommand(run'[c])
         /\ run'[c].at = at /\ run'[c].cmd = run[c].cmd
         /\ run[c].cmd \in Readers \cup {"init", "destroy"} => run'[c].p = run[c].p
         /\ run[c].cmd \in Readers => run'[c].seen = run[c].seen
         /\ run[c].cmd \in Changers => run'[c].new = run[c].new
<1>1. Only(c) /\ Kept(c) /\ run'[c].at = at /\ run'[c].cmd = run[c].cmd
  BY GotoKeeps
<1>2. IsCommand(run[c])
  BY DEF PolicyInv
<1> QED BY <1>1, <1>2 DEF Kept, IsCommand, Changers, Readers

LEMMA IdleCommand ==
  ASSUME LockInv, NEW c \in Procs, End(c)
  PROVE  Only(c) /\ run'[c] = Idle /\ IsCommand(run'[c])
BY EndKeeps DEF Idle, IsCommand, Readers, Changers

LEMMA LoadForChangeDeed ==
  ASSUME LockInv, PolicyInv, NEW c \in Procs, NEW p \in Projects, NEW new \in Settings,
         NEW cmd \in {"apply", "edit"}, LoadForChange(c, p, cmd, new)
  PROVE  /\ IsMaps' /\ Elsewhere(p) /\ Loaded(p) /\ policy'[p] # None
         /\ Only(c) /\ run[c] = Idle /\ run'[c].cmd = cmd /\ run'[c].at = "lock"
         /\ "p" \in DOMAIN run'[c] /\ run'[c].p = p /\ {"seen", "new"} \subseteq DOMAIN run'[c]
         /\ run'[c].seen.pol = policy'[p]
         /\ UNCHANGED <<files, vms, locks>>
<1> DEFINE r == [cmd |-> cmd, at |-> "lock", p |-> p, new |-> new, seen |-> AfterRecovery(p)]
<1>1. Begin(c, r) /\ Loads(p) /\ UNCHANGED <<files, vms, locks>>
  BY DEF LoadForChange
<1>2. /\ r.cmd = cmd /\ r.at = "lock" /\ r.p = p /\ {"p", "seen", "new"} \subseteq DOMAIN r
      /\ r.seen.pol = After(p)
  BY DEF After
<1> HIDE DEF r
<1>3. IsMaps' /\ Elsewhere(p) /\ Loaded(p) /\ After(p) # None
  BY <1>1, LoadDeed
<1>4. Only(c) /\ run'[c] = r /\ run[c] = Idle
  BY <1>1, BeginKeeps
<1> QED BY <1>1, <1>2, <1>3, <1>4 DEF Loaded, Recovered

LEMMA ChangePolicyDeed ==
  ASSUME LockInv, PolicyInv, NEW c \in Procs, NEW p \in Projects, NEW new \in Settings,
         ChangePolicy(c, p, new)
  PROVE  /\ IsMaps' /\ Elsewhere(p) /\ Loaded(p) /\ policy'[p] # None
         /\ Only(c) /\ run[c] = Idle /\ run'[c].cmd = "policy" /\ run'[c].at = "bind"
         /\ "p" \in DOMAIN run'[c] /\ run'[c].p = p /\ {"seen", "new"} \subseteq DOMAIN run'[c]
         /\ run'[c].seen.pol = policy'[p] /\ run'[c].new = new
         /\ ConfigFree(p) /\ cfg' = [cfg EXCEPT ![p] = c]
         /\ UNCHANGED <<files, vms, ex, sh>>
<1> DEFINE r == [cmd |-> "policy", at |-> "bind", p |-> p, new |-> new,
                 seen |-> AfterRecovery(p)]
<1>1. /\ Begin(c, r) /\ Loads(p) /\ ConfigFree(p) /\ cfg' = [cfg EXCEPT ![p] = c]
      /\ UNCHANGED <<files, vms, ex, sh>>
  BY DEF ChangePolicy
<1>2. /\ r.cmd = "policy" /\ r.at = "bind" /\ r.p = p /\ {"p", "seen", "new"} \subseteq DOMAIN r
      /\ r.seen.pol = After(p) /\ r.new = new
  BY DEF After
<1> HIDE DEF r
<1>3. IsMaps' /\ Elsewhere(p) /\ Loaded(p) /\ After(p) # None
  BY <1>1, LoadDeed
<1>4. Only(c) /\ run'[c] = r /\ run[c] = Idle
  BY <1>1, BeginKeeps
<1> QED BY <1>1, <1>2, <1>3, <1>4 DEF Loaded, Recovered

LEMMA StartDeed ==
  ASSUME LockInv, PolicyInv, NEW c \in Procs, NEW p \in Projects, BeginStart(c, p)
  PROVE  /\ IsMaps' /\ Elsewhere(p) /\ Loaded(p) /\ policy'[p] # None
         /\ Only(c) /\ run[c] = Idle /\ run'[c].cmd = "start" /\ run'[c].at = "boot"
         /\ {"p", "seen"} \subseteq DOMAIN run'[c] /\ run'[c].p = p
         /\ run'[c].seen.pol = policy'[p]
         /\ ConfigFree(p) /\ cfg' = [cfg EXCEPT ![p] = c] /\ ex = None /\ vm[p] = None
         /\ UNCHANGED <<files, vms, ex>>
<1> DEFINE r == [cmd |-> "start", at |-> "boot", p |-> p, seen |-> AfterRecovery(p)]
<1>1. /\ Begin(c, r) /\ Loads(p) /\ ConfigFree(p) /\ cfg' = [cfg EXCEPT ![p] = c]
      /\ MayShare /\ vm[p] = None /\ UNCHANGED <<files, vms, ex>>
  BY DEF BeginStart
<1>2. /\ r.cmd = "start" /\ r.at = "boot" /\ r.p = p /\ {"p", "seen"} \subseteq DOMAIN r
      /\ r.seen.pol = After(p)
  BY DEF After
<1> HIDE DEF r
<1>3. IsMaps' /\ Elsewhere(p) /\ Loaded(p) /\ After(p) # None
  BY <1>1, LoadDeed
<1>4. Only(c) /\ run'[c] = r /\ run[c] = Idle
  BY <1>1, BeginKeeps
<1> QED BY <1>1, <1>2, <1>3, <1>4 DEF Loaded, Recovered, MayShare

LEMMA InitDeed ==
  ASSUME LockInv, PolicyInv, NEW c \in Procs, NEW p \in Projects, BeginInit(c, p)
  PROVE  /\ IsMaps' /\ Elsewhere(p) /\ Opened(p, c, NewPolicy(lock.man))
         /\ policy[p] = None /\ ctx[p] = None /\ IsActive /\ ex = None
         /\ Only(c) /\ run[c] = Idle /\ run'[c].cmd = "init" /\ run'[c].at = "write"
         /\ "p" \in DOMAIN run'[c] /\ run'[c].p = p
         /\ UNCHANGED <<files, vms, ex, cfg>>
<1> DEFINE r == [cmd |-> "init", at |-> "write", p |-> p, new |-> Default]
<1>1. /\ Begin(c, r) /\ MayShare /\ IsActive /\ policy[p] = None /\ ctx[p] = None
      /\ Journals(c, p, Declaration(NewPolicy(lock.man)), NewPolicy(lock.man))
      /\ UNCHANGED <<files, vms, ex, cfg>>
  BY DEF BeginInit
<1>2. r.cmd = "init" /\ r.at = "write" /\ r.p = p /\ "p" \in DOMAIN r
  OBVIOUS
<1> HIDE DEF r
<1>3. IsMaps' /\ Elsewhere(p) /\ Opened(p, c, NewPolicy(lock.man))
  BY <1>1, JournalDeed
<1>4. Only(c) /\ run'[c] = r /\ run[c] = Idle
  BY <1>1, BeginKeeps
<1> QED BY <1>1, <1>2, <1>3, <1>4 DEF MayShare

\* config apply writes the policy it has compiled, config edit begins the
\* transaction that does.
LEMMA SaveDeed ==
  ASSUME LockInv, PolicyInv, NEW c \in Procs, SaveChange(c)
  PROVE  LET r == run[c]
             pol == Compiled(r.seen.pol, lock.man, r.new)
         IN  /\ At(c, {"apply", "edit"}, "save") /\ r.p \in Projects
             /\ policy[r.p] = r.seen.pol /\ ex = None
             /\ IsMaps' /\ Elsewhere(r.p) /\ Only(c) /\ UNCHANGED <<files, vms>>
             /\ \/ Saved(r.p, pol) /\ End(c)
                \/ r.cmd = "edit" /\ Opened(r.p, c, pol) /\ Goto(c, "write") /\ UNCHANGED locks
<1> DEFINE r == run[c]
           pol == Compiled(r.seen.pol, lock.man, r.new)
<1>1. /\ At(c, {"apply", "edit"}, "save") /\ policy[r.p] = r.seen.pol
      /\ UNCHANGED <<files, vms>>
      /\ \/ policy' = [policy EXCEPT ![r.p] = pol] /\ End(c) /\ UNCHANGED ctx
         \/ r.cmd = "edit" /\ Journals(c, r.p, r.new, pol) /\ Goto(c, "write") /\ UNCHANGED locks
  BY DEF SaveChange, SnapshotHolds, At
<1>2. r.p \in Projects
  BY <1>1 DEF PolicyInv, IsCommand, At, Readers
<1>3. ex = None
  BY <1>1, SharedAlone DEF Shares, At
<1> HIDE DEF pol
<1>4. CASE policy' = [policy EXCEPT ![r.p] = pol] /\ End(c) /\ UNCHANGED ctx
  <2>1. IsMaps' /\ Elsewhere(r.p) /\ policy'[r.p] = pol /\ ctx'[r.p] = ctx[r.p]
    BY <1>2, <1>4, WriteOne DEF PolicyInv
  <2> QED BY <1>1, <1>2, <1>3, <1>4, <2>1, EndKeeps DEF Saved, pol
<1>5. CASE /\ r.cmd = "edit" /\ Journals(c, r.p, r.new, pol) /\ Goto(c, "write")
           /\ UNCHANGED locks
  <2>1. IsMaps' /\ Elsewhere(r.p) /\ Opened(r.p, c, pol)
    BY <1>2, <1>5, JournalDeed
  <2> QED BY <1>1, <1>2, <1>3, <1>5, <2>1, GotoKeeps DEF pol
<1> QED BY <1>1, <1>4, <1>5

LEMMA SavePolicyDeed ==
  ASSUME LockInv, PolicyInv, NEW c \in Procs, SavePolicyAndConfig(c)
  PROVE  LET r == run[c]
         IN  /\ At(c, {"policy"}, "bind") /\ r.p \in Projects
             /\ BoundToActive(r.seen.pol) /\ ex = None
             /\ IsMaps' /\ Elsewhere(r.p)
             /\ Opened(r.p, c, Compiled(r.seen.pol, r.seen.pol.dep, r.new))
             /\ Only(c) /\ Goto(c, "write") /\ UNCHANGED <<files, vms, ex, cfg>>
<1> DEFINE r == run[c]
           pol == Compiled(r.seen.pol, r.seen.pol.dep, r.new)
<1>1. /\ At(c, {"policy"}, "bind") /\ BoundToActive(r.seen.pol) /\ MayShare
      /\ Journals(c, r.p, r.new, pol) /\ Goto(c, "write") /\ UNCHANGED <<files, vms, ex, cfg>>
  BY DEF SavePolicyAndConfig
<1>2. r.p \in Projects
  BY <1>1 DEF PolicyInv, IsCommand, At, Readers
<1> HIDE DEF pol
<1>3. IsMaps' /\ Elsewhere(r.p) /\ Opened(r.p, c, pol)
  BY <1>1, <1>2, JournalDeed
<1> QED BY <1>1, <1>2, <1>3, GotoKeeps DEF pol, MayShare

\* The renames of a writer are made on its own transaction.
LEMMA RenameDeed ==
  ASSUME LockInv, PolicyInv, NEW c \in Procs, RenameConf(c) \/ RenamePolicy(c)
  PROVE  LET p == run[c].p
         IN  /\ run[c].cmd \in Writers /\ p \in Projects /\ ex = None /\ ctx[p].by = c
             /\ IsMaps' /\ Elsewhere(p) /\ Only(c) /\ UNCHANGED <<files, vms, locks>>
             /\ \/ Renamed(p) /\ At(c, Writers, "write") /\ Goto(c, "write policy")
                \/ Replaced(p) /\ At(c, Writers, "write policy") /\ Goto(c, "write end")
<1> DEFINE p == run[c].p
<1>1. /\ run[c].cmd \in Writers /\ run[c].at \in {"write", "write policy"}
      /\ UNCHANGED <<files, vms, locks>>
      /\ \/ /\ At(c, Writers, "write") /\ Staged(c, p, 0) /\ policy' = policy
            /\ ctx' = [ctx EXCEPT ![p].done = 0 + 1] /\ Goto(c, "write policy")
         \/ /\ At(c, Writers, "write policy") /\ Staged(c, p, 1)
            /\ policy' = [policy EXCEPT ![p] = ctx[p].newPolicy]
            /\ ctx' = [ctx EXCEPT ![p].done = 1 + 1] /\ Goto(c, "write end")
  <2>1. 0 + 1 = 1 /\ 1 + 1 = 2
    OBVIOUS
  <2>2. CASE RenameConf(c)
    BY <2>1, <2>2 DEF RenameConf, At
  <2>3. CASE RenamePolicy(c)
    BY <2>1, <2>3 DEF RenamePolicy, At
  <2> QED BY <2>2, <2>3
<1>2. p \in Projects
  BY <1>1 DEF PolicyInv, IsCommand, Writers, Readers
<1>3. ex = None
  BY <1>1, SharedAlone DEF Shares
<1> HIDE DEF p
<1>4. CASE /\ At(c, Writers, "write") /\ Staged(c, p, 0) /\ policy' = policy
           /\ ctx' = [ctx EXCEPT ![p].done = 0 + 1] /\ Goto(c, "write policy")
  <2>1. IsMaps' /\ Elsewhere(p) /\ Moved(p, 0) /\ policy'[p] = policy[p]
    BY <1>2, <1>4, MoveDeed DEF Staged
  <2> QED BY <1>1, <1>2, <1>3, <1>4, <2>1, GotoKeeps DEF Renamed, Staged, p
<1>5. CASE /\ At(c, Writers, "write policy") /\ Staged(c, p, 1)
           /\ policy' = [policy EXCEPT ![p] = ctx[p].newPolicy]
           /\ ctx' = [ctx EXCEPT ![p].done = 1 + 1] /\ Goto(c, "write end")
  <2>1. IsMaps' /\ Elsewhere(p) /\ Moved(p, 1) /\ policy'[p] = ctx[p].newPolicy
    BY <1>2, <1>5, MoveDeed DEF Staged
  <2> QED BY <1>1, <1>2, <1>3, <1>5, <2>1, GotoKeeps DEF Replaced, Staged, p
<1> QED BY <1>1, <1>4, <1>5

\* A writer ends, or fails; destroy removes the Project's state.
LEMMA CleanDeed ==
  ASSUME LockInv, PolicyInv, NEW c \in Procs, EndWrite(c) \/ WriteFails(c) \/ DestroyState(c)
  PROVE  LET p == run[c].p
         IN  /\ run[c].cmd \in Writers \cup {"destroy"} /\ p \in Projects
             /\ run[c].cmd # "destroy" => ex = None
             /\ IsMaps' /\ Elsewhere(p) /\ Only(c) /\ UNCHANGED <<files, vms>>
             /\ run[c].cmd = "destroy" => Removed(p)
             /\ Ended(p) \/ Same(p) \/ Removed(p)
             /\ End(c) \/ (run[c].cmd = "destroy" /\ Goto(c, "config") /\ UNCHANGED locks)
<1> DEFINE p == run[c].p
<1>1. /\ \/ run[c].cmd \in Writers /\ run[c].at \in {"write", "write policy", "write end"}
         \/ run[c].cmd = "destroy" /\ run[c].at = "state"
      /\ UNCHANGED <<files, vms>>
      /\ \/ policy' = policy /\ ctx' = [ctx EXCEPT ![p] = None]
         \/ policy' = policy /\ ctx' = ctx
         \/ policy' = [policy EXCEPT ![p] = None] /\ ctx' = [ctx EXCEPT ![p] = None]
      /\ run[c].cmd = "destroy" =>
           policy' = [policy EXCEPT ![p] = None] /\ ctx' = [ctx EXCEPT ![p] = None]
      /\ End(c) \/ (run[c].cmd = "destroy" /\ Goto(c, "config") /\ UNCHANGED locks)
  BY DEF EndWrite, WriteFails, DestroyState, At, Writers, project
<1>2. p \in Projects
  BY <1>1 DEF PolicyInv, IsCommand, Writers, Readers
<1>3. run[c].cmd # "destroy" => ex = None
  BY <1>1, SharedAlone DEF Shares
<1> HIDE DEF p
<1>4. Only(c)
  BY <1>1, EndKeeps, GotoKeeps
<1>5. CASE policy' = policy /\ ctx' = [ctx EXCEPT ![p] = None] /\ run[c].cmd # "destroy"
  <2>1. IsMaps' /\ Elsewhere(p) /\ Ended(p)
    BY <1>2, <1>5, WriteOne DEF PolicyInv, Ended
  <2> QED BY <1>1, <1>2, <1>3, <1>4, <1>5, <2>1 DEF p
<1>6. CASE policy' = policy /\ ctx' = ctx /\ run[c].cmd # "destroy"
  <2>1. IsMaps' /\ Elsewhere(p) /\ Same(p)
    BY <1>6 DEF PolicyInv, IsMaps, Elsewhere, Same
  <2> QED BY <1>1, <1>2, <1>3, <1>4, <1>6, <2>1 DEF p
<1>7. CASE policy' = [policy EXCEPT ![p] = None] /\ ctx' = [ctx EXCEPT ![p] = None]
  <2>1. IsMaps' /\ Elsewhere(p) /\ Removed(p)
    BY <1>2, <1>7, WriteOne DEF PolicyInv, Removed
  <2> QED BY <1>1, <1>2, <1>3, <1>4, <1>7, <2>1 DEF p
<1> QED BY <1>1, <1>5, <1>6, <1>7

\* A command that writes neither the policy nor the transaction.
LEMMA StillDeed ==
  ASSUME LockInv, PolicyInv, NEW c \in Procs,
         \/ LockForApply(c) \/ PlanChange(c) \/ Boot(c) \/ DestroyConfig(c)
         \/ \E p \in Projects : BeginDestroy(c, p)
  PROVE  Only(c) /\ IsCommand(run'[c]) /\ UNCHANGED <<policy, ctx, lock, active, journal>>
<1>1. CASE LockForApply(c) \/ PlanChange(c)
  <2>1. (\E at : Goto(c, at)) /\ UNCHANGED <<policy, ctx, lock, active, journal>>
    BY <1>1 DEF LockForApply, PlanChange, TakeConfigLock, project, files
  <2> QED BY <2>1, GotoCommand
<1>2. CASE Boot(c) \/ DestroyConfig(c)
  <2>1. End(c) /\ UNCHANGED <<policy, ctx, lock, active, journal>>
    BY <1>2 DEF Boot, DestroyConfig, project, files
  <2> QED BY <2>1, IdleCommand
<1>3. ASSUME NEW p \in Projects, BeginDestroy(c, p)
      PROVE  Only(c) /\ IsCommand(run'[c]) /\ UNCHANGED <<policy, ctx, lock, active, journal>>
  <2>1. /\ Begin(c, [cmd |-> "destroy", at |-> "state", p |-> p])
        /\ UNCHANGED <<policy, ctx, lock, active, journal>>
    BY <1>3 DEF BeginDestroy, project, files
  <2>2. Only(c) /\ run'[c] = [cmd |-> "destroy", at |-> "state", p |-> p]
    BY <2>1, BeginKeeps
  <2>3. IsCommand(run'[c])
    BY <2>2 DEF IsCommand, Readers, Changers
  <2> QED BY <2>1, <2>2, <2>3
<1> QED BY <1>1, <1>2, <1>3

LEMMA LockEditDeed ==
  ASSUME LockInv, PolicyInv, NEW c \in Procs, LockForEdit(c)
  PROVE  LET p == run[c].p
         IN  /\ At(c, {"edit"}, "lock") /\ p \in Projects
             /\ IsMaps' /\ Elsewhere(p) /\ Loaded(p) /\ policy'[p] = run[c].seen.pol
             /\ Only(c) /\ Goto(c, "plan") /\ ConfigFree(p) /\ cfg' = [cfg EXCEPT ![p] = c]
             /\ UNCHANGED <<files, vms, ex, sh>>
<1> DEFINE p == run[c].p
<1>1. /\ At(c, {"edit"}, "lock") /\ Loads(p) /\ After(p) = run[c].seen.pol
      /\ Goto(c, "plan") /\ ConfigFree(p) /\ cfg' = [cfg EXCEPT ![p] = c]
      /\ UNCHANGED <<files, vms, ex, sh>>
  BY DEF LockForEdit, TakeConfigLock, After
<1>2. p \in Projects
  BY <1>1 DEF PolicyInv, IsCommand, At, Readers
<1> HIDE DEF p
<1>3. IsMaps' /\ Elsewhere(p) /\ Loaded(p)
  BY <1>1, <1>2, LoadDeed
<1> QED BY <1>1, <1>2, <1>3, GotoKeeps DEF p, Loaded, Recovered

\* Under the operation lock the other commands load, rename or remove.
LEMMA DeedGentle ==
  ASSUME NEW p \in Projects, Elsewhere(p),
         Same(p) \/ Removed(p) \/ Renamed(p) \/ Loaded(p)
  PROVE  Gentle
<1>1. ctx[p] = None /\ Loaded(p) => Same(p)
  BY DEF Loaded, Recovered, After, AfterRecovery, Same
<1> QED BY <1>1 DEF Gentle, Elsewhere, Same

LEMMA StillPolicy ==
  ASSUME PolicyInv, UNCHANGED <<policy, ctx>>, \A d \in Procs : IsCommand(run'[d])
  PROVE  PolicyInv' /\ Gentle
<1>1. PolicyInv'
  BY DEF PolicyInv, IsMaps, IsPolicy, IsTransaction, IsCommand
<1> QED BY <1>1 DEF Gentle, Same

LEMMA OnlyCommand ==
  ASSUME PolicyInv, NEW c \in Procs, Only(c), IsCommand(run'[c])
  PROVE  \A d \in Procs : IsCommand(run'[d])
BY DEF PolicyInv, Only

\* What a load leaves is a policy.
LEMMA LoadPolicy ==
  ASSUME LockInv, PolicyInv, IsMaps', NEW c \in Procs, Only(c), IsCommand(run'[c]),
         NEW p \in Projects, Elsewhere(p), Loaded(p)
  PROVE  PolicyInv' /\ Gentle
BY RecoveredTypes, DeedTypes, DeedGentle DEF Loaded

LEMMA CompiledIs ==
  ASSUME NEW pol, IsPolicy(pol), NEW dep, NEW new
  PROVE  /\ IsPolicy(Compiled(pol, dep, new)) /\ Compiled(pol, dep, new).dep = dep
         /\ Compiled(pol, dep, new).conf = new /\ Compiled(pol, dep, new).rev = pol.rev + 1
BY DEF Compiled, IsPolicy

LEMMA ConfigurePolicy ==
  ASSUME LockInv, PolicyInv, NEW c \in Procs, Configure(c)
  PROVE  PolicyInv' /\ (ex # None => Gentle)
<1>1. ASSUME NEW p \in Projects, NEW new \in Settings, NEW cmd \in {"apply", "edit"},
             LoadForChange(c, p, cmd, new)
      PROVE  PolicyInv' /\ Gentle
  <2>1. /\ IsMaps' /\ Elsewhere(p) /\ Loaded(p) /\ policy'[p] # None /\ Only(c)
        /\ run'[c].cmd = cmd /\ "p" \in DOMAIN run'[c] /\ run'[c].p = p
        /\ {"seen", "new"} \subseteq DOMAIN run'[c] /\ run'[c].seen.pol = policy'[p]
    BY <1>1, LoadForChangeDeed
  <2>2. IsPolicy(policy'[p])
    BY <2>1, RecoveredTypes DEF Loaded
  <2>3. IsCommand(run'[c])
    BY <2>1, <2>2 DEF IsCommand
  <2> QED BY <2>1, <2>3, LoadPolicy
<1>2. ASSUME NEW p \in Projects, NEW new \in Settings, ChangePolicy(c, p, new)
      PROVE  PolicyInv' /\ Gentle
  <2>1. /\ IsMaps' /\ Elsewhere(p) /\ Loaded(p) /\ policy'[p] # None /\ Only(c)
        /\ run'[c].cmd = "policy" /\ "p" \in DOMAIN run'[c] /\ run'[c].p = p
        /\ {"seen", "new"} \subseteq DOMAIN run'[c] /\ run'[c].seen.pol = policy'[p]
    BY <1>2, ChangePolicyDeed
  <2>2. IsPolicy(policy'[p])
    BY <2>1, RecoveredTypes DEF Loaded
  <2>3. IsCommand(run'[c])
    BY <2>1, <2>2 DEF IsCommand
  <2> QED BY <2>1, <2>3, LoadPolicy
<1>3. ASSUME NEW p \in Projects, BeginStart(c, p) PROVE PolicyInv' /\ Gentle
  <2>1. /\ IsMaps' /\ Elsewhere(p) /\ Loaded(p) /\ policy'[p] # None /\ Only(c)
        /\ run'[c].cmd = "start" /\ {"p", "seen"} \subseteq DOMAIN run'[c] /\ run'[c].p = p
        /\ run'[c].seen.pol = policy'[p]
    BY <1>3, StartDeed
  <2>2. IsPolicy(policy'[p])
    BY <2>1, RecoveredTypes DEF Loaded
  <2>3. IsCommand(run'[c])
    BY <2>1, <2>2 DEF IsCommand, Changers
  <2> QED BY <2>1, <2>3, LoadPolicy
<1>4. CASE LockForEdit(c)
  <2> DEFINE p == run[c].p
  <2>1. /\ p \in Projects /\ IsMaps' /\ Elsewhere(p) /\ Loaded(p) /\ Only(c) /\ Goto(c, "plan")
    BY <1>4, LockEditDeed
  <2> HIDE DEF p
  <2> QED BY <2>1, GotoCommand, LoadPolicy
<1>5. ASSUME NEW p \in Projects, BeginInit(c, p) PROVE PolicyInv' /\ ex = None
  <2>1. /\ IsMaps' /\ Elsewhere(p) /\ Opened(p, c, NewPolicy(lock.man)) /\ ex = None
        /\ Only(c) /\ run'[c].cmd = "init" /\ "p" \in DOMAIN run'[c] /\ run'[c].p = p
    BY <1>5, InitDeed
  <2>2. IsPolicy(NewPolicy(lock.man))
    BY DEF IsPolicy, NewPolicy
  <2>3. IsCommand(run'[c])
    BY <2>1 DEF IsCommand, Readers, Changers
  <2> QED BY <2>1, <2>2, <2>3, OpenedTypes, DeedTypes
<1>6. CASE SaveChange(c)
  <2> DEFINE p == run[c].p
             pol == Compiled(run[c].seen.pol, lock.man, run[c].new)
  <2>1. /\ At(c, {"apply", "edit"}, "save") /\ p \in Projects /\ ex = None
        /\ IsMaps' /\ Elsewhere(p) /\ Only(c)
        /\ \/ Saved(p, pol) /\ End(c)
           \/ Opened(p, c, pol) /\ Goto(c, "write")
    BY <1>6, SaveDeed
  <2>2. IsPolicy(run[c].seen.pol)
    BY <2>1 DEF PolicyInv, IsCommand, At, Readers
  <2>3. IsPolicy(pol)
    BY <2>2, CompiledIs
  <2>4. IsCommand(run'[c])
    BY <2>1, GotoCommand, IdleCommand
  <2> HIDE DEF p, pol
  <2>5. /\ policy'[p] # None => IsPolicy(policy'[p])
        /\ ctx'[p] # None => IsTransaction(ctx'[p])
    BY <2>1, <2>3, OpenedTypes DEF Saved, PolicyInv
  <2> QED BY <2>1, <2>4, <2>5, DeedTypes
<1>7. CASE SavePolicyAndConfig(c)
  <2> DEFINE p == run[c].p
             pol == Compiled(run[c].seen.pol, run[c].seen.pol.dep, run[c].new)
  <2>1. /\ At(c, {"policy"}, "bind") /\ p \in Projects /\ ex = None
        /\ IsMaps' /\ Elsewhere(p) /\ Only(c) /\ Opened(p, c, pol) /\ Goto(c, "write")
    BY <1>7, SavePolicyDeed
  <2>2. IsPolicy(run[c].seen.pol)
    BY <2>1 DEF PolicyInv, IsCommand, At, Readers
  <2>3. IsPolicy(pol)
    BY <2>2, CompiledIs
  <2>4. IsCommand(run'[c])
    BY <2>1, GotoCommand
  <2> HIDE DEF p, pol
  <2> QED BY <2>1, <2>3, <2>4, OpenedTypes, DeedTypes
<1>8. CASE RenameConf(c) \/ RenamePolicy(c)
  <2> DEFINE p == run[c].p
  <2>1. /\ p \in Projects /\ ex = None /\ IsMaps' /\ Elsewhere(p) /\ Only(c)
        /\ (Renamed(p) /\ Goto(c, "write policy")) \/ (Replaced(p) /\ Goto(c, "write end"))
    BY <1>8, RenameDeed
  <2>2. IsCommand(run'[c])
    BY <2>1, GotoCommand
  <2> HIDE DEF p
  <2>3. /\ policy'[p] # None => IsPolicy(policy'[p])
        /\ ctx'[p] # None => IsTransaction(ctx'[p])
    BY <2>1, MovedTypes DEF Renamed, Replaced, PolicyInv
  <2> QED BY <2>1, <2>2, <2>3, DeedTypes
<1>9. CASE EndWrite(c) \/ WriteFails(c) \/ DestroyState(c)
  <2> DEFINE p == run[c].p
  <2>1. /\ p \in Projects /\ (run[c].cmd # "destroy" => ex = None)
        /\ IsMaps' /\ Elsewhere(p) /\ Only(c)
        /\ run[c].cmd = "destroy" => Removed(p)
        /\ Ended(p) \/ Same(p) \/ Removed(p)
        /\ End(c) \/ Goto(c, "config")
    BY <1>9, CleanDeed
  <2>2. IsCommand(run'[c])
    BY <2>1, GotoCommand, IdleCommand
  <2> HIDE DEF p
  <2>3. /\ policy'[p] # None => IsPolicy(policy'[p])
        /\ ctx'[p] # None => IsTransaction(ctx'[p])
    BY <2>1 DEF Ended, Same, Removed, PolicyInv
  <2> QED BY <2>1, <2>2, <2>3, DeedTypes, DeedGentle
<1>10. CASE \/ LockForApply(c) \/ PlanChange(c) \/ Boot(c) \/ DestroyConfig(c)
            \/ \E p \in Projects : BeginDestroy(c, p)
  BY <1>10, StillDeed, OnlyCommand, StillPolicy
<1> QED BY <1>1, <1>2, <1>3, <1>4, <1>5, <1>6, <1>7, <1>8, <1>9, <1>10
        DEF Configure, ModelPolicy, GitPolicy, WebPolicy, SetMode

\* The steps that belong to no command load, rename, or write no policy.
LEMMA LookDeed ==
  ASSUME PolicyInv, NEW p \in Projects, Look(p) \/ LookFails(p)
  PROVE  /\ IsMaps' /\ Elsewhere(p) /\ (Loaded(p) \/ Renamed(p))
         /\ ctx[p] # None /\ ConfigFree(p) /\ UNCHANGED <<files, vms, locks, run>>
<1>1. CASE Look(p)
  BY <1>1, LoadDeed DEF Look
<1>2. CASE LookFails(p)
  <2>1. /\ ConfigFree(p) /\ ctx[p] # None /\ ctx[p].done = 0 /\ policy' = policy
        /\ ctx' = [ctx EXCEPT ![p].done = 1] /\ UNCHANGED <<files, vms, locks, run>>
    BY <1>2 DEF LookFails
  <2>2. ctx' = [ctx EXCEPT ![p].done = 0 + 1]
    <3>1. 0 + 1 = 1
      OBVIOUS
    <3> QED BY <2>1, <3>1
  <2>3. IsMaps' /\ Elsewhere(p) /\ Moved(p, 0) /\ policy'[p] = policy[p]
    BY <2>1, <2>2, MoveDeed
  <2> QED BY <2>1, <2>3 DEF Renamed
<1> QED BY <1>1, <1>2

LEMMA AlonePolicy ==
  ASSUME LockInv, PolicyInv, Alone
  PROVE  PolicyInv' /\ Gentle
<1>0. run' = run /\ \A d \in Procs : IsCommand(run'[d])
  BY AloneLocks DEF PolicyInv
<1>1. ASSUME NEW p \in Projects, Look(p) \/ LookFails(p) PROVE PolicyInv' /\ Gentle
  <2>1. IsMaps' /\ Elsewhere(p) /\ (Loaded(p) \/ Renamed(p))
    BY <1>1, LookDeed
  <2>2. /\ policy'[p] # None => IsPolicy(policy'[p])
        /\ ctx'[p] # None => IsTransaction(ctx'[p])
    BY <2>1, RecoveredTypes, MovedTypes DEF Loaded, Renamed, PolicyInv
  <2>3. ASSUME NEW q \in Projects
        PROVE  /\ policy'[q] # None => IsPolicy(policy'[q])
               /\ ctx'[q] # None => IsTransaction(ctx'[q])
    BY <2>1, <2>2 DEF Elsewhere, PolicyInv
  <2>4. PolicyInv'
    BY <1>0, <2>1, <2>3 DEF PolicyInv, IsPolicy, IsTransaction
  <2> QED BY <2>1, <2>4, DeedGentle
<1>2. CASE ~(\E p \in Projects : Look(p) \/ LookFails(p))
  <2>1. UNCHANGED <<policy, ctx>>
    BY <1>2 DEF Alone, SetVersion, EditVersions, Expire, DropVM, SupervisorEnds,
                ImportGitignore, EditConfig, project
  <2> QED BY <1>0, <2>1, StillPolicy
<1> QED BY <1>1, <1>2

-----------------------------------------------------------------------------
(* What an updater does to the policies *)

LEMMA UpdateCommand ==
  ASSUME LockInv, PolicyInv, NEW c \in Procs, Update(c)
  PROVE  /\ Only(c) /\ run'[c].cmd \in Updaters \cup {"none"}
         /\ \A d \in Procs : IsCommand(run'[d])
<1>1. Only(c) /\ run'[c].cmd \in Updaters \cup {"none"}
  <2>1. ASSUME NEW cmd \in Updaters, BeginUpdater(c, cmd)
        PROVE  Only(c) /\ run'[c].cmd \in Updaters
    <3>1. Begin(c, [cmd |-> cmd, at |-> "recover", todo |-> journal.projects, undo |-> FALSE])
      BY <2>1 DEF BeginUpdater
    <3> QED BY <3>1, BeginKeeps
  <2>2. CASE \/ RecoverNothing(c) \/ RecoverLock(c) \/ RecoverActive(c) \/ Prepare(c)
             \/ Decide(c) \/ SaveLock(c) \/ SaveActive(c) \/ ClearArtifacts(c) \/ RestoreLock(c)
    <3>1. (\E at : Goto(c, at)) /\ run[c].cmd \in Updaters
      BY <2>2
      DEF RecoverNothing, RecoverLock, RecoverActive, Prepare, Decide, SaveLock, SaveActive,
          ClearArtifacts, RestoreLock, At, Updaters
    <3> QED BY <3>1, GotoKeeps
  <2>3. CASE RecoverPolicy(c) \/ BindPolicy(c) \/ RestorePolicy(c)
    <3>1. (\E todo : run' = [run EXCEPT ![c].todo = todo]) /\ run[c].cmd \in Updaters
      BY <2>3 DEF RecoverPolicy, BindPolicy, RestorePolicy, At
    <3> QED BY <3>1, TodoKeeps
  <2>4. CASE RecoverRefused(c) \/ ClearCandidate(c) \/ RestoreActivation(c)
    <3>1. End(c)
      BY <2>4 DEF RecoverRefused, ClearCandidate, RestoreActivation
    <3> QED BY <3>1, EndKeeps DEF Idle
  <2>5. CASE RecoverEnd(c) \/ CommitEnd(c)
    <3>1. (End(c) \/ \E at : Goto(c, at)) /\ run[c].cmd \in Updaters
      BY <2>5 DEF RecoverEnd, CommitEnd, At
    <3> QED BY <3>1, EndKeeps, GotoKeeps DEF Idle
  <2>6. CASE PlanUpdate(c) \/ PlanSetup(c)
    BY <2>6, PlanUpdateDeed, PlanSetupDeed DEF Plans, Updaters
  <2>7. CASE SetupDeclares(c)
    BY <2>7 DEF SetupDeclares, At, Updaters, Only
  <2>8. CASE CommitFails(c)
    BY <2>8, FailKeeps
  <2> QED BY <2>1, <2>2, <2>3, <2>4, <2>5, <2>6, <2>7, <2>8 DEF Update, Recovery
<1>2. IsCommand(run'[c])
  BY <1>1 DEF IsCommand, Readers, Changers, Updaters
<1> QED BY <1>1, <1>2, OnlyCommand

\* Rewriting keeps the settings and counts.
LEMMA RewrittenIs ==
  ASSUME NEW pol, IsPolicy(pol), NEW man
  PROVE  /\ IsPolicy(Rewritten(pol, man)) /\ Rewritten(pol, man).dep = man
         /\ Rewritten(pol, man).conf = pol.conf /\ Rewritten(pol, man).rev = pol.rev + 1
BY DEF Rewritten, IsPolicy

LEMMA WritePolicy ==
  ASSUME PolicyInv, \A d \in Procs : IsCommand(run'[d]), NEW p \in Projects,
         NEW pol, IsPolicy(pol), policy' = [policy EXCEPT ![p] = pol], UNCHANGED ctx
  PROVE  PolicyInv' /\ Elsewhere(p) /\ Saved(p, pol)
<1>1. IsMaps' /\ Elsewhere(p) /\ policy'[p] = pol /\ ctx'[p] = ctx[p]
  BY WriteOne DEF PolicyInv
<1>2. \A q \in Projects : policy'[q] # None => IsPolicy(policy'[q])
  BY <1>1 DEF Elsewhere, PolicyInv
<1> QED BY <1>1, <1>2 DEF PolicyInv, IsPolicy, IsTransaction, IsCommand, Saved

-----------------------------------------------------------------------------
(* The settings under an update *)

\* A Project that had no interrupted transaction has the settings of the plan.
Keeps(r) ==
  \A p \in r.whole : /\ p \in DOMAIN r.list /\ ctx[p] = None
                     /\ policy[p] # None => policy[p].conf = r.list[p].conf

Follows(r) ==
  /\ r.at \in {"prepare", "bind", "restore"} =>
       /\ IsPlanned(r)
       /\ DOMAIN r.list \subseteq Projects /\ r.todo \subseteq DOMAIN r.list
       /\ \A p \in DOMAIN r.list : IsPolicy(r.list[p])
  /\ r.at \in {"prepare", "bind"} => Keeps(r)

KeptInv == PolicyInv /\ \A c \in Procs : run[c].cmd \in Updaters => Follows(run[c])

\* Gentle steps keep what an updater has planned.
LEMMA GentleKeeps ==
  ASSUME KeptInv, NEW c \in Procs, run[c].cmd \in Updaters, run'[c] = run[c], Gentle
  PROVE  Follows(run[c])'
<1>1. Follows(run[c])
  BY DEF KeptInv
<1>2. ASSUME run[c].at \in {"prepare", "bind"}, NEW p \in run[c].whole
      PROVE  /\ p \in DOMAIN run[c].list /\ ctx'[p] = None
             /\ policy'[p] # None => policy'[p].conf = run[c].list[p].conf
  <2>1. p \in DOMAIN run[c].list /\ p \in Projects /\ ctx[p] = None
        /\ (policy[p] # None => policy[p].conf = run[c].list[p].conf)
    <3>1. Keeps(run[c]) /\ DOMAIN run[c].list \subseteq Projects
      BY <1>1, <1>2 DEF Follows
    <3>2. p \in DOMAIN run[c].list /\ p \in Projects
      BY <1>2, <3>1 DEF Keeps
    <3> QED BY <1>2, <3>1, <3>2 DEF Keeps
  <2>2. policy'[p] = policy[p] \/ policy'[p] = None
    BY <2>1 DEF Gentle, Same, Removed, Renamed, Moved
  <2>3. ctx'[p] = None
    BY <2>1 DEF Gentle, Same, Removed, Renamed, Moved
  <2> QED BY <2>1, <2>2, <2>3
<1> QED BY <1>1, <1>2 DEF Follows, Keeps

LEMMA OtherKept ==
  ASSUME LockInv, KeptInv, PolicyInv', NEW c \in Procs, Only(c),
         run'[c].cmd \notin Updaters, ex # None => Gentle
  PROVE  KeptInv'
<1> SUFFICES ASSUME NEW d \in Procs, run'[d].cmd \in Updaters
             PROVE  Follows(run[d])'
  BY DEF KeptInv
<1>1. run'[d] = run[d]
  BY DEF Only
<1>2. ex = d /\ ex # None
  BY <1>1, ConfigurationAssumption DEF LockInv
<1> QED BY <1>1, <1>2, GentleKeeps

\* Only the updater itself follows a plan.
LEMMA UpdaterKept ==
  ASSUME LockInv, KeptInv, PolicyInv', NEW c \in Procs, Only(c), run[c].cmd \in Updaters,
         run'[c].cmd \in Updaters => Follows(run[c])'
  PROVE  KeptInv'
<1> SUFFICES ASSUME NEW d \in Procs, run'[d].cmd \in Updaters
             PROVE  Follows(run[d])'
  BY DEF KeptInv
<1>1. CASE d = c
  BY <1>1
<1>2. CASE d # c
  <2>1. run'[d] = run[d]
    BY <1>2 DEF Only
  <2> QED BY <1>2, <2>1 DEF LockInv
<1> QED BY <1>1, <1>2

\* A Project is moved to another manifest with the settings it was planned with.
LEMMA BindKept ==
  ASSUME LockInv, KeptInv, NEW c \in Procs, BindPolicy(c)
  PROVE  KeptInv'
<1>0. PolicyInv /\ \A d \in Procs : IsCommand(run'[d])
  BY UpdateCommand DEF Update, KeptInv
<1> DEFINE r == run[c]
<1>1. PICK p \in r.todo :
        /\ policy' = [policy EXCEPT ![p] = Rewritten(r.list[p], r.next.man)]
        /\ run' = [run EXCEPT ![c].todo = @ \ {p}]
  BY DEF BindPolicy
<1>2. r.cmd \in Updaters /\ r.at = "bind" /\ UNCHANGED ctx
  BY DEF BindPolicy, At
<1>3. Follows(r)
  BY <1>2 DEF KeptInv
<1>4. /\ IsPlanned(r) /\ p \in DOMAIN r.list /\ p \in Projects /\ IsPolicy(r.list[p])
      /\ r.todo \subseteq DOMAIN r.list
  BY <1>1, <1>2, <1>3 DEF Follows
<1> DEFINE pol == Rewritten(r.list[p], r.next.man)
<1>5. IsPolicy(pol) /\ pol.conf = r.list[p].conf
  BY <1>4, RewrittenIs
<1>6. policy' = [policy EXCEPT ![p] = pol]
  BY <1>1
<1> HIDE DEF pol
<1>7. PolicyInv'
  BY <1>0, <1>2, <1>4, <1>5, <1>6, WritePolicy
<1>8. \A q \in Projects : policy'[q] = IF q = p THEN pol ELSE policy[q]
  BY <1>6 DEF KeptInv, PolicyInv, IsMaps
<1>9. Only(c) /\ Kept(c) /\ run'[c].at = "bind" /\ run'[c].cmd \in Updaters
  BY <1>1, <1>2, TodoKeeps
<1>10. /\ IsPlanned(run'[c]) /\ run'[c].list = r.list /\ run'[c].whole = r.whole
       /\ run'[c].todo \subseteq DOMAIN r.list
  <2>1. run'[c] = [r EXCEPT !.todo = r.todo \ {p}]
    BY <1>1 DEF LockInv
  <2> QED BY <1>4, <2>1 DEF IsPlanned
<1>11. \A q \in r.whole : /\ q \in DOMAIN r.list /\ ctx'[q] = None
                          /\ policy'[q] # None => policy'[q].conf = r.list[q].conf
  BY <1>2, <1>3, <1>5, <1>8 DEF Follows, Keeps
<1>12. Follows(run[c])'
  BY <1>2, <1>3, <1>9, <1>10, <1>11 DEF Follows, Keeps
<1> QED BY <1>2, <1>7, <1>9, <1>12, UpdaterKept

\* A plan is made of the policies as they are.
LEMMA PlanKept ==
  ASSUME LockInv, KeptInv, NEW c \in Procs, PlanUpdate(c) \/ PlanSetup(c)
  PROVE  KeptInv'
<1>1. /\ Only(c) /\ run'[c].at = "prepare" /\ IsPlanned(run'[c])
      /\ run'[c].list = [p \in Listed |-> policy[p]] /\ run'[c].todo = Listed
      /\ run'[c].whole = {p \in Listed : ctx[p] = None}
  BY PlanUpdateDeed, PlanSetupDeed DEF Plans
<1>2. \A p \in Listed : p \in Projects /\ policy[p] # None
  BY DEF PlanUpdate, PlanSetup, UpdateInventory, SetupInventory, Listed
<1>3. UNCHANGED <<policy, ctx>> /\ run[c].cmd \in Updaters
  BY DEF PlanUpdate, PlanSetup, project, At, Updaters
<1>4. PolicyInv /\ PolicyInv'
  BY <1>3, UpdateCommand, StillPolicy DEF KeptInv, Update
<1>5. \A p \in DOMAIN run'[c].list : IsPolicy(run'[c].list[p])
  BY <1>1, <1>2, <1>4 DEF PolicyInv
<1>6. Follows(run[c])'
  BY <1>1, <1>2, <1>3, <1>5 DEF Follows, Keeps
<1> QED BY <1>1, <1>3, <1>4, <1>6, UpdaterKept

LEMMA UpdateKept ==
  ASSUME LockInv, LockInv', KeptInv, NEW c \in Procs, Update(c)
  PROVE  KeptInv'
<1>0. PolicyInv /\ \A d \in Procs : IsCommand(run'[d])
  BY UpdateCommand DEF KeptInv
<1>1. ASSUME NEW cmd \in Updaters, BeginUpdater(c, cmd) PROVE KeptInv'
  <2>1. /\ Begin(c, [cmd |-> cmd, at |-> "recover", todo |-> journal.projects, undo |-> FALSE])
        /\ UNCHANGED <<policy, ctx>>
    BY <1>1 DEF BeginUpdater, project
  <2>2. Only(c) /\ run'[c].at = "recover"
    BY <2>1, BeginKeeps
  <2>3. PolicyInv' /\ Gentle
    BY <1>0, <2>1, StillPolicy
  <2>4. ASSUME NEW d \in Procs, run'[d].cmd \in Updaters PROVE Follows(run[d])'
    <3>1. CASE d = c
      BY <2>2, <3>1 DEF Follows
    <3>2. CASE d # c
      <4>1. run'[d] = run[d]
        BY <2>2, <3>2 DEF Only
      <4> QED BY <2>3, <2>4, <4>1, GentleKeeps
    <3> QED BY <3>1, <3>2
  <2> QED BY <2>3, <2>4 DEF KeptInv
<1>2. CASE \/ RecoverNothing(c) \/ RecoverLock(c) \/ RecoverActive(c) \/ RecoverEnd(c)
           \/ CommitEnd(c) \/ SaveLock(c) \/ SaveActive(c) \/ ClearArtifacts(c) \/ Decide(c)
           \/ RecoverRefused(c) \/ ClearCandidate(c) \/ RestoreLock(c) \/ RestoreActivation(c)
  <2>1. /\ \/ End(c)
           \/ \E at \in {"plan", "recover active", "recover end", "save lock", "save active",
                         "commit end", "clear", "clear candidate", "restore active"} : Goto(c, at)
        /\ run[c].cmd \in Updaters /\ UNCHANGED <<policy, ctx>>
    BY <1>2 DEF RecoverNothing, RecoverLock, RecoverActive, RecoverEnd, CommitEnd, SaveLock,
                SaveActive, ClearArtifacts, Decide, RecoverRefused, ClearCandidate,
                RestoreLock, RestoreActivation, At, Updaters, project
  <2>2. PolicyInv'
    BY <1>0, <2>1, StillPolicy
  <2>3. CASE End(c)
    <3>1. Only(c) /\ run'[c].cmd \notin Updaters
      BY <2>3, EndKeeps DEF Idle, Updaters
    <3> QED BY <2>1, <2>2, <3>1, UpdaterKept
  <2>4. CASE ~End(c)
    <3>1. Only(c) /\ run'[c].at \notin {"prepare", "bind", "restore"}
      BY <2>1, <2>4, GotoKeeps
    <3> QED BY <2>1, <2>2, <3>1, UpdaterKept DEF Follows
  <2> QED BY <2>3, <2>4
<1>3. CASE RecoverPolicy(c)
  <2>1. PICK p : /\ policy[p] # None
                 /\ policy' = [policy EXCEPT ![p] = Rewritten(policy[p], Chosen.man)]
                 /\ run' = [run EXCEPT ![c].todo = @ \ {p}]
    BY <1>3 DEF RecoverPolicy
  <2>2. run[c].cmd \in Updaters /\ run[c].at = "recover" /\ UNCHANGED ctx
    BY <1>3 DEF RecoverPolicy, At
  <2>3. PolicyInv'
    <3>1. CASE p \in Projects
      <4>1. IsPolicy(policy[p])
        BY <2>1, <3>1 DEF KeptInv, PolicyInv
      <4>2. IsPolicy(Rewritten(policy[p], Chosen.man))
        BY <4>1, RewrittenIs
      <4> QED BY <1>0, <2>1, <2>2, <3>1, <4>2, WritePolicy
    <3>2. CASE p \notin Projects
      <4>1. policy' = policy
        BY <2>1, <3>2 DEF KeptInv, PolicyInv, IsMaps
      <4> QED BY <1>0, <2>2, <4>1, StillPolicy
    <3> QED BY <3>1, <3>2
  <2>4. Only(c) /\ run'[c].at = "recover"
    BY <2>1, <2>2, TodoKeeps
  <2> QED BY <2>2, <2>3, <2>4, UpdaterKept DEF Follows
<1>4. CASE BindPolicy(c)
  BY <1>4, BindKept
<1>5. CASE RestorePolicy(c)
  <2>1. PICK p \in run[c].todo : /\ policy' = [policy EXCEPT ![p] = run[c].list[p]]
                                 /\ run' = [run EXCEPT ![c].todo = @ \ {p}]
    BY <1>5 DEF RestorePolicy
  <2>2. run[c].cmd \in Updaters /\ run[c].at = "restore" /\ UNCHANGED ctx
    BY <1>5 DEF RestorePolicy, At
  <2>3. Follows(run[c])
    BY <2>2 DEF KeptInv
  <2>4. IsPolicy(run[c].list[p]) /\ IsPlanned(run[c]) /\ p \in Projects
    BY <2>1, <2>2, <2>3 DEF Follows
  <2>5. PolicyInv'
    BY <1>0, <2>1, <2>2, <2>4, WritePolicy
  <2>6. Only(c) /\ run'[c].at = "restore"
    BY <2>1, <2>2, TodoKeeps
  <2>7. run'[c] = [run[c] EXCEPT !.todo = run[c].todo \ {p}]
    BY <2>1 DEF LockInv
  <2>8. /\ IsPlanned(run'[c]) /\ run'[c].list = run[c].list
        /\ run'[c].todo \subseteq run[c].todo
    BY <2>4, <2>7 DEF IsPlanned
  <2>9. Follows(run[c])'
    BY <2>2, <2>3, <2>6, <2>8 DEF Follows
  <2> QED BY <2>2, <2>5, <2>6, <2>9, UpdaterKept
<1>6. CASE PlanUpdate(c) \/ PlanSetup(c)
  BY <1>6, PlanKept
<1>7. CASE SetupDeclares(c)
  <2>1. UNCHANGED <<run, policy, ctx>>
    BY <1>7 DEF SetupDeclares, project
  <2>2. PolicyInv'
    BY <1>0, <2>1, StillPolicy
  <2> QED BY <2>1, <2>2 DEF KeptInv, Follows, Keeps
<1>8. CASE Prepare(c)
  <2>1. /\ Goto(c, "bind") /\ run[c].cmd \in Updaters /\ run[c].at = "prepare"
        /\ UNCHANGED <<policy, ctx>>
    BY <1>8 DEF Prepare, At, project
  <2>2. Only(c) /\ run'[c].at = "bind"
    BY <2>1, GotoKeeps
  <2>3. Follows(run[c])
    BY <2>1 DEF KeptInv
  <2>4. run'[c] = [run[c] EXCEPT !.at = "bind"]
    BY <2>1 DEF Goto, LockInv
  <2>5. IsPlanned(run[c])
    BY <2>1, <2>3 DEF Follows
  <2>6. /\ IsPlanned(run'[c]) /\ run'[c].list = run[c].list /\ run'[c].whole = run[c].whole
        /\ run'[c].todo = run[c].todo
    BY <2>4, <2>5 DEF IsPlanned
  <2>7. Follows(run[c])'
    BY <2>1, <2>2, <2>3, <2>6 DEF Follows, Keeps
  <2>8. PolicyInv'
    BY <1>0, <2>1, StillPolicy
  <2> QED BY <2>1, <2>2, <2>7, <2>8, UpdaterKept
<1>9. CASE CommitFails(c)
  <2>1. /\ Only(c) /\ run'[c].at \in {"recover", "restore"} /\ run[c].at = "bind"
        /\ run[c].cmd \in Updaters
        /\ IsPlanned(run[c]) => SamePlan(c) /\ run'[c].todo = DOMAIN run[c].list
    BY <1>9, FailKeeps
  <2>2. Follows(run[c]) /\ UNCHANGED <<policy, ctx>>
    BY <1>9, <2>1 DEF KeptInv, CommitFails, project
  <2>3. Follows(run[c])'
    BY <2>1, <2>2 DEF Follows, SamePlan
  <2>4. PolicyInv'
    BY <1>0, <2>2, StillPolicy
  <2> QED BY <2>1, <2>3, <2>4, UpdaterKept
<1> QED BY <1>1, <1>2, <1>3, <1>4, <1>5, <1>6, <1>7, <1>8, <1>9 DEF Update, Recovery

LEMMA NextKept == LockInv /\ KeptInv /\ [Next]_vars => KeptInv'
<1> SUFFICES ASSUME LockInv, KeptInv, [Next]_vars PROVE KeptInv' OBVIOUS
<1>0. LockInv'
  BY NextLocks
<1>1. ASSUME NEW c \in Procs, Configure(c) PROVE KeptInv'
  <2>1. PolicyInv' /\ (ex # None => Gentle)
    BY <1>1, ConfigurePolicy DEF KeptInv
  <2> QED BY <1>1, <2>1, ConfigureKeeps, OtherKept DEF Commands
<1>2. ASSUME NEW c \in Procs, Check(c) \/ Refuse(c) \/ Crash(c) PROVE KeptInv'
  <2>1. UNCHANGED <<policy, ctx>>
    BY <1>2 DEF Check, BeginCheck, Download, SaveCandidate, PruneArtifacts, CheckFails,
                Refuse, Crash, project
  <2>2. Only(c) /\ run'[c].cmd \in {"check", "none"}
    BY <1>2, CheckKeeps, RefuseKeeps DEF Idle
  <2>3. IsCommand(run'[c])
    BY <2>2 DEF IsCommand, Readers, Changers
  <2>4. PolicyInv' /\ Gentle
    BY <2>1, <2>2, <2>3, OnlyCommand, StillPolicy DEF KeptInv
  <2> QED BY <2>2, <2>4, OtherKept DEF Updaters
<1>3. ASSUME NEW c \in Procs, Update(c) PROVE KeptInv'
  BY <1>0, <1>3, UpdateKept
<1>4. CASE Alone
  <2>1. PolicyInv' /\ Gentle /\ run' = run
    BY <1>4, AlonePolicy, AloneLocks DEF KeptInv
  <2> QED BY <2>1, GentleKeeps DEF KeptInv
<1>5. CASE UNCHANGED vars
  <2>1. UNCHANGED <<run, policy, ctx>>
    BY <1>5 DEF vars, project
  <2>2. PolicyInv'
    BY <2>1, StillPolicy DEF KeptInv, PolicyInv
  <2> QED BY <2>1, <2>2 DEF KeptInv, Follows, Keeps
<1> QED BY <1>1, <1>2, <1>3, <1>4, <1>5 DEF Next, Alone

LEMMA InitKept == Init => KeptInv
<1> SUFFICES ASSUME Init PROVE KeptInv OBVIOUS
<1>1. ctx = [p \in Projects |-> None]
  BY DEF Init
<1>2. \/ policy = [p \in Projects |-> None]
      \/ \E man : policy = [p \in Projects |-> IF p \in Registered
                            THEN [dep |-> man, conf |-> Default, rev |-> 0] ELSE None]
  BY DEF Init, Installed
<1>3. policy = [p \in Projects |-> policy[p]]
      /\ \A p \in Projects : policy[p] # None => IsPolicy(policy[p])
  BY <1>2 DEF IsPolicy
<1>4. \A c \in Procs : run[c].cmd \notin Updaters
  BY DEF Init, Idle, Updaters
<1>5. \A c \in Procs : IsCommand(run[c])
  BY DEF Init, Idle, IsCommand, Readers, Changers
<1> QED BY <1>1, <1>3, <1>4, <1>5 DEF KeptInv, PolicyInv, IsMaps

\* Between the inventory and the end of an update no other command changes the
\* settings of a Project that had no interrupted transaction (updateApply,
\* inventoryProjectsForUpdate).
THEOREM KeptSettings == Spec => []UpdateKeepsSettings
<1>1. Init => LockInv /\ KeptInv
  BY InitLocks, InitKept
<1>2. KeptInv => UpdateKeepsSettings
  <2> SUFFICES ASSUME KeptInv, NEW c \in Procs, At(c, Updaters, "bind"),
                      NEW p \in run[c].whole, policy[p] # None
               PROVE  policy[p].conf = run[c].list[p].conf
    BY DEF UpdateKeepsSettings
  <2>1. Keeps(run[c])
    BY DEF KeptInv, Follows, At
  <2> QED BY <2>1 DEF Keeps
<1> QED BY <1>1, <1>2, NextLocks, NextKept, PTL DEF Spec

-----------------------------------------------------------------------------
(* The end of the update journal *)

Pending(p) == ctx[p] # None /\ ctx[p].done < 2

\* The policy is the one an interrupted transaction replaces, or a newer one.
RevInv ==
  \A p \in Projects : Pending(p) /\ policy[p] # None =>
      ctx[p].oldPolicy # None /\ policy[p].rev >= ctx[p].oldPolicy.rev

\* A policy that is bound to a manifest stays so: the recovery of a transaction
\* that was interrupted before would be refused.
Bound(p, man) ==
  /\ policy[p] # None => policy[p].dep = man
  /\ Pending(p) => policy[p] # ctx[p].oldPolicy

Planned == {"prepare", "bind", "restore"}
Carrying == {"bind", "restore", "restore active"}
Done == {"save lock", "save active", "commit end"}
Final == IF Activated THEN Chosen ELSE None

Carries(r) ==
  /\ IsPlanned(r) /\ DOMAIN r.list \subseteq Projects
  /\ journal.projects = DOMAIN r.list /\ journal.target = r.next
  /\ journal.source = r.base /\ journal.sourceActive = r.sourceActive

\* What is carried out of the journal where an updater is.
Ends(r) ==
  /\ r.at = "recover" => /\ "todo" \in DOMAIN r
                         /\ \A p \in journal.projects \ r.todo : Bound(p, Chosen.man)
  /\ r.at \in {"recover active", "recover end"} =>
       lock = Final /\ \A p \in journal.projects : Bound(p, Chosen.man)
  /\ r.at \in Planned => \A p \in DOMAIN r.list : Pending(p) =>
       ctx[p].oldPolicy # None /\ r.list[p].rev >= ctx[p].oldPolicy.rev
  /\ r.at = "prepare" => r.todo = DOMAIN r.list
  /\ r.at \in Carrying \cup Done => Carries(r)
  /\ r.at \in Carrying => ~Decided
  /\ r.at = "bind" => \A p \in DOMAIN r.list \ r.todo : Bound(p, r.next.man)
  /\ r.at \in Done => Decided /\ \A p \in DOMAIN r.list : Bound(p, r.next.man)
  /\ r.at \in {"save active", "commit end"} => lock = r.next
  /\ r.at = "restore active" => lock = Final

IsJournal == DOMAIN journal = DOMAIN NoJournal /\ journal.projects \subseteq Projects

EndsInv ==
  /\ IsJournal /\ RevInv
  /\ \A c \in Procs : run[c].cmd \in Updaters => Ends(run[c])

\* What one Project's transaction does to the revisions.
LEMMA DeedRev ==
  ASSUME PolicyInv, RevInv, NEW p \in Projects, Elsewhere(p),
         \/ Same(p) \/ Loaded(p) \/ Renamed(p) \/ Replaced(p) \/ Ended(p) \/ Removed(p)
         \/ \E c, pol : Opened(p, c, pol) /\ (policy'[p] # None => IsPolicy(policy'[p]))
         \/ \E pol : /\ Saved(p, pol)
                     /\ Pending(p) => ctx[p].oldPolicy # None /\ pol.rev >= ctx[p].oldPolicy.rev
  PROVE  RevInv'
<1>1. Pending(p)' /\ policy'[p] # None =>
        ctx'[p].oldPolicy # None /\ policy'[p].rev >= ctx'[p].oldPolicy.rev
  <2>1. CASE Same(p) \/ Loaded(p) \/ Ended(p) \/ Removed(p)
    BY <2>1 DEF Same, Loaded, Ended, Removed, RevInv, Pending
  <2>2. CASE Renamed(p) \/ Replaced(p)
    BY <2>2 DEF Renamed, Replaced, Moved, RevInv, Pending
  <2>3. ASSUME NEW c, NEW pol, Opened(p, c, pol), policy'[p] # None => IsPolicy(policy'[p])
        PROVE  policy'[p] # None =>
                 ctx'[p].oldPolicy # None /\ policy'[p].rev >= ctx'[p].oldPolicy.rev
    BY <2>3 DEF Opened, IsPolicy
  <2>4. ASSUME NEW pol, Saved(p, pol),
               Pending(p) => ctx[p].oldPolicy # None /\ pol.rev >= ctx[p].oldPolicy.rev
        PROVE  Pending(p)' => ctx'[p].oldPolicy # None /\ policy'[p].rev >= ctx'[p].oldPolicy.rev
    BY <2>4 DEF Saved, Pending
  <2> QED BY <2>1, <2>2, <2>3, <2>4
<1>2. ASSUME NEW q \in Projects \ {p}, Pending(q)', policy'[q] # None
      PROVE  ctx'[q].oldPolicy # None /\ policy'[q].rev >= ctx'[q].oldPolicy.rev
  BY <1>2 DEF Elsewhere, RevInv, Pending
<1> QED BY <1>1, <1>2 DEF RevInv

\* The same of the next state, about a manifest of this one.
BoundNext(p, man) ==
  /\ policy'[p] # None => policy'[p].dep = man
  /\ Pending(p)' => policy'[p] # ctx'[p].oldPolicy

\* A rewritten policy is bound.
LEMMA RewrittenBound ==
  ASSUME PolicyInv, NEW p \in Projects, NEW pol, IsPolicy(pol), NEW man,
         Saved(p, Rewritten(pol, man)),
         Pending(p) => ctx[p].oldPolicy # None /\ pol.rev >= ctx[p].oldPolicy.rev
  PROVE  /\ BoundNext(p, man)
         /\ Pending(p) => ctx[p].oldPolicy # None
                          /\ Rewritten(pol, man).rev >= ctx[p].oldPolicy.rev
<1> DEFINE new == Rewritten(pol, man)
<1>1. new.dep = man /\ new.rev = pol.rev + 1 /\ pol.rev \in Nat
  BY RewrittenIs DEF IsPolicy
<1>2. Pending(p) => ctx[p].oldPolicy.rev \in Nat
  BY DEF PolicyInv, IsTransaction, IsPolicy, Pending
<1>3. policy'[p] = new /\ ctx'[p] = ctx[p]
  BY DEF Saved
<1> HIDE DEF new
<1>4. Pending(p) => new.rev >= ctx[p].oldPolicy.rev /\ new # ctx[p].oldPolicy
  BY <1>1, <1>2
<1>5. BoundNext(p, man)
  BY <1>1, <1>3, <1>4 DEF BoundNext, Pending
<1> QED BY <1>4, <1>5 DEF new

\* Gentle steps leave a policy bound, and the revisions that were planned.
LEMMA GentleBound ==
  ASSUME PolicyInv, Gentle, NEW p \in Projects, NEW man, Bound(p, man)
  PROVE  BoundNext(p, man)
<1>1. CASE Same(p) \/ Removed(p) \/ Renamed(p)
  BY <1>1 DEF Same, Removed, Renamed, Moved, Bound, BoundNext, Pending
<1>2. CASE ctx[p] # None /\ Loaded(p)
  <2>1. ctx[p].done \in 0 .. 2
    BY <1>2 DEF PolicyInv, IsTransaction
  <2>2. ctx[p].done = 2
    BY <1>2, <2>1 DEF Loaded, Recovered, PolicyHolds, Bound, Pending
  <2>3. policy'[p] = policy[p] /\ ctx'[p] = None
    BY <1>2, <2>2 DEF Loaded, Recovered, PolicyHolds, After, AfterRecovery
  <2> QED BY <2>3 DEF Bound, BoundNext, Pending
<1> QED BY <1>1, <1>2 DEF Gentle

LEMMA GentlePending ==
  ASSUME Gentle, NEW p \in Projects, Pending(p)'
  PROVE  Pending(p) /\ ctx'[p].oldPolicy = ctx[p].oldPolicy
BY DEF Gentle, Same, Removed, Renamed, Moved, Loaded, Pending

LEMMA GentleEnds ==
  ASSUME PolicyInv, IsJournal, Gentle, NEW c \in Procs, run'[c] = run[c], Follows(run[c]),
         Ends(run[c]), UNCHANGED <<lock, journal>>
  PROVE  Ends(run[c])'
<1> DEFINE r == run[c]
<1>1. r.at \in Carrying \cup Done => DOMAIN r.list \subseteq Projects
  BY DEF Ends, Carries
<1>2. r.at \in Planned => DOMAIN r.list \subseteq Projects
  BY DEF Follows, Planned
<1>3. Chosen' = Chosen /\ Final' = Final /\ Decided' = Decided
  BY DEF Chosen, Final, Activated, Decided
<1>4. r.at \in Planned => \A p \in DOMAIN r.list : Pending(p)' =>
        ctx'[p].oldPolicy # None /\ r.list[p].rev >= ctx'[p].oldPolicy.rev
  BY <1>2, GentlePending DEF Ends
<1>5. r.at = "recover" => \A p \in journal.projects \ r.todo : BoundNext(p, Chosen.man)
  BY GentleBound DEF Ends, IsJournal
<1>6. r.at \in {"recover active", "recover end"} =>
        \A p \in journal.projects : BoundNext(p, Chosen.man)
  BY GentleBound DEF Ends, IsJournal
<1>7. r.at = "bind" => \A p \in DOMAIN r.list \ r.todo : BoundNext(p, r.next.man)
  BY <1>1, GentleBound DEF Ends, Carrying
<1>8. r.at \in Done => \A p \in DOMAIN r.list : BoundNext(p, r.next.man)
  BY <1>1, GentleBound DEF Ends
<1> QED BY <1>3, <1>4, <1>5, <1>6, <1>7, <1>8 DEF Ends, Carries, Bound, BoundNext

LEMMA StillRev ==
  ASSUME RevInv, UNCHANGED <<policy, ctx>>
  PROVE  RevInv'
BY DEF RevInv, Pending

LEMMA ConfigureRev ==
  ASSUME LockInv, PolicyInv, PolicyInv', RevInv, NEW c \in Procs, Configure(c)
  PROVE  RevInv'
<1>1. ASSUME NEW p \in Projects, NEW new \in Settings,
             \/ \E cmd \in {"apply", "edit"} : LoadForChange(c, p, cmd, new)
             \/ ChangePolicy(c, p, new) \/ BeginStart(c, p)
      PROVE  RevInv'
  <2>1. Elsewhere(p) /\ Loaded(p)
    BY <1>1, LoadForChangeDeed, ChangePolicyDeed, StartDeed
  <2> QED BY <2>1, DeedRev
<1>2. ASSUME NEW p \in Projects, BeginInit(c, p) PROVE RevInv'
  <2>1. Elsewhere(p) /\ Opened(p, c, NewPolicy(lock.man))
    BY <1>2, InitDeed
  <2> QED BY <2>1, DeedRev DEF PolicyInv
<1>3. CASE SavePolicyAndConfig(c)
  <2> DEFINE p == run[c].p
             pol == Compiled(run[c].seen.pol, run[c].seen.pol.dep, run[c].new)
  <2>1. p \in Projects /\ Elsewhere(p) /\ Opened(p, c, pol)
    BY <1>3, SavePolicyDeed
  <2> HIDE DEF p, pol
  <2> QED BY <2>1, DeedRev DEF PolicyInv
<1>4. CASE SaveChange(c)
  <2> DEFINE p == run[c].p
             seen == run[c].seen.pol
             pol == Compiled(seen, lock.man, run[c].new)
  <2>1. /\ At(c, {"apply", "edit"}, "save") /\ p \in Projects /\ policy[p] = seen
        /\ Elsewhere(p) /\ (Saved(p, pol) \/ Opened(p, c, pol))
    BY <1>4, SaveDeed
  <2>2. IsPolicy(seen) /\ seen # None
    BY <2>1 DEF PolicyInv, IsCommand, At, Readers
  <2>3. pol.rev = seen.rev + 1 /\ seen.rev \in Nat
    BY <2>2, CompiledIs DEF IsPolicy
  <2>4. Pending(p) => ctx[p].oldPolicy # None /\ ctx[p].oldPolicy.rev \in Nat
                      /\ seen.rev >= ctx[p].oldPolicy.rev
    BY <2>1, <2>2 DEF RevInv, PolicyInv, IsTransaction, IsPolicy, Pending
  <2>5. Pending(p) => ctx[p].oldPolicy # None /\ pol.rev >= ctx[p].oldPolicy.rev
    BY <2>3, <2>4
  <2> HIDE DEF p, pol
  <2> QED BY <2>1, <2>5, DeedRev DEF PolicyInv
<1>5. CASE LockForEdit(c)
  <2> DEFINE p == run[c].p
  <2>1. p \in Projects /\ Elsewhere(p) /\ Loaded(p)
    BY <1>5, LockEditDeed
  <2> HIDE DEF p
  <2> QED BY <2>1, DeedRev
<1>6. CASE RenameConf(c) \/ RenamePolicy(c)
  <2> DEFINE p == run[c].p
  <2>1. p \in Projects /\ Elsewhere(p) /\ (Renamed(p) \/ Replaced(p))
    BY <1>6, RenameDeed
  <2> HIDE DEF p
  <2> QED BY <2>1, DeedRev
<1>7. CASE EndWrite(c) \/ WriteFails(c) \/ DestroyState(c)
  <2> DEFINE p == run[c].p
  <2>1. p \in Projects /\ Elsewhere(p) /\ (Ended(p) \/ Same(p) \/ Removed(p))
    BY <1>7, CleanDeed
  <2> HIDE DEF p
  <2> QED BY <2>1, DeedRev
<1>8. CASE \/ LockForApply(c) \/ PlanChange(c) \/ Boot(c) \/ DestroyConfig(c)
           \/ \E p \in Projects : BeginDestroy(c, p)
  BY <1>8, StillDeed, StillRev
<1>9. ASSUME NEW p \in Projects, BeginStart(c, p) PROVE RevInv'
  <2>1. Elsewhere(p) /\ Loaded(p)
    BY <1>9, StartDeed
  <2> QED BY <2>1, DeedRev
<1> QED BY <1>1, <1>2, <1>3, <1>4, <1>5, <1>6, <1>7, <1>8, <1>9
        DEF Configure, ModelPolicy, GitPolicy, WebPolicy, SetMode

LEMMA AloneRev ==
  ASSUME LockInv, PolicyInv, RevInv, Alone
  PROVE  RevInv'
<1>1. ASSUME NEW p \in Projects, Look(p) \/ LookFails(p) PROVE RevInv'
  <2>1. Elsewhere(p) /\ (Loaded(p) \/ Renamed(p))
    BY <1>1, LookDeed
  <2> QED BY <2>1, DeedRev
<1>2. CASE ~(\E p \in Projects : Look(p) \/ LookFails(p))
  <2>1. UNCHANGED <<policy, ctx>>
    BY <1>2 DEF Alone, SetVersion, EditVersions, Expire, DropVM, SupervisorEnds,
                ImportGitignore, EditConfig, project
  <2> QED BY <2>1, StillRev
<1> QED BY <1>1, <1>2

LEMMA OtherEnds ==
  ASSUME LockInv, KeptInv, EndsInv, RevInv', NEW c \in Procs, Only(c),
         run'[c].cmd \notin Updaters, UNCHANGED <<lock, journal>>, ex # None => Gentle
  PROVE  EndsInv'
<1> SUFFICES ASSUME NEW d \in Procs, run'[d].cmd \in Updaters
             PROVE  Ends(run[d])'
  BY DEF EndsInv, IsJournal
<1>1. run'[d] = run[d]
  BY DEF Only
<1>2. ex # None
  BY <1>1, ConfigurationAssumption DEF LockInv
<1> QED BY <1>1, <1>2, GentleEnds DEF EndsInv, KeptInv

LEMMA UpdaterEnds ==
  ASSUME LockInv, NEW c \in Procs, Only(c), run[c].cmd \in Updaters,
         IsJournal', RevInv', run'[c].cmd \in Updaters => Ends(run[c])'
  PROVE  EndsInv'
<1> SUFFICES ASSUME NEW d \in Procs, run'[d].cmd \in Updaters
             PROVE  Ends(run[d])'
  BY DEF EndsInv
<1>1. CASE d = c
  BY <1>1
<1>2. CASE d # c
  <2>1. run'[d] = run[d]
    BY <1>2 DEF Only
  <2> QED BY <1>2, <2>1 DEF LockInv
<1> QED BY <1>1, <1>2

LEMMA SavedOne ==
  ASSUME PolicyInv, NEW p \in Projects, NEW pol, policy' = [policy EXCEPT ![p] = pol],
         UNCHANGED ctx
  PROVE  Elsewhere(p) /\ Saved(p, pol)
BY WriteOne DEF PolicyInv, Saved

\* What is written of one Project leaves the others bound.
LEMMA SavedBounds ==
  ASSUME PolicyInv, NEW p \in Projects, Elsewhere(p), UNCHANGED ctx,
         NEW man, NEW S, S \subseteq Projects, \A q \in S \ {p} : Bound(q, man)
  PROVE  \A q \in S \ {p} : BoundNext(q, man)
BY DEF Elsewhere, Bound, BoundNext, Pending

LEMMA RecoverPolicyEnds ==
  ASSUME LockInv, PolicyInv, PolicyInv', EndsInv, NEW c \in Procs, RecoverPolicy(c)
  PROVE  EndsInv'
<1> DEFINE r == run[c]
           man == Chosen.man
<1>0. /\ r.cmd \in Updaters /\ r.at = "recover" /\ UNCHANGED <<lock, journal, ctx>>
  BY DEF RecoverPolicy, At, files
<1>1. PICK p \in r.todo : /\ policy[p] # None
                          /\ policy' = [policy EXCEPT ![p] = Rewritten(policy[p], man)]
                          /\ run' = [run EXCEPT ![c].todo = r.todo \ {p}]
  BY DEF RecoverPolicy
<1>2. Ends(r)
  BY <1>0 DEF EndsInv
<1>3. "todo" \in DOMAIN r /\ \A q \in journal.projects \ r.todo : Bound(q, man)
  BY <1>0, <1>2 DEF Ends
<1>4. Only(c) /\ run'[c].at = "recover" /\ run'[c].todo = r.todo \ {p} /\ DOMAIN run'[c] = DOMAIN r
  BY <1>0, <1>1, <1>3, TodoKeeps DEF Kept
<1>5. Chosen' = Chosen
  BY <1>0 DEF Chosen, Decided
<1> HIDE DEF man
<1>6. CASE p \in Projects
  <2>1. IsPolicy(policy[p])
    BY <1>1, <1>6 DEF PolicyInv
  <2>2. IsPolicy(Rewritten(policy[p], man))
    BY <2>1, RewrittenIs
  <2>3. Elsewhere(p) /\ Saved(p, Rewritten(policy[p], man))
    BY <1>0, <1>1, <1>6, SavedOne
  <2>4. Pending(p) => ctx[p].oldPolicy # None /\ policy[p].rev >= ctx[p].oldPolicy.rev
    BY <1>1, <1>6 DEF EndsInv, RevInv
  <2>5. /\ BoundNext(p, man)
        /\ Pending(p) => ctx[p].oldPolicy # None
                         /\ Rewritten(policy[p], man).rev >= ctx[p].oldPolicy.rev
    BY <1>6, <2>1, <2>3, <2>4, RewrittenBound
  <2>6. RevInv'
    BY <1>6, <2>3, <2>5, DeedRev DEF EndsInv
  <2>7. \A q \in journal.projects \ (r.todo \ {p}) : BoundNext(q, man)
    <3>1. \A q \in (journal.projects \ r.todo) \ {p} : BoundNext(q, man)
      BY <1>0, <1>3, <1>6, <2>3, SavedBounds DEF EndsInv, IsJournal
    <3> QED BY <2>5, <3>1
  <2>8. Ends(run[c])'
    BY <1>0, <1>3, <1>4, <1>5, <2>7
    DEF Ends, Bound, BoundNext, Planned, Carrying, Done, man
  <2> QED BY <1>0, <1>4, <2>6, <2>8, UpdaterEnds DEF EndsInv, IsJournal
<1>7. CASE p \notin Projects
  <2>1. policy' = policy
    BY <1>1, <1>7 DEF PolicyInv, IsMaps
  <2>2. journal.projects \ (r.todo \ {p}) = journal.projects \ r.todo
    BY <1>7 DEF EndsInv, IsJournal
  <2>3. Ends(run[c])'
    BY <1>0, <1>3, <1>4, <1>5, <2>1, <2>2
    DEF Ends, Bound, Pending, Planned, Carrying, Done, man
  <2> QED BY <1>0, <1>4, <2>1, <2>3, StillRev, UpdaterEnds DEF EndsInv, IsJournal
<1> QED BY <1>6, <1>7

\* The bind of a Project, before the decision.
LEMMA BindEnds ==
  ASSUME LockInv, PolicyInv, KeptInv, EndsInv, NEW c \in Procs, BindPolicy(c)
  PROVE  EndsInv'
<1> DEFINE r == run[c]
           man == r.next.man
<1>0. /\ r.cmd \in Updaters /\ r.at = "bind" /\ UNCHANGED <<lock, journal, ctx>>
  BY DEF BindPolicy, At, files
<1>1. PICK p \in r.todo : /\ policy' = [policy EXCEPT ![p] = Rewritten(r.list[p], man)]
                          /\ run' = [run EXCEPT ![c].todo = r.todo \ {p}]
  BY DEF BindPolicy
<1>2. Ends(r) /\ Follows(r)
  BY <1>0 DEF EndsInv, KeptInv
<1>3. /\ IsPlanned(r) /\ DOMAIN r.list \subseteq Projects /\ r.todo \subseteq DOMAIN r.list
      /\ IsPolicy(r.list[p]) /\ p \in Projects /\ p \in DOMAIN r.list
  BY <1>0, <1>1, <1>2 DEF Follows
<1>4. Only(c) /\ Kept(c) /\ run'[c].at = "bind" /\ run'[c].todo = r.todo \ {p}
  BY <1>0, <1>1, <1>3, TodoKeeps DEF IsPlanned
<1>5. SamePlan(c)
  BY <1>3, <1>4, SamePlanned
<1>6. Decided' = Decided /\ ~Decided
  BY <1>0, <1>2 DEF Decided, Ends, Carrying
<1> HIDE DEF man
<1>7. Elsewhere(p) /\ Saved(p, Rewritten(r.list[p], man))
  BY <1>0, <1>1, <1>3, SavedOne
<1>8. \A q \in DOMAIN r.list : Pending(q) =>
        ctx[q].oldPolicy # None /\ r.list[q].rev >= ctx[q].oldPolicy.rev
  BY <1>0, <1>2 DEF Ends, Planned
<1>9. /\ BoundNext(p, man)
      /\ Pending(p) => ctx[p].oldPolicy # None
                       /\ Rewritten(r.list[p], man).rev >= ctx[p].oldPolicy.rev
  BY <1>3, <1>7, <1>8, RewrittenBound
<1>10. RevInv'
  BY <1>3, <1>7, <1>9, DeedRev DEF EndsInv
<1>11. \A q \in DOMAIN r.list \ (r.todo \ {p}) : BoundNext(q, man)
  <2>1. \A q \in (DOMAIN r.list \ r.todo) \ {p} : Bound(q, man)
    BY <1>0, <1>2 DEF Ends, man
  <2>2. \A q \in (DOMAIN r.list \ r.todo) \ {p} : BoundNext(q, man)
    BY <1>0, <1>3, <1>7, <2>1, SavedBounds
  <2> QED BY <1>9, <2>2
<1>12. Carries(r)
  BY <1>0, <1>2 DEF Ends, Carrying
<1>13. Ends(run[c])'
  BY <1>0, <1>4, <1>5, <1>6, <1>8, <1>11, <1>12
  DEF Ends, Carries, SamePlan, Bound, BoundNext, Pending, Planned, Carrying, Done, man
<1> QED BY <1>0, <1>4, <1>10, <1>13, UpdaterEnds DEF EndsInv, IsJournal

\* A restored policy is the one that was listed.
LEMMA RestoreEnds ==
  ASSUME LockInv, PolicyInv, KeptInv, EndsInv, NEW c \in Procs, RestorePolicy(c)
  PROVE  EndsInv'
<1> DEFINE r == run[c]
<1>0. /\ r.cmd \in Updaters /\ r.at = "restore" /\ UNCHANGED <<lock, journal, ctx>>
  BY DEF RestorePolicy, At, files
<1>1. PICK p \in r.todo : /\ policy' = [policy EXCEPT ![p] = r.list[p]]
                          /\ run' = [run EXCEPT ![c].todo = r.todo \ {p}]
  BY DEF RestorePolicy
<1>2. Ends(r) /\ Follows(r)
  BY <1>0 DEF EndsInv, KeptInv
<1>3. IsPlanned(r) /\ p \in Projects /\ p \in DOMAIN r.list
  BY <1>0, <1>1, <1>2 DEF Follows
<1>4. Only(c) /\ Kept(c) /\ run'[c].at = "restore"
  BY <1>0, <1>1, TodoKeeps
<1>5. SamePlan(c)
  BY <1>3, <1>4, SamePlanned
<1>6. Elsewhere(p) /\ Saved(p, r.list[p])
  BY <1>0, <1>1, <1>3, SavedOne
<1>7. \A q \in DOMAIN r.list : Pending(q) =>
        ctx[q].oldPolicy # None /\ r.list[q].rev >= ctx[q].oldPolicy.rev
  BY <1>0, <1>2 DEF Ends, Planned
<1>8. RevInv'
  BY <1>3, <1>6, <1>7, DeedRev DEF EndsInv
<1>9. Carries(r) /\ ~Decided
  BY <1>0, <1>2 DEF Ends, Carrying
<1>10. Ends(run[c])'
  BY <1>0, <1>4, <1>5, <1>7, <1>9
  DEF Ends, Carries, Decided, SamePlan, Pending, Planned, Carrying, Done
<1> QED BY <1>0, <1>4, <1>8, <1>10, UpdaterEnds DEF EndsInv, IsJournal

\* A step of an updater that writes no policy.
LEMMA QuietBound ==
  ASSUME UNCHANGED <<policy, ctx>>, NEW p, NEW man, Bound(p, man)
  PROVE  BoundNext(p, man)
BY DEF Bound, BoundNext, Pending

LEMMA PlanEnds ==
  ASSUME LockInv, PolicyInv, EndsInv, NEW c \in Procs, PlanUpdate(c) \/ PlanSetup(c)
  PROVE  EndsInv'
<1>1. /\ Only(c) /\ run'[c].at = "prepare" /\ run'[c].todo = Listed
      /\ run'[c].list = [p \in Listed |-> policy[p]]
      /\ run[c].cmd \in Updaters /\ UNCHANGED <<lock, journal, policy, ctx>>
  BY PlanUpdateDeed, PlanSetupDeed DEF Plans, Updaters, files, project
<1>2. \A p \in Listed : p \in Projects /\ policy[p] # None
  BY DEF PlanUpdate, PlanSetup, UpdateInventory, SetupInventory, Listed
<1>3. \A p \in Listed : Pending(p) =>
        ctx[p].oldPolicy # None /\ policy[p].rev >= ctx[p].oldPolicy.rev
  BY <1>2 DEF EndsInv, RevInv
<1>4. Ends(run[c])'
  BY <1>1, <1>3 DEF Ends, Pending, Planned, Carrying, Done
<1> QED BY <1>1, <1>4, StillRev, UpdaterEnds DEF EndsInv, IsJournal

LEMMA PrepareEnds ==
  ASSUME LockInv, WholeInv, KeptInv, EndsInv, NEW c \in Procs, Prepare(c)
  PROVE  EndsInv'
<1> DEFINE r == run[c]
<1>0. /\ r.cmd \in Updaters /\ r.at = "prepare" /\ Goto(c, "bind")
      /\ journal' = [phase |-> "prepared", sourceActive |-> r.sourceActive,
                     source |-> r.base, target |-> r.next,
                     projects |-> r.todo, legacy |-> r.legacy]
      /\ UNCHANGED <<lock, policy, ctx>>
  BY DEF Prepare, At, project
<1>1. Ends(r) /\ Follows(r)
  BY <1>0 DEF EndsInv, KeptInv
<1>2. IsPlanned(r) /\ r.todo = DOMAIN r.list /\ DOMAIN r.list \subseteq Projects
  BY <1>0, <1>1 DEF Follows, Ends
<1>3. Only(c) /\ SamePlan(c) /\ run'[c].at = "bind" /\ run'[c].todo = r.todo
  BY <1>0, <1>2, GotoKeeps, SamePlanned DEF IsPlanned
<1>4. IsJournal'
  BY <1>0, <1>2 DEF IsJournal, NoJournal
<1>5. /\ journal'.projects = DOMAIN r.list /\ journal'.target = r.next
      /\ journal'.source = r.base /\ journal'.sourceActive = r.sourceActive
      /\ journal'.phase = "prepared"
  BY <1>0, <1>2
<1>6. Carries(run[c])' /\ ~Decided'
  BY <1>2, <1>3, <1>5 DEF Carries, SamePlan, Decided
<1>7. \A p \in DOMAIN r.list : Pending(p) =>
        ctx[p].oldPolicy # None /\ r.list[p].rev >= ctx[p].oldPolicy.rev
  BY <1>0, <1>1 DEF Ends, Planned
<1>8. Ends(run[c])'
  BY <1>0, <1>2, <1>3, <1>6, <1>7
  DEF Ends, SamePlan, Pending, Planned, Carrying, Done
<1> QED BY <1>0, <1>3, <1>4, <1>8, StillRev, UpdaterEnds DEF EndsInv

LEMMA DecideEnds ==
  ASSUME LockInv, KeptInv, EndsInv, NEW c \in Procs, Decide(c)
  PROVE  EndsInv'
<1> DEFINE r == run[c]
<1>0. /\ r.cmd \in Updaters /\ r.at = "bind" /\ r.todo = {} /\ Goto(c, "save lock")
      /\ journal' = [journal EXCEPT !.phase = "commit-decided"]
      /\ UNCHANGED <<lock, policy, ctx>>
  BY DEF Decide, At, project
<1>1. Ends(r)
  BY <1>0 DEF EndsInv
<1>2. Carries(r) /\ \A p \in DOMAIN r.list : Bound(p, r.next.man)
  BY <1>0, <1>1 DEF Ends, Carrying
<1>3. Only(c) /\ SamePlan(c) /\ run'[c].at = "save lock"
  BY <1>0, <1>2, GotoKeeps, SamePlanned DEF Carries
<1>4. /\ DOMAIN journal' = DOMAIN journal /\ journal'.phase = "commit-decided"
      /\ journal'.projects = journal.projects /\ journal'.target = journal.target
      /\ journal'.source = journal.source /\ journal'.sourceActive = journal.sourceActive
  BY <1>0 DEF EndsInv, IsJournal, NoJournal
<1>5. IsJournal'
  BY <1>4 DEF EndsInv, IsJournal, NoJournal
<1>6. Carries(run[c])' /\ Decided'
  BY <1>2, <1>3, <1>4 DEF Carries, SamePlan, Decided
<1>7. \A p \in DOMAIN r.list : BoundNext(p, r.next.man)
  BY <1>0, <1>2, QuietBound
<1>8. Ends(run[c])'
  BY <1>3, <1>6, <1>7 DEF Ends, SamePlan, Bound, BoundNext, Planned, Carrying, Done
<1> QED BY <1>0, <1>3, <1>5, <1>8, StillRev, UpdaterEnds DEF EndsInv

LEMMA FailEnds ==
  ASSUME LockInv, KeptInv, EndsInv, NEW c \in Procs, CommitFails(c)
  PROVE  EndsInv'
<1> DEFINE r == run[c]
<1>0. UNCHANGED <<lock, journal, policy, ctx>>
  BY DEF CommitFails, files, project
<1>1. /\ Only(c) /\ run'[c].at \in {"recover", "restore"}
      /\ r.cmd \in Updaters /\ run'[c].cmd = r.cmd /\ r.at = "bind"
      /\ IsPlanned(r) => SamePlan(c) /\ run'[c].todo = DOMAIN r.list
  BY FailKeeps
<1>2. Ends(r)
  BY <1>1 DEF EndsInv
<1>3. Carries(r) /\ ~Decided
  BY <1>1, <1>2 DEF Ends, Carrying
<1>4. SamePlan(c) /\ run'[c].todo = DOMAIN r.list /\ journal.projects = DOMAIN r.list
  BY <1>1, <1>3 DEF Carries
<1>5. \A p \in DOMAIN r.list : Pending(p) =>
        ctx[p].oldPolicy # None /\ r.list[p].rev >= ctx[p].oldPolicy.rev
  BY <1>1, <1>2 DEF Ends, Planned
<1>6. Carries(run[c])' /\ ~Decided'
  BY <1>0, <1>3, <1>4 DEF Carries, SamePlan, Decided
<1>7. Ends(run[c])'
  BY <1>0, <1>1, <1>4, <1>5, <1>6
  DEF Ends, SamePlan, IsPlanned, Pending, Planned, Carrying, Done
<1> QED BY <1>0, <1>1, <1>7, StillRev, UpdaterEnds DEF EndsInv, IsJournal

\* The steps after the decision, and the last ones of a recovery.
LEMMA ActivateEnds ==
  ASSUME LockInv, EndsInv, NEW c \in Procs,
         \/ RecoverLock(c) \/ RecoverActive(c) \/ SaveLock(c) \/ SaveActive(c)
  PROVE  EndsInv'
<1> DEFINE r == run[c]
<1>0. r.cmd \in Updaters /\ UNCHANGED <<journal, policy, ctx>>
  BY DEF RecoverLock, RecoverActive, SaveLock, SaveActive, At, project
<1>1. Ends(r)
  BY <1>0 DEF EndsInv
<1>2. Chosen' = Chosen /\ Final' = Final /\ Decided' = Decided
  BY <1>0 DEF Chosen, Final, Activated, Decided
<1>3. CASE RecoverLock(c)
  <2>1. r.at = "recover" /\ r.todo = {} /\ lock' = Final /\ Goto(c, "recover active")
    BY <1>3 DEF RecoverLock, At, Final
  <2>2. Only(c) /\ run'[c].at = "recover active"
    BY <2>1, GotoKeeps
  <2>3. \A p \in journal.projects : BoundNext(p, Chosen.man)
    BY <1>0, <1>1, <2>1, QuietBound DEF Ends
  <2>4. Ends(run[c])'
    BY <1>0, <1>2, <2>1, <2>2, <2>3 DEF Ends, Bound, BoundNext, Planned, Carrying, Done
  <2> QED BY <1>0, <2>2, <2>4, StillRev, UpdaterEnds DEF EndsInv, IsJournal
<1>4. CASE RecoverActive(c)
  <2>1. r.at = "recover active" /\ lock' = lock /\ Goto(c, "recover end")
    BY <1>4 DEF RecoverActive, At
  <2>2. Only(c) /\ run'[c].at = "recover end"
    BY <2>1, GotoKeeps
  <2>3. lock = Final /\ \A p \in journal.projects : BoundNext(p, Chosen.man)
    BY <1>0, <1>1, <2>1, QuietBound DEF Ends
  <2>4. Ends(run[c])'
    BY <1>0, <1>2, <2>1, <2>2, <2>3 DEF Ends, Bound, BoundNext, Planned, Carrying, Done
  <2> QED BY <1>0, <2>2, <2>4, StillRev, UpdaterEnds DEF EndsInv, IsJournal
<1>5. CASE SaveLock(c) \/ SaveActive(c)
  <2>1. /\ \/ r.at = "save lock" /\ lock' = r.next
           \/ r.at = "save active" /\ lock' = lock
        /\ \E at \in {"save active", "commit end"} : Goto(c, at)
    BY <1>5 DEF SaveLock, SaveActive, At
  <2>2. Carries(r) /\ Decided /\ \A p \in DOMAIN r.list : Bound(p, r.next.man)
    BY <1>1, <2>1 DEF Ends, Done
  <2>3. lock' = r.next
    BY <1>1, <2>1 DEF Ends
  <2>4. Only(c) /\ SamePlan(c) /\ run'[c].at \in {"save active", "commit end"}
    BY <2>1, <2>2, GotoKeeps, SamePlanned DEF Carries
  <2>5. \A p \in DOMAIN r.list : BoundNext(p, r.next.man)
    BY <1>0, <2>2, QuietBound
  <2>6. Carries(run[c])'
    BY <1>0, <2>2, <2>4 DEF Carries, SamePlan
  <2>7. Ends(run[c])'
    BY <1>2, <2>2, <2>3, <2>4, <2>5, <2>6
    DEF Ends, SamePlan, Bound, BoundNext, Planned, Carrying, Done
  <2> QED BY <1>0, <2>4, <2>7, StillRev, UpdaterEnds DEF EndsInv, IsJournal
<1> QED BY <1>3, <1>4, <1>5

LEMMA StillEnds ==
  ASSUME KeptInv, EndsInv, UNCHANGED <<run, lock, journal, policy, ctx>>
  PROVE  EndsInv'
<1>1. Gentle /\ PolicyInv /\ IsJournal /\ IsJournal' /\ RevInv'
  BY StillRev DEF Gentle, Same, KeptInv, EndsInv, IsJournal
<1>2. ASSUME NEW c \in Procs, run'[c].cmd \in Updaters PROVE Ends(run[c])'
  BY <1>1, <1>2, GentleEnds DEF EndsInv, KeptInv
<1> QED BY <1>1, <1>2 DEF EndsInv

LEMMA UpdateEnds ==
  ASSUME LockInv, WholeInv, KeptInv, KeptInv', EndsInv, NEW c \in Procs, Update(c)
  PROVE  EndsInv'
<1>0. PolicyInv /\ PolicyInv'
  BY DEF KeptInv
<1>1. ASSUME NEW cmd \in Updaters, BeginUpdater(c, cmd) PROVE EndsInv'
  <2> DEFINE r == [cmd |-> cmd, at |-> "recover", todo |-> journal.projects, undo |-> FALSE]
  <2>1. Begin(c, r) /\ ex = None /\ UNCHANGED <<lock, journal, policy, ctx>>
    BY <1>1 DEF BeginUpdater, MayExclude, files, project
  <2>2. r.at = "recover" /\ r.todo = journal.projects /\ "todo" \in DOMAIN r
    OBVIOUS
  <2> HIDE DEF r
  <2>3. Only(c) /\ run'[c] = r
    BY <2>1, BeginKeeps
  <2>4. Ends(run[c])'
    BY <2>1, <2>2, <2>3 DEF Ends, Planned, Carrying, Done
  <2>5. \A d \in Procs : run[d].cmd \notin Updaters
    BY <2>1, SharedAlone DEF MayShare
  <2>6. \A d \in Procs : run'[d].cmd \in Updaters => d = c
    BY <2>3, <2>5 DEF Only
  <2> QED BY <2>1, <2>4, <2>6, StillRev DEF EndsInv, IsJournal
<1>2. CASE \/ RecoverNothing(c) \/ RecoverRefused(c) \/ ClearArtifacts(c) \/ ClearCandidate(c)
           \/ RestoreActivation(c) \/ RecoverEnd(c) \/ CommitEnd(c)
  <2>1. /\ run[c].cmd \in Updaters /\ UNCHANGED <<policy, ctx>>
        /\ journal' = journal \/ journal' = NoJournal
        /\ End(c) \/ \E at \in {"plan", "clear", "clear candidate"} : Goto(c, at)
    BY <1>2 DEF RecoverNothing, RecoverRefused, ClearArtifacts, ClearCandidate,
                RestoreActivation, RecoverEnd, CommitEnd, At, Updaters, files, project
  <2>2. Only(c) /\ run'[c].at \in {"idle", "plan", "clear", "clear candidate"}
    <3>1. CASE End(c)
      <4>1. Idle.at = "idle"
        BY DEF Idle
      <4> QED BY <3>1, <4>1, EndKeeps
    <3>2. CASE ~End(c)
      BY <2>1, <3>2, GotoKeeps
    <3> QED BY <3>1, <3>2
  <2>3. Ends(run[c])'
    BY <2>2 DEF Ends, Planned, Carrying, Done
  <2>4. IsJournal'
    <3>1. NoJournal.projects = {}
      BY DEF NoJournal
    <3>2. CASE journal' = NoJournal
      BY <3>1, <3>2 DEF IsJournal
    <3>3. CASE journal' = journal
      BY <3>3 DEF EndsInv, IsJournal
    <3> QED BY <2>1, <3>2, <3>3
  <2> QED BY <2>1, <2>2, <2>3, <2>4, StillRev, UpdaterEnds DEF EndsInv
<1>3. CASE SetupDeclares(c)
  <2>1. UNCHANGED <<run, lock, journal, policy, ctx>>
    BY <1>3 DEF SetupDeclares, project
  <2> QED BY <2>1, StillEnds
<1>4. CASE RestoreLock(c)
  <2>1. /\ run[c].cmd \in Updaters /\ run[c].at = "restore" /\ Goto(c, "restore active")
        /\ lock' = (IF run[c].sourceActive THEN run[c].base ELSE None)
        /\ UNCHANGED <<journal, policy, ctx>>
    BY <1>4 DEF RestoreLock, At, project
  <2>2. Carries(run[c]) /\ ~Decided
    BY <2>1 DEF EndsInv, Ends, Carrying
  <2>3. Only(c) /\ SamePlan(c) /\ run'[c].at = "restore active"
    BY <2>1, <2>2, GotoKeeps, SamePlanned DEF Carries
  <2>4. Carries(run[c])' /\ ~Decided'
    BY <2>1, <2>2, <2>3 DEF Carries, SamePlan, Decided
  <2>5. lock' = Final /\ Final' = Final
    BY <2>1, <2>2 DEF Carries, Final, Activated, Chosen, Decided
  <2>6. Ends(run[c])'
    BY <2>3, <2>4, <2>5 DEF Ends, Planned, Carrying, Done
  <2> QED BY <2>1, <2>3, <2>6, StillRev, UpdaterEnds DEF EndsInv, IsJournal
<1> QED BY <1>0, <1>1, <1>2, <1>3, <1>4, RecoverPolicyEnds, BindEnds, RestoreEnds, PlanEnds,
           PrepareEnds, DecideEnds, FailEnds, ActivateEnds
        DEF Update, Recovery

LEMMA NextEnds ==
  LockInv /\ WholeInv /\ KeptInv /\ KeptInv' /\ EndsInv /\ [Next]_vars => EndsInv'
<1> SUFFICES ASSUME LockInv, WholeInv, KeptInv, KeptInv', EndsInv, [Next]_vars
             PROVE  EndsInv'
  OBVIOUS
<1>0. PolicyInv /\ PolicyInv' /\ RevInv
  BY DEF KeptInv, EndsInv
<1>1. ASSUME NEW c \in Procs, Configure(c) PROVE EndsInv'
  <2>1. RevInv' /\ (ex # None => Gentle)
    BY <1>0, <1>1, ConfigureRev, ConfigurePolicy
  <2>2. Only(c) /\ run'[c].cmd \notin Updaters /\ UNCHANGED <<lock, journal>>
    BY <1>1, ConfigureKeeps DEF Commands, files
  <2> QED BY <2>1, <2>2, OtherEnds
<1>2. ASSUME NEW c \in Procs, Check(c) \/ Refuse(c) \/ Crash(c) PROVE EndsInv'
  <2>1. UNCHANGED <<policy, ctx, lock, journal>>
    BY <1>2 DEF Check, BeginCheck, Download, SaveCandidate, PruneArtifacts, CheckFails,
                Refuse, Crash, project, files
  <2>2. Only(c) /\ run'[c].cmd \notin Updaters
    BY <1>2, CheckKeeps, RefuseKeeps DEF Idle, Updaters
  <2>3. RevInv' /\ Gentle
    BY <1>0, <2>1, StillRev DEF Gentle, Same
  <2> QED BY <2>1, <2>2, <2>3, OtherEnds
<1>3. ASSUME NEW c \in Procs, Update(c) PROVE EndsInv'
  BY <1>3, UpdateEnds
<1>4. CASE Alone
  <2>1. RevInv' /\ Gentle /\ UNCHANGED <<run, lock, journal>>
    BY <1>0, <1>4, AloneRev, AlonePolicy, AloneLocks
  <2>2. ASSUME NEW c \in Procs, run'[c].cmd \in Updaters PROVE Ends(run[c])'
    BY <1>0, <2>1, <2>2, GentleEnds DEF EndsInv, KeptInv
  <2> QED BY <2>1, <2>2 DEF EndsInv, IsJournal
<1>5. CASE UNCHANGED vars
  <2>1. UNCHANGED <<run, lock, journal, policy, ctx>>
    BY <1>5 DEF vars, files, project
  <2> QED BY <2>1, StillEnds
<1> QED BY <1>1, <1>2, <1>3, <1>4, <1>5 DEF Next, Alone

LEMMA InitEnds == Init => EndsInv
<1> SUFFICES ASSUME Init PROVE EndsInv OBVIOUS
<1>1. journal = NoJournal /\ ctx = [p \in Projects |-> None]
  BY DEF Init
<1>2. \A c \in Procs : run[c].cmd \notin Updaters
  BY DEF Init, Idle, Updaters
<1>3. IsJournal
  BY <1>1 DEF IsJournal, NoJournal
<1> QED BY <1>1, <1>2, <1>3 DEF EndsInv, RevInv, Pending

\* Only the two last steps of an update remove its journal.
LEMMA JournalGoes ==
  ASSUME WholeInv, [Next]_vars, Journaled, ~Journaled'
  PROVE  \E c \in Procs : RecoverEnd(c) \/ CommitEnd(c)
<1>0. LockInv
  BY DEF WholeInv
<1>1. journal' # journal
  BY DEF Journaled
<1>2. PICK c \in Procs : Update(c)
  <2>0. SUFFICES ASSUME \A c \in Procs : ~Update(c)
                 PROVE  journal' = journal
    BY <1>1
  <2>1. ASSUME NEW c \in Procs, Check(c) \/ Configure(c) \/ Refuse(c) \/ Crash(c)
        PROVE  journal' = journal
    BY <1>0, <2>1, CheckKeeps, ConfigureKeeps, RefuseKeeps DEF files
  <2>2. CASE Alone \/ UNCHANGED vars
    BY <2>2, AloneLocks DEF vars, files
  <2> QED BY <2>0, <2>1, <2>2 DEF Next, Alone
<1>3. ~Prepare(c) /\ ~Decide(c)
  <2>1. ASSUME Prepare(c) PROVE FALSE
    <3>1. journal'.phase = "prepared"
      BY <2>1 DEF Prepare
    <3> QED BY <3>1 DEF Journaled, NoJournal
  <2>2. ASSUME Decide(c) PROVE FALSE
    <3>1. journal'.phase = "commit-decided"
      BY <2>2 DEF Decide, WholeInv
    <3> QED BY <3>1 DEF Journaled, NoJournal
  <2> QED BY <2>1, <2>2
<1>4. RecoverEnd(c) \/ CommitEnd(c)
  BY <1>1, <1>2, <1>3
  DEF Update, Recovery, BeginUpdater, RecoverNothing, RecoverPolicy, RecoverRefused,
      RecoverLock, RecoverActive, PlanUpdate, SetupDeclares, PlanSetup, BindPolicy,
      SaveLock, SaveActive, ClearArtifacts, ClearCandidate, CommitFails, RestorePolicy,
      RestoreLock, RestoreActivation, files
<1> QED BY <1>4

LEMMA EndsWhole ==
  ASSUME WholeInv, EndsInv, [Next]_vars, Journaled, ~Journaled'
  PROVE  /\ lock' = active'
         /\ lock' = IF Activated THEN Chosen ELSE None
         /\ \A p \in journal.projects : policy'[p] # None => policy'[p].dep = Chosen.man
<1>1. PICK c \in Procs : RecoverEnd(c) \/ CommitEnd(c)
  BY JournalGoes
<1>2. /\ run[c].cmd \in Updaters /\ run[c].at \in {"recover end", "commit end"}
      /\ UNCHANGED <<lock, active, policy>>
  BY <1>1 DEF RecoverEnd, CommitEnd, At, project
<1>3. Progress(run[c]) /\ Ends(run[c])
  BY <1>2 DEF WholeInv, EndsInv
<1>4. lock = active
  BY <1>2, <1>3 DEF Progress
<1>5. lock = Final /\ \A p \in journal.projects : policy[p] # None => policy[p].dep = Chosen.man
  <2>1. CASE run[c].at = "recover end"
    BY <1>3, <2>1 DEF Ends, Bound
  <2>2. CASE run[c].at = "commit end"
    <3>1. /\ Carries(run[c]) /\ Decided /\ lock = run[c].next
          /\ \A p \in DOMAIN run[c].list : Bound(p, run[c].next.man)
      BY <1>3, <2>2 DEF Ends, Done
    <3> QED BY <3>1 DEF Carries, Bound, Final, Activated, Chosen
  <2> QED BY <1>2, <2>1, <2>2
<1> QED BY <1>2, <1>4, <1>5 DEF Final

\* What holds of updates.
UpdateInv == LockInv /\ WholeInv /\ KeptInv /\ EndsInv

LEMMA InitUpdate == Init => UpdateInv
BY InitLocks, InitWhole, InitKept, InitEnds DEF UpdateInv

LEMMA NextUpdate == UpdateInv /\ [Next]_vars => UpdateInv'
BY NextLocks, NextWhole, NextKept, NextEnds DEF UpdateInv

\* The journal of an update goes only when its decision is carried out: the
\* lock, the binding and the policies it names (recoverDependencyUpdate,
\* commitDependencyUpdateInternal).
THEOREM JournalEnds == Spec => JournalEndsWhole
<1>1. UpdateInv /\ [Next]_vars =>
        [Journaled /\ ~Journaled' =>
           /\ lock' = active'
           /\ lock' = IF Activated THEN Chosen ELSE None
           /\ \A p \in journal.projects :
                 policy'[p] # None => policy'[p].dep = Chosen.man]_vars
  BY EndsWhole DEF UpdateInv
<1> QED BY <1>1, InitUpdate, NextUpdate, PTL DEF Spec, JournalEndsWhole

-----------------------------------------------------------------------------
(* Who writes a policy *)

\* A command that writes the policy of p, or begins a transaction over it,
\* shares the operation lock; it was in its last step on p.
Saves(p, c) ==
  /\ At(c, {"apply", "edit"}, "save") /\ policy[p] = run[c].seen.pol
  /\ LET pol == Compiled(run[c].seen.pol, lock.man, run[c].new)
     IN  Saved(p, pol) \/ (run[c].cmd = "edit" /\ Opened(p, c, pol))
Rebinds(p, c) ==
  /\ At(c, {"policy"}, "bind") /\ BoundToActive(run[c].seen.pol)
  /\ Opened(p, c, Compiled(run[c].seen.pol, run[c].seen.pol.dep, run[c].new))
Finishes(p, c) == At(c, Writers, "write policy") /\ ctx[p].by = c /\ Replaced(p)
Begins(p, c) ==
  /\ run[c] = Idle /\ policy[p] = None /\ ctx[p] = None /\ IsActive
  /\ run'[c].cmd = "init" /\ Opened(p, c, NewPolicy(lock.man))

Writes(p, c) ==
  /\ ex = None
  /\ \/ run[c].p = p /\ (Saves(p, c) \/ Rebinds(p, c) \/ Finishes(p, c))
     \/ Begins(p, c)

\* What else happens to a Project.
Mild(p) ==
  \/ Same(p) \/ Removed(p) \/ Ended(p) \/ Renamed(p)
  \/ Loaded(p) /\ ConfigFree(p)

LEMMA OneProject ==
  ASSUME NEW c, NEW p \in Projects, Elsewhere(p), Mild(p) \/ Writes(p, c)
  PROVE  \A q \in Projects : Mild(q) \/ Writes(q, c)
BY DEF Elsewhere, Mild, Same

LEMMA ConfigureWrites ==
  ASSUME LockInv, PolicyInv, NEW c \in Procs, Configure(c)
  PROVE  \A p \in Projects : Mild(p) \/ Writes(p, c)
<1>1. ASSUME NEW p \in Projects, NEW new \in Settings, NEW cmd \in {"apply", "edit"},
             LoadForChange(c, p, cmd, new)
      PROVE  Elsewhere(p) /\ Mild(p)
  BY <1>1, LoadForChangeDeed DEF LoadForChange, Mild
<1>2. ASSUME NEW p \in Projects, NEW new \in Settings, ChangePolicy(c, p, new)
      PROVE  Elsewhere(p) /\ Mild(p)
  BY <1>2, ChangePolicyDeed DEF Mild
<1>3. ASSUME NEW p \in Projects, BeginStart(c, p)
      PROVE  Elsewhere(p) /\ Mild(p)
  BY <1>3, StartDeed DEF Mild
<1>4. ASSUME NEW p \in Projects, BeginInit(c, p)
      PROVE  Elsewhere(p) /\ Writes(p, c)
  BY <1>4, InitDeed DEF Writes, Begins
<1>5. CASE LockForEdit(c)
  <2>1. run[c].p \in Projects /\ Elsewhere(run[c].p) /\ Mild(run[c].p)
    BY <1>5, LockEditDeed DEF Mild
  <2> QED BY <2>1, OneProject
<1>6. CASE SaveChange(c)
  <2>1. run[c].p \in Projects /\ Elsewhere(run[c].p) /\ Writes(run[c].p, c)
    BY <1>6, SaveDeed DEF Writes, Saves
  <2> QED BY <2>1, OneProject
<1>7. CASE SavePolicyAndConfig(c)
  <2>1. run[c].p \in Projects /\ Elsewhere(run[c].p) /\ Writes(run[c].p, c)
    BY <1>7, SavePolicyDeed DEF Writes, Rebinds
  <2> QED BY <2>1, OneProject
<1>8. CASE RenameConf(c) \/ RenamePolicy(c)
  <2>1. run[c].p \in Projects /\ Elsewhere(run[c].p) /\ (Mild(run[c].p) \/ Writes(run[c].p, c))
    BY <1>8, RenameDeed DEF Writes, Finishes, Mild
  <2> QED BY <2>1, OneProject
<1>9. CASE EndWrite(c) \/ WriteFails(c) \/ DestroyState(c)
  <2>1. run[c].p \in Projects /\ Elsewhere(run[c].p) /\ Mild(run[c].p)
    BY <1>9, CleanDeed DEF Mild
  <2> QED BY <2>1, OneProject
<1>10. CASE \/ LockForApply(c) \/ PlanChange(c) \/ Boot(c) \/ DestroyConfig(c)
            \/ \E p \in Projects : BeginDestroy(c, p)
  BY <1>10, StillDeed DEF Mild, Same
<1> QED BY <1>1, <1>2, <1>3, <1>4, <1>5, <1>6, <1>7, <1>8, <1>9, <1>10, OneProject
        DEF Configure, ModelPolicy, GitPolicy, WebPolicy, SetMode

LEMMA AloneMild ==
  ASSUME PolicyInv, Alone
  PROVE  \A p \in Projects : Mild(p)
<1>1. ASSUME NEW p \in Projects, Look(p) \/ LookFails(p)
      PROVE  \A q \in Projects : Mild(q)
  <2>1. Elsewhere(p) /\ Mild(p)
    BY <1>1, LookDeed DEF Mild
  <2> QED BY <2>1 DEF Elsewhere, Mild, Same
<1>2. CASE ~(\E p \in Projects : Look(p) \/ LookFails(p))
  BY <1>2 DEF Alone, SetVersion, EditVersions, Expire, DropVM, SupervisorEnds,
              ImportGitignore, EditConfig, project, Mild, Same
<1> QED BY <1>1, <1>2

\* A load, and the policy it leaves: the one a transaction has replaced, when
\* the transaction was interrupted before.
LEMMA RecoveredIs ==
  ASSUME PolicyInv, NEW p \in Projects, Recovered(p)
  PROVE  \/ policy'[p] = policy[p]
         \/ /\ Pending(p) /\ policy[p] = ctx[p].oldPolicy
            /\ policy'[p] = ctx[p].newPolicy
<1>1. CASE ctx[p] = None
  BY <1>1, AfterIs DEF Recovered
<1>2. CASE ctx[p] # None
  <2>1. ctx[p].done \in 0 .. 2
    BY <1>2 DEF PolicyInv, IsTransaction
  <2> QED BY <1>2, <2>1, AfterIs DEF Recovered, PolicyHolds, Pending
<1> QED BY <1>1, <1>2

-----------------------------------------------------------------------------
(* The configuration locks *)

\* Where a command has the configuration lock of its Project.
Configures(r) ==
  \/ r.cmd \in {"policy", "start"}
  \/ r.cmd \in {"apply", "edit"} /\ r.at # "lock"

CfgInv ==
  /\ cfg = [p \in Projects |-> cfg[p]]
  /\ \A c \in Procs : Configures(run[c]) => cfg[run[c].p] = c

LEMMA CfgKeeps ==
  ASSUME PolicyInv, CfgInv, NEW c \in Procs, Only(c),
         \/ cfg' = cfg \/ Released(c)
         \/ \E p \in Projects : ConfigFree(p) /\ cfg' = [cfg EXCEPT ![p] = c],
         Configures(run'[c]) => cfg'[run'[c].p] = c
  PROVE  CfgInv'
<1>1. cfg' = [p \in Projects |-> cfg'[p]]
  BY DEF CfgInv, Released
<1>2. ASSUME NEW d \in Procs \ {c}, Configures(run'[d]) PROVE cfg'[run'[d].p] = d
  <2>1. run'[d] = run[d] /\ cfg[run[d].p] = d /\ run[d].p \in Projects
    BY <1>2 DEF Only, CfgInv, PolicyInv, IsCommand, Configures, Readers
  <2>2. ASSUME NEW q \in Projects, cfg[q] = d PROVE cfg'[q] = d
    BY <2>2, ConfigurationAssumption DEF CfgInv, Released, ConfigFree
  <2> QED BY <2>1, <2>2
<1> QED BY <1>1, <1>2 DEF CfgInv

\* A command that does not hold the lock of a Project.
LEMMA IdleCfg ==
  ASSUME PolicyInv, CfgInv, NEW c \in Procs, Only(c), cfg' = cfg \/ Released(c),
         run'[c].cmd \notin {"policy", "start", "apply", "edit"}
  PROVE  CfgInv'
BY CfgKeeps DEF Configures

\* A command that keeps the lock of its Project.
LEMMA GotoCfg ==
  ASSUME LockInv, PolicyInv, CfgInv, NEW c \in Procs, NEW at, Goto(c, at), cfg' = cfg,
         Configures(run[c]) \/ run[c].cmd \in {"init", "destroy"}
  PROVE  CfgInv'
<1>1. /\ Only(c) /\ run'[c].cmd = run[c].cmd
      /\ run[c].cmd \in Readers => run'[c].p = run[c].p
  BY GotoCommand
<1>2. Configures(run'[c]) => cfg'[run'[c].p] = c
  BY <1>1 DEF Configures, CfgInv, Readers
<1> QED BY <1>1, <1>2, CfgKeeps

LEMMA EndCfg ==
  ASSUME LockInv, PolicyInv, CfgInv, NEW c \in Procs, End(c)
  PROVE  CfgInv'
<1>1. Only(c) /\ run'[c].cmd = "none"
  BY EndKeeps DEF Idle
<1>2. Released(c)
  BY DEF End
<1> QED BY <1>1, <1>2, IdleCfg

\* A command that takes the lock.
LEMMA TakeCfg ==
  ASSUME PolicyInv, CfgInv, NEW c \in Procs, Only(c), NEW p \in Projects, ConfigFree(p),
         cfg' = [cfg EXCEPT ![p] = c], run'[c].p = p
  PROVE  CfgInv'
BY CfgKeeps DEF CfgInv

LEMMA ConfigureCfg ==
  ASSUME LockInv, PolicyInv, CfgInv, NEW c \in Procs, Configure(c)
  PROVE  CfgInv'
<1>1. ASSUME NEW p \in Projects, NEW new \in Settings, NEW cmd \in {"apply", "edit"},
             LoadForChange(c, p, cmd, new)
      PROVE  CfgInv'
  <2>1. Only(c) /\ run'[c].cmd \in {"apply", "edit"} /\ run'[c].at = "lock" /\ cfg' = cfg
    BY <1>1, LoadForChangeDeed DEF locks
  <2> QED BY <2>1, CfgKeeps DEF Configures
<1>2. ASSUME NEW p \in Projects,
             (\E new \in Settings : ChangePolicy(c, p, new)) \/ BeginStart(c, p)
      PROVE  CfgInv'
  <2>1. Only(c) /\ run'[c].p = p /\ ConfigFree(p) /\ cfg' = [cfg EXCEPT ![p] = c]
    BY <1>2, ChangePolicyDeed, StartDeed
  <2> QED BY <2>1, TakeCfg
<1>3. ASSUME NEW p \in Projects, BeginInit(c, p) PROVE CfgInv'
  BY <1>3, InitDeed, IdleCfg
<1>4. ASSUME NEW p \in Projects, BeginDestroy(c, p) PROVE CfgInv'
  <2>1. Begin(c, [cmd |-> "destroy", at |-> "state", p |-> p]) /\ cfg' = cfg
    BY <1>4 DEF BeginDestroy, locks
  <2> QED BY <2>1, BeginKeeps, IdleCfg
<1>5. CASE LockForApply(c) \/ LockForEdit(c)
  <2> DEFINE p == run[c].p
  <2>1. /\ run[c].cmd \in {"apply", "edit"} /\ Goto(c, "plan") /\ ConfigFree(p)
        /\ cfg' = [cfg EXCEPT ![p] = c]
    BY <1>5 DEF LockForApply, LockForEdit, TakeConfigLock, At
  <2>2. p \in Projects
    BY <2>1 DEF PolicyInv, IsCommand, Readers
  <2>3. Only(c) /\ run'[c].p = p
    BY <2>1, GotoCommand DEF Readers
  <2> HIDE DEF p
  <2> QED BY <2>1, <2>2, <2>3, TakeCfg
<1>6. CASE \/ PlanChange(c) \/ SavePolicyAndConfig(c) \/ DestroyState(c)
           \/ RenameConf(c) \/ RenamePolicy(c)
  <2>1. /\ \E at : Goto(c, at)
        /\ cfg' = cfg
        /\ \/ run[c].cmd = "apply" /\ run[c].at = "plan"
           \/ run[c].cmd = "edit" /\ run[c].at \in {"plan", "write", "write policy"}
           \/ run[c].cmd \in {"policy", "init", "destroy"}
    BY <1>6 DEF PlanChange, SavePolicyAndConfig, DestroyState, RenameConf, RenamePolicy, At,
                Writers, locks
  <2>2. Configures(run[c]) \/ run[c].cmd \in {"init", "destroy"}
    BY <2>1 DEF Configures
  <2> QED BY <2>1, <2>2, GotoCfg
<1>7. CASE SaveChange(c)
  <2>1. Configures(run[c]) /\ (End(c) \/ (Goto(c, "write") /\ cfg' = cfg))
    BY <1>7 DEF SaveChange, At, Configures, locks
  <2> QED BY <2>1, EndCfg, GotoCfg
<1>8. CASE EndWrite(c) \/ WriteFails(c) \/ Boot(c) \/ DestroyConfig(c)
  BY <1>8, EndCfg DEF EndWrite, WriteFails, Boot, DestroyConfig
<1> QED BY <1>1, <1>2, <1>3, <1>4, <1>5, <1>6, <1>7, <1>8
        DEF Configure, ModelPolicy, GitPolicy, WebPolicy, SetMode

LEMMA NextCfg == LockInv /\ PolicyInv /\ CfgInv /\ [Next]_vars => CfgInv'
<1> SUFFICES ASSUME LockInv, PolicyInv, CfgInv, [Next]_vars PROVE CfgInv' OBVIOUS
<1>1. ASSUME NEW c \in Procs, Check(c) PROVE CfgInv'
  <2>1. Only(c) /\ run'[c].cmd \in {"check", "none"}
    BY <1>1, CheckKeeps
  <2>2. cfg' = cfg \/ Released(c)
    BY <1>1 DEF Check, BeginCheck, Download, SaveCandidate, PruneArtifacts, CheckFails,
                locks, End
  <2> QED BY <2>1, <2>2, IdleCfg
<1>2. ASSUME NEW c \in Procs, Update(c) PROVE CfgInv'
  <2>1. Only(c) /\ run'[c].cmd \in Updaters \cup {"none"}
    BY <1>2, UpdateCommand
  <2>2. cfg' = cfg \/ Released(c)
    BY <1>2
    DEF Update, Recovery, BeginUpdater, RecoverNothing, RecoverPolicy, RecoverRefused,
        RecoverLock, RecoverActive, RecoverEnd, PlanUpdate, SetupDeclares, PlanSetup, Prepare,
        BindPolicy, Decide, SaveLock, SaveActive, CommitEnd, ClearArtifacts, ClearCandidate,
        CommitFails, RestorePolicy, RestoreLock, RestoreActivation, locks, End
  <2> QED BY <2>1, <2>2, IdleCfg DEF Updaters
<1>3. ASSUME NEW c \in Procs, Refuse(c) \/ Crash(c) PROVE CfgInv'
  BY <1>3, EndCfg DEF Refuse, Crash
<1>4. CASE Alone \/ UNCHANGED vars
  <2>1. UNCHANGED <<run, cfg>>
    BY <1>4, AloneLocks DEF vars, locks
  <2> QED BY <2>1 DEF CfgInv
<1> QED BY <1>1, <1>2, <1>3, <1>4, ConfigureCfg DEF Next, Alone

LEMMA InitCfg == Init => CfgInv
<1> SUFFICES ASSUME Init PROVE CfgInv OBVIOUS
<1>1. \A c \in Procs : run[c].cmd = "none"
  BY DEF Init, Idle
<1>2. cfg = [p \in Projects |-> cfg[p]]
  BY DEF Init
<1> QED BY <1>1, <1>2 DEF CfgInv, Configures

-----------------------------------------------------------------------------
(* What a writer relies on *)

Writing(r) == r.cmd \in Writers /\ r.at \in {"write", "write policy"}

\* As long as its transaction is its own, nobody has changed the policy of a
\* writer's Project, and a writer at "save" has an active lock.
Owns(c) ==
  /\ Writing(run[c]) =>
       LET p == run[c].p
       IN  Pending(p) /\ ctx[p].by = c => /\ policy[p] = ctx[p].oldPolicy
                                          /\ run[c].cmd = "init" => ctx[p].oldPolicy = None
  /\ At(c, {"apply", "edit"}, "save") => IsActive

OwnedInv == \A c \in Procs : Owns(c)

\* The step of another command.
LEMMA OwnsStays ==
  ASSUME PolicyInv, CfgInv, NEW c \in Procs, NEW d \in Procs \ {c}, run'[d] = run[d],
         \A p \in Projects : Mild(p) \/ Writes(p, c), UNCHANGED <<lock, active>>, Owns(d)
  PROVE  Owns(d)'
<1> DEFINE p == run[d].p
<1>1. At(d, {"apply", "edit"}, "save")' => IsActive'
  BY DEF Owns, At, IsActive, Usable, LockState, LegacyLock
<1>2. ASSUME Writing(run[d]), Pending(p)', ctx'[p].by = d
      PROVE  policy'[p] = ctx'[p].oldPolicy /\ (run[d].cmd = "init" => ctx'[p].oldPolicy = None)
  <2>0. p \in Projects /\ run[d].cmd \in Writers
    BY <1>2 DEF Writing, PolicyInv, IsCommand, Writers, Readers
  <2>1. run[d].cmd # "init" => cfg[p] = d
    BY <1>2, <2>0 DEF Writing, Writers, CfgInv, Configures
  <2>2. Pending(p) /\ ctx[p].by = d =>
          policy[p] = ctx[p].oldPolicy /\ (run[d].cmd = "init" => ctx[p].oldPolicy = None)
    BY <1>2 DEF Owns
  <2>a. /\ ctx'[p] # None /\ ctx'[p].done < 2 /\ ctx'[p].by = d
        /\ run[d].cmd = "init" <=> run'[d].cmd = "init"
    BY <1>2 DEF Pending
  <2> HIDE DEF p
  <2>3. CASE Mild(p)
    <3>1. CASE Same(p)
      BY <2>a, <2>2, <3>1 DEF Same, Pending
    <3>2. CASE Removed(p) \/ Ended(p) \/ Loaded(p)
      BY <2>a, <3>2 DEF Removed, Ended, Loaded
    <3>3. CASE Renamed(p)
      BY <2>a, <2>2, <3>3 DEF Renamed, Moved, Pending
    <3> QED BY <2>3, <3>1, <3>2, <3>3 DEF Mild
  <2>4. CASE Writes(p, c)
    <3>1. ~Opened(p, c, NewPolicy(lock.man)) /\ \A pol : ~Opened(p, c, pol)
      BY <2>a DEF Opened, Transaction
    <3>2. ~Finishes(p, c)
      BY <2>a DEF Finishes, Replaced, Moved
    <3>3. run[c].p = p /\ Saves(p, c) /\ ctx'[p] = ctx[p]
      BY <2>4, <3>1, <3>2 DEF Writes, Saves, Rebinds, Begins, Saved
    <3>4. cfg[p] = c /\ policy[p] # None
      BY <3>3 DEF Saves, At, CfgInv, Configures, PolicyInv, IsCommand, Readers
    <3>5. Pending(p) /\ ctx[p].by = d
      BY <2>a, <3>3 DEF Pending
    <3> QED BY <2>1, <2>2, <3>4, <3>5
  <2> QED BY <2>0, <2>3, <2>4
<1> QED BY <1>1, <1>2 DEF Owns, Writing

\* The writer's own step.
LEMMA OwnsMoves ==
  ASSUME LockInv, PolicyInv, OwnedInv, NEW c \in Procs, Configure(c)
  PROVE  Owns(c)'
<1>1. CASE PlanChange(c)
  <2>1. /\ Goto(c, "save") /\ IsActive /\ UNCHANGED <<lock, active>>
    BY <1>1 DEF PlanChange, files
  <2>2. run'[c].at = "save"
    BY <2>1, GotoKeeps
  <2> QED BY <2>1, <2>2 DEF Owns, Writing, IsActive, Usable, LockState, LegacyLock
<1>2. CASE SaveChange(c) \/ SavePolicyAndConfig(c)
  <2> DEFINE p == run[c].p
  <2>1. /\ Only(c) /\ run[c].cmd \in {"apply", "edit", "policy"}
        /\ \/ End(c)
           \/ Goto(c, "write") /\ \E pol : Opened(p, c, pol)
    BY <1>2, SaveDeed, SavePolicyDeed DEF At
  <2>2. CASE End(c)
    <3>1. run'[c].cmd = "none"
      BY <2>2, IdleCommand DEF Idle
    <3> QED BY <3>1 DEF Owns, Writing, At, Writers
  <2>3. CASE Goto(c, "write") /\ \E pol : Opened(p, c, pol)
    <3>1. /\ run'[c].at = "write" /\ run'[c].cmd = run[c].cmd /\ run'[c].p = p
      BY <2>1, <2>3, GotoCommand DEF Readers
    <3>2. policy'[p] = ctx'[p].oldPolicy
      BY <2>3 DEF Opened
    <3> HIDE DEF p
    <3> QED BY <2>1, <3>1, <3>2 DEF Owns, At
  <2> QED BY <2>1, <2>2, <2>3
<1>3. ASSUME NEW p \in Projects, BeginInit(c, p) PROVE Owns(c)'
  <2>1. /\ run'[c].cmd = "init" /\ run'[c].at = "write" /\ run'[c].p = p
        /\ policy[p] = None /\ ctx[p] = None /\ Opened(p, c, NewPolicy(lock.man))
    BY <1>3, InitDeed
  <2>2. policy'[p] = None /\ ctx'[p].oldPolicy = None
    BY <2>1, AfterIs DEF Opened, Recovered
  <2> QED BY <2>1, <2>2 DEF Owns, At
<1>4. CASE RenameConf(c) \/ RenamePolicy(c)
  <2>0. PICK p : p = run[c].p
    OBVIOUS
  <2>1. /\ run[c].cmd \in Writers
        /\ \/ Renamed(p) /\ At(c, Writers, "write") /\ Goto(c, "write policy")
           \/ Goto(c, "write end")
    BY <1>4, <2>0, RenameDeed
  <2>2. run'[c].cmd = run[c].cmd /\ run'[c].p = p
        /\ (Goto(c, "write end") => run'[c].at = "write end")
        /\ (Goto(c, "write policy") => run'[c].at = "write policy")
    BY <2>0, <2>1, GotoCommand DEF Readers, Writers
  <2>3. Owns(c)
    BY DEF OwnedInv
  <2>4. CASE Goto(c, "write end")
    <3>1. run'[c].at = "write end"
      BY <2>2, <2>4
    <3> QED BY <3>1 DEF Owns, Writing, At
  <2>5. CASE Renamed(p) /\ At(c, Writers, "write") /\ Goto(c, "write policy")
    <3>1. Pending(p) /\ ctx[p].by = c =>
            policy[p] = ctx[p].oldPolicy /\ (run[c].cmd = "init" => ctx[p].oldPolicy = None)
      BY <2>0, <2>3, <2>5 DEF Owns, Writing, At
    <3>2. run'[c].at = "write policy" /\ run'[c].cmd = run[c].cmd /\ run'[c].p = p
      BY <2>2, <2>5
    <3>4. /\ ctx[p] # None /\ ctx[p].done = 0 /\ ctx'[p].by = ctx[p].by
          /\ ctx'[p].oldPolicy = ctx[p].oldPolicy /\ policy'[p] = policy[p]
      BY <2>5 DEF Renamed, Moved
    <3>5. Pending(p)
      BY <3>4 DEF Pending
    <3>3. Pending(p)' /\ ctx'[p].by = c =>
            policy'[p] = ctx'[p].oldPolicy /\ (run[c].cmd = "init" => ctx'[p].oldPolicy = None)
      BY <3>1, <3>4, <3>5
    <3> QED BY <3>2, <3>3 DEF Owns, At
  <2> QED BY <2>1, <2>4, <2>5
<1>5. CASE EndWrite(c) \/ WriteFails(c) \/ Boot(c) \/ DestroyConfig(c)
  <2>1. End(c)
    <3>1. EndWrite(c) \/ Boot(c) \/ DestroyConfig(c) => End(c)
      BY DEF EndWrite, Boot, DestroyConfig
    <3>2. WriteFails(c) => End(c)
      BY DEF WriteFails
    <3> QED BY <1>5, <3>1, <3>2
  <2>2. run'[c].cmd = "none"
    BY <2>1, IdleCommand DEF Idle
  <2> QED BY <2>2 DEF Owns, Writing, At, Writers
<1>6. CASE LockForApply(c) \/ LockForEdit(c) \/ DestroyState(c)
  <2>1. \E at \in {"plan", "config"} : Goto(c, at)
    BY <1>6 DEF LockForApply, LockForEdit, DestroyState, TakeConfigLock
  <2>2. run'[c].at \in {"plan", "config"}
    BY <2>1, GotoKeeps
  <2> QED BY <2>2 DEF Owns, Writing, At
<1>7. ASSUME NEW p \in Projects,
             \/ \E new \in Settings : ChangePolicy(c, p, new)
             \/ \E new \in Settings, cmd \in {"apply", "edit"} : LoadForChange(c, p, cmd, new)
             \/ BeginStart(c, p) \/ BeginDestroy(c, p)
      PROVE  Owns(c)'
  <2>1. (\E new \in Settings : ChangePolicy(c, p, new)) => run'[c].at = "bind"
    BY ChangePolicyDeed
  <2>2. (\E new \in Settings, cmd \in {"apply", "edit"} : LoadForChange(c, p, cmd, new)) =>
          run'[c].at = "lock"
    BY LoadForChangeDeed
  <2>3. BeginStart(c, p) => run'[c].at = "boot"
    BY StartDeed
  <2>4. ASSUME BeginDestroy(c, p) PROVE run'[c].at = "state"
    <3>1. Begin(c, [cmd |-> "destroy", at |-> "state", p |-> p])
      BY <2>4 DEF BeginDestroy
    <3> QED BY <3>1, BeginKeeps
  <2>5. run'[c].at \in {"bind", "lock", "boot", "state"}
    BY <1>7, <2>1, <2>2, <2>3, <2>4
  <2> QED BY <2>5 DEF Owns, Writing, At
<1> QED BY <1>1, <1>2, <1>3, <1>4, <1>5, <1>6, <1>7
        DEF Configure, ModelPolicy, GitPolicy, WebPolicy, SetMode

\* An updater excludes the writers.
LEMMA UpdateOwned ==
  ASSUME LockInv, LockInv', PolicyInv, OwnedInv, NEW c \in Procs, Update(c)
  PROVE  OwnedInv'
<1>1. ASSUME NEW d \in Procs, Writing(run'[d]) \/ At(d, {"apply", "edit"}, "save")'
      PROVE  FALSE
  <2>1. d # c /\ run'[d] = run[d] /\ Shares(run'[d])
    BY <1>1, UpdateCommand DEF Only, Writing, At, Shares, Writers, Updaters
  <2>2. ex = None /\ ex' = None
    BY <2>1, SharedAlone, ConfigurationAssumption DEF LockInv
  <2>3. CASE run[c].cmd \in Updaters
    BY <2>2, <2>3, ConfigurationAssumption DEF LockInv
  <2>4. CASE \E cmd \in Updaters : BeginUpdater(c, cmd)
    BY <2>2, <2>4, ConfigurationAssumption DEF BeginUpdater
  <2> QED BY <2>3, <2>4
    DEF Update, Recovery, RecoverNothing, RecoverPolicy, RecoverRefused, RecoverLock,
        RecoverActive, RecoverEnd, PlanUpdate, SetupDeclares, PlanSetup, Prepare,
        BindPolicy, Decide, SaveLock, SaveActive, CommitEnd, ClearArtifacts,
        ClearCandidate, CommitFails, RestorePolicy, RestoreLock, RestoreActivation, At, Updaters
<1> QED BY <1>1 DEF OwnedInv, Owns

LEMMA NextOwned ==
  ASSUME LockInv, LockInv', PolicyInv, CfgInv, OwnedInv, [Next]_vars
  PROVE  OwnedInv'
<1>1. ASSUME NEW c \in Procs, Configure(c) PROVE OwnedInv'
  <2>1. Only(c) /\ UNCHANGED <<lock, active>>
    BY <1>1, ConfigureKeeps DEF files
  <2>2. \A d \in Procs \ {c} : Owns(d)'
    BY <1>1, <2>1, ConfigureWrites, OwnsStays DEF Only, OwnedInv
  <2> QED BY <1>1, <2>2, OwnsMoves DEF OwnedInv
<1>2. ASSUME NEW c \in Procs, Check(c) \/ Refuse(c) \/ Crash(c) PROVE OwnedInv'
  <2>1. UNCHANGED <<policy, ctx, lock, active>>
    BY <1>2 DEF Check, BeginCheck, Download, SaveCandidate, PruneArtifacts, CheckFails,
                Refuse, Crash, project, files
  <2>2. Only(c) /\ run'[c].cmd \in {"check", "none"}
    BY <1>2, CheckKeeps, RefuseKeeps DEF Idle
  <2>3. \A p \in Projects : Mild(p)
    BY <2>1 DEF Mild, Same
  <2>4. \A d \in Procs \ {c} : Owns(d)'
    BY <2>1, <2>2, <2>3, OwnsStays DEF Only, OwnedInv
  <2>5. Owns(c)'
    BY <2>2 DEF Owns, Writing, At, Writers
  <2> QED BY <2>4, <2>5 DEF OwnedInv
<1>3. ASSUME NEW c \in Procs, Update(c) PROVE OwnedInv'
  BY <1>3, UpdateOwned
<1>4. CASE Alone \/ UNCHANGED vars
  <2>1. (\A p \in Projects : Mild(p)) /\ UNCHANGED <<run, lock, active>>
    BY <1>4, AloneMild, AloneLocks DEF vars, files, project, Mild, Same
  <2>2. ASSUME NEW d \in Procs PROVE Owns(d)'
    <3>1. Owns(d)
      BY DEF OwnedInv
    <3>2. PICK p : p = run[d].p
      OBVIOUS
    <3>3. Writing(run[d]) => p \in Projects
      BY <3>2 DEF Writing, PolicyInv, IsCommand, Writers, Readers
    <3>4. ASSUME Writing(run[d]), Pending(p)', ctx'[p].by = d
          PROVE  policy'[p] = ctx'[p].oldPolicy /\ (run[d].cmd = "init" => ctx'[p].oldPolicy = None)
      BY <2>1, <3>1, <3>2, <3>3, <3>4
      DEF Owns, Mild, Same, Removed, Ended, Renamed, Moved, Loaded, Pending
    <3> QED BY <2>1, <3>1, <3>2, <3>4
        DEF Owns, Writing, At, IsActive, Usable, LockState, LegacyLock
  <2> QED BY <2>2 DEF OwnedInv
<1> QED BY <1>1, <1>2, <1>3, <1>4 DEF Next, Alone

LEMMA InitOwned == Init => OwnedInv
<1> SUFFICES ASSUME Init PROVE OwnedInv OBVIOUS
<1>1. \A c \in Procs : run[c].cmd = "none"
  BY DEF Init, Idle
<1> QED BY <1>1 DEF OwnedInv, Owns, Writing, At, Writers

-----------------------------------------------------------------------------
(* The manifest of a policy *)

IsLock(l) == l = [gen |-> l.gen, man |-> l.man]

\* Over this policy the interrupted transaction of p would bind p anew.
Moves(p, pol) ==
  Pending(p) /\ pol # None /\ pol = ctx[p].oldPolicy /\ ctx[p].newPolicy.dep # pol.dep
Rebound(p) == IsActive /\ ctx[p].newPolicy.dep = lock.man
MovesWell(p) == Moves(p, policy[p]) => Rebound(p)
MovesInv == \A p \in Projects : MovesWell(p)

\* What the journal of an update does not name is bound to the old lock.
Attached(p) ==
  /\ policy[p] # None => lock # None /\ policy[p].dep = lock.man
  /\ ctx[p] # None => lock # None /\ ctx[p].newPolicy.dep = lock.man
OutsideInv == Journaled /\ lock # Final => \A p \in Projects \ journal.projects : Attached(p)

\* What an updater has planned moves nobody, and names everybody.
Lists(r) ==
  /\ r.at \in Planned => /\ \A p \in DOMAIN r.list : Moves(p, r.list[p]) => Rebound(p)
                         /\ IsActive => r.sourceActive /\ r.base = lock
  /\ r.at \in Planned \cup {"save lock", "save active"} => Listed \subseteq DOMAIN r.list
  /\ r.at \in Planned \cup {"save lock"} => IsLock(r.next) /\ IsLock(r.base)
  /\ r.at = "recover" => r.todo \subseteq journal.projects

LocksInv ==
  /\ lock # None => IsLock(lock)
  /\ Journaled => IsLock(journal.source) /\ IsLock(journal.target)

DepInv ==
  /\ LocksInv /\ MovesInv /\ OutsideInv
  /\ \A c \in Procs : run[c].cmd \in Updaters => Lists(run[c])

\* The steps of the commands that change neither the lock nor its binding.
LEMMA MildMoves ==
  ASSUME PolicyInv, NEW p \in Projects, Mild(p), UNCHANGED <<lock, active>>,
         NEW pol, Moves(p, pol) => Rebound(p)
  PROVE  /\ Moves(p, pol)' => Rebound(p)'
         /\ ctx'[p] # None => policy'[p] = policy[p]
<1>1. IsActive' = IsActive
  BY DEF IsActive, Usable, LockState, LegacyLock
<1>2. CASE Same(p)
  BY <1>1, <1>2 DEF Same, Moves, Rebound, Pending
<1>3. CASE Removed(p) \/ Ended(p) \/ Loaded(p)
  BY <1>3 DEF Removed, Ended, Loaded, Moves, Pending
<1>4. CASE Renamed(p)
  <2>1. /\ ctx[p] # None /\ ctx[p].done = 0 /\ ctx'[p].newPolicy = ctx[p].newPolicy
        /\ ctx'[p].oldPolicy = ctx[p].oldPolicy /\ policy'[p] = policy[p]
    BY <1>4 DEF Renamed, Moved
  <2>2. Pending(p)
    BY <2>1 DEF Pending
  <2> QED BY <1>1, <2>1, <2>2 DEF Moves, Rebound
<1> QED BY <1>2, <1>3, <1>4 DEF Mild

LEMMA WritesMoves ==
  ASSUME PolicyInv, RevInv, OwnedInv, UNCHANGED <<lock, active>>,
         NEW p \in Projects, NEW c \in Procs, Writes(p, c)
  PROVE  MovesWell(p)'
<1>1. IsActive' = IsActive
  BY DEF IsActive, Usable, LockState, LegacyLock
<1>2. ASSUME NEW pol, Opened(p, c, pol), IsActive, pol.dep = lock.man
      PROVE  MovesWell(p)'
  BY <1>1, <1>2 DEF Opened, Rebound, MovesWell
<1>3. CASE Saves(p, c)
  <2> DEFINE seen == run[c].seen.pol
             pol == Compiled(seen, lock.man, run[c].new)
  <2>1. /\ At(c, {"apply", "edit"}, "save") /\ policy[p] = seen
        /\ Saved(p, pol) \/ Opened(p, c, pol)
    BY <1>3 DEF Saves
  <2>2. IsActive /\ IsPolicy(seen) /\ seen # None
    BY <2>1 DEF OwnedInv, Owns, PolicyInv, IsCommand, At, Readers
  <2>3. pol.rev = seen.rev + 1 /\ seen.rev \in Nat /\ pol.dep = lock.man
    BY <2>2, CompiledIs DEF IsPolicy, Compiled
  <2> HIDE DEF pol
  <2>4. CASE Saved(p, pol)
    <3>1. Pending(p) => ctx[p].oldPolicy # None /\ ctx[p].oldPolicy.rev \in Nat
                        /\ seen.rev >= ctx[p].oldPolicy.rev
      BY <2>1, <2>2 DEF RevInv, PolicyInv, IsTransaction, IsPolicy, Pending
    <3>2. Pending(p) => pol # ctx[p].oldPolicy
      BY <2>3, <3>1
    <3>3. policy'[p] = pol /\ ctx'[p] = ctx[p]
      BY <2>4 DEF Saved
    <3> QED BY <3>2, <3>3 DEF MovesWell, Moves, Pending
  <2>5. CASE Opened(p, c, pol)
    BY <1>2, <2>2, <2>3, <2>5
  <2> QED BY <2>1, <2>4, <2>5
<1>4. CASE Rebinds(p, c)
  <2> DEFINE seen == run[c].seen.pol
             pol == Compiled(seen, seen.dep, run[c].new)
  <2>1. BoundToActive(seen) /\ Opened(p, c, pol)
    BY <1>4 DEF Rebinds
  <2>2. pol.dep = seen.dep
    BY DEF Compiled
  <2> HIDE DEF seen, pol
  <2> QED BY <1>2, <2>1, <2>2 DEF BoundToActive
<1>5. CASE Finishes(p, c)
  <2>1. ctx'[p].done = 1 + 1
    BY <1>5 DEF Finishes, Replaced, Moved
  <2> QED BY <2>1 DEF MovesWell, Moves, Pending
<1>6. CASE Begins(p, c)
  <2>1. IsActive /\ Opened(p, c, NewPolicy(lock.man))
    BY <1>6 DEF Begins
  <2>2. NewPolicy(lock.man).dep = lock.man
    BY DEF NewPolicy
  <2> QED BY <1>2, <2>1, <2>2
<1> QED BY <1>3, <1>4, <1>5, <1>6 DEF Writes

LEMMA MildAttached ==
  ASSUME PolicyInv, NEW p \in Projects, Mild(p), UNCHANGED lock, Attached(p)
  PROVE  Attached(p)'
<1>1. CASE Same(p) \/ Removed(p) \/ Ended(p)
  BY <1>1 DEF Same, Removed, Ended, Attached
<1>2. CASE Loaded(p)
  BY <1>2, RecoveredIs DEF Loaded, Attached, Pending
<1>3. CASE Renamed(p)
  <2>1. /\ ctx[p] # None /\ ctx'[p].newPolicy = ctx[p].newPolicy /\ policy'[p] = policy[p]
    BY <1>3 DEF Renamed, Moved
  <2> QED BY <2>1 DEF Attached
<1> QED BY <1>1, <1>2, <1>3 DEF Mild

LEMMA WritesAttached ==
  ASSUME PolicyInv, OwnedInv, UNCHANGED lock, NEW p \in Projects, NEW c \in Procs,
         Writes(p, c), Attached(p)
  PROVE  Attached(p)'
<1>1. ASSUME NEW pol, Opened(p, c, pol), IsActive, pol.dep = lock.man
      PROVE  Attached(p)'
  <2>1. lock # None /\ ctx'[p].newPolicy = pol /\ Recovered(p)
    BY <1>1 DEF IsActive, Usable, LockState, Opened
  <2> QED BY <1>1, <2>1, RecoveredIs DEF Attached, Pending
<1>2. CASE Saves(p, c)
  <2> DEFINE seen == run[c].seen.pol
             pol == Compiled(seen, lock.man, run[c].new)
  <2>1. /\ At(c, {"apply", "edit"}, "save")
        /\ Saved(p, pol) \/ Opened(p, c, pol)
    BY <1>2 DEF Saves
  <2>2. IsActive
    BY <2>1 DEF OwnedInv, Owns
  <2>3. pol.dep = lock.man
    BY DEF Compiled
  <2> HIDE DEF pol
  <2>4. CASE Saved(p, pol)
    BY <2>2, <2>3, <2>4 DEF Saved, Attached, IsActive, Usable, LockState
  <2> QED BY <1>1, <2>1, <2>2, <2>3, <2>4
<1>3. CASE Rebinds(p, c)
  <2> DEFINE seen == run[c].seen.pol
             pol == Compiled(seen, seen.dep, run[c].new)
  <2>1. BoundToActive(seen) /\ Opened(p, c, pol)
    BY <1>3 DEF Rebinds
  <2>2. pol.dep = seen.dep
    BY DEF Compiled
  <2> HIDE DEF seen, pol
  <2> QED BY <1>1, <2>1, <2>2 DEF BoundToActive
<1>4. CASE Finishes(p, c)
  <2>1. /\ ctx[p] # None /\ ctx'[p].newPolicy = ctx[p].newPolicy
        /\ policy'[p] = ctx[p].newPolicy
    BY <1>4 DEF Finishes, Replaced, Moved
  <2> QED BY <2>1 DEF Attached
<1>5. CASE Begins(p, c)
  <2>1. IsActive /\ Opened(p, c, NewPolicy(lock.man))
    BY <1>5 DEF Begins
  <2>2. NewPolicy(lock.man).dep = lock.man
    BY DEF NewPolicy
  <2> QED BY <1>1, <2>1, <2>2
<1> QED BY <1>2, <1>3, <1>4, <1>5 DEF Writes

\* An updater of another process, while there is nothing but that.
LEMMA MildLists ==
  ASSUME PolicyInv, \A p \in Projects : Mild(p), UNCHANGED <<lock, active, journal>>,
         NEW d \in Procs, run'[d] = run[d], Follows(run[d]), Lists(run[d])
  PROVE  Lists(run[d])'
<1>1. PICK r : r = run[d]
  OBVIOUS
<1>2. Lists(r) /\ Follows(r) /\ IsActive' = IsActive
  BY <1>1 DEF IsActive, Usable, LockState, LegacyLock
<1>3. Listed' \subseteq Listed
  <2>1. ASSUME NEW p \in Projects, policy'[p] # None \/ ctx'[p] # None
        PROVE  policy[p] # None \/ ctx[p] # None
    <3>1. CASE Same(p) \/ Removed(p) \/ Ended(p) \/ Renamed(p)
      BY <2>1, <3>1 DEF Same, Removed, Ended, Renamed, Moved
    <3>2. CASE Loaded(p)
      BY <2>1, <3>2, AfterIs DEF Loaded, Recovered
    <3> QED BY <3>1, <3>2 DEF Mild
  <2> QED BY <2>1 DEF Listed
<1>4. ASSUME r.at \in Planned, NEW p \in DOMAIN r.list, Moves(p, r.list[p])'
      PROVE  Rebound(p)'
  <2>1. p \in Projects
    BY <1>2, <1>4 DEF Follows, Planned
  <2>2. PICK pol : pol = r.list[p]
    OBVIOUS
  <2>3. Moves(p, pol) => Rebound(p)
    BY <1>2, <1>4, <2>2 DEF Lists
  <2>4. Moves(p, pol)' => Rebound(p)'
    BY <2>1, <2>3, MildMoves
  <2> QED BY <1>4, <2>2, <2>4
<1> QED BY <1>1, <1>2, <1>3, <1>4 DEF Lists

LEMMA StillMoves ==
  ASSUME MovesInv, UNCHANGED <<policy, ctx, lock, active>>
  PROVE  MovesInv'
BY DEF MovesInv, MovesWell, Moves, Rebound, Pending, IsActive, Usable, LockState, LegacyLock

LEMMA CommandDep ==
  ASSUME LockInv, PolicyInv, RevInv, OwnedInv, KeptInv, DepInv, NEW c \in Procs, Only(c),
         \A p \in Projects : Mild(p) \/ Writes(p, c),
         run'[c].cmd \notin Updaters, UNCHANGED <<lock, active, journal>>
  PROVE  DepInv'
<1>1. MovesInv'
  <2>1. ASSUME NEW p \in Projects PROVE MovesWell(p)'
    <3>1. MovesWell(p)
      BY DEF DepInv, MovesInv
    <3>2. PICK pol : pol = policy[p]
      OBVIOUS
    <3>3. CASE Mild(p)
      <4>1. Moves(p, pol)' => Rebound(p)'
        BY <3>1, <3>2, <3>3, MildMoves DEF MovesWell
      <4>2. ctx'[p] # None => policy'[p] = pol
        BY <3>1, <3>2, <3>3, MildMoves DEF MovesWell
      <4> QED BY <4>1, <4>2 DEF MovesWell, Moves, Pending
    <3> QED BY <3>3, WritesMoves
  <2> QED BY <2>1 DEF MovesInv
<1>2. OutsideInv'
  <2>1. ASSUME NEW p \in Projects, Attached(p) PROVE Attached(p)'
    BY <2>1, MildAttached, WritesAttached
  <2>2. journal' = journal /\ Final' = Final /\ Journaled' = Journaled
    BY DEF Final, Activated, Chosen, Decided, Journaled
  <2> QED BY <2>1, <2>2 DEF DepInv, OutsideInv
<1>3. ASSUME NEW d \in Procs, run'[d].cmd \in Updaters PROVE Lists(run[d])'
  <2>1. run'[d] = run[d]
    BY <1>3 DEF Only
  <2>2. ex # None
    BY <1>3, <2>1, ConfigurationAssumption DEF LockInv
  <2>3. \A p \in Projects : Mild(p)
    BY <2>2 DEF Writes
  <2> QED BY <1>3, <2>1, <2>3, MildLists DEF KeptInv, DepInv
<1> QED BY <1>1, <1>2, <1>3 DEF DepInv, LocksInv, Journaled

\* The steps of an updater.
LEMMA UpdaterDep ==
  ASSUME LockInv, NEW c \in Procs, Only(c), run[c].cmd \in Updaters,
         LocksInv', MovesInv', OutsideInv', run'[c].cmd \in Updaters => Lists(run[c])'
  PROVE  DepInv'
<1> SUFFICES ASSUME NEW d \in Procs, run'[d].cmd \in Updaters
             PROVE  Lists(run[d])'
  BY DEF DepInv
<1>1. CASE d = c
  BY <1>1
<1>2. CASE d # c
  <2>1. run'[d] = run[d]
    BY <1>2 DEF Only
  <2> QED BY <1>2, <2>1 DEF LockInv
<1> QED BY <1>1, <1>2

\* A policy newer than the one a transaction replaces is moved by nothing.
LEMMA NewerStays ==
  ASSUME PolicyInv, MovesInv, NEW p \in Projects, NEW pol, IsPolicy(pol), NEW man,
         Pending(p) => ctx[p].oldPolicy # None /\ pol.rev >= ctx[p].oldPolicy.rev,
         Elsewhere(p), Saved(p, Rewritten(pol, man)), UNCHANGED <<lock, active>>
  PROVE  MovesInv'
<1>1. IsActive' = IsActive
  BY DEF IsActive, Usable, LockState, LegacyLock
<1>2. \A q \in Projects \ {p} : MovesWell(q)'
  BY <1>1 DEF Elsewhere, MovesInv, MovesWell, Moves, Rebound, Pending
<1>3. MovesWell(p)'
  <2>1. Pending(p) => ctx[p].oldPolicy # None /\ ctx[p].oldPolicy.rev \in Nat
    BY DEF PolicyInv, IsTransaction, IsPolicy, Pending
  <2>2. Rewritten(pol, man).rev = pol.rev + 1 /\ pol.rev \in Nat
    BY RewrittenIs DEF IsPolicy
  <2>3. Pending(p) => Rewritten(pol, man) # ctx[p].oldPolicy
    BY <2>1, <2>2
  <2>4. policy'[p] = Rewritten(pol, man) /\ ctx'[p] = ctx[p]
    BY DEF Saved
  <2> QED BY <2>3, <2>4 DEF MovesWell, Moves, Pending
<1> QED BY <1>2, <1>3 DEF MovesInv

\* Nobody can be moved who is bound already, or not there.
LEMMA BoundStays ==
  ASSUME PolicyInv, UNCHANGED <<policy, ctx>>, NEW S,
         \A p \in S : Pending(p) => policy[p] # ctx[p].oldPolicy,
         \A p \in Projects \ S : policy[p] # None => policy[p].dep = ctx[p].newPolicy.dep \/ ctx[p] = None
  PROVE  MovesInv'
BY DEF MovesInv, MovesWell, Moves, Pending

\* What a step that writes one policy the journal names leaves of the rest.
LEMMA SavedOutside ==
  ASSUME OutsideInv, NEW p \in journal.projects, Elsewhere(p), UNCHANGED <<lock, journal>>
  PROVE  OutsideInv'
<1>1. Final' = Final /\ Journaled' = Journaled
  BY DEF Final, Activated, Chosen, Decided, Journaled
<1> QED BY <1>1 DEF OutsideInv, Attached, Elsewhere

\* An updater that writes no file leaves the rest as it was.
LEMMA QuietDep ==
  ASSUME LockInv, DepInv, NEW c \in Procs, Only(c), run[c].cmd \in Updaters,
         UNCHANGED <<policy, ctx, lock, active, journal>>,
         run'[c].cmd \in Updaters => Lists(run[c])'
  PROVE  DepInv'
<1>1. MovesInv'
  BY StillMoves DEF DepInv
<1>2. Final' = Final /\ Journaled' = Journaled
  BY DEF Final, Activated, Chosen, Decided, Journaled
<1>3. OutsideInv' /\ LocksInv'
  BY <1>2 DEF OutsideInv, Attached, LocksInv, DepInv
<1> QED BY <1>1, <1>3, UpdaterDep

LEMMA RecoverPolicyDep ==
  ASSUME LockInv, PolicyInv, EndsInv, DepInv, NEW c \in Procs, RecoverPolicy(c)
  PROVE  DepInv'
<1> DEFINE r == run[c]
           man == Chosen.man
<1>0. /\ r.cmd \in Updaters /\ r.at = "recover" /\ UNCHANGED <<lock, active, journal, ctx>>
  BY DEF RecoverPolicy, At, files
<1>1. PICK p \in r.todo : /\ policy[p] # None
                          /\ policy' = [policy EXCEPT ![p] = Rewritten(policy[p], man)]
                          /\ run' = [run EXCEPT ![c].todo = r.todo \ {p}]
  BY DEF RecoverPolicy
<1>2. Ends(r) /\ Lists(r)
  BY <1>0 DEF EndsInv, DepInv
<1>3. "todo" \in DOMAIN r /\ r.todo \subseteq journal.projects /\ p \in Projects
  BY <1>0, <1>1, <1>2 DEF Ends, Lists, EndsInv, IsJournal
<1>4. Only(c) /\ run'[c].at = "recover" /\ run'[c].todo = r.todo \ {p}
  BY <1>0, <1>1, <1>3, TodoKeeps
<1>5. PICK pol : pol = policy[p]
  OBVIOUS
<1> HIDE DEF man
<1>6. IsPolicy(pol)
  BY <1>1, <1>3, <1>5 DEF PolicyInv
<1>7. Elsewhere(p) /\ Saved(p, Rewritten(pol, man))
  BY <1>0, <1>1, <1>3, <1>5, SavedOne
<1>8. Pending(p) => ctx[p].oldPolicy # None /\ pol.rev >= ctx[p].oldPolicy.rev
  BY <1>1, <1>3, <1>5 DEF EndsInv, RevInv
<1>9. MovesInv'
  BY <1>0, <1>3, <1>6, <1>7, <1>8, NewerStays DEF DepInv
<1>10. OutsideInv'
  BY <1>0, <1>1, <1>3, <1>7, SavedOutside DEF DepInv
<1>11. Lists(run[c])'
  BY <1>0, <1>3, <1>4 DEF Lists, Planned
<1>12. LocksInv'
  BY <1>0 DEF DepInv, LocksInv, Journaled
<1> QED BY <1>0, <1>4, <1>9, <1>10, <1>11, <1>12, UpdaterDep

\* Once every policy the journal names is bound to what was chosen, the lock
\* may change.
LEMMA ActivateDep ==
  ASSUME LockInv, PolicyInv, EndsInv, DepInv, NEW c \in Procs,
         RecoverLock(c) \/ RecoverActive(c)
  PROVE  DepInv'
<1> DEFINE r == run[c]
<1>0. r.cmd \in Updaters /\ UNCHANGED <<journal, policy, ctx>>
  BY DEF RecoverLock, RecoverActive, At, project
<1>1. Ends(r)
  BY <1>0 DEF EndsInv
<1>2. Final' = Final /\ Journaled' = Journaled
  BY <1>0 DEF Chosen, Final, Activated, Decided, Journaled
<1>3. CASE RecoverLock(c)
  <2>1. /\ r.at = "recover" /\ r.todo = {} /\ lock' = Final /\ active' = active
        /\ Journaled /\ Goto(c, "recover active")
    BY <1>3 DEF RecoverLock, At, Final
  <2>2. Only(c) /\ run'[c].at = "recover active"
    BY <2>1, GotoKeeps
  <2>3. OutsideInv'
    BY <1>2, <2>1 DEF OutsideInv
  <2>4. LocksInv'
    BY <1>0, <1>2, <2>1 DEF DepInv, LocksInv, Final, Chosen
  <2>5. MovesInv'
    <3>1. CASE lock = Final
      BY <1>0, <2>1, <3>1, StillMoves DEF DepInv
    <3>2. CASE lock # Final
      <4>1. \A p \in journal.projects : Pending(p) => policy[p] # ctx[p].oldPolicy
        BY <1>1, <2>1 DEF Ends, Bound
      <4>2. \A p \in Projects \ journal.projects :
              policy[p] # None => policy[p].dep = ctx[p].newPolicy.dep \/ ctx[p] = None
        BY <2>1, <3>2 DEF DepInv, OutsideInv, Attached
      <4> QED BY <1>0, <4>1, <4>2, BoundStays
    <3> QED BY <3>1, <3>2
  <2>6. Lists(run[c])'
    BY <2>2 DEF Lists, Planned
  <2> QED BY <1>0, <2>2, <2>3, <2>4, <2>5, <2>6, UpdaterDep
<1>4. CASE RecoverActive(c)
  <2>1. r.at = "recover active" /\ lock' = lock /\ active' = Final /\ Goto(c, "recover end")
    BY <1>4 DEF RecoverActive, At, Final
  <2>2. Only(c) /\ run'[c].at = "recover end" /\ lock = Final
    BY <1>1, <2>1, GotoKeeps DEF Ends
  <2>3. IsActive => IsActive'
    BY <2>1, <2>2 DEF IsActive, Usable, LockState, LegacyLock
  <2>4. MovesInv'
    BY <1>0, <2>1, <2>3 DEF DepInv, MovesInv, MovesWell, Moves, Rebound, Pending
  <2>5. OutsideInv' /\ LocksInv'
    BY <1>0, <1>2, <2>1, <2>2 DEF OutsideInv, LocksInv, DepInv
  <2>6. Lists(run[c])'
    BY <2>2 DEF Lists, Planned
  <2> QED BY <1>0, <2>2, <2>4, <2>5, <2>6, UpdaterDep
<1> QED BY <1>3, <1>4

\* The steps that plan nothing.
LEMMA PlainDep ==
  ASSUME LockInv, DepInv, NEW c \in Procs,
         \/ RecoverNothing(c) \/ RecoverRefused(c) \/ ClearArtifacts(c) \/ ClearCandidate(c)
         \/ RecoverEnd(c) \/ CommitEnd(c)
  PROVE  DepInv'
<1>1. /\ run[c].cmd \in Updaters /\ UNCHANGED <<policy, ctx, lock, active>>
      /\ journal' = journal \/ journal' = NoJournal
      /\ End(c) \/ \E at \in {"plan", "clear", "clear candidate"} : Goto(c, at)
  BY DEF RecoverNothing, RecoverRefused, ClearArtifacts, ClearCandidate,
         RecoverEnd, CommitEnd, At, Updaters, files, project
<1>2. Only(c) /\ run'[c].at \in {"idle", "plan", "clear", "clear candidate"}
  <2>1. CASE End(c)
    <3>1. Idle.at = "idle"
      BY DEF Idle
    <3> QED BY <2>1, <3>1, EndKeeps
  <2>2. CASE ~End(c)
    BY <1>1, <2>2, GotoKeeps
  <2> QED BY <2>1, <2>2
<1>3. Lists(run[c])'
  BY <1>2 DEF Lists, Planned
<1>4. CASE journal' = journal
  BY <1>1, <1>2, <1>3, <1>4, QuietDep
<1>5. CASE journal' = NoJournal
  <2>1. MovesInv'
    BY <1>1, StillMoves DEF DepInv
  <2>2. OutsideInv' /\ LocksInv'
    BY <1>1, <1>5 DEF OutsideInv, LocksInv, Journaled, DepInv
  <2> QED BY <1>1, <1>2, <1>3, <2>1, <2>2, UpdaterDep
<1> QED BY <1>1, <1>4, <1>5

\* A plan lists the policies as they are, and starts from the active lock.
LEMMA PlanDep ==
  ASSUME LockInv, DepInv, NEW c \in Procs, PlanUpdate(c) \/ PlanSetup(c)
  PROVE  DepInv'
<1>1. PICK next, base, sourceActive :
        /\ Plans(c, next, base, sourceActive) /\ UNCHANGED <<files, project>>
        /\ run[c].cmd \in Updaters /\ IsLock(next) /\ IsLock(base)
        /\ IsActive => sourceActive /\ base = lock
  <2>0. LocksInv
    BY DEF DepInv
  <2>1. IsActive => /\ ~LockState.missing /\ ~LockState.legacy
                    /\ LockState.gen = lock.gen /\ LockState.man = lock.man
    BY DEF IsActive, Usable, LockState, LegacyLock, Migrated
  <2>2. IsActive => lock = [gen |-> lock.gen, man |-> lock.man]
    BY <2>0 DEF IsActive, Usable, LockState, LocksInv, IsLock
  <2>3. CASE PlanUpdate(c)
    <3> DEFINE next == [gen |-> UpdateSource.gen + 1, man |-> candidate.target]
               base == [gen |-> IF LockState.missing THEN 0 ELSE lock.gen, man |-> LockState.man]
    <3>1. UpdateSource = base
      BY DEF UpdateSource
    <3>2. IsLock(next) /\ IsLock(base)
      BY DEF IsLock
    <3>3. IsActive => ~LockState.missing /\ base = lock
      BY <2>1, <2>2
    <3>4. /\ Plans(c, next, UpdateSource, ~LockState.missing)
          /\ run[c].cmd = "update" /\ UNCHANGED <<files, project>>
      BY <2>3, PlanUpdateDeed
    <3> HIDE DEF next, base
    <3> QED BY <3>1, <3>2, <3>3, <3>4 DEF Updaters
  <2>4. CASE PlanSetup(c)
    <3> DEFINE next == [gen |-> LockState.gen, man |-> LockState.man]
               base == IF LockState.legacy THEN lock ELSE next
               sourceActive == LockState.legacy \/ IsActive
    <3>1. IsLock(next)
      BY DEF IsLock
    <3>2. LockState.legacy => lock # None
      BY DEF LockState, LegacyLock
    <3>3. IsLock(base)
      BY <2>0, <3>1, <3>2 DEF LocksInv
    <3>4. IsActive => sourceActive /\ base = lock
      BY <2>1, <2>2
    <3>5. /\ Plans(c, next, base, sourceActive)
          /\ run[c].cmd = "setup" /\ UNCHANGED <<files, project>>
      BY <2>4, PlanSetupDeed
    <3> HIDE DEF next, base, sourceActive
    <3> QED BY <3>1, <3>3, <3>4, <3>5 DEF Updaters
  <2> QED BY <2>3, <2>4
<1>2. UNCHANGED <<policy, ctx, lock, active, journal>>
  BY <1>1 DEF files, project
<1>3. /\ Only(c) /\ run'[c].at = "prepare" /\ run'[c].list = [p \in Listed |-> policy[p]]
      /\ run'[c].next = next /\ run'[c].base = base /\ run'[c].sourceActive = sourceActive
  BY <1>1 DEF Plans
<1>4. IsActive' = IsActive /\ Listed' = Listed
  BY <1>2 DEF IsActive, Usable, LockState, LegacyLock, Listed
<1>5. \A p \in Listed : Moves(p, policy[p]) => Rebound(p)
  BY DEF DepInv, MovesInv, MovesWell, Listed
<1>6. Lists(run[c])'
  BY <1>1, <1>2, <1>3, <1>4, <1>5 DEF Lists, Planned, Moves, Rebound, Pending, IsLock
<1> QED BY <1>1, <1>2, <1>3, <1>6, QuietDep

\* Where the plan names every Project, there is nothing else to be bound.
LEMMA NamedOutside ==
  ASSUME UNCHANGED <<policy, ctx>>, Listed \subseteq journal'.projects
  PROVE  OutsideInv'
BY DEF OutsideInv, Attached, Listed

LEMMA PrepareDep ==
  ASSUME LockInv, KeptInv, EndsInv, DepInv, NEW c \in Procs, Prepare(c)
  PROVE  DepInv'
<1> DEFINE r == run[c]
<1>0. /\ r.cmd \in Updaters /\ r.at = "prepare" /\ Goto(c, "bind")
      /\ journal' = [phase |-> "prepared", sourceActive |-> r.sourceActive,
                     source |-> r.base, target |-> r.next,
                     projects |-> r.todo, legacy |-> r.legacy]
      /\ UNCHANGED <<lock, active, policy, ctx>>
  BY DEF Prepare, At, project
<1>1. Ends(r) /\ Follows(r) /\ Lists(r)
  BY <1>0 DEF EndsInv, KeptInv, DepInv
<1>2. IsPlanned(r) /\ r.todo = DOMAIN r.list
  BY <1>0, <1>1 DEF Follows, Ends
<1>3. Only(c) /\ SamePlan(c) /\ run'[c].at = "bind"
  BY <1>0, <1>2, GotoKeeps, SamePlanned
<1>4. /\ journal'.projects = DOMAIN r.list /\ journal'.target = r.next
      /\ journal'.source = r.base
  BY <1>0, <1>2
<1>5. /\ \A p \in DOMAIN r.list : Moves(p, r.list[p]) => Rebound(p)
      /\ IsActive => r.sourceActive /\ r.base = lock
      /\ Listed \subseteq DOMAIN r.list /\ IsLock(r.next) /\ IsLock(r.base)
  BY <1>0, <1>1 DEF Lists, Planned
<1>6. IsActive' = IsActive /\ Listed' = Listed
  BY <1>0 DEF IsActive, Usable, LockState, LegacyLock, Listed
<1>7. Lists(run[c])'
  BY <1>0, <1>3, <1>5, <1>6 DEF Lists, SamePlan, Planned, Moves, Rebound, Pending, IsLock
<1>8. MovesInv' /\ OutsideInv'
  BY <1>0, <1>4, <1>5, StillMoves, NamedOutside DEF DepInv
<1>9. LocksInv'
  BY <1>0, <1>4, <1>5 DEF LocksInv, IsLock, DepInv
<1> QED BY <1>0, <1>3, <1>7, <1>8, <1>9, UpdaterDep

LEMMA BindDep ==
  ASSUME LockInv, PolicyInv, KeptInv, EndsInv, DepInv, NEW c \in Procs, BindPolicy(c)
  PROVE  DepInv'
<1> DEFINE r == run[c]
           man == r.next.man
<1>0. /\ r.cmd \in Updaters /\ r.at = "bind" /\ UNCHANGED <<lock, active, journal, ctx>>
  BY DEF BindPolicy, At, files
<1>1. PICK p \in r.todo : /\ policy' = [policy EXCEPT ![p] = Rewritten(r.list[p], man)]
                          /\ run' = [run EXCEPT ![c].todo = r.todo \ {p}]
  BY DEF BindPolicy
<1>2. Ends(r) /\ Follows(r) /\ Lists(r)
  BY <1>0 DEF EndsInv, KeptInv, DepInv
<1>3. PICK pol : pol = r.list[p]
  OBVIOUS
<1>4. /\ IsPlanned(r) /\ DOMAIN r.list \subseteq Projects /\ p \in DOMAIN r.list /\ p \in Projects
      /\ IsPolicy(pol) /\ journal.projects = DOMAIN r.list
  BY <1>0, <1>1, <1>2, <1>3 DEF Follows, Ends, Carries, Carrying
<1>5. Only(c) /\ Kept(c) /\ run'[c].at = "bind"
  BY <1>0, <1>1, TodoKeeps
<1>6. SamePlan(c)
  BY <1>4, <1>5, SamePlanned
<1> HIDE DEF man
<1>7. Elsewhere(p) /\ Saved(p, Rewritten(pol, man))
  BY <1>0, <1>1, <1>3, <1>4, SavedOne
<1>8. Pending(p) => ctx[p].oldPolicy # None /\ pol.rev >= ctx[p].oldPolicy.rev
  BY <1>0, <1>2, <1>3, <1>4 DEF Ends, Planned
<1>9. MovesInv'
  BY <1>0, <1>4, <1>7, <1>8, NewerStays DEF DepInv
<1>10. OutsideInv'
  BY <1>0, <1>4, <1>7, SavedOutside DEF DepInv
<1>11. LocksInv'
  BY <1>0 DEF DepInv, LocksInv, Journaled
<1>12. IsActive' = IsActive
  BY <1>0 DEF IsActive, Usable, LockState, LegacyLock
<1>13. /\ \A q \in DOMAIN r.list : Moves(q, r.list[q]) => Rebound(q)
       /\ IsActive => r.sourceActive /\ r.base = lock
       /\ Listed \subseteq DOMAIN r.list /\ IsLock(r.next) /\ IsLock(r.base)
  BY <1>0, <1>2 DEF Lists, Planned
<1>14. Listed' \subseteq DOMAIN r.list
  BY <1>0, <1>4, <1>7, <1>13 DEF Elsewhere, Listed
<1>15. Lists(run[c])'
  BY <1>0, <1>5, <1>6, <1>12, <1>13, <1>14
  DEF Lists, SamePlan, Planned, Moves, Rebound, Pending, IsLock
<1> QED BY <1>0, <1>5, <1>9, <1>10, <1>11, <1>15, UpdaterDep

LEMMA DecideDep ==
  ASSUME LockInv, KeptInv, EndsInv, DepInv, NEW c \in Procs, Decide(c)
  PROVE  DepInv'
<1> DEFINE r == run[c]
<1>0. /\ r.cmd \in Updaters /\ r.at = "bind" /\ Goto(c, "save lock")
      /\ journal' = [journal EXCEPT !.phase = "commit-decided"]
      /\ UNCHANGED <<lock, active, policy, ctx>>
  BY DEF Decide, At, project
<1>1. Ends(r) /\ Lists(r)
  BY <1>0 DEF EndsInv, DepInv
<1>2. Carries(r)
  BY <1>0, <1>1 DEF Ends, Carrying
<1>3. Only(c) /\ SamePlan(c) /\ run'[c].at = "save lock"
  BY <1>0, <1>2, GotoKeeps, SamePlanned DEF Carries
<1>4. /\ journal'.projects = journal.projects /\ journal'.target = journal.target
      /\ journal'.source = journal.source
  BY <1>0 DEF EndsInv, IsJournal, NoJournal
<1>5. Listed \subseteq DOMAIN r.list /\ IsLock(r.next) /\ IsLock(r.base)
  BY <1>0, <1>1 DEF Lists, Planned
<1>6. MovesInv' /\ OutsideInv'
  BY <1>0, <1>2, <1>4, <1>5, StillMoves, NamedOutside DEF DepInv, Carries
<1>7. LocksInv'
  BY <1>0, <1>2, <1>4, <1>5 DEF LocksInv, IsLock, DepInv, Carries
<1>8. Lists(run[c])'
  BY <1>0, <1>3, <1>5 DEF Lists, SamePlan, Planned, Listed, IsLock
<1> QED BY <1>0, <1>3, <1>6, <1>7, <1>8, UpdaterDep

LEMMA SaveDep ==
  ASSUME LockInv, PolicyInv, EndsInv, DepInv, NEW c \in Procs, SaveLock(c) \/ SaveActive(c)
  PROVE  DepInv'
<1> DEFINE r == run[c]
<1>0. /\ r.cmd \in Updaters /\ UNCHANGED <<journal, policy, ctx>>
      /\ \/ r.at = "save lock" /\ lock' = r.next /\ Goto(c, "save active")
         \/ r.at = "save active" /\ lock' = lock /\ Goto(c, "commit end")
  BY DEF SaveLock, SaveActive, At, project
<1>1. Ends(r) /\ Lists(r)
  BY <1>0 DEF EndsInv, DepInv
<1>2. Carries(r) /\ \A p \in DOMAIN r.list : Bound(p, r.next.man)
  BY <1>0, <1>1 DEF Ends, Done
<1>3. Only(c) /\ SamePlan(c)
  BY <1>0, <1>2, GotoKeeps, SamePlanned DEF Carries
<1>4. run'[c].at \in {"save active", "commit end"}
  BY <1>0, GotoKeeps
<1>5. Listed \subseteq DOMAIN r.list /\ (r.at = "save lock" => IsLock(r.next))
  BY <1>0, <1>1 DEF Lists
<1>6. OutsideInv'
  BY <1>0, <1>2, <1>5, NamedOutside DEF Carries
<1>7. MovesInv'
  <2>1. \A p \in DOMAIN r.list : Pending(p) => policy[p] # ctx[p].oldPolicy
    BY <1>2 DEF Bound
  <2>2. \A p \in Projects \ DOMAIN r.list : policy[p] = None
    BY <1>5 DEF Listed
  <2> HIDE DEF r
  <2> QED BY <1>0, <2>1, <2>2, BoundStays
<1>8. LocksInv'
  BY <1>0, <1>5 DEF LocksInv, IsLock, DepInv, Journaled
<1>9. Lists(run[c])'
  BY <1>0, <1>3, <1>4, <1>5 DEF Lists, SamePlan, Planned, Listed
<1> QED BY <1>0, <1>3, <1>6, <1>7, <1>8, <1>9, UpdaterDep

LEMMA FailDep ==
  ASSUME LockInv, KeptInv, EndsInv, DepInv, NEW c \in Procs, CommitFails(c)
  PROVE  DepInv'
<1> DEFINE r == run[c]
<1>0. UNCHANGED <<lock, active, journal, policy, ctx>>
  BY DEF CommitFails, files, project
<1>1. /\ Only(c) /\ run'[c].at \in {"recover", "restore"}
      /\ r.cmd \in Updaters /\ r.at = "bind"
      /\ IsPlanned(r) => SamePlan(c) /\ run'[c].todo = DOMAIN r.list
  BY FailKeeps
<1>2. Carries(r) /\ Lists(r)
  BY <1>1 DEF EndsInv, DepInv, Ends, Carrying
<1>3. SamePlan(c) /\ run'[c].todo = DOMAIN r.list /\ journal.projects = DOMAIN r.list
  BY <1>1, <1>2 DEF Carries
<1>4. /\ \A p \in DOMAIN r.list : Moves(p, r.list[p]) => Rebound(p)
      /\ IsActive => r.sourceActive /\ r.base = lock
      /\ Listed \subseteq DOMAIN r.list /\ IsLock(r.next) /\ IsLock(r.base)
  BY <1>1, <1>2 DEF Lists, Planned
<1>5. IsActive' = IsActive /\ Listed' = Listed
  BY <1>0 DEF IsActive, Usable, LockState, LegacyLock, Listed
<1>6. Lists(run[c])'
  <2>1. CASE run'[c].at = "recover"
    BY <1>0, <1>3, <2>1 DEF Lists, Planned
  <2>2. CASE run'[c].at = "restore"
    <3>1. \A p \in DOMAIN run'[c].list : Moves(p, run[c].list[p])' => Rebound(p)'
      BY <1>0, <1>3, <1>4, <1>5 DEF SamePlan, Moves, Rebound, Pending
    <3>2. IsActive' => run'[c].sourceActive /\ run'[c].base = lock'
      BY <1>0, <1>3, <1>4, <1>5 DEF SamePlan
    <3>3. /\ Listed' \subseteq DOMAIN run'[c].list
          /\ IsLock(run[c].next)' /\ IsLock(run[c].base)'
      BY <1>3, <1>4, <1>5 DEF SamePlan, IsLock
    <3> QED BY <2>2, <3>1, <3>2, <3>3 DEF Lists, Planned
  <2> QED BY <1>1, <2>1, <2>2
<1> QED BY <1>0, <1>1, <1>6, QuietDep

LEMMA RestorePolicyDep ==
  ASSUME LockInv, PolicyInv, KeptInv, EndsInv, DepInv, NEW c \in Procs, RestorePolicy(c)
  PROVE  DepInv'
<1> DEFINE r == run[c]
<1>0. /\ r.cmd \in Updaters /\ r.at = "restore" /\ UNCHANGED <<lock, active, journal, ctx>>
  BY DEF RestorePolicy, At, files
<1>1. PICK p \in r.todo : /\ policy' = [policy EXCEPT ![p] = r.list[p]]
                          /\ run' = [run EXCEPT ![c].todo = r.todo \ {p}]
  BY DEF RestorePolicy
<1>2. Ends(r) /\ Follows(r) /\ Lists(r)
  BY <1>0 DEF EndsInv, KeptInv, DepInv
<1>3. PICK pol : pol = r.list[p]
  OBVIOUS
<1>4. /\ IsPlanned(r) /\ DOMAIN r.list \subseteq Projects /\ p \in DOMAIN r.list /\ p \in Projects
      /\ journal.projects = DOMAIN r.list
  BY <1>0, <1>1, <1>2, <1>3 DEF Follows, Ends, Carries, Carrying
<1>5. Only(c) /\ Kept(c) /\ run'[c].at = "restore"
  BY <1>0, <1>1, TodoKeeps
<1>6. SamePlan(c)
  BY <1>4, <1>5, SamePlanned
<1>7. Elsewhere(p) /\ Saved(p, pol)
  BY <1>0, <1>1, <1>3, <1>4, SavedOne
<1>8. IsActive' = IsActive
  BY <1>0 DEF IsActive, Usable, LockState, LegacyLock
<1>9. /\ \A q \in DOMAIN r.list : Moves(q, r.list[q]) => Rebound(q)
      /\ IsActive => r.sourceActive /\ r.base = lock
      /\ Listed \subseteq DOMAIN r.list /\ IsLock(r.next) /\ IsLock(r.base)
  BY <1>0, <1>2 DEF Lists, Planned
<1>10. MovesInv'
  <2>1. \A q \in Projects \ {p} : MovesWell(q)'
    BY <1>0, <1>7, <1>8 DEF Elsewhere, DepInv, MovesInv, MovesWell, Moves, Rebound, Pending
  <2>2. Moves(p, pol) => Rebound(p)
    BY <1>3, <1>4, <1>9
  <2>3. MovesWell(p)'
    BY <1>0, <1>7, <1>8, <2>2 DEF Saved, MovesWell, Moves, Rebound, Pending
  <2> QED BY <2>1, <2>3 DEF MovesInv
<1>11. OutsideInv'
  BY <1>0, <1>4, <1>7, SavedOutside DEF DepInv
<1>12. LocksInv'
  BY <1>0 DEF DepInv, LocksInv, Journaled
<1>13. Listed' \subseteq DOMAIN r.list
  BY <1>0, <1>4, <1>7, <1>9 DEF Elsewhere, Listed
<1>14. Lists(run[c])'
  BY <1>0, <1>5, <1>6, <1>8, <1>9, <1>13
  DEF Lists, SamePlan, Planned, Moves, Rebound, Pending, IsLock
<1> QED BY <1>0, <1>5, <1>10, <1>11, <1>12, <1>14, UpdaterDep

LEMMA RestoreLockDep ==
  ASSUME LockInv, EndsInv, DepInv, NEW c \in Procs, RestoreLock(c)
  PROVE  DepInv'
<1> DEFINE r == run[c]
<1>0. /\ r.cmd \in Updaters /\ r.at = "restore" /\ Goto(c, "restore active")
      /\ lock' = (IF r.sourceActive THEN r.base ELSE None)
      /\ UNCHANGED <<active, journal, policy, ctx>>
  BY DEF RestoreLock, At, project
<1>1. Ends(r) /\ Lists(r)
  BY <1>0 DEF EndsInv, DepInv
<1>2. Only(c) /\ run'[c].at = "restore active"
  BY <1>0, GotoKeeps
<1>3. Carries(r) /\ ~Decided
  BY <1>0, <1>1 DEF Ends, Carrying
<1>4. (IsActive => r.sourceActive /\ r.base = lock) /\ IsLock(r.base)
  BY <1>0, <1>1 DEF Lists, Planned
<1>5. IsActive => lock' = lock /\ IsActive'
  BY <1>0, <1>4 DEF IsActive, Usable, LockState, LegacyLock
<1>6. MovesInv'
  BY <1>0, <1>5 DEF DepInv, MovesInv, MovesWell, Moves, Rebound, Pending
<1>7. lock' = Final'
  BY <1>0, <1>3 DEF Carries, Final, Activated, Chosen, Decided
<1>8. OutsideInv'
  BY <1>7 DEF OutsideInv
<1>9. LocksInv'
  BY <1>0, <1>4 DEF DepInv, LocksInv, IsLock, Journaled
<1>10. Lists(run[c])'
  BY <1>2 DEF Lists, Planned
<1> QED BY <1>0, <1>2, <1>6, <1>8, <1>9, <1>10, UpdaterDep

LEMMA RestoreActivationDep ==
  ASSUME LockInv, EndsInv, DepInv, NEW c \in Procs, RestoreActivation(c)
  PROVE  DepInv'
<1> DEFINE r == run[c]
<1>0. /\ r.cmd \in Updaters /\ r.at = "restore active" /\ End(c)
      /\ active' = (IF r.sourceActive THEN r.base ELSE None)
      /\ UNCHANGED <<lock, journal, policy, ctx>>
  BY DEF RestoreActivation, At, project
<1>1. Ends(r)
  BY <1>0 DEF EndsInv
<1>2. Only(c) /\ run'[c].cmd = "none"
  <2>1. Only(c) /\ run'[c] = Idle
    BY <1>0, EndKeeps
  <2> QED BY <2>1 DEF Idle
<1>3. Carries(r) /\ ~Decided /\ lock = Final
  BY <1>0, <1>1 DEF Ends, Carrying
<1>4. active' = lock'
  BY <1>0, <1>3 DEF Carries, Final, Activated, Chosen, Decided
<1>5. IsActive => IsActive'
  BY <1>0, <1>4 DEF IsActive, Usable, LockState, LegacyLock
<1>6. MovesInv'
  BY <1>0, <1>5 DEF DepInv, MovesInv, MovesWell, Moves, Rebound, Pending
<1>7. lock' = Final'
  BY <1>0, <1>3 DEF Final, Activated, Chosen, Decided
<1>8. OutsideInv'
  BY <1>7 DEF OutsideInv
<1>9. LocksInv'
  BY <1>0 DEF DepInv, LocksInv, IsLock, Journaled
<1>10. run'[c].cmd \notin Updaters
  BY <1>2 DEF Updaters
<1> QED BY <1>0, <1>2, <1>6, <1>8, <1>9, <1>10, UpdaterDep

LEMMA UpdateDep ==
  ASSUME LockInv, KeptInv, EndsInv, DepInv, NEW c \in Procs, Update(c)
  PROVE  DepInv'
<1>0. PolicyInv
  BY DEF KeptInv
<1>1. ASSUME NEW cmd \in Updaters, BeginUpdater(c, cmd) PROVE DepInv'
  <2> DEFINE r == [cmd |-> cmd, at |-> "recover", todo |-> journal.projects, undo |-> FALSE]
  <2>1. Begin(c, r) /\ ex = None /\ UNCHANGED <<lock, active, journal, policy, ctx>>
    BY <1>1 DEF BeginUpdater, MayExclude, files, project
  <2>2. r.at = "recover" /\ r.todo = journal.projects
    OBVIOUS
  <2> HIDE DEF r
  <2>3. Only(c) /\ run'[c] = r
    BY <2>1, BeginKeeps
  <2>4. Lists(run[c])'
    BY <2>1, <2>2, <2>3 DEF Lists, Planned
  <2>5. \A d \in Procs : run[d].cmd \notin Updaters
    BY <2>1, SharedAlone DEF MayShare
  <2>6. \A d \in Procs : run'[d].cmd \in Updaters => d = c
    BY <2>3, <2>5 DEF Only
  <2>7. MovesInv'
    BY <2>1, StillMoves DEF DepInv
  <2>8. Final' = Final /\ Journaled' = Journaled
    BY <2>1 DEF Final, Activated, Chosen, Decided, Journaled
  <2>9. OutsideInv' /\ LocksInv'
    BY <2>1, <2>8 DEF OutsideInv, Attached, LocksInv, DepInv
  <2> QED BY <2>4, <2>6, <2>7, <2>9 DEF DepInv
<1>2. CASE SetupDeclares(c)
  <2>1. /\ UNCHANGED <<run, lock, active, journal, policy, ctx>> /\ run[c].cmd \in Updaters
        /\ run[c].at = "plan"
    BY <1>2 DEF SetupDeclares, project, At, Updaters
  <2>2. Only(c) /\ Lists(run[c])'
    BY <2>1 DEF Only, Lists, Planned
  <2> QED BY <2>1, <2>2, QuietDep
<1> QED BY <1>0, <1>1, <1>2, PlainDep, RecoverPolicyDep, ActivateDep, PlanDep, PrepareDep,
           BindDep, DecideDep, SaveDep, FailDep, RestorePolicyDep, RestoreLockDep,
           RestoreActivationDep
        DEF Update, Recovery

LEMMA NextDep ==
  LockInv /\ KeptInv /\ EndsInv /\ OwnedInv /\ DepInv /\ [Next]_vars => DepInv'
<1> SUFFICES ASSUME LockInv, KeptInv, EndsInv, OwnedInv, DepInv, [Next]_vars
             PROVE  DepInv'
  OBVIOUS
<1>0. PolicyInv /\ RevInv
  BY DEF KeptInv, EndsInv
<1>1. ASSUME NEW c \in Procs, Configure(c) PROVE DepInv'
  <2>1. Only(c) /\ run'[c].cmd \notin Updaters /\ UNCHANGED <<lock, active, journal>>
    BY <1>1, ConfigureKeeps DEF Commands, files
  <2> QED BY <1>0, <1>1, <2>1, ConfigureWrites, CommandDep
<1>2. ASSUME NEW c \in Procs, Check(c) \/ Refuse(c) \/ Crash(c) PROVE DepInv'
  <2>1. UNCHANGED <<policy, ctx, lock, active, journal>>
    BY <1>2 DEF Check, BeginCheck, Download, SaveCandidate, PruneArtifacts, CheckFails,
                Refuse, Crash, project, files
  <2>2. Only(c) /\ run'[c].cmd \notin Updaters
    BY <1>2, CheckKeeps, RefuseKeeps DEF Idle, Updaters
  <2>3. \A p \in Projects : Mild(p)
    BY <2>1 DEF Mild, Same
  <2> QED BY <1>0, <2>1, <2>2, <2>3, CommandDep
<1>3. ASSUME NEW c \in Procs, Update(c) PROVE DepInv'
  BY <1>3, UpdateDep
<1>4. CASE Alone \/ UNCHANGED vars
  <2>1. (\A p \in Projects : Mild(p)) /\ UNCHANGED <<run, lock, active, journal>>
    BY <1>0, <1>4, AloneMild, AloneLocks DEF vars, files, project, Mild, Same
  <2>2. LocksInv'
    BY <2>1 DEF DepInv, LocksInv, Journaled
  <2>3. MovesInv'
    <3>1. ASSUME NEW p \in Projects PROVE MovesWell(p)'
      <4>1. MovesWell(p) /\ Mild(p)
        BY <2>1 DEF DepInv, MovesInv
      <4>2. PICK pol : pol = policy[p]
        OBVIOUS
      <4>3. Moves(p, pol)' => Rebound(p)'
        BY <1>0, <2>1, <4>1, <4>2, MildMoves DEF MovesWell
      <4>4. ctx'[p] # None => policy'[p] = pol
        BY <1>0, <2>1, <4>1, <4>2, MildMoves DEF MovesWell
      <4> QED BY <4>3, <4>4 DEF MovesWell, Moves, Pending
    <3> QED BY <3>1 DEF MovesInv
  <2>4. OutsideInv'
    <3>1. Final' = Final /\ Journaled' = Journaled
      BY <2>1 DEF Final, Activated, Chosen, Decided, Journaled
    <3> QED BY <1>0, <2>1, <3>1, MildAttached DEF DepInv, OutsideInv
  <2>5. ASSUME NEW d \in Procs, run'[d].cmd \in Updaters PROVE Lists(run[d])'
    BY <1>0, <2>1, <2>5, MildLists DEF KeptInv, DepInv
  <2> QED BY <2>2, <2>3, <2>4, <2>5 DEF DepInv
<1> QED BY <1>1, <1>2, <1>3, <1>4 DEF Next, Alone

LEMMA InitDep == Init => DepInv
<1> SUFFICES ASSUME Init PROVE DepInv OBVIOUS
<1>1. journal = NoJournal /\ ctx = [p \in Projects |-> None]
  BY DEF Init
<1>2. \A c \in Procs : run[c].cmd \notin Updaters
  BY DEF Init, Idle, Updaters
<1>3. lock # None => IsLock(lock)
  BY DEF Init, Installed, IsLock
<1> QED BY <1>1, <1>2, <1>3 DEF DepInv, LocksInv, MovesInv, MovesWell, OutsideInv, Moves,
           Pending, Journaled

\* Only an update moves a policy to another manifest: any other command binds
\* what it writes to the active lock.
LEMMA BindsToActive ==
  ASSUME LockInv, KeptInv, EndsInv, OwnedInv, DepInv, [Next]_vars, ex = None,
         NEW p \in Projects, policy[p] # None, policy'[p] # None,
         policy'[p].dep # policy[p].dep
  PROVE  IsActive /\ policy'[p].dep = lock.man
<1>0. PolicyInv /\ RevInv
  BY DEF KeptInv, EndsInv
<1>1. ASSUME Recovered(p) PROVE IsActive /\ policy'[p].dep = lock.man
  <2>1. /\ Pending(p) /\ policy[p] = ctx[p].oldPolicy /\ policy'[p] = ctx[p].newPolicy
    BY <1>0, <1>1, RecoveredIs
  <2> QED BY <2>1 DEF DepInv, MovesInv, MovesWell, Moves, Rebound
<1>2. ASSUME Mild(p) PROVE IsActive /\ policy'[p].dep = lock.man
  BY <1>1, <1>2 DEF Mild, Same, Removed, Ended, Renamed, Loaded
<1>3. ASSUME NEW c \in Procs, Writes(p, c) PROVE IsActive /\ policy'[p].dep = lock.man
  <2>1. CASE \E pol : Opened(p, c, pol)
    BY <1>1, <2>1 DEF Opened
  <2>2. CASE Saves(p, c) /\ ~(\E pol : Opened(p, c, pol))
    <3>1. At(c, {"apply", "edit"}, "save")
          /\ policy'[p] = Compiled(run[c].seen.pol, lock.man, run[c].new)
      BY <2>2 DEF Saves, Saved
    <3>2. IsActive
      BY <3>1 DEF OwnedInv, Owns
    <3> QED BY <3>1, <3>2 DEF Compiled
  <2>3. CASE Finishes(p, c) /\ run[c].p = p
    <3>1. /\ Writing(run[c]) /\ ctx[p].by = c
          /\ ctx[p] # None /\ ctx[p].done = 1 /\ policy'[p] = ctx[p].newPolicy
      BY <2>3 DEF Finishes, Replaced, Moved, At, Writing
    <3>2. Pending(p)
      BY <3>1 DEF Pending
    <3>3. policy[p] = ctx[p].oldPolicy
      BY <2>3, <3>1, <3>2 DEF OwnedInv, Owns
    <3> QED BY <3>1, <3>2, <3>3 DEF DepInv, MovesInv, MovesWell, Moves, Rebound
  <2> QED BY <1>3, <2>1, <2>2, <2>3 DEF Writes, Rebinds, Begins
<1>4. ASSUME NEW c \in Procs, Configure(c) PROVE IsActive /\ policy'[p].dep = lock.man
  BY <1>0, <1>2, <1>3, <1>4, ConfigureWrites
<1>5. ASSUME NEW c \in Procs, Check(c) \/ Refuse(c) \/ Crash(c) PROVE FALSE
  <2>1. policy' = policy
    BY <1>5 DEF Check, BeginCheck, Download, SaveCandidate, PruneArtifacts, CheckFails,
                Refuse, Crash, project, files
  <2> QED BY <2>1
<1>6. ASSUME NEW c \in Procs, Update(c) PROVE FALSE
  <2>1. run[c].cmd \notin Updaters
    BY ConfigurationAssumption DEF LockInv
  <2>2. \E cmd \in Updaters : BeginUpdater(c, cmd)
    BY <1>6, <2>1
    DEF Update, Recovery, RecoverNothing, RecoverPolicy, RecoverRefused, RecoverLock,
        RecoverActive, RecoverEnd, PlanUpdate, SetupDeclares, PlanSetup, Prepare,
        BindPolicy, Decide, SaveLock, SaveActive, CommitEnd, ClearArtifacts,
        ClearCandidate, CommitFails, RestorePolicy, RestoreLock, RestoreActivation, At, Updaters
  <2>3. policy' = policy
    BY <2>2 DEF BeginUpdater, project
  <2> QED BY <2>3
<1>7. CASE Alone
  BY <1>0, <1>2, <1>7, AloneMild
<1>8. CASE UNCHANGED vars
  BY <1>8 DEF vars, project
<1> QED BY <1>4, <1>5, <1>6, <1>7, <1>8 DEF Next, Alone

-----------------------------------------------------------------------------
(* What happens to a Project under a configuration lock *)

Live(p) == Pending(p) /\ ctx[p].oldPolicy # None

\* An init takes no configuration lock: it begins where there is nothing, and
\* ends there.
Registers(p) ==
  /\ policy[p] = None /\ ctx[p] = None /\ policy'[p] = None /\ ctx'[p] # None
  /\ ctx'[p].oldPolicy = None /\ ctx'[p].newPolicy = NewPolicy(lock.man) /\ lock # None
Lands(p) ==
  /\ Replaced(p) /\ policy[p] = ctx[p].oldPolicy /\ Pending(p) /\ ~Pending(p)'

Tame(p) == Same(p) \/ Removed(p) \/ Ended(p) \/ Renamed(p) \/ Registers(p) \/ Lands(p)

LEMMA Guarded ==
  ASSUME PolicyInv, CfgInv, OwnedInv, NEW c \in Procs, NEW d \in Procs \ {c},
         NEW p \in Projects, cfg[p] = d, Mild(p) \/ Writes(p, c)
  PROVE  Tame(p)
<1>1. CASE Mild(p)
  BY <1>1, ConfigurationAssumption DEF Mild, ConfigFree, Tame
<1>2. CASE run[c].p = p /\ (Saves(p, c) \/ Rebinds(p, c))
  <2>1. Configures(run[c])
    BY <1>2 DEF Saves, Rebinds, At, Configures
  <2> QED BY <1>2, <2>1 DEF CfgInv
<1>3. CASE run[c].p = p /\ Finishes(p, c)
  <2>1. /\ Writing(run[c]) /\ ctx[p].by = c /\ Replaced(p)
        /\ ctx[p] # None /\ ctx[p].done = 1 /\ ctx'[p].done = 1 + 1
    BY <1>3 DEF Finishes, Replaced, Moved, At, Writing
  <2>2. Pending(p) /\ ~Pending(p)'
    BY <2>1 DEF Pending
  <2>3. policy[p] = ctx[p].oldPolicy
    BY <1>3, <2>1, <2>2 DEF OwnedInv, Owns
  <2> QED BY <2>1, <2>2, <2>3 DEF Tame, Lands
<1>4. CASE Begins(p, c)
  <2>1. /\ policy[p] = None /\ ctx[p] = None /\ lock # None /\ Recovered(p)
        /\ ctx'[p].oldPolicy = policy'[p] /\ ctx'[p].newPolicy = NewPolicy(lock.man)
    BY <1>4 DEF Begins, Opened, IsActive, Usable, LockState
  <2>2. policy'[p] = None
    BY <2>1, AfterIs DEF Recovered
  <2>3. ctx'[p] # None \/ Ended(p)
    BY <2>1, <2>2 DEF Ended
  <2> QED BY <2>1, <2>2, <2>3 DEF Tame, Registers
<1> QED BY <1>1, <1>2, <1>3, <1>4 DEF Writes

\* Under that lock no transaction appears over a policy.
LEMMA TameLive ==
  ASSUME NEW p \in Projects, Tame(p), ~Live(p)
  PROVE  ~Live(p)'
<1>1. CASE Same(p) \/ Removed(p) \/ Ended(p)
  BY <1>1 DEF Same, Removed, Ended, Live, Pending
<1>2. CASE Renamed(p)
  <2>1. /\ ctx[p] # None /\ ctx[p].done = 0 /\ ctx'[p].oldPolicy = ctx[p].oldPolicy
    BY <1>2 DEF Renamed, Moved
  <2>2. Pending(p)
    BY <2>1 DEF Pending
  <2> QED BY <2>1, <2>2 DEF Live
<1>3. CASE Registers(p) \/ Lands(p)
  BY <1>3 DEF Registers, Lands, Live
<1> QED BY <1>1, <1>2, <1>3 DEF Tame

\* The places under the configuration lock where a command relies on what it
\* has read.
Settles(r) ==
  \/ r.cmd = "edit" /\ r.at \in {"plan", "save"}
  \/ r.cmd = "policy" /\ r.at = "bind"
  \/ r.cmd = "start" /\ r.at = "boot"
Relies(r) == Settles(r) \/ (r.cmd = "apply" /\ r.at = "save")

LEMMA ReliesHolds ==
  ASSUME PolicyInv, CfgInv, NEW d \in Procs, Relies(run[d])
  PROVE  run[d].p \in Projects /\ cfg[run[d].p] = d
BY DEF Relies, Settles, PolicyInv, IsCommand, Readers, CfgInv, Configures

\* The steps that lead there.
LEMMA ReliesBegins ==
  ASSUME LockInv, PolicyInv, NEW c \in Procs, Configure(c), Relies(run'[c])
  PROVE  \/ PlanChange(c) \/ LockForEdit(c)
         \/ \E p \in Projects : BeginStart(c, p)
         \/ \E p \in Projects, new \in Settings :
              ChangePolicy(c, p, new) /\ (SameShape(p, new) \/ NoVMOf(p))
<1>1. ASSUME NEW p \in Projects, NEW new \in Settings, NEW cmd \in {"apply", "edit"},
             LoadForChange(c, p, cmd, new)
      PROVE  FALSE
  <2>1. run'[c].at = "lock"
    BY <1>1, LoadForChangeDeed
  <2> QED BY <2>1 DEF Relies, Settles
<1>2. ASSUME NEW p \in Projects, BeginInit(c, p) \/ BeginDestroy(c, p) PROVE FALSE
  <2>1. BeginInit(c, p) => run'[c].at = "write"
    BY InitDeed
  <2>2. ASSUME BeginDestroy(c, p) PROVE run'[c].at = "state"
    <3>1. Begin(c, [cmd |-> "destroy", at |-> "state", p |-> p])
      BY <2>2 DEF BeginDestroy
    <3> QED BY <3>1, BeginKeeps
  <2>3. run'[c].at \in {"write", "state"}
    BY <1>2, <2>1, <2>2
  <2> QED BY <2>3 DEF Relies, Settles
<1>3. ASSUME End(c) PROVE FALSE
  <2>1. run'[c].cmd = "none"
    BY <1>3, IdleCommand DEF Idle
  <2> QED BY <2>1 DEF Relies, Settles
<1>4. ASSUME NEW at \in {"write", "write policy", "write end", "config"}, Goto(c, at)
      PROVE  FALSE
  <2>1. run'[c].at = at
    BY <1>4, GotoKeeps
  <2> QED BY <1>4, <2>1 DEF Relies, Settles
<1>5. CASE LockForApply(c)
  <2>1. run[c].cmd = "apply" /\ Goto(c, "plan")
    BY <1>5 DEF LockForApply, TakeConfigLock, At
  <2>2. run'[c].cmd = "apply" /\ run'[c].at = "plan"
    BY <2>1, GotoKeeps
  <2> QED BY <2>2 DEF Relies, Settles
<1>6. CASE SaveChange(c) \/ SavePolicyAndConfig(c)
  BY <1>3, <1>4, <1>6, SaveDeed, SavePolicyDeed
<1>7. CASE RenameConf(c) \/ RenamePolicy(c)
  BY <1>4, <1>7, RenameDeed
<1>8. CASE DestroyState(c)
  BY <1>4, <1>8 DEF DestroyState
<1>9. CASE EndWrite(c) \/ WriteFails(c) \/ Boot(c) \/ DestroyConfig(c)
  <2>1. End(c)
    <3>1. EndWrite(c) \/ Boot(c) \/ DestroyConfig(c) => End(c)
      BY DEF EndWrite, Boot, DestroyConfig
    <3>2. WriteFails(c) => End(c)
      BY DEF WriteFails
    <3> QED BY <1>9, <3>1, <3>2
  <2> QED BY <1>3, <2>1
<1> QED BY <1>1, <1>2, <1>5, <1>6, <1>7, <1>8, <1>9
        DEF Configure, ModelPolicy, GitPolicy, WebPolicy, SetMode

\* Nothing is pending over the policy such a command has read.
SettledInv == \A c \in Procs : Settles(run[c]) => ~Live(run[c].p)

LEMMA SettledStays ==
  ASSUME PolicyInv, CfgInv, OwnedInv, SettledInv, NEW c \in Procs, NEW d \in Procs \ {c},
         run'[d] = run[d], \A p \in Projects : Mild(p) \/ Writes(p, c), Settles(run'[d])
  PROVE  ~Live(run[d].p)'
<1>1. PICK p : p = run[d].p
  OBVIOUS
<1>2. p \in Projects /\ cfg[p] = d
  BY <1>1, ReliesHolds DEF Relies
<1>3. ~Live(p)
  BY <1>1 DEF SettledInv
<1>4. ~Live(p)'
  BY <1>2, <1>3, Guarded, TameLive
<1> QED BY <1>1, <1>4

LEMMA SettledMoves ==
  ASSUME LockInv, PolicyInv, SettledInv, NEW c \in Procs, Configure(c), Settles(run'[c])
  PROVE  ~Live(run[c].p)'
<1>1. ASSUME NEW p \in Projects, (\E new \in Settings : ChangePolicy(c, p, new)) \/ BeginStart(c, p)
      PROVE  ~Live(run[c].p)'
  <2>1. Loaded(p) /\ run'[c].p = p
    BY <1>1, ChangePolicyDeed, StartDeed
  <2> QED BY <2>1 DEF Loaded, Live, Pending
<1>2. CASE LockForEdit(c)
  <2>1. PICK p : p = run[c].p
    OBVIOUS
  <2>2. Loaded(p) /\ Goto(c, "plan") /\ run[c].cmd = "edit"
    BY <1>2, <2>1, LockEditDeed DEF At
  <2>3. run'[c].p = p
    BY <2>1, <2>2, GotoCommand DEF Readers
  <2> QED BY <2>2, <2>3 DEF Loaded, Live, Pending
<1>3. CASE PlanChange(c)
  <2>1. /\ run[c].cmd \in {"apply", "edit"} /\ run[c].at = "plan" /\ Goto(c, "save")
        /\ UNCHANGED ctx
    BY <1>3 DEF PlanChange, At, project
  <2>2. run'[c].p = run[c].p /\ run'[c].cmd = run[c].cmd /\ run'[c].at = "save"
    BY <2>1, GotoCommand DEF Readers
  <2>3. Settles(run[c])
    BY <2>1, <2>2 DEF Settles
  <2> QED BY <2>1, <2>2, <2>3 DEF SettledInv, Live, Pending
<1> QED BY <1>1, <1>2, <1>3, ReliesBegins DEF Relies

LEMMA NextSettled ==
  LockInv /\ PolicyInv /\ CfgInv /\ OwnedInv /\ SettledInv /\ [Next]_vars => SettledInv'
<1> SUFFICES ASSUME LockInv, PolicyInv, CfgInv, OwnedInv, SettledInv, [Next]_vars
             PROVE  SettledInv'
  OBVIOUS
<1>1. ASSUME NEW c \in Procs, Configure(c) PROVE SettledInv'
  <2>1. \A d \in Procs \ {c} : Settles(run'[d]) => ~Live(run[d].p)'
    BY <1>1, ConfigureKeeps, ConfigureWrites, SettledStays DEF Only
  <2> QED BY <1>1, <2>1, SettledMoves DEF SettledInv
<1>2. ASSUME NEW c \in Procs, Check(c) \/ Refuse(c) \/ Crash(c) \/ Update(c) PROVE SettledInv'
  <2>1. ctx' = ctx
    BY <1>2 DEF Check, BeginCheck, Download, SaveCandidate, PruneArtifacts, CheckFails,
                Refuse, Crash, project, files,
                Update, Recovery, BeginUpdater, RecoverNothing, RecoverPolicy, RecoverRefused,
                RecoverLock, RecoverActive, RecoverEnd, PlanUpdate, SetupDeclares, PlanSetup,
                Prepare, BindPolicy, Decide, SaveLock, SaveActive, CommitEnd, ClearArtifacts,
                ClearCandidate, CommitFails, RestorePolicy, RestoreLock, RestoreActivation
  <2>2. Only(c) /\ run'[c].cmd \in Updaters \cup {"check", "none"}
    BY <1>2, CheckKeeps, RefuseKeeps, UpdateCommand DEF Idle
  <2>3. ~Settles(run'[c])
    BY <2>2 DEF Settles, Updaters
  <2> QED BY <2>1, <2>2, <2>3 DEF SettledInv, Live, Pending, Only
<1>3. CASE Alone \/ UNCHANGED vars
  <2>1. UNCHANGED <<run>> /\ \A p \in Projects : Mild(p)
    BY <1>3, AloneMild, AloneLocks DEF vars, files, project, Mild, Same
  <2>2. ASSUME NEW d \in Procs, Settles(run'[d]) PROVE ~Live(run[d].p)'
    <3>1. PICK p : p = run[d].p
      OBVIOUS
    <3>2. p \in Projects /\ cfg[p] = d
      BY <2>1, <2>2, <3>1, ReliesHolds DEF Relies
    <3>3. ~Live(p) /\ Mild(p)
      BY <2>1, <2>2, <3>1, <3>2 DEF SettledInv
    <3>4. Tame(p)
      BY <3>2, <3>3, ConfigurationAssumption DEF Mild, ConfigFree, Tame
    <3>5. ~Live(p)'
      BY <3>2, <3>3, <3>4, TameLive
    <3> QED BY <2>1, <3>1, <3>5
  <2> QED BY <2>2 DEF SettledInv
<1> QED BY <1>1, <1>2, <1>3 DEF Next, Alone

LEMMA InitSettled == Init => SettledInv
<1> SUFFICES ASSUME Init PROVE SettledInv OBVIOUS
<1>1. \A c \in Procs : run[c].cmd = "none"
  BY DEF Init, Idle
<1> QED BY <1>1 DEF SettledInv, Settles

-----------------------------------------------------------------------------
(* The VMs *)

IsVMs == vm = [p \in Projects |-> vm[p]]

\* An updater that has looked for VMs, and has not ended.
Clear(r) == r.cmd \in Updaters /\ r.at \in Planned \cup {"save lock", "save active"}
ClearInv == IsVMs /\ \A c \in Procs : Clear(run[c]) => NoVM

\* A VM stays as it is, or goes.
Drops == IsVMs' /\ \A p \in Projects : vm'[p] \in {vm[p], None}

LEMMA BootDeed ==
  ASSUME LockInv, PolicyInv, ClearInv, NEW c \in Procs, Boot(c)
  PROVE  LET p == run[c].p
             seen == run[c].seen.pol
         IN  /\ At(c, {"start"}, "boot") /\ p \in Projects /\ BoundToActive(seen) /\ ex = None
             /\ vm'[p].dep = seen.dep /\ vm'[p].shape = Shape[seen.conf]
             /\ IsVMs' /\ \A q \in Projects \ {p} : vm'[q] = vm[q]
             /\ Only(c) /\ run'[c] = Idle /\ UNCHANGED <<files, project>>
<1> DEFINE p == run[c].p
           seen == run[c].seen.pol
           v == [dep |-> seen.dep, shape |-> Shape[seen.conf]]
<1>1. /\ At(c, {"start"}, "boot") /\ BoundToActive(seen) /\ vm' = [vm EXCEPT ![p] = v]
      /\ End(c) /\ UNCHANGED <<files, project>>
  BY DEF Boot
<1>2. p \in Projects
  BY <1>1 DEF PolicyInv, IsCommand, At, Readers
<1>3. ex = None
  BY <1>1 DEF LockInv, Shares, At
<1>4. v.dep = seen.dep /\ v.shape = Shape[seen.conf]
  OBVIOUS
<1> HIDE DEF p, v
<1>5. IsVMs' /\ vm'[p] = v /\ \A q \in Projects \ {p} : vm'[q] = vm[q]
  BY <1>1, <1>2 DEF ClearInv, IsVMs
<1> QED BY <1>1, <1>2, <1>3, <1>4, <1>5, EndKeeps DEF p

LEMMA ConfigureVMs ==
  ASSUME LockInv, NEW c \in Procs, Configure(c), ~Boot(c)
  PROVE  vm' = vm
<1>1. ASSUME NEW p \in Projects, NEW new \in Settings,
             \/ \E cmd \in {"apply", "edit"} : LoadForChange(c, p, cmd, new)
             \/ ChangePolicy(c, p, new)
      PROVE  vm' = vm
  BY <1>1 DEF LoadForChange, ChangePolicy, vms
<1>2. ASSUME NEW p \in Projects, BeginInit(c, p) \/ BeginStart(c, p) \/ BeginDestroy(c, p)
      PROVE  vm' = vm
  BY <1>2 DEF BeginInit, BeginStart, BeginDestroy, vms
<1>3. CASE LockForApply(c) \/ LockForEdit(c) \/ PlanChange(c) \/ SaveChange(c)
  BY <1>3 DEF LockForApply, LockForEdit, TakeConfigLock, PlanChange, SaveChange, vms
<1>4. CASE SavePolicyAndConfig(c) \/ RenameConf(c) \/ RenamePolicy(c) \/ EndWrite(c)
  BY <1>4 DEF SavePolicyAndConfig, RenameConf, RenamePolicy, EndWrite, vms
<1>5. CASE WriteFails(c) \/ DestroyState(c) \/ DestroyConfig(c)
  BY <1>5 DEF WriteFails, DestroyState, DestroyConfig, vms
<1> QED BY <1>1, <1>2, <1>3, <1>4, <1>5
        DEF Configure, ModelPolicy, GitPolicy, WebPolicy, SetMode

LEMMA StillVMs ==
  ASSUME ClearInv, vm' = vm
  PROVE  Drops
BY DEF ClearInv, IsVMs, Drops

LEMMA OtherDrops ==
  ASSUME LockInv, ClearInv,
         \/ Alone \/ UNCHANGED vars
         \/ \E c \in Procs : Check(c) \/ Refuse(c) \/ Crash(c) \/ Update(c)
  PROVE  Drops
<1>1. ASSUME NEW p \in Projects, DropVM(p) \/ (\E left \in BOOLEAN : SupervisorEnds(p, left))
      PROVE  Drops
  <2>1. PICK v \in {vm[p], None} : vm' = [vm EXCEPT ![p] = v]
    BY <1>1 DEF DropVM, SupervisorEnds
  <2>2. IsVMs' /\ \A q \in Projects : vm'[q] \in {vm[q], None}
    BY <2>1 DEF ClearInv, IsVMs
  <2> QED BY <2>2 DEF Drops
<1>2. CASE Alone /\ ~(\E p \in Projects : DropVM(p) \/ \E left \in BOOLEAN : SupervisorEnds(p, left))
  <2>1. vm' = vm
    BY <1>2 DEF Alone, SetVersion, EditVersions, Expire, Look, LookFails, ImportGitignore,
                EditConfig, vms
  <2> QED BY <2>1, StillVMs
<1>3. CASE UNCHANGED vars
  <2>1. vm' = vm
    BY <1>3 DEF vars, vms
  <2> QED BY <2>1, StillVMs
<1>4. ASSUME NEW c \in Procs, Check(c) \/ Refuse(c) \/ Crash(c) \/ Update(c) PROVE Drops
  <2>1. vm' = vm
    BY <1>4 DEF Check, BeginCheck, Download, SaveCandidate, PruneArtifacts, CheckFails,
                Refuse, Crash, vms,
                Update, Recovery, BeginUpdater, RecoverNothing, RecoverPolicy, RecoverRefused,
                RecoverLock, RecoverActive, RecoverEnd, PlanUpdate, SetupDeclares, PlanSetup,
                Prepare, BindPolicy, Decide, SaveLock, SaveActive, CommitEnd, ClearArtifacts,
                ClearCandidate, CommitFails, RestorePolicy, RestoreLock, RestoreActivation
  <2> QED BY <2>1, StillVMs
<1> QED BY <1>1, <1>2, <1>3, <1>4

\* An updater goes on without a VM.
LEMMA UpdateClear ==
  ASSUME LockInv, WholeInv, ClearInv, NEW c \in Procs, Update(c), Clear(run'[c])
  PROVE  NoVM
<1>1. CASE PlanUpdate(c) \/ PlanSetup(c)
  BY <1>1 DEF PlanUpdate, PlanSetup, UpdateInventory, SetupInventory
<1>2. CASE Prepare(c) \/ BindPolicy(c) \/ Decide(c) \/ SaveLock(c) \/ CommitFails(c) \/ RestorePolicy(c)
  <2>1. Clear(run[c])
    BY <1>2 DEF Prepare, BindPolicy, Decide, SaveLock, CommitFails, RestorePolicy, At, Clear, Planned
  <2> QED BY <2>1 DEF ClearInv
<1>3. CASE SaveActive(c)
  <2>1. Clear(run[c])
    BY <1>3 DEF SaveActive, At, Clear
  <2> QED BY <2>1 DEF ClearInv
<1>4. CASE SetupDeclares(c)
  <2>1. run'[c].at = "plan"
    BY <1>4 DEF SetupDeclares, At
  <2> QED BY <2>1 DEF Clear, Planned
<1>5. ASSUME NEW cmd \in Updaters, BeginUpdater(c, cmd) PROVE FALSE
  <2>1. Begin(c, [cmd |-> cmd, at |-> "recover", todo |-> journal.projects, undo |-> FALSE])
    BY <1>5 DEF BeginUpdater
  <2>2. run'[c].at = "recover"
    BY <2>1, BeginKeeps
  <2> QED BY <2>2 DEF Clear, Planned
<1>6. CASE \/ RecoverNothing(c) \/ RecoverRefused(c) \/ RecoverLock(c) \/ RecoverActive(c)
           \/ RecoverEnd(c) \/ CommitEnd(c) \/ ClearArtifacts(c) \/ ClearCandidate(c)
           \/ RestoreLock(c) \/ RestoreActivation(c)
  <2>1. End(c) \/ \E at \in {"plan", "recover active", "recover end", "clear",
                             "clear candidate", "restore active"} : Goto(c, at)
    BY <1>6 DEF RecoverNothing, RecoverRefused, RecoverLock, RecoverActive, RecoverEnd,
                CommitEnd, ClearArtifacts, ClearCandidate, RestoreLock, RestoreActivation
  <2>2. run'[c].at \in {"idle", "plan", "recover active", "recover end", "clear",
                        "clear candidate", "restore active"}
    <3>1. CASE End(c)
      <4>1. Idle.at = "idle"
        BY DEF Idle
      <4> QED BY <3>1, <4>1, EndKeeps
    <3>2. CASE ~End(c)
      BY <2>1, <3>2, GotoKeeps
    <3> QED BY <3>1, <3>2
  <2> QED BY <2>2 DEF Clear, Planned
<1>7. CASE RecoverPolicy(c)
  <2>1. PICK todo : run' = [run EXCEPT ![c].todo = todo]
    BY <1>7 DEF RecoverPolicy
  <2>2. run'[c].at = "recover"
    BY <1>7, <2>1, TodoKeeps DEF RecoverPolicy, At
  <2> QED BY <2>2 DEF Clear, Planned
<1> QED BY <1>1, <1>2, <1>3, <1>4, <1>5, <1>6, <1>7 DEF Update, Recovery

LEMMA NextClear ==
  LockInv /\ LockInv' /\ WholeInv /\ PolicyInv /\ ClearInv /\ [Next]_vars => ClearInv'
<1> SUFFICES ASSUME LockInv, LockInv', WholeInv, PolicyInv, ClearInv, [Next]_vars
             PROVE  ClearInv'
  OBVIOUS
<1>0. Drops /\ NoVM => NoVM'
  BY DEF Drops, NoVM, NoVMOf
<1>1. ASSUME NEW c \in Procs, Boot(c) PROVE ClearInv'
  <2>1. IsVMs' /\ ex = None /\ Only(c) /\ run'[c].cmd = "none"
    BY <1>1, BootDeed DEF Idle
  <2>2. ASSUME NEW d \in Procs, Clear(run'[d]) PROVE FALSE
    <3>1. d # c /\ run'[d] = run[d] /\ run[d].cmd \in Updaters
      BY <2>1, <2>2 DEF Clear, Updaters, Only
    <3> QED BY <2>1, <3>1, ConfigurationAssumption DEF LockInv
  <2> QED BY <2>1, <2>2 DEF ClearInv
<1>2. ASSUME NEW c \in Procs, Drops, Only(c), Clear(run'[c]) => NoVM PROVE ClearInv'
  <2>1. ASSUME NEW d \in Procs, Clear(run'[d]) PROVE NoVM
    BY <1>2, <2>1 DEF Only, ClearInv
  <2> QED BY <1>0, <1>2, <2>1 DEF ClearInv, Drops
<1>3. ASSUME NEW c \in Procs, Configure(c), ~Boot(c) PROVE ClearInv'
  <2>1. Drops /\ Only(c) /\ run'[c].cmd \notin Updaters
    BY <1>3, ConfigureVMs, StillVMs, ConfigureKeeps DEF Commands
  <2> QED BY <1>2, <2>1 DEF Clear
<1>4. ASSUME NEW c \in Procs, Check(c) \/ Refuse(c) \/ Crash(c) PROVE ClearInv'
  <2>1. Drops /\ Only(c) /\ run'[c].cmd \in {"check", "none"}
    BY <1>4, OtherDrops, CheckKeeps, RefuseKeeps DEF Idle
  <2>2. ~Clear(run'[c])
    BY <2>1 DEF Clear, Updaters
  <2> QED BY <1>2, <2>1, <2>2
<1>5. ASSUME NEW c \in Procs, Update(c) PROVE ClearInv'
  <2>1. Drops /\ Only(c)
    BY <1>5, OtherDrops, UpdateCommand
  <2> QED BY <1>2, <1>5, <2>1, UpdateClear
<1>6. CASE Alone \/ UNCHANGED vars
  <2>1. Drops /\ run' = run
    BY <1>6, OtherDrops, AloneLocks DEF vars
  <2> QED BY <1>0, <2>1 DEF ClearInv, Drops
<1> QED BY <1>1, <1>3, <1>4, <1>5, <1>6 DEF Next, Alone

LEMMA InitClear == Init => ClearInv
<1> SUFFICES ASSUME Init PROVE ClearInv OBVIOUS
<1>1. \A c \in Procs : run[c].cmd = "none"
  BY DEF Init, Idle
<1>2. IsVMs
  BY DEF Init, IsVMs
<1> QED BY <1>1, <1>2 DEF ClearInv, Clear, Updaters

\* What an update changes while there is a VM.
LEMMA UpdateKinds ==
  ASSUME LockInv, ClearInv, NEW c \in Procs, Update(c)
  PROVE  /\ UNCHANGED <<ctx, vm>>
         /\ \/ NoVM \/ RecoverPolicy(c) \/ RecoverLock(c)
            \/ UNCHANGED <<policy, lock>> /\ journal' \in {journal, NoJournal}
<1>1. UNCHANGED <<ctx, vm>>
  BY DEF Update, Recovery, BeginUpdater, RecoverNothing, RecoverPolicy, RecoverRefused,
         RecoverLock, RecoverActive, RecoverEnd, PlanUpdate, SetupDeclares, PlanSetup,
         Prepare, BindPolicy, Decide, SaveLock, SaveActive, CommitEnd, ClearArtifacts,
         ClearCandidate, CommitFails, RestorePolicy, RestoreLock, RestoreActivation, project, vms
<1>2. ASSUME \/ Prepare(c) \/ BindPolicy(c) \/ Decide(c) \/ SaveLock(c)
             \/ RestorePolicy(c) \/ RestoreLock(c)
      PROVE  NoVM
  <2>1. Clear(run[c])
    BY <1>2 DEF Prepare, BindPolicy, Decide, SaveLock, RestorePolicy, RestoreLock,
                At, Clear, Planned
  <2> QED BY <2>1 DEF ClearInv
<1>3. ASSUME \/ \E cmd \in Updaters : BeginUpdater(c, cmd)
             \/ RecoverNothing(c) \/ RecoverRefused(c) \/ RecoverActive(c) \/ RecoverEnd(c)
             \/ PlanUpdate(c) \/ SetupDeclares(c) \/ PlanSetup(c) \/ SaveActive(c)
             \/ CommitEnd(c) \/ ClearArtifacts(c) \/ ClearCandidate(c) \/ CommitFails(c)
             \/ RestoreActivation(c)
      PROVE  UNCHANGED <<policy, lock>> /\ journal' \in {journal, NoJournal}
  BY <1>3 DEF BeginUpdater, RecoverNothing, RecoverRefused, RecoverActive, RecoverEnd,
              PlanUpdate, SetupDeclares, PlanSetup, SaveActive, CommitEnd, ClearArtifacts,
              ClearCandidate, CommitFails, RestoreActivation, project, files
<1> QED BY <1>1, <1>2, <1>3 DEF Update, Recovery

-----------------------------------------------------------------------------
(* What a VM was created with *)

ShapeOf(pol) == Shape[pol.conf]
Agrees(v, old, new) ==
  /\ ShapeOf(old) = v.shape => ShapeOf(new) = v.shape
  /\ old.dep = v.dep => new.dep = v.dep

\* The policy of a Project that has a VM, and what a transaction that was
\* interrupted would make of it.
Fits(p) ==
  vm[p] # None =>
    /\ policy[p] # None => ShapeOf(policy[p]) \in {vm[p].shape, Shape[Default]}
    /\ ctx[p] # None => ShapeOf(ctx[p].newPolicy) \in {vm[p].shape, Shape[Default]}
    /\ Live(p) /\ policy[p] = ctx[p].oldPolicy => Agrees(vm[p], policy[p], ctx[p].newPolicy)
    /\ Journaled /\ lock # Final => lock # None /\ vm[p].dep = lock.man

\* config apply and edit that are about to save, and a start.
Saving(r) == r.cmd \in {"apply", "edit"} /\ r.at = "save"
Keeping(c) ==
  LET r == run[c]
  IN  Saving(r) /\ vm[r.p] # None =>
        ShapeOf(r.seen.pol) = Shape[r.new] /\ r.seen.pol.dep = lock.man
Starting(c) ==
  LET r == run[c]
  IN  r.cmd = "start" /\ r.at = "boot" =>
        /\ policy[r.p] # None => ShapeOf(policy[r.p]) \in {ShapeOf(r.seen.pol), Shape[Default]}
        /\ ctx[r.p] # None =>
             ShapeOf(ctx[r.p].newPolicy) \in {ShapeOf(r.seen.pol), Shape[Default]}

\* A command that changes one field of the policy it has read: what does not
\* fit the VM in that policy did not fit in the policy that is there.
Differs(p, seen) ==
  /\ ShapeOf(seen) # vm[p].shape =>
       /\ policy[p] # None => ShapeOf(policy[p]) # vm[p].shape
       /\ ctx[p] # None => ShapeOf(ctx[p].newPolicy) # vm[p].shape
  /\ lock # None /\ seen.dep = lock.man /\ seen.dep # vm[p].dep =>
       /\ policy[p] # None => policy[p].dep # vm[p].dep
       /\ Pending(p) /\ policy[p] = ctx[p].oldPolicy => ctx[p].newPolicy.dep # vm[p].dep
Reads(p, seen) ==
  vm[p] # None =>
    /\ ShapeOf(seen) \in {vm[p].shape, Shape[Default]}
    /\ Differs(p, seen)
    /\ Journaled /\ lock # Final /\ p \notin journal.projects => seen.dep = lock.man
Changing(c) ==
  LET r == run[c]
  IN  r.cmd = "policy" /\ r.at = "bind" =>
        /\ vm[r.p] # None => ShapeOf(r.seen.pol) = Shape[r.new]
        /\ Reads(r.p, r.seen.pol)

FitsInv ==
  /\ \A p \in Projects : Fits(p)
  /\ \A c \in Procs : Keeping(c) /\ Starting(c) /\ Changing(c)

\* The steps of others on a Project, its lock being held.
LEMMA TameReads ==
  ASSUME PolicyInv, NEW p \in Projects, Tame(p), UNCHANGED <<lock, journal>>,
         vm'[p] \in {vm[p], None}, NEW seen, Reads(p, seen)
  PROVE  Reads(p, seen)'
<1> SUFFICES ASSUME vm'[p] # None PROVE Reads(p, seen)'
  BY DEF Reads
<1>1. /\ vm'[p] = vm[p] /\ vm[p] # None
      /\ ShapeOf(seen) \in {vm[p].shape, Shape[Default]} /\ Differs(p, seen)
      /\ Journaled /\ lock # Final /\ p \notin journal.projects => seen.dep = lock.man
  BY DEF Reads
<1>2. Final' = Final /\ Journaled' = Journaled
  BY DEF Final, Activated, Chosen, Decided, Journaled
<1>3. Differs(p, seen)'
  <2>1. CASE Same(p) \/ Removed(p) \/ Ended(p)
    BY <1>1, <2>1 DEF Same, Removed, Ended, Differs, ShapeOf, Pending
  <2>2. CASE Renamed(p)
    <3>1. /\ ctx[p] # None /\ ctx[p].done = 0 /\ ctx'[p].oldPolicy = ctx[p].oldPolicy
          /\ ctx'[p].newPolicy = ctx[p].newPolicy /\ policy'[p] = policy[p]
      BY <2>2 DEF Renamed, Moved
    <3>2. Pending(p)
      BY <3>1 DEF Pending
    <3> QED BY <1>1, <3>1, <3>2 DEF Differs, ShapeOf
  <2>3. CASE Registers(p)
    <3>1. /\ policy'[p] = None /\ lock # None
          /\ ctx'[p].newPolicy.dep = lock.man /\ ShapeOf(ctx'[p].newPolicy) = Shape[Default]
      BY <2>3 DEF Registers, NewPolicy, ShapeOf
    <3> QED BY <1>1, <3>1 DEF Differs, ShapeOf
  <2>4. CASE Lands(p)
    <3>1. /\ policy'[p] = ctx[p].newPolicy /\ ctx'[p].newPolicy = ctx[p].newPolicy
          /\ ctx[p] # None /\ policy[p] = ctx[p].oldPolicy /\ Pending(p) /\ ~Pending(p)'
      BY <2>4 DEF Lands, Replaced, Moved
    <3> QED BY <1>1, <3>1 DEF Differs, ShapeOf
  <2> QED BY <2>1, <2>2, <2>3, <2>4 DEF Tame
<1> QED BY <1>1, <1>2, <1>3 DEF Reads, ShapeOf

LEMMA TameShapes ==
  ASSUME NEW p \in Projects, Tame(p), NEW S, Shape[Default] \in S,
         policy[p] # None => ShapeOf(policy[p]) \in S,
         ctx[p] # None => ShapeOf(ctx[p].newPolicy) \in S
  PROVE  /\ policy'[p] # None => ShapeOf(policy'[p]) \in S
         /\ ctx'[p] # None => ShapeOf(ctx'[p].newPolicy) \in S
<1>1. CASE Same(p) \/ Removed(p) \/ Ended(p)
  BY <1>1 DEF Same, Removed, Ended
<1>2. CASE Renamed(p)
  BY <1>2 DEF Renamed, Moved
<1>3. CASE Registers(p)
  BY <1>3 DEF Registers, NewPolicy, ShapeOf
<1>4. CASE Lands(p)
  BY <1>4 DEF Lands, Replaced, Moved
<1> QED BY <1>1, <1>2, <1>3, <1>4 DEF Tame

\* A command that shares no step with c.
LEMMA FitsStays ==
  ASSUME PolicyInv, CfgInv, FitsInv, NEW d \in Procs, run'[d] = run[d],
         UNCHANGED <<lock, journal>>,
         Relies(run[d]) => Tame(run[d].p) /\ vm'[run[d].p] \in {vm[run[d].p], None}
  PROVE  (Keeping(d) /\ Starting(d) /\ Changing(d))'
<1>1. CASE ~Relies(run[d])
  BY <1>1 DEF Relies, Settles, Keeping, Saving, Starting, Changing
<1>2. CASE Relies(run[d])
  <2>1. PICK p, seen, new : p = run[d].p /\ seen = run[d].seen.pol /\ new = run[d].new
    OBVIOUS
  <2>2. p \in Projects /\ Tame(p) /\ vm'[p] \in {vm[p], None}
    BY <1>2, <2>1, ReliesHolds
  <2>3. Keeping(d)'
    <3>1. Saving(run[d]) /\ vm[p] # None => ShapeOf(seen) = Shape[new] /\ seen.dep = lock.man
      BY <2>1 DEF FitsInv, Keeping
    <3> QED BY <2>1, <2>2, <3>1 DEF Keeping, Saving, ShapeOf
  <2>4. Starting(d)'
    <3>0. PICK S : S = {ShapeOf(seen), Shape[Default]}
      OBVIOUS
    <3>1. run[d].cmd = "start" /\ run[d].at = "boot" =>
            /\ policy[p] # None => ShapeOf(policy[p]) \in S
            /\ ctx[p] # None => ShapeOf(ctx[p].newPolicy) \in S
      BY <2>1, <3>0 DEF FitsInv, Starting
    <3>2. run[d].cmd = "start" /\ run[d].at = "boot" =>
            /\ policy'[p] # None => ShapeOf(policy'[p]) \in S
            /\ ctx'[p] # None => ShapeOf(ctx'[p].newPolicy) \in S
      BY <2>2, <3>0, <3>1, TameShapes
    <3> QED BY <2>1, <3>0, <3>2 DEF Starting, ShapeOf
  <2>5. Changing(d)'
    <3>1. run[d].cmd = "policy" /\ run[d].at = "bind" =>
            (vm[p] # None => ShapeOf(seen) = Shape[new]) /\ Reads(p, seen)
      BY <2>1 DEF FitsInv, Changing
    <3>2. run[d].cmd = "policy" /\ run[d].at = "bind" => Reads(p, seen)'
      BY <2>2, <3>1, TameReads
    <3> QED BY <2>1, <2>2, <3>1, <3>2 DEF Changing, ShapeOf
  <2> QED BY <2>3, <2>4, <2>5
<1> QED BY <1>1, <1>2

\* What happens to the policy of a Project without a new one.
LEMMA MildFits ==
  ASSUME PolicyInv, NEW p \in Projects, Mild(p), UNCHANGED <<lock, journal>>,
         vm'[p] \in {vm[p], None}, Fits(p)
  PROVE  Fits(p)'
<1> SUFFICES ASSUME vm'[p] # None PROVE Fits(p)'
  BY DEF Fits
<1> DEFINE S == {vm[p].shape, Shape[Default]}
<1>1. /\ vm'[p] = vm[p] /\ vm[p] # None
      /\ policy[p] # None => ShapeOf(policy[p]) \in S
      /\ ctx[p] # None => ShapeOf(ctx[p].newPolicy) \in S
      /\ Live(p) /\ policy[p] = ctx[p].oldPolicy => Agrees(vm[p], policy[p], ctx[p].newPolicy)
      /\ Journaled /\ lock # Final => lock # None /\ vm[p].dep = lock.man
  BY DEF Fits
<1>2. Final' = Final /\ Journaled' = Journaled
  BY DEF Final, Activated, Chosen, Decided, Journaled
<1> HIDE DEF S
<1>3. /\ policy'[p] # None => ShapeOf(policy'[p]) \in S
      /\ ctx'[p] # None => ShapeOf(ctx'[p].newPolicy) \in S
  <2>1. CASE Same(p) \/ Removed(p) \/ Ended(p)
    BY <1>1, <2>1 DEF Same, Removed, Ended
  <2>2. CASE Renamed(p)
    BY <1>1, <2>2 DEF Renamed, Moved
  <2>3. CASE Loaded(p)
    BY <1>1, <2>3, RecoveredIs DEF Loaded, Pending
  <2> QED BY <2>1, <2>2, <2>3 DEF Mild
<1>4. Live(p)' /\ policy'[p] = ctx'[p].oldPolicy => Agrees(vm[p], policy'[p], ctx'[p].newPolicy)
  <2>1. CASE Same(p)
    BY <1>1, <2>1 DEF Same, Live, Pending
  <2>2. CASE Removed(p) \/ Ended(p) \/ Loaded(p)
    BY <2>2 DEF Removed, Ended, Loaded, Live, Pending
  <2>3. CASE Renamed(p)
    <3>1. /\ ctx[p] # None /\ ctx[p].done = 0 /\ ctx'[p].oldPolicy = ctx[p].oldPolicy
          /\ ctx'[p].newPolicy = ctx[p].newPolicy /\ policy'[p] = policy[p]
      BY <2>3 DEF Renamed, Moved
    <3>2. Live(p)' => Live(p)
      BY <3>1 DEF Live, Pending
    <3> QED BY <1>1, <3>1, <3>2
  <2> QED BY <2>1, <2>2, <2>3 DEF Mild
<1> QED BY <1>1, <1>2, <1>3, <1>4 DEF Fits, Agrees, ShapeOf, S

\* A command that binds what it has read under its lock.
LEMMA OpenedFits ==
  ASSUME PolicyInv, NEW p \in Projects, NEW c \in Procs, NEW pol, Opened(p, c, pol), Fits(p),
         UNCHANGED <<lock, journal>>, vm'[p] = vm[p], vm[p] # None,
         ShapeOf(pol) \in {vm[p].shape, Shape[Default]},
         policy'[p] # None => Agrees(vm[p], policy'[p], pol)
  PROVE  Fits(p)'
<1> DEFINE S == {vm[p].shape, Shape[Default]}
<1>1. /\ policy[p] # None => ShapeOf(policy[p]) \in S
      /\ ctx[p] # None => ShapeOf(ctx[p].newPolicy) \in S
      /\ Journaled /\ lock # Final => lock # None /\ vm[p].dep = lock.man
  BY DEF Fits
<1>2. Final' = Final /\ Journaled' = Journaled
  BY DEF Final, Activated, Chosen, Decided, Journaled
<1>3. Recovered(p) /\ ctx'[p].oldPolicy = policy'[p] /\ ctx'[p].newPolicy = pol
  BY DEF Opened
<1>4. ShapeOf(pol) \in S
  OBVIOUS
<1> HIDE DEF S
<1>5. policy'[p] # None => ShapeOf(policy'[p]) \in S
  BY <1>1, <1>3, RecoveredIs DEF Pending
<1>6. Live(p)' => policy'[p] # None
  BY <1>3 DEF Live
<1> QED BY <1>1, <1>2, <1>3, <1>4, <1>5, <1>6 DEF Fits, Agrees, ShapeOf, S

LEMMA SavesFits ==
  ASSUME PolicyInv, RevInv, SettledInv, NEW p \in Projects, NEW c \in Procs,
         run[c].p = p, Saves(p, c), Fits(p), Keeping(c),
         UNCHANGED <<lock, journal>>, vm'[p] = vm[p], vm[p] # None
  PROVE  Fits(p)'
<1> DEFINE pol == Compiled(run[c].seen.pol, lock.man, run[c].new)
<1>1. PICK seen : seen = run[c].seen.pol
  OBVIOUS
<1>2. /\ Saving(run[c]) /\ policy[p] = seen
      /\ Saved(p, pol) \/ (run[c].cmd = "edit" /\ Opened(p, c, pol))
  BY <1>1 DEF Saves, At, Saving
<1>3. ShapeOf(seen) = Shape[run[c].new] /\ seen.dep = lock.man
  BY <1>1, <1>2 DEF Keeping
<1>4. IsPolicy(seen) /\ seen # None
  BY <1>1, <1>2 DEF PolicyInv, IsCommand, Saving, Readers
<1>5. ShapeOf(pol) = ShapeOf(seen) /\ pol.dep = seen.dep /\ pol.rev = seen.rev + 1
  BY <1>1, <1>3, <1>4, CompiledIs DEF ShapeOf
<1> HIDE DEF pol
<1>6. ShapeOf(seen) \in {vm[p].shape, Shape[Default]}
  BY <1>2, <1>4 DEF Fits
<1>7. CASE Saved(p, pol)
  <2>1. Pending(p) => pol # ctx[p].oldPolicy
    <3>1. Pending(p) => ctx[p].oldPolicy # None /\ ctx[p].oldPolicy.rev \in Nat
                        /\ seen.rev >= ctx[p].oldPolicy.rev
      BY <1>2, <1>4 DEF RevInv, PolicyInv, IsTransaction, IsPolicy, Pending
    <3>2. seen.rev \in Nat
      BY <1>4 DEF IsPolicy
    <3> QED BY <1>5, <3>1, <3>2
  <2>2. policy'[p] = pol /\ ctx'[p] = ctx[p]
    BY <1>7 DEF Saved
  <2>3. Final' = Final /\ Journaled' = Journaled
    BY DEF Final, Activated, Chosen, Decided, Journaled
  <2>4. ~(Live(p)' /\ policy'[p] = ctx'[p].oldPolicy)
    BY <2>1, <2>2 DEF Live, Pending
  <2> QED BY <1>5, <1>6, <2>2, <2>3, <2>4 DEF Fits, ShapeOf
<1>8. CASE run[c].cmd = "edit" /\ Opened(p, c, pol)
  <2>1. ~Live(p)
    BY <1>2, <1>8 DEF SettledInv, Settles, Saving
  <2>2. policy'[p] = seen
    BY <1>2, <1>4, <1>8, <2>1, RecoveredIs DEF Opened, Live
  <2> QED BY <1>5, <1>6, <1>8, <2>2, OpenedFits DEF Agrees
<1> QED BY <1>2, <1>7, <1>8

LEMMA RebindsFits ==
  ASSUME PolicyInv, NEW p \in Projects, NEW c \in Procs,
         run[c].p = p, Rebinds(p, c), Fits(p), Changing(c),
         UNCHANGED <<lock, journal>>, vm'[p] = vm[p], vm[p] # None
  PROVE  Fits(p)'
<1> DEFINE pol == Compiled(run[c].seen.pol, run[c].seen.pol.dep, run[c].new)
<1>1. PICK seen : seen = run[c].seen.pol
  OBVIOUS
<1>2. /\ At(c, {"policy"}, "bind") /\ lock # None /\ seen.dep = lock.man /\ Opened(p, c, pol)
  BY <1>1 DEF Rebinds, BoundToActive, IsActive, Usable, LockState
<1>3. ShapeOf(seen) = Shape[run[c].new] /\ Reads(p, seen)
  BY <1>1, <1>2 DEF Changing, At
<1>4. ShapeOf(seen) \in {vm[p].shape, Shape[Default]} /\ Differs(p, seen)
  BY <1>3 DEF Reads
<1>5. IsPolicy(seen)
  BY <1>1, <1>2 DEF PolicyInv, IsCommand, At, Readers
<1>6. ShapeOf(pol) = ShapeOf(seen) /\ pol.dep = seen.dep
  BY <1>1, <1>3, <1>5, CompiledIs DEF ShapeOf
<1> HIDE DEF pol
<1>7. \/ policy'[p] = policy[p]
      \/ Pending(p) /\ policy[p] = ctx[p].oldPolicy /\ policy'[p] = ctx[p].newPolicy
  BY <1>2, RecoveredIs DEF Opened
<1>8. policy'[p] # None => Agrees(vm[p], policy'[p], pol)
  BY <1>2, <1>4, <1>6, <1>7 DEF Agrees, Differs, Pending
<1> QED BY <1>2, <1>4, <1>6, <1>8, OpenedFits

LEMMA WritesFits ==
  ASSUME PolicyInv, RevInv, SettledInv, NEW p \in Projects, NEW c \in Procs, Writes(p, c),
         Fits(p), Keeping(c), Changing(c), UNCHANGED <<lock, journal>>, vm' = vm
  PROVE  Fits(p)'
<1> SUFFICES ASSUME vm[p] # None PROVE Fits(p)'
  BY DEF Fits
<1>1. CASE run[c].p = p /\ Finishes(p, c)
  <2>1. /\ ctx[p] # None /\ ctx[p].done = 1 /\ ctx'[p].done = 1 + 1
        /\ ctx'[p].newPolicy = ctx[p].newPolicy /\ policy'[p] = ctx[p].newPolicy
    BY <1>1 DEF Finishes, Replaced, Moved
  <2>2. ~Live(p)'
    BY <2>1 DEF Live, Pending
  <2>3. Final' = Final /\ Journaled' = Journaled
    BY DEF Final, Activated, Chosen, Decided, Journaled
  <2> QED BY <2>1, <2>2, <2>3 DEF Fits, ShapeOf
<1>2. CASE Begins(p, c)
  <2>1. policy[p] = None /\ ctx[p] = None /\ Opened(p, c, NewPolicy(lock.man))
    BY <1>2 DEF Begins
  <2>2. policy'[p] = None
    BY <2>1, AfterIs DEF Opened, Recovered
  <2>3. ShapeOf(NewPolicy(lock.man)) = Shape[Default]
    BY DEF NewPolicy, ShapeOf
  <2> QED BY <2>1, <2>2, <2>3, OpenedFits
<1> QED BY <1>1, <1>2, SavesFits, RebindsFits DEF Writes

\* What a command of a Project relies on where it comes to.
LEMMA FitsMoves ==
  ASSUME LockInv, PolicyInv, FitsInv, OutsideInv', \A p \in Projects : Fits(p)',
         NEW c \in Procs, Configure(c), UNCHANGED <<vm, files>>
  PROVE  (Keeping(c) /\ Starting(c) /\ Changing(c))'
<1>1. CASE ~Relies(run'[c])
  BY <1>1 DEF Relies, Settles, Keeping, Saving, Starting, Changing
<1>2. CASE PlanChange(c)
  <2>1. PICK p, seen, new : p = run[c].p /\ seen = run[c].seen.pol /\ new = run[c].new
    OBVIOUS
  <2>2. /\ run[c].cmd \in {"apply", "edit"} /\ Goto(c, "save") /\ UNCHANGED <<vm, files>>
        /\ ApplyAllowed(p, seen, Compiled(seen, lock.man, new))
    BY <1>2, <2>1 DEF PlanChange, At
  <2>3. /\ run'[c].cmd \in {"apply", "edit"} /\ run'[c].at = "save"
        /\ run'[c].p = p /\ run'[c].seen.pol = seen /\ run'[c].new = new
    BY <2>1, <2>2, GotoCommand DEF Readers, Changers
  <2>4. IsPolicy(seen)
    BY <2>1, <2>2 DEF PolicyInv, IsCommand, Readers
  <2>5. vm[p] # None => ShapeOf(seen) = Shape[new] /\ seen.dep = lock.man
    BY <2>2, <2>4, CompiledIs DEF ApplyAllowed, NeedsRecreation, NoVMOf, ShapeOf
  <2>6. Keeping(c)'
    BY <2>2, <2>3, <2>5 DEF Keeping, ShapeOf, files
  <2> QED BY <2>3, <2>6 DEF Starting, Changing
<1>3. CASE LockForEdit(c)
  <2>1. run[c].cmd = "edit" /\ Goto(c, "plan")
    BY <1>3 DEF LockForEdit, TakeConfigLock, At
  <2>2. run'[c].cmd = "edit" /\ run'[c].at = "plan"
    BY <2>1, GotoKeeps
  <2> QED BY <2>2 DEF Keeping, Saving, Starting, Changing
<1>4. ASSUME NEW p \in Projects, BeginStart(c, p)
      PROVE  (Keeping(c) /\ Starting(c) /\ Changing(c))'
  <2>1. /\ run'[c].cmd = "start" /\ run'[c].p = p /\ run'[c].seen.pol = policy'[p]
        /\ ctx'[p] = None
    BY <1>4, StartDeed DEF Loaded
  <2> QED BY <2>1 DEF Keeping, Saving, Starting, Changing
<1>5. ASSUME NEW p \in Projects, NEW new \in Settings, ChangePolicy(c, p, new),
             SameShape(p, new) \/ NoVMOf(p)
      PROVE  (Keeping(c) /\ Starting(c) /\ Changing(c))'
  <2>0. PICK seen : seen = policy'[p]
    OBVIOUS
  <2>1. /\ run'[c].cmd = "policy" /\ run'[c].p = p /\ run'[c].seen.pol = seen
        /\ run'[c].new = new /\ policy'[p] = seen /\ seen # None /\ ctx'[p] = None
        /\ seen = After(p)
    BY <1>5, <2>0, ChangePolicyDeed DEF Loaded, Recovered
  <2>2. vm[p] # None => ShapeOf(seen) = Shape[new]
    BY <1>5, <2>1 DEF SameShape, NoVMOf, After, ShapeOf
  <2>3. vm'[p] # None => ShapeOf(seen)' \in {vm'[p].shape, Shape[Default]}
    BY <2>1 DEF Fits
  <2>4. Differs(p, seen)'
    BY <2>1 DEF Differs, Pending
  <2>5. (Journaled /\ lock # Final /\ p \notin journal.projects => seen.dep = lock.man)'
    BY <2>1 DEF OutsideInv, Attached
  <2>6. Reads(p, seen)'
    BY <2>3, <2>4, <2>5 DEF Reads
  <2> QED BY <2>1, <2>2, <2>6 DEF Keeping, Saving, Starting, Changing, ShapeOf
<1> QED BY <1>1, <1>2, <1>3, <1>4, <1>5, ReliesBegins

\* A VM is created as the policy says, or the default it was registered with.
LEMMA BootFits ==
  ASSUME LockInv, PolicyInv, CfgInv, SettledInv, ClearInv, FitsInv, NEW c \in Procs, Boot(c)
  PROVE  FitsInv'
<1>1. PICK p, seen : p = run[c].p /\ seen = run[c].seen.pol
  OBVIOUS
<1>2. /\ run[c].cmd = "start" /\ run[c].at = "boot" /\ p \in Projects /\ BoundToActive(seen)
      /\ vm'[p].dep = seen.dep /\ vm'[p].shape = ShapeOf(seen)
      /\ \A q \in Projects \ {p} : vm'[q] = vm[q]
      /\ Only(c) /\ run'[c] = Idle /\ UNCHANGED <<files, project>>
  BY <1>1, BootDeed DEF At, ShapeOf
<1>3. UNCHANGED <<policy, ctx, lock, journal>>
  BY <1>2 DEF files, project
<1>4. Fits(p)'
  <2>1. ~Live(p)
    BY <1>1, <1>2 DEF SettledInv, Settles
  <2>2. lock # None /\ seen.dep = lock.man
    BY <1>2 DEF BoundToActive, IsActive, Usable, LockState
  <2>3. /\ policy[p] # None => ShapeOf(policy[p]) \in {ShapeOf(seen), Shape[Default]}
        /\ ctx[p] # None => ShapeOf(ctx[p].newPolicy) \in {ShapeOf(seen), Shape[Default]}
    BY <1>1, <1>2 DEF FitsInv, Starting
  <2>4. ~Live(p)'
    BY <1>3, <2>1 DEF Live, Pending
  <2> QED BY <1>2, <1>3, <2>2, <2>3, <2>4 DEF Fits, ShapeOf
<1>5. ASSUME NEW q \in Projects \ {p} PROVE Fits(q)'
  BY <1>2, <1>3, MildFits DEF FitsInv, Mild, Same
<1>6. ASSUME NEW d \in Procs \ {c} PROVE (Keeping(d) /\ Starting(d) /\ Changing(d))'
  <2>1. ASSUME Relies(run[d]) PROVE Tame(run[d].p) /\ vm'[run[d].p] \in {vm[run[d].p], None}
    <3>1. PICK q : q = run[d].p
      OBVIOUS
    <3>2. q \in Projects /\ cfg[q] = d /\ cfg[p] = c
      BY <1>1, <1>2, <2>1, <3>1, ReliesHolds DEF CfgInv, Configures
    <3>3. Tame(q) /\ vm'[q] = vm[q]
      BY <1>2, <1>3, <3>2 DEF Tame, Same
    <3> QED BY <3>1, <3>3
  <2> QED BY <1>2, <1>3, <2>1, FitsStays DEF Only
<1>7. (Keeping(c) /\ Starting(c) /\ Changing(c))'
  <2>1. run'[c].cmd = "none"
    BY <1>2 DEF Idle
  <2> QED BY <2>1 DEF Keeping, Saving, Starting, Changing
<1> QED BY <1>4, <1>5, <1>6, <1>7 DEF FitsInv

\* The commands about one Project.
LEMMA ConfigureFits ==
  ASSUME LockInv, PolicyInv, RevInv, CfgInv, OwnedInv, SettledInv, ClearInv, FitsInv,
         OutsideInv', NEW c \in Procs, Configure(c)
  PROVE  FitsInv'
<1> SUFFICES ASSUME ~Boot(c) PROVE FitsInv'
  BY BootFits
<1>1. vm' = vm /\ Only(c) /\ UNCHANGED files
  BY ConfigureVMs, ConfigureKeeps
<1>2. UNCHANGED <<lock, journal>>
  BY <1>1 DEF files
<1>3. \A p \in Projects : Mild(p) \/ Writes(p, c)
  BY ConfigureWrites
<1>4. ASSUME NEW p \in Projects PROVE Fits(p)'
  BY <1>1, <1>2, <1>3, MildFits, WritesFits DEF FitsInv
<1>5. ASSUME NEW d \in Procs \ {c} PROVE (Keeping(d) /\ Starting(d) /\ Changing(d))'
  <2>1. ASSUME Relies(run[d]) PROVE Tame(run[d].p) /\ vm'[run[d].p] \in {vm[run[d].p], None}
    <3>1. PICK p : p = run[d].p
      OBVIOUS
    <3>2. p \in Projects /\ cfg[p] = d
      BY <2>1, <3>1, ReliesHolds
    <3>3. Tame(p)
      BY <1>3, <3>2, Guarded
    <3> QED BY <1>1, <3>1, <3>3
  <2> QED BY <1>1, <1>2, <2>1, FitsStays DEF Only
<1>6. (Keeping(c) /\ Starting(c) /\ Changing(c))'
  BY <1>1, <1>4, FitsMoves
<1> QED BY <1>4, <1>5, <1>6 DEF FitsInv

\* While an updater works, or begins, nobody shares the operation lock.
LEMMA UpdateAlone ==
  ASSUME LockInv, NEW c \in Procs, Update(c), NEW d \in Procs
  PROVE  ~Shares(run[d])
<1>1. CASE \E cmd \in Updaters : BeginUpdater(c, cmd)
  BY <1>1 DEF BeginUpdater, MayExclude, LockInv
<1>2. CASE ~(\E cmd \in Updaters : BeginUpdater(c, cmd))
  <2>1. run[c].cmd \in Updaters
    BY <1>2
    DEF Update, Recovery, RecoverNothing, RecoverPolicy, RecoverRefused, RecoverLock,
        RecoverActive, RecoverEnd, PlanUpdate, SetupDeclares, PlanSetup, Prepare, BindPolicy,
        Decide, SaveLock, SaveActive, CommitEnd, ClearArtifacts, ClearCandidate, CommitFails,
        RestorePolicy, RestoreLock, RestoreActivation, At, Updaters
  <2> QED BY <2>1, ConfigurationAssumption DEF LockInv
<1> QED BY <1>1, <1>2

\* A recovery that binds a policy anew.
LEMMA RecoverPolicyDeed ==
  ASSUME LockInv, PolicyInv, EndsInv, DepInv, NEW c \in Procs, RecoverPolicy(c)
  PROVE  /\ Journaled /\ UNCHANGED <<lock, journal>>
         /\ \E q \in journal.projects :
              /\ q \in Projects /\ policy[q] # None /\ Elsewhere(q) /\ ctx'[q] = ctx[q]
              /\ policy'[q].conf = policy[q].conf
              /\ policy'[q].dep = Chosen.man
              /\ Pending(q) => policy'[q] # ctx[q].oldPolicy
<1>1. /\ run[c].cmd \in Updaters /\ run[c].at = "recover"
      /\ UNCHANGED <<lock, active, journal, ctx>>
  BY DEF RecoverPolicy, At, files
<1>2. PICK q \in run[c].todo : /\ policy[q] # None
                               /\ policy' = [policy EXCEPT ![q] = Rewritten(policy[q], Chosen.man)]
  BY DEF RecoverPolicy
<1>3. q \in journal.projects /\ q \in Projects
  BY <1>1, <1>2 DEF DepInv, Lists, EndsInv, IsJournal
<1>4. PICK pol : pol = policy[q]
  OBVIOUS
<1>5. IsPolicy(pol) /\ pol # None
  BY <1>2, <1>3, <1>4 DEF PolicyInv
<1>6. PICK man : man = Chosen.man
  OBVIOUS
<1>7. Elsewhere(q) /\ Saved(q, Rewritten(pol, man))
  BY <1>1, <1>2, <1>3, <1>4, <1>6, SavedOne
<1>8. Pending(q) => ctx[q].oldPolicy # None /\ pol.rev >= ctx[q].oldPolicy.rev
  BY <1>2, <1>3, <1>4 DEF EndsInv, RevInv
<1>9. BoundNext(q, man)
  BY <1>3, <1>5, <1>7, <1>8, RewrittenBound
<1>10. policy'[q] = Rewritten(pol, man) /\ ctx'[q] = ctx[q]
  BY <1>7 DEF Saved
<1>11. /\ IsPolicy(Rewritten(pol, man)) /\ Rewritten(pol, man).dep = man
       /\ Rewritten(pol, man).conf = pol.conf
  BY <1>5, RewrittenIs
<1>12. Journaled
  BY <1>3 DEF Journaled, NoJournal
<1>13. Pending(q) => policy'[q] # ctx[q].oldPolicy
  BY <1>9, <1>10 DEF BoundNext, Pending
<1> QED BY <1>1, <1>2, <1>3, <1>4, <1>6, <1>7, <1>10, <1>11, <1>12, <1>13

\* A step of an update that binds no policy and leaves the lock.
LEMMA QuietFits ==
  ASSUME NEW p \in Projects, UNCHANGED <<policy, ctx, vm, lock>>,
         journal' \in {journal, NoJournal}
  PROVE  /\ Fits(p) => Fits(p)'
         /\ \A seen : Reads(p, seen) => Reads(p, seen)'
<1>1. Journaled' => journal' = journal
  BY DEF Journaled
<1>2. Journaled' => Journaled /\ Final' = Final
  BY <1>1 DEF Final, Activated, Chosen, Decided, Journaled
<1> QED BY <1>1, <1>2 DEF Fits, Reads, Differs, Agrees, ShapeOf, Live, Pending

\* The recovery of an update, seen from a VM that was started before it.
LEMMA RecoverPolicyFits ==
  ASSUME LockInv, PolicyInv, EndsInv, DepInv, NEW c \in Procs, RecoverPolicy(c),
         UNCHANGED <<ctx, vm>>, NEW p \in Projects, Fits(p)
  PROVE  /\ Fits(p)'
         /\ \A seen : Reads(p, seen) => Reads(p, seen)'
<1> SUFFICES ASSUME vm[p] # None
             PROVE  Fits(p)' /\ \A seen : Reads(p, seen) => Reads(p, seen)'
  BY DEF Fits, Reads
<1>1. PICK man : man = Chosen.man
  OBVIOUS
<1>2. PICK q \in journal.projects :
        /\ q \in Projects /\ policy[q] # None /\ Elsewhere(q) /\ ctx'[q] = ctx[q]
        /\ policy'[q].conf = policy[q].conf /\ policy'[q].dep = man
        /\ Pending(q) => policy'[q] # ctx[q].oldPolicy
  BY <1>1, RecoverPolicyDeed
<1>3. Journaled /\ UNCHANGED <<lock, journal>> /\ Final' = Final /\ Journaled' = Journaled
  BY RecoverPolicyDeed DEF Final, Activated, Chosen, Decided, Journaled
<1>4. CASE p # q
  <2>1. policy'[p] = policy[p] /\ ctx'[p] = ctx[p]
    BY <1>2, <1>4 DEF Elsewhere
  <2> QED BY <1>3, <2>1 DEF Fits, Reads, Differs, Agrees, ShapeOf, Live, Pending
<1>5. CASE p = q
  <2>1. Fits(p)'
    BY <1>2, <1>3, <1>5 DEF Fits, ShapeOf, Live, Pending
  <2>2. ASSUME NEW seen, Reads(p, seen) PROVE Reads(p, seen)'
    <3>1. /\ ShapeOf(seen) \in {vm[p].shape, Shape[Default]} /\ Differs(p, seen)
      BY <2>2 DEF Reads
    <3>2. lock # None /\ seen.dep = lock.man /\ seen.dep # vm[p].dep => man # vm[p].dep
      <4>1. CASE lock # Final
        BY <1>3, <4>1 DEF Fits
      <4>2. CASE lock = Final
        BY <1>1, <4>2 DEF Final
      <4> QED BY <4>1, <4>2
    <3>3. Differs(p, seen)'
      BY <1>2, <1>3, <1>5, <3>1, <3>2 DEF Differs, ShapeOf, Pending
    <3>4. p \in journal.projects
      BY <1>2, <1>5
    <3> QED BY <1>3, <3>1, <3>3, <3>4 DEF Reads, ShapeOf
  <2> QED BY <2>1, <2>2
<1> QED BY <1>4, <1>5

LEMMA RecoverLockFits ==
  ASSUME LockInv, EndsInv, NEW c \in Procs, RecoverLock(c), UNCHANGED <<ctx, vm>>,
         NEW p \in Projects, Fits(p)
  PROVE  /\ Fits(p)'
         /\ \A seen : Reads(p, seen) => Reads(p, seen)'
<1> SUFFICES ASSUME vm[p] # None
             PROVE  Fits(p)' /\ \A seen : Reads(p, seen) => Reads(p, seen)'
  BY DEF Fits, Reads
<1>1. /\ run[c].cmd \in Updaters /\ run[c].at = "recover" /\ Journaled /\ run[c].todo = {}
      /\ lock' = Final /\ UNCHANGED <<policy, journal>>
  BY DEF RecoverLock, At, Final, project
<1>2. Final' = Final /\ Journaled' = Journaled
  BY <1>1 DEF Final, Activated, Chosen, Decided, Journaled
<1>3. Fits(p)'
  BY <1>1, <1>2 DEF Fits, Agrees, ShapeOf, Live, Pending
<1>4. ASSUME NEW seen, Reads(p, seen) PROVE Reads(p, seen)'
  <2>1. /\ ShapeOf(seen) \in {vm[p].shape, Shape[Default]} /\ Differs(p, seen)
        /\ lock # Final /\ p \notin journal.projects => seen.dep = lock.man
    BY <1>1, <1>4 DEF Reads
  <2>2. ASSUME lock' # None, seen.dep = lock'.man, seen.dep # vm[p].dep
        PROVE  /\ policy[p] # None => policy[p].dep # vm[p].dep
               /\ Pending(p) /\ policy[p] = ctx[p].oldPolicy => ctx[p].newPolicy.dep # vm[p].dep
    <3>1. CASE p \in journal.projects
      <4>1. Bound(p, Chosen.man)
        BY <1>1, <3>1 DEF EndsInv, Ends
      <4>2. lock' = Chosen
        BY <1>1, <2>2 DEF Final
      <4> QED BY <2>2, <4>1, <4>2 DEF Bound
    <3>2. CASE p \notin journal.projects /\ lock # Final
      <4>1. seen.dep = vm[p].dep
        BY <1>1, <2>1, <3>2 DEF Fits
      <4> QED BY <2>2, <4>1
    <3>3. CASE lock = Final
      BY <1>1, <2>1, <2>2, <3>3 DEF Differs
    <3> QED BY <3>1, <3>2, <3>3
  <2>3. Differs(p, seen)'
    BY <1>1, <2>1, <2>2 DEF Differs, ShapeOf, Pending
  <2> QED BY <1>1, <1>2, <2>1, <2>3 DEF Reads, ShapeOf
<1> QED BY <1>3, <1>4

LEMMA UpdateFits ==
  ASSUME LockInv, PolicyInv, EndsInv, DepInv, ClearInv, FitsInv, NEW c \in Procs, Update(c)
  PROVE  FitsInv'
<1>0. UNCHANGED <<ctx, vm>> /\ Only(c) /\ run'[c].cmd \in Updaters \cup {"none"}
  BY UpdateKinds, UpdateCommand
<1>1. ASSUME NEW p \in Projects
      PROVE  Fits(p)' /\ \A seen : Reads(p, seen) => Reads(p, seen)'
  <2>1. Fits(p)
    BY DEF FitsInv
  <2>2. CASE NoVM
    BY <1>0, <2>2 DEF NoVM, NoVMOf, Fits, Reads
  <2>3. CASE UNCHANGED <<policy, lock>> /\ journal' \in {journal, NoJournal}
    BY <1>0, <2>1, <2>3, QuietFits
  <2> QED BY <1>0, <2>1, <2>2, <2>3, UpdateKinds, RecoverPolicyFits, RecoverLockFits
<1>2. ASSUME NEW d \in Procs \ {c} PROVE (Keeping(d) /\ Starting(d) /\ Changing(d))'
  <2>1. PICK p, seen, new : p = run[d].p /\ seen = run[d].seen.pol /\ new = run[d].new
    OBVIOUS
  <2>2. run'[d] = run[d] /\ ~Shares(run[d])
    BY <1>0, UpdateAlone DEF Only
  <2>3. Keeping(d)' /\ Starting(d)'
    BY <2>2 DEF Shares, Keeping, Saving, Starting
  <2>4. Changing(d)'
    <3> SUFFICES ASSUME run[d].cmd = "policy", run[d].at = "bind"
                 PROVE  (vm[p] # None => ShapeOf(seen) = Shape[new])' /\ Reads(p, seen)'
      BY <2>1, <2>2 DEF Changing, ShapeOf
    <3>1. (vm[p] # None => ShapeOf(seen) = Shape[new]) /\ Reads(p, seen)
      BY <2>1 DEF FitsInv, Changing
    <3>2. p \in Projects
      BY <2>1 DEF PolicyInv, IsCommand, Readers
    <3> QED BY <1>0, <1>1, <3>1, <3>2 DEF ShapeOf
  <2> QED BY <2>3, <2>4
<1>3. (Keeping(c) /\ Starting(c) /\ Changing(c))'
  BY <1>0 DEF Updaters, Keeping, Saving, Starting, Changing
<1> QED BY <1>1, <1>2, <1>3 DEF FitsInv

\* The other steps leave the lock and the journal, and make no VM.
LEMMA OtherFits ==
  ASSUME LockInv, PolicyInv, CfgInv, ClearInv, FitsInv,
         \/ Alone \/ UNCHANGED vars
         \/ \E c \in Procs : Check(c) \/ Refuse(c) \/ Crash(c)
  PROVE  FitsInv'
<1>1. Drops /\ UNCHANGED <<lock, journal>>
  BY OtherDrops, AloneLocks, CheckKeeps, RefuseKeeps DEF vars, files
<1>2. \A p \in Projects : Mild(p)
  <2>1. CASE Alone
    BY <2>1, AloneMild
  <2>2. CASE ~Alone
    <3>1. UNCHANGED <<policy, ctx>>
      BY <2>2 DEF Check, BeginCheck, Download, SaveCandidate, PruneArtifacts, CheckFails,
                  Refuse, Crash, project, vars
    <3> QED BY <3>1 DEF Mild, Same
  <2> QED BY <2>1, <2>2
<1>3. \A d \in Procs : run'[d] = run[d] \/ run'[d].cmd \in {"check", "none"}
  BY AloneLocks, CheckKeeps, RefuseKeeps DEF vars, Only, Idle
<1>4. \A p \in Projects : Fits(p)'
  BY <1>1, <1>2, MildFits DEF FitsInv, Drops
<1>5. ASSUME NEW d \in Procs PROVE (Keeping(d) /\ Starting(d) /\ Changing(d))'
  <2>1. CASE run'[d].cmd \in {"check", "none"}
    BY <2>1 DEF Keeping, Saving, Starting, Changing
  <2>2. CASE run'[d] = run[d]
    <3>1. ASSUME Relies(run[d])
          PROVE  Tame(run[d].p) /\ vm'[run[d].p] \in {vm[run[d].p], None}
      <4>1. PICK p : p = run[d].p
        OBVIOUS
      <4>2. p \in Projects /\ cfg[p] = d
        BY <3>1, <4>1, ReliesHolds
      <4>3. Tame(p)
        BY <1>2, <4>2, ConfigurationAssumption DEF Mild, ConfigFree, Tame
      <4> QED BY <1>1, <4>1, <4>2, <4>3 DEF Drops
    <3> QED BY <1>1, <2>2, <3>1, FitsStays
  <2> QED BY <1>3, <2>1, <2>2
<1> QED BY <1>4, <1>5 DEF FitsInv

LEMMA NextFits ==
  LockInv /\ PolicyInv /\ EndsInv /\ CfgInv /\ OwnedInv /\ DepInv /\ DepInv' /\ SettledInv
  /\ ClearInv /\ FitsInv /\ [Next]_vars => FitsInv'
<1> SUFFICES ASSUME LockInv, PolicyInv, EndsInv, CfgInv, OwnedInv, DepInv, DepInv',
                    SettledInv, ClearInv, FitsInv, [Next]_vars
             PROVE  FitsInv'
  OBVIOUS
<1>1. RevInv /\ OutsideInv'
  BY DEF EndsInv, DepInv
<1> QED BY <1>1, ConfigureFits, UpdateFits, OtherFits DEF Next, Alone

LEMMA InitFits == Init => FitsInv
<1> SUFFICES ASSUME Init PROVE FitsInv OBVIOUS
<1>1. \A c \in Procs : run[c].cmd = "none"
  BY DEF Init, Idle
<1>2. \A p \in Projects : vm[p] = None
  BY DEF Init
<1> QED BY <1>1, <1>2 DEF FitsInv, Fits, Keeping, Saving, Starting, Changing

-----------------------------------------------------------------------------
(* The policy of a Project that has a VM *)

LEMMA RecoveredAgrees ==
  ASSUME PolicyInv, NEW p \in Projects, Fits(p), vm[p] # None, policy[p] # None, Recovered(p)
  PROVE  Agrees(vm[p], policy[p], policy'[p])
<1>1. CASE policy'[p] = policy[p]
  BY <1>1 DEF Agrees
<1>2. CASE Pending(p) /\ policy[p] = ctx[p].oldPolicy /\ policy'[p] = ctx[p].newPolicy
  BY <1>2 DEF Fits, Live
<1> QED BY <1>1, <1>2, RecoveredIs

LEMMA MildAgrees ==
  ASSUME PolicyInv, NEW p \in Projects, Fits(p), vm[p] # None, policy[p] # None,
         policy'[p] # None, Mild(p)
  PROVE  Agrees(vm[p], policy[p], policy'[p])
<1>1. CASE policy'[p] = policy[p]
  BY <1>1 DEF Agrees
<1>2. CASE Recovered(p)
  BY <1>2, RecoveredAgrees
<1> QED BY <1>1, <1>2 DEF Mild, Same, Removed, Ended, Renamed, Loaded

LEMMA WritesAgrees ==
  ASSUME PolicyInv, OwnedInv, FitsInv, NEW p \in Projects, vm[p] # None, policy[p] # None,
         NEW c \in Procs, Writes(p, c)
  PROVE  Agrees(vm[p], policy[p], policy'[p])
<1>0. Fits(p)
  BY DEF FitsInv
<1>1. CASE \E pol : Opened(p, c, pol)
  BY <1>0, <1>1, RecoveredAgrees DEF Opened
<1>2. CASE run[c].p = p /\ Saves(p, c) /\ ~(\E pol : Opened(p, c, pol))
  <2> DEFINE pol == Compiled(run[c].seen.pol, lock.man, run[c].new)
  <2>1. PICK seen : seen = run[c].seen.pol
    OBVIOUS
  <2>2. Saving(run[c]) /\ policy[p] = seen /\ policy'[p] = pol
    BY <1>2, <2>1 DEF Saves, At, Saving, Saved
  <2>3. ShapeOf(seen) = Shape[run[c].new] /\ seen.dep = lock.man
    BY <1>2, <2>1, <2>2 DEF FitsInv, Keeping
  <2>4. IsPolicy(seen)
    BY <2>1, <2>2 DEF PolicyInv, IsCommand, Saving, Readers
  <2>5. ShapeOf(pol) = ShapeOf(seen) /\ pol.dep = seen.dep
    BY <2>1, <2>3, <2>4, CompiledIs DEF ShapeOf
  <2> HIDE DEF pol
  <2> QED BY <2>2, <2>5 DEF Agrees
<1>3. CASE run[c].p = p /\ Finishes(p, c)
  <2>1. /\ Writing(run[c]) /\ ctx[p].by = c /\ ctx[p] # None /\ ctx[p].done = 1
        /\ policy'[p] = ctx[p].newPolicy
    BY <1>3 DEF Finishes, Replaced, Moved, At, Writing
  <2>2. Pending(p)
    BY <2>1 DEF Pending
  <2>3. policy[p] = ctx[p].oldPolicy
    BY <1>3, <2>1, <2>2 DEF OwnedInv, Owns
  <2> QED BY <1>0, <2>1, <2>2, <2>3 DEF Fits, Live
<1> QED BY <1>1, <1>2, <1>3 DEF Writes, Rebinds, Begins

\* No command changes what a VM would have to be recreated for, and only the
\* recovery of an update binds its Project to another manifest.
LEMMA FitsVM ==
  ASSUME LockInv, PolicyInv, EndsInv, OwnedInv, DepInv, ClearInv, FitsInv, [Next]_vars,
         NEW p \in Projects, vm[p] # None, policy[p] # None, policy'[p] # None
  PROVE  /\ ShapeOf(policy[p]) = vm[p].shape => ShapeOf(policy'[p]) = vm[p].shape
         /\ policy[p].dep = vm[p].dep /\ (\A c \in Procs : run[c].at # "recover") =>
              policy'[p].dep = vm[p].dep
<1> SUFFICES ASSUME ~Agrees(vm[p], policy[p], policy'[p])
             PROVE  /\ ShapeOf(policy[p]) = vm[p].shape => ShapeOf(policy'[p]) = vm[p].shape
                    /\ \E c \in Procs : run[c].at = "recover"
  BY DEF Agrees
<1>1. ~Mild(p) /\ policy'[p] # policy[p]
  BY MildAgrees DEF FitsInv, Agrees
<1>2. ASSUME NEW c \in Procs, Configure(c) PROVE FALSE
  BY <1>1, <1>2, ConfigureWrites, WritesAgrees
<1>3. ASSUME NEW c \in Procs, Check(c) \/ Refuse(c) \/ Crash(c) PROVE FALSE
  BY <1>1, <1>3 DEF Check, BeginCheck, Download, SaveCandidate, PruneArtifacts, CheckFails,
                    Refuse, Crash, project
<1>4. ~Alone
  BY <1>1, AloneMild
<1>5. ASSUME NEW c \in Procs, Update(c)
      PROVE  /\ ShapeOf(policy[p]) = vm[p].shape => ShapeOf(policy'[p]) = vm[p].shape
             /\ run[c].at = "recover"
  <2>1. ~NoVM
    BY DEF NoVM, NoVMOf
  <2>2. ~RecoverLock(c)
    BY <1>1 DEF RecoverLock, project
  <2>3. RecoverPolicy(c)
    BY <1>1, <1>5, <2>1, <2>2, UpdateKinds
  <2>4. PICK q \in Projects : Elsewhere(q) /\ policy'[q].conf = policy[q].conf
    BY <2>3, RecoverPolicyDeed
  <2>5. policy'[p].conf = policy[p].conf
    BY <2>4 DEF Elsewhere
  <2> QED BY <2>3, <2>5 DEF RecoverPolicy, At, ShapeOf
<1>6. policy' # policy
  BY <1>1
<1> QED BY <1>2, <1>3, <1>4, <1>5, <1>6 DEF Next, Alone, vars, project

ProjectInv ==
  UpdateInv /\ CfgInv /\ OwnedInv /\ DepInv /\ SettledInv /\ ClearInv /\ FitsInv

LEMMA InitProject == Init => ProjectInv
BY InitUpdate, InitCfg, InitOwned, InitDep, InitSettled, InitClear, InitFits DEF ProjectInv

LEMMA NextProject == ProjectInv /\ [Next]_vars => ProjectInv'
<1> SUFFICES ASSUME ProjectInv, [Next]_vars PROVE ProjectInv' OBVIOUS
<1>1. UpdateInv /\ CfgInv /\ OwnedInv /\ DepInv /\ SettledInv /\ ClearInv /\ FitsInv
  BY DEF ProjectInv
<1>2. LockInv /\ WholeInv /\ KeptInv /\ PolicyInv /\ EndsInv
  BY <1>1 DEF UpdateInv, KeptInv
<1>3. UpdateInv'
  BY <1>1, NextUpdate
<1>4. LockInv'
  BY <1>3 DEF UpdateInv
<1>5. CfgInv' /\ OwnedInv' /\ SettledInv' /\ ClearInv'
  BY <1>1, <1>2, <1>4, NextCfg, NextOwned, NextSettled, NextClear
<1>6. DepInv'
  BY <1>1, <1>2, NextDep
<1>7. FitsInv'
  BY <1>1, <1>2, <1>6, NextFits
<1> QED BY <1>3, <1>5, <1>6, <1>7 DEF ProjectInv

\* Only an update moves a policy to another manifest; every other command that
\* rewrites a policy (config apply and edit, model, git, web, up --mode,
\* project init, the recovery of a configuration transaction) leaves it bound
\* to the active lock.  And while a VM exists that fits its policy, no command
\* changes what the VM would have to be recreated for.
THEOREM PoliciesKept == Spec => PolicyKept
<1>1. ProjectInv /\ [Next]_vars =>
        [\A p \in Projects :
          policy[p] # None /\ policy'[p] # None =>
          /\ policy'[p].dep # policy[p].dep /\ ex = None => IsActive /\ policy'[p].dep = lock.man
          /\ vm[p] # None /\ vm[p].shape = Shape[policy[p].conf] =>
               Shape[policy'[p].conf] = vm[p].shape
          /\ vm[p] # None /\ vm[p].dep = policy[p].dep /\ (\A c \in Procs : run[c].at # "recover") =>
               policy'[p].dep = vm[p].dep]_vars
  <2> SUFFICES ASSUME ProjectInv, [Next]_vars, NEW p \in Projects,
                      policy[p] # None, policy'[p] # None
               PROVE
          /\ policy'[p].dep # policy[p].dep /\ ex = None => IsActive /\ policy'[p].dep = lock.man
          /\ vm[p] # None /\ vm[p].shape = Shape[policy[p].conf] =>
               Shape[policy'[p].conf] = vm[p].shape
          /\ vm[p] # None /\ vm[p].dep = policy[p].dep /\ (\A c \in Procs : run[c].at # "recover") =>
               policy'[p].dep = vm[p].dep
    OBVIOUS
  <2>1. LockInv /\ KeptInv /\ PolicyInv /\ EndsInv /\ OwnedInv /\ DepInv /\ ClearInv /\ FitsInv
    BY DEF ProjectInv, UpdateInv, KeptInv
  <2>2. policy'[p].dep # policy[p].dep /\ ex = None => IsActive /\ policy'[p].dep = lock.man
    BY <2>1, BindsToActive
  <2>3. vm[p] # None =>
          /\ ShapeOf(policy[p]) = vm[p].shape => ShapeOf(policy'[p]) = vm[p].shape
          /\ policy[p].dep = vm[p].dep /\ (\A c \in Procs : run[c].at # "recover") =>
               policy'[p].dep = vm[p].dep
    BY <2>1, FitsVM
  <2> QED BY <2>2, <2>3 DEF ShapeOf
<1> QED BY <1>1, InitProject, NextProject, PTL DEF Spec, PolicyKept
=============================================================================

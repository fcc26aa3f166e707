--------------------------- MODULE ReviewConsole ---------------------------
(***************************************************************************)
(* The trusted TUI of one Project: the coordinator of                      *)
(* internal/cli/tui_coordinator.go, which owns every decision, and the     *)
(* one-shot helper of internal/tui, a process of its own that shows one    *)
(* view on the terminal and returns one event.  The user's other terminals *)
(* work on the same pending Work Set, Snapshot approval and VM meanwhile.  *)
(*                                                                         *)
(* A screen is shown by a step that reads the state and launches a helper, *)
(* and handled by a later step, once the helper returned and exited: all   *)
(* that happens in between happens behind a view the user still looks at.  *)
(* The contents of a Project and of a Work Set are numbers and records:    *)
(* two are equal exactly when their digests are, and the user may bring    *)
(* the Project back to a content it had before.                            *)
(***************************************************************************)
EXTENDS Naturals, FiniteSets, Sequences

CONSTANTS
  BulkRoots,      \* the Bulk paths every exported Work Set has
  Dispositions,   \* what a Bulk path may be resolved to
  CoreFiles,      \* the files of the Normal lane of the first, second, ... set
  DiffPages,      \* how many pages the diff of a file has
  MaxActions,     \* tui.MaxActions
  MaxRev,         \* bound: how often a Resolution is rewritten
  MaxContents     \* bound: how many contents the Project takes

ASSUME ConsoleAssumption ==
  /\ CoreFiles \in Seq(Nat) /\ DiffPages \in Nat \ {0}
  /\ MaxActions \in Nat /\ MaxActions > 6 /\ MaxRev \in Nat
  /\ MaxContents \in Nat \ {0}

VARIABLES
  pending,   \* the pending Work Set and its Resolution, or None
  sets,      \* how many Work Sets were exported so far
  host,      \* the content of the host Project
  approved,  \* the content whose Snapshot digest snapshot-approval.json holds
  vm,        \* the Project's VM: what has become of it, and what it was made of
  tui,       \* the coordinator: its screen and its local variables
  ui,        \* the exchange with the helper
  consented, \* history: the contents the user approved
  decided    \* history: the <<Bulk path, disposition>> the user chose for the
             \* pending Work Set

vars == <<pending, sets, host, approved, vm, tui, ui, consented, decided>>
work == <<pending, sets, host, approved, vm>>
history == <<consented, decided>>

None == [base |-> 0]      \* no Work Set
Unresolved == "unresolved"
MaxSets == Len(CoreFiles)
Contents == 1..MaxContents
PageSize == MaxActions - 6    \* MaxChangeFiles

-----------------------------------------------------------------------------
(* The pending Work Set *)

\* A Work Set of the nth export: the Bulk paths moved to the Normal lane by
\* "Review normally", and the Resolution of the others with its revision.
WorkSets ==
  [base: 1..MaxSets, from: Nat, promoted: SUBSET BulkRoots,
   choice: [BulkRoots -> Dispositions \cup {Unresolved}], rev: 1..MaxRev]

BulkOf(p) == BulkRoots \ p.promoted
Digest(p) == [base |-> p.base, promoted |-> IF p = None THEN {} ELSE p.promoted]
Files(d) == CoreFiles[d.base] + Cardinality(d.promoted)
Resolvable(p) == \A b \in BulkOf(p) : p.choice[b] # Unresolved

\* Mutant: the Resolution is not part of the identity.
IdentityOfWorkSet(p) == Digest(p)

\* pendingIdentity: the Work Set digest and the Resolution digest.
Identity(p) == p

\* Mutant: the expected Work Set digest is not compared.
StillPending(shown) == pending # None

\* updatePendingResolution: the choice for b, if the Work Set is still the one
\* of which this Bulk path was shown.
StillShown(shown) == pending # None /\ Digest(pending) = Digest(shown)

Resolve(b, d) ==
  pending' = [pending EXCEPT !.choice[b] = d, !.rev = @ + 1]

\* reviewPendingBulkNormally: a derived Work Set has b among its Normal changes;
\* the other choices are kept.
ReviewNormally(b) ==
  pending' = [pending EXCEPT !.promoted = @ \cup {b}, !.choice[b] = Unresolved,
                             !.rev = @ + 1]

\* A new VM is made of the content of the Project; its export is compared with it.
NoVM == [state |-> "none", from |-> 0]
Exported(from) ==
  [base |-> sets + 1, from |-> from, promoted |-> {},
   choice |-> [b \in BulkRoots |-> Unresolved], rev |-> 1]

\* A kept or a frozen VM is exported and removed; the Work Set may be empty.
\* Without a pending Work Set nothing is decided.
ExportVM ==
  /\ vm.state \in {"kept", "frozen"} /\ pending = None
  /\ vm' = NoVM
  /\ \/ sets < MaxSets /\ pending' = Exported(vm.from) /\ sets' = sets + 1
     \/ UNCHANGED <<pending, sets>>
  /\ UNCHANGED <<host, approved, history>>

\* The cleanup of a Supervisor that died removes its VM or freezes it.
RecoverStale ==
  /\ vm.state = "stale"
  /\ \/ vm' = NoVM
     \/ vm' = [vm EXCEPT !.state = "frozen"]
  /\ UNCHANGED <<pending, sets, host, approved, history>>

-----------------------------------------------------------------------------
(* The exchange of one view and one event.  The helper inherits the terminal *)
(* and is a process of its own: helpers counts those that have not exited.   *)

Idle == [phase |-> "idle", helpers |-> 0, actions |-> {}, event |-> "none"]
\* The authority has the helper's event, or an error in its place.
Ends(phase, event, helpers) ==
  ui' = [phase |-> phase, helpers |-> helpers, actions |-> {}, event |-> event]
Result(event) == Ends("result", event, ui.helpers)
\* The screen's caller goes on; a helper that has not exited stays.
Handled == Ends("idle", "none", ui.helpers)

Screens == {"home", "snapshot", "files", "bulk", "detail", "confirm",
            "recovery", "failure"}
\* View.Validate: the authority offers at most MaxActions actions.
Fits(actions, files) == Cardinality(actions) + files <= MaxActions

\* Event.ValidateFor: an action must be one of those offered.  The user may also
\* cancel or exit, which every screen handles as it does back or exit.
ValidFor(event) ==
  \/ event \in {"back", "exit", "terminal_error"}
  \/ event \in ui.actions

\* The helper is started, its process ID bound and the view validated.  A view
\* that does not fit is not sent: the helper is killed and waited for.  The
\* helper may be missing or refuse to start, too.
Launch(actions, files) ==
  \/ /\ Fits(actions, files)
     /\ ui' = [phase |-> "launched", helpers |-> ui.helpers + 1,
               actions |-> actions, event |-> "none"]
  \/ Result("error")

\* The bound process connects first and is sent the view.
HelperConnects ==
  /\ ui.phase = "launched"
  /\ ui' = [ui EXCEPT !.phase = "shown"]
  /\ UNCHANGED <<work, tui, history>>

\* The startup timeout, a first connection from another process, a frame that
\* cannot be written, the user's silence for fifteen minutes; or the helper dies,
\* and the connection with it.
ExchangeBreaks ==
  /\ ui.phase \in {"launched", "shown"}
  /\ Ends("broken", "error", ui.helpers) \/ Ends("broken", "error", ui.helpers - 1)
  /\ UNCHANGED <<work, tui, history>>

\* The user acts and the helper writes the event: ServeOnce reads one frame and
\* validates it against the view.  An action that is not offered stands for
\* every malformed event.
HelperAnswers ==
  /\ ui.phase = "shown"
  /\ \E e \in ui.actions \cup {"page.prev", "back", "exit", "terminal_error"} :
       IF ValidFor(e) THEN Ends("answered", e, ui.helpers)
       ELSE Ends("broken", "error", ui.helpers)
  /\ UNCHANGED <<work, tui, history>>

Exits == Ends(ui.phase, ui.event, ui.helpers - 1) /\ UNCHANGED <<work, tui, history>>

\* A helper that sent its event restores the terminal and exits.
HelperExits == ui.phase = "answered" /\ ui.helpers > 0 /\ Exits

\* Mutant: the helper is killed with the context of the command only.
KillWithContext ==
  ui.phase = "broken" /\ ui.helpers > 0 /\ tui.at = "gone" /\ Exits

\* After a failure the helper exits by itself, or is killed 250 ms later.
Kill == ui.phase = "broken" /\ ui.helpers > 0 /\ Exits

\* Mutant: nobody waits for the helper.
NotAwaited == TRUE

\* <-wait: the helper has exited.
Awaited == ui.helpers = 0

\* exchangeUIView returns the event, or an error of the terminal or of the
\* helper's exit status as an error.
Returns ==
  /\ ui.phase \in {"answered", "broken"} /\ Awaited
  /\ \/ Result("error")
     \/ ui.phase = "answered" /\ ui.event # "terminal_error" /\ Result(ui.event)
  /\ UNCHANGED <<work, tui, history>>

Exchange ==
  \/ HelperConnects \/ ExchangeBreaks \/ HelperAnswers
  \/ HelperExits \/ Kill \/ Returns

-----------------------------------------------------------------------------
(* The screens *)

Home == [at |-> "home", onError |-> "failure", copy |-> None,
         confirmed |-> None, review |-> Digest(None), page |-> 0, diff |-> 0,
         bulk |-> "none", digest |-> 0]

At(screen) == tui.at = screen /\ ui.phase = "idle"
Chosen(screen, event) ==
  /\ tui.at = screen /\ ui.phase = "result" /\ ui.event = event
  /\ Handled
Dismissed(screen) ==
  /\ tui.at = screen /\ ui.phase = "result" /\ ui.event \in {"back", "exit"}
  /\ Handled
GoTo(screen) == tui' = [tui EXCEPT !.at = screen]
GoHome == tui' = Home

\* An error is reported on the failure screen, or ends the TUI where its
\* caller returns it.
Refuse == tui' = IF tui.onError = "gone" THEN [Home EXCEPT !.at = "gone"]
                 ELSE [Home EXCEPT !.at = "failure"]

\* An exchange that failed on a screen of which the error is handled the usual
\* way; on Home and on the failure screen the TUI ends.
ScreenFails ==
  \E screen \in Screens :
    /\ Chosen(screen, "error")
    /\ IF screen \in {"home", "failure"} THEN tui' = [Home EXCEPT !.at = "gone"]
       ELSE Refuse
    /\ UNCHANGED <<work, history>>

HomeActions ==
  {"settings", "exit"}
  \cup (IF pending # None THEN {"changes"}
        ELSE IF vm.state = "kept" THEN {"resume", "export"}
        ELSE IF vm.state = "none" THEN {"start"} ELSE {})
  \cup (IF vm.state = "frozen" \/ (pending = None /\ vm.state = "stale")
        THEN {"recovery"} ELSE {})

ShowHome ==
  /\ At("home") /\ Launch(HomeActions, 0)
  /\ UNCHANGED <<work, tui, history>>

\* The settings screens change the policy, which no other screen shows.
HandleHome ==
  /\ \/ Chosen("home", "start") /\ GoTo("prepare")
     \/ Chosen("home", "resume") /\ GoTo("agent")
     \/ Chosen("home", "changes") /\ GoTo("open")
     \/ Chosen("home", "export") /\ GoTo("export")
     \/ Chosen("home", "recovery") /\ GoTo("recovery")
     \/ Chosen("home", "settings") /\ GoHome
     \/ /\ \E e \in {"back", "exit"} : Chosen("home", e)
        /\ tui' = [Home EXCEPT !.at = "gone"]
  /\ UNCHANGED <<work, history>>

ShowFailure ==
  /\ At("failure") /\ Launch({"back", "exit"}, 0)
  /\ UNCHANGED <<work, tui, history>>

HandleFailure ==
  /\ \/ Chosen("failure", "back") /\ GoHome
     \/ Chosen("failure", "exit") /\ tui' = [Home EXCEPT !.at = "gone"]
  /\ UNCHANGED <<work, history>>

-----------------------------------------------------------------------------
(* Starting and resuming the agent *)

\* Mutant: a Project that was approved once needs no approval again.
ApprovalExists == approved # 0

\* verifySnapshotApproval: the stored digest is that of the Project as it is.
ApprovalHolds == approved = host

\* ensureSnapshotApproval: nothing is asked when the approval still holds.
PrepareStart ==
  /\ At("prepare")
  /\ tui' = IF ApprovalHolds THEN [tui EXCEPT !.at = "agent"]
            ELSE [tui EXCEPT !.at = "snapshot", !.digest = host]
  /\ UNCHANGED <<work, ui, history>>

ShowSnapshot ==
  /\ At("snapshot") /\ Launch({"approve-start", "back"}, 0)
  /\ UNCHANGED <<work, tui, history>>

\* snapshotApprove: the Project is read again, and its digest must be the one
\* that was shown.
Approve(digest) ==
  IF digest = host
  THEN approved' = host /\ tui' = [Home EXCEPT !.at = "agent"]
  ELSE UNCHANGED approved /\ Refuse

HandleSnapshot ==
  /\ \/ /\ Chosen("snapshot", "approve-start")
        /\ consented' = consented \cup {tui.digest}
        /\ Approve(tui.digest)
     \/ Dismissed("snapshot") /\ GoHome /\ UNCHANGED <<approved, consented>>
  /\ UNCHANGED <<pending, sets, host, vm, decided>>

\* app.agent with a live Supervisor resumes its VM; without one it cleans up
\* what a dead one left, checks that no Work Set is pending, and verifies the
\* approval.
AgentResumes ==
  /\ At("agent") /\ vm.state = "kept"
  /\ GoTo("opencode")
  /\ UNCHANGED <<work, ui, history>>

AgentCleansUp ==
  /\ At("agent") /\ RecoverStale
  /\ UNCHANGED <<tui, ui>>

AgentVerifies ==
  /\ At("agent") /\ vm.state = "none" /\ pending = None /\ ApprovalHolds
  /\ tui' = [tui EXCEPT !.at = "starting", !.digest = host]
  /\ UNCHANGED <<work, ui, history>>

\* session.Start copies the Project, and the copy must have the digest verified.
AgentStarts ==
  /\ At("starting") /\ vm.state = "none" /\ host = tui.digest
  /\ vm' = [state |-> "kept", from |-> host]
  /\ tui' = [Home EXCEPT !.at = "opencode"]
  /\ UNCHANGED <<pending, sets, host, approved, ui, history>>

AgentRefused ==
  /\ At("agent") \/ At("starting")
  /\ Refuse
  /\ UNCHANGED <<work, ui, history>>

\* OpenCode has the terminal until it ends; the VM is then paused.
OpenCodeEnds ==
  /\ At("opencode")
  /\ GoHome \/ Refuse
  /\ UNCHANGED <<work, ui, history>>

Agent ==
  \/ PrepareStart \/ ShowSnapshot \/ HandleSnapshot
  \/ AgentResumes \/ AgentCleansUp \/ AgentVerifies \/ AgentStarts
  \/ AgentRefused \/ OpenCodeEnds

-----------------------------------------------------------------------------
(* Reviewing the pending Work Set *)

\* changes and changesForPending: the review is built of the pending Work Set.
OpenReview(onError) ==
  tui' = [Home EXCEPT !.at = "files", !.onError = onError,
                      !.copy = pending, !.review = Digest(pending)]

OpenChanges ==
  /\ At("open")
  /\ IF pending = None THEN Refuse ELSE OpenReview("failure")
  /\ UNCHANGED <<work, ui, history>>

\* The file list and the diff are paged; a page past the end is the first one.
Page == IF tui.page * PageSize >= Files(tui.review) THEN 0 ELSE tui.page
OnPage ==
  LET rest == Files(tui.review) - Page * PageSize
  IN  IF rest < PageSize THEN rest ELSE PageSize

FileActions ==
  {"back"} \cup (IF Page > 0 THEN {"page.prev"} ELSE {})
  \cup (IF (Page + 1) * PageSize < Files(tui.review) THEN {"page.next"} ELSE {})
  \cup (IF tui.diff > 0 THEN {"diff.prev"} ELSE {})
  \cup (IF tui.diff + 1 < DiffPages THEN {"diff.next"} ELSE {})
  \cup (IF BulkOf(tui.copy) # {} THEN {"bulk"} ELSE {})
  \cup (IF Resolvable(tui.copy) THEN {"apply-all"} ELSE {})

\* A Work Set with Bulk paths only is shown as the list of those.  The
\* actions that open a file count with the others but are one event here.
ShowFiles ==
  /\ At("files")
  /\ IF Files(tui.review) = 0
     THEN GoTo("bulk") /\ UNCHANGED ui
     ELSE /\ tui' = [tui EXCEPT !.page = Page]
          /\ Launch(FileActions \cup {"file"}, OnPage - 1)
  /\ UNCHANGED <<work, history>>

\* The confirmation is asked for the Work Set that is pending now, if it is the
\* one that was on the screen.
SameAsShown == pending # None /\ Identity(pending) = Identity(tui.copy)
AskToApply ==
  IF SameAsShown
  THEN tui' = [tui EXCEPT !.at = "confirm", !.copy = pending, !.page = 0, !.diff = 0]
  ELSE Refuse

HandleFiles ==
  /\ \/ Dismissed("files") /\ GoHome
     \/ Chosen("files", "bulk") /\ GoTo("bulk")
     \/ Chosen("files", "file") /\ tui' = [tui EXCEPT !.diff = 0]
     \/ Chosen("files", "page.prev") /\ tui' = [tui EXCEPT !.page = @ - 1, !.diff = 0]
     \/ Chosen("files", "page.next") /\ tui' = [tui EXCEPT !.page = @ + 1, !.diff = 0]
     \/ Chosen("files", "diff.prev") /\ tui' = [tui EXCEPT !.diff = @ - 1]
     \/ Chosen("files", "diff.next") /\ tui' = [tui EXCEPT !.diff = @ + 1]
     \/ Chosen("files", "apply-all") /\ AskToApply
  /\ UNCHANGED <<work, history>>

\* bulkChanges reads the pending Work Set before every view, and returns when
\* it is no longer the one it was called for.
ShowBulk ==
  /\ At("bulk")
  /\ \/ pending = None /\ Refuse /\ UNCHANGED ui
     \/ /\ pending # None /\ ~StillShown(tui.copy)
        /\ GoTo("reload") /\ UNCHANGED ui
     \/ /\ StillShown(tui.copy)
        /\ tui' = [tui EXCEPT !.copy = pending]
        /\ Launch({"back"} \cup BulkOf(pending), 0)
  /\ UNCHANGED <<work, history>>

HandleBulk ==
  /\ \/ Dismissed("bulk") /\ GoTo("reload")
     \/ \E b \in BulkRoots :
          Chosen("bulk", b) /\ tui' = [tui EXCEPT !.at = "detail", !.bulk = b]
  /\ UNCHANGED <<work, history>>

\* Back from the Bulk paths the pending Work Set is read again; with no file to
\* show, the confirmation comes next.
ReloadAfterBulk ==
  /\ At("reload")
  /\ IF pending = None THEN Refuse
     ELSE IF Files(tui.review) > 0
          THEN tui' = [tui EXCEPT !.at = "files", !.copy = pending]
     ELSE IF Resolvable(pending)
          THEN tui' = [tui EXCEPT !.at = "confirm", !.copy = pending]
     ELSE GoHome
  /\ UNCHANGED <<work, ui, history>>

\* bulkDetail: the choices for one Bulk path.
ShowDetail ==
  /\ At("detail")
  /\ IF StillShown(tui.copy)
     THEN /\ tui' = [tui EXCEPT !.copy = pending]
          /\ Launch({"back", "review-normally"} \cup Dispositions, 0)
     ELSE Refuse /\ UNCHANGED ui
  /\ UNCHANGED <<work, history>>

BackToBulk == tui' = [tui EXCEPT !.at = "bulk", !.bulk = "none"]

\* Under the Project lock, which may be taken, the choice is written for what was
\* shown, or refused: a disposition that does not suit the Bulk path is, and a
\* directory that is too large to be reviewed normally.
HandleDetail ==
  /\ \/ Dismissed("detail") /\ BackToBulk /\ UNCHANGED <<pending, decided>>
     \/ \E d \in Dispositions :
          /\ Chosen("detail", d)
          /\ decided' = IF pending # None /\ tui.copy.base = sets
                        THEN decided \cup {<<tui.bulk, d>>} ELSE decided
          /\ \/ /\ StillShown(tui.copy) /\ pending.rev < MaxRev
                /\ Resolve(tui.bulk, d) /\ BackToBulk
             \/ UNCHANGED pending /\ Refuse
     \/ /\ Chosen("detail", "review-normally") /\ UNCHANGED decided
        /\ \/ /\ StillShown(tui.copy) /\ pending.rev < MaxRev
              /\ ReviewNormally(tui.bulk) /\ BackToBulk
           \/ UNCHANGED pending /\ Refuse
  /\ UNCHANGED <<sets, host, approved, vm, consented>>

\* The screen lists the Bulk paths and the dispositions of the Work Set that was
\* read last.  Of the Normal files it gives a summary of the review, which was
\* built when the changes were opened.
ShowConfirm ==
  /\ At("confirm")
  /\ tui' = [tui EXCEPT !.confirmed = tui.copy]
  /\ Launch({"confirm-apply", "back"}, 0)
  /\ UNCHANGED <<work, history>>

\* The pending Work Set is read once more; what is read is what is applied.
HandleConfirm ==
  /\ \/ /\ Chosen("confirm", "confirm-apply")
        /\ IF SameAsShown
           THEN tui' = [tui EXCEPT !.at = "apply", !.copy = pending]
           ELSE Refuse
     \/ Dismissed("confirm") /\ GoHome
  /\ UNCHANGED <<work, history>>

\* applyPending: ApplyWorkSet applies the Work Set approved to the Project its
\* VM was made of, or refuses.  Without a Normal change the Project stays as it
\* is.
ApplyWorkSet(p) ==
  /\ host = p.from /\ Resolvable(p)
  /\ IF Files(Digest(p)) = 0 THEN UNCHANGED host ELSE host' \in Contents \ {host}
  /\ pending' = None /\ decided' = {}
  /\ UNCHANGED <<sets, approved, vm, consented>>

Apply ==
  /\ At("apply") /\ SameAsShown
  /\ ApplyWorkSet(pending) /\ GoHome
  /\ UNCHANGED ui

ApplyRefused ==
  /\ At("apply") /\ Refuse
  /\ UNCHANGED <<work, ui, history>>

Review ==
  \/ OpenChanges \/ ShowFiles \/ HandleFiles
  \/ ShowBulk \/ HandleBulk \/ ReloadAfterBulk \/ ShowDetail \/ HandleDetail
  \/ ShowConfirm \/ HandleConfirm \/ Apply \/ ApplyRefused

-----------------------------------------------------------------------------
(* Export and recovery *)

\* exportPendingChanges returns a pending Work Set, or has the VM exported and
\* reads what was left.  Errors after that end the TUI.
Export ==
  /\ At("export")
  /\ \/ pending # None /\ OpenReview("gone") /\ UNCHANGED <<work, history>>
     \/ ExportVM /\ GoTo("exported")
     \/ Refuse /\ UNCHANGED <<work, history>>
  /\ UNCHANGED ui

ReadExported ==
  /\ At("exported")
  /\ IF pending = None THEN GoHome ELSE OpenReview("gone")
  /\ UNCHANGED <<work, ui, history>>

ShowRecovery ==
  /\ At("recovery") /\ Launch({"export", "recreate", "back"}, 0)
  /\ UNCHANGED <<work, tui, history>>

\* recreate refuses a pending Work Set and a frozen VM, exports a live VM and
\* cleans up after a dead Supervisor.
HandleRecovery ==
  /\ \/ Dismissed("recovery") /\ GoHome /\ UNCHANGED <<work, history>>
     \/ Chosen("recovery", "export") /\ ExportVM /\ GoHome
     \/ /\ Chosen("recovery", "recreate") /\ pending = None /\ vm.state # "frozen"
        /\ GoHome
        /\ \/ ExportVM
           \/ RecoverStale
           \/ vm.state = "none" /\ UNCHANGED <<work, history>>
     \/ /\ \E e \in {"export", "recreate"} : Chosen("recovery", e)
        /\ Refuse /\ UNCHANGED <<work, history>>

Recovery == Export \/ ReadExported \/ ShowRecovery \/ HandleRecovery

-----------------------------------------------------------------------------
(* Meanwhile: the user's editor and other terminals, and the Supervisor *)

EditProject ==
  /\ host' \in Contents \ {host}
  /\ UNCHANGED <<pending, sets, approved, vm, tui, ui, history>>

\* changes bulk resolve, with the digests the user was shown.
ResolveElsewhere ==
  /\ pending # None /\ pending.rev < MaxRev
  /\ \E b \in BulkOf(pending), d \in Dispositions :
       /\ Resolve(b, d)
       /\ decided' = decided \cup {<<b, d>>}
  /\ UNCHANGED <<sets, host, approved, vm, tui, ui, consented>>

ReviewNormallyElsewhere ==
  /\ pending # None /\ pending.rev < MaxRev
  /\ \E b \in BulkOf(pending) : ReviewNormally(b)
  /\ UNCHANGED <<sets, host, approved, vm, tui, ui, history>>

ApplyElsewhere ==
  /\ pending # None /\ ApplyWorkSet(pending)
  /\ UNCHANGED <<tui, ui>>

\* recreate --discard-pending, which refuses a Work Set with Bulk paths.
DiscardElsewhere ==
  /\ pending # None /\ BulkOf(pending) = {}
  /\ pending' = None /\ decided' = {}
  /\ UNCHANGED <<sets, host, approved, vm, tui, ui, consented>>

\* sunaba agent in another terminal.
StartElsewhere ==
  /\ vm.state = "none" /\ pending = None /\ ApprovalHolds
  /\ vm' = [state |-> "kept", from |-> host]
  /\ UNCHANGED <<pending, sets, host, approved, tui, ui, history>>

ExportElsewhere == ExportVM /\ UNCHANGED <<tui, ui>>

\* snapshot approve --digest, with the digest of the preview.
ApproveElsewhere ==
  /\ approved' = host /\ consented' = consented \cup {host}
  /\ UNCHANGED <<pending, sets, host, vm, tui, ui, decided>>

\* The Supervisor dies, or an export it began fails and freezes the VM.
SupervisorFails ==
  /\ vm.state = "kept"
  /\ \E state \in {"stale", "frozen"} : vm' = [vm EXCEPT !.state = state]
  /\ UNCHANGED <<pending, sets, host, approved, tui, ui, history>>

Meanwhile ==
  \/ EditProject \/ ResolveElsewhere \/ ReviewNormallyElsewhere
  \/ ApplyElsewhere \/ DiscardElsewhere \/ StartElsewhere
  \/ ExportElsewhere \/ ApproveElsewhere \/ SupervisorFails

-----------------------------------------------------------------------------

\* The console opens on a Project that was never started.
Init ==
  /\ pending = None /\ sets = 0 /\ host = 1 /\ approved = 0 /\ vm = NoVM
  /\ tui = Home /\ ui = Idle /\ consented = {} /\ decided = {}

\* The TUI has ended, in which case nothing more needs to happen.
Ended == tui.at = "gone" /\ UNCHANGED vars

Next ==
  \/ Exchange \/ ScreenFails \/ ShowHome \/ HandleHome
  \/ ShowFailure \/ HandleFailure
  \/ Agent \/ Review \/ Recovery \/ Meanwhile \/ Ended

Spec == Init /\ [][Next]_vars

\* The deadlines of the exchange pass, and the authority waits and kills.  A
\* helper that has sent its event exits: its finisher restores the terminal and
\* sends once, and the process ends with it.  Nothing is assumed of the user.
FairSpec == Spec /\ WF_vars(ExchangeBreaks \/ HelperExits \/ Kill \/ Returns)

-----------------------------------------------------------------------------
(* Properties *)

TypeOK ==
  /\ pending \in {None} \cup WorkSets /\ sets \in 0..MaxSets
  /\ host \in Contents /\ approved \in {0} \cup Contents /\ consented \subseteq Contents
  /\ vm \in [state: {"none", "kept", "stale", "frozen"}, from: {0} \cup Contents]
  /\ tui.at \in Screens \cup {"open", "reload", "prepare", "agent", "starting",
                              "opencode", "apply", "export", "exported", "gone"}
  /\ tui.copy \in {None} \cup WorkSets
  /\ tui.at \in {"files", "bulk", "detail", "reload", "confirm", "apply"}
       => tui.copy # None
  /\ tui.page \in Nat /\ tui.diff \in 0..(DiffPages - 1)
  /\ ui.phase \in {"idle", "launched", "shown", "answered", "broken", "result"}

\* What the TUI applies is the Work Set its confirmation was opened for, with the
\* disposition of each Bulk path that the screen listed, though other terminals
\* may write both between any two of its steps (confirmAndApplyWorkSet,
\* applyPending).  The Normal files are AppliedAsReviewed's.
Applies == tui.at = "apply" /\ tui' # tui /\ pending' # pending
AppliedAsConfirmed == [][Applies => pending = tui.confirmed]_vars

\* A disposition is in force only for the content for which the user chose it:
\* a choice made while another Work Set took the place of the one shown is not
\* written, and one carried into a derived Work Set keeps its Bulk path
\* (updatePendingResolution, reviewPendingBulkNormally).
DecidedAsShown ==
  pending # None =>
    \A b \in BulkOf(pending) :
      pending.choice[b] # Unresolved => <<b, pending.choice[b]>> \in decided

\* A VM is made only of a content whose digest the user approved, though the
\* Project may be edited while the approval is on the screen, between it and
\* the check, and between the check and the copy.
StartedAsApproved ==
  [][vm.state = "none" /\ vm'.state # "none"
       => vm'.from \in consented /\ vm'.from = host]_vars

\* One program at a time uses the terminal: OpenCode and the user's shell, once
\* the TUI has ended, share it with no helper, nor does one helper with the next,
\* whichever way the exchanges before ended and however long their helpers lived
\* on (the comment of projectLoop: the one-shot helper has fully exited before
\* authority starts OpenCode).
TerminalIsFree ==
  ui.helpers + (IF tui.at \in {"opencode", "gone"} THEN 1 ELSE 0) <= 1

\* Every exchange comes to an end, whatever its helper does before it answers.
ExchangeEnds ==
  ui.phase \in {"launched", "shown", "answered", "broken"} ~> ui.phase = "result"

\* The files that are applied are those of the review that was on the screen.
\* Not an invariant: the review is built once, but the pending Work Set is read
\* again after the Bulk paths (changesForPending).
AppliedAsReviewed == [][Applies => Digest(pending) = tui.review]_vars
=============================================================================

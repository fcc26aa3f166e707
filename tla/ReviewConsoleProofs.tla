------------------------ MODULE ReviewConsoleProofs ------------------------
(***************************************************************************)
(* Proofs about ReviewConsole, for any Bulk paths, dispositions, files and *)
(* pages and however often other terminals write.                          *)
(***************************************************************************)
EXTENDS ReviewConsole, TLAPS

-----------------------------------------------------------------------------
(* Confirmation and application *)

LEMMA MeanwhileUi == Meanwhile => UNCHANGED <<tui, ui>>
BY DEF Meanwhile, EditProject, ResolveElsewhere, ReviewNormallyElsewhere,
       ApplyElsewhere, DiscardElsewhere, StartElsewhere, ExportElsewhere,
       ApproveElsewhere, SupervisorFails

IsTui == tui = [at |-> tui.at, onError |-> tui.onError, copy |-> tui.copy,
                confirmed |-> tui.confirmed, review |-> tui.review,
                page |-> tui.page, diff |-> tui.diff, bulk |-> tui.bulk,
                digest |-> tui.digest]

\* The copy is what the confirmation shows as long as it can be answered, and
\* what is applied once it is.
ConfirmInv ==
  /\ IsTui
  /\ tui.at = "confirm" /\ ui.phase # "idle" => tui.confirmed = tui.copy
  /\ tui.at = "apply" => tui.confirmed = tui.copy

\* The coordinator is at none of the screens that lead to an application, or
\* is about to show the confirmation.
Elsewhere ==
  /\ IsTui
  /\ tui.at # "apply"
  /\ tui.at = "confirm" => ui.phase = "idle"

LEMMA InitConfirmed == Init => ConfirmInv
BY DEF Init, Home, Idle, ConfirmInv, IsTui

LEMMA ElsewhereConfirmed == Elsewhere' => ConfirmInv'
BY DEF Elsewhere, ConfirmInv

LEMMA HomeElsewhere == GoHome => Elsewhere'
BY DEF GoHome, Home, Elsewhere, IsTui

LEMMA RefuseElsewhere == Refuse => Elsewhere'
BY DEF Refuse, Home, Elsewhere, IsTui

LEMMA LeavesElsewhere ==
  ASSUME NEW screen, tui' = [Home EXCEPT !.at = screen], screen \notin {"confirm", "apply"}
  PROVE  Elsewhere'
BY DEF Home, Elsewhere, IsTui

LEMMA GoToElsewhere ==
  ASSUME IsTui, NEW screen, GoTo(screen), screen \notin {"confirm", "apply"}
  PROVE  Elsewhere'
BY DEF GoTo, Elsewhere, IsTui

LEMMA OpenElsewhere ==
  ASSUME NEW onError, OpenReview(onError)
  PROVE  Elsewhere'
BY DEF OpenReview, Home, Elsewhere, IsTui

LEMMA AgentElsewhere == IsTui /\ Agent => Elsewhere'
<1> SUFFICES ASSUME IsTui, Agent PROVE Elsewhere' OBVIOUS
<1>1. CASE PrepareStart
  BY <1>1 DEF PrepareStart, Elsewhere, IsTui
<1>2. CASE ShowSnapshot \/ AgentCleansUp
  BY <1>2 DEF ShowSnapshot, AgentCleansUp, At, Elsewhere, IsTui
<1>3. CASE HandleSnapshot
  BY <1>3, LeavesElsewhere, HomeElsewhere, RefuseElsewhere
  DEF HandleSnapshot, Approve
<1>4. CASE AgentResumes \/ AgentStarts \/ AgentRefused \/ OpenCodeEnds
  BY <1>4, GoToElsewhere, LeavesElsewhere, HomeElsewhere, RefuseElsewhere
  DEF AgentResumes, AgentStarts, AgentRefused, OpenCodeEnds
<1>5. CASE AgentVerifies
  BY <1>5 DEF AgentVerifies, Elsewhere, IsTui
<1> QED BY <1>1, <1>2, <1>3, <1>4, <1>5 DEF Agent

LEMMA RecoveryElsewhere == IsTui /\ Recovery => Elsewhere'
<1> SUFFICES ASSUME IsTui, Recovery PROVE Elsewhere' OBVIOUS
<1>1. CASE Export \/ ReadExported
  BY <1>1, OpenElsewhere, GoToElsewhere, HomeElsewhere, RefuseElsewhere
  DEF Export, ReadExported
<1>2. CASE ShowRecovery
  BY <1>2 DEF ShowRecovery, At, Elsewhere, IsTui
<1>3. CASE HandleRecovery
  BY <1>3, HomeElsewhere, RefuseElsewhere DEF HandleRecovery
<1> QED BY <1>1, <1>2, <1>3 DEF Recovery

LEMMA ScreensElsewhere ==
  IsTui /\ (ScreenFails \/ ShowHome \/ HandleHome \/ ShowFailure \/ HandleFailure)
    => Elsewhere'
<1> SUFFICES ASSUME IsTui,
                    ScreenFails \/ ShowHome \/ HandleHome \/ ShowFailure \/ HandleFailure
             PROVE  Elsewhere'
  OBVIOUS
<1>1. CASE ScreenFails
  <2>1. Refuse \/ tui' = [Home EXCEPT !.at = "gone"]
    BY <1>1 DEF ScreenFails
  <2> QED BY <2>1, RefuseElsewhere DEF Home, Elsewhere, IsTui
<1>2. CASE ShowHome \/ ShowFailure
  BY <1>2 DEF ShowHome, ShowFailure, At, Elsewhere, IsTui
<1>3. CASE HandleHome
  <2>1. \/ \E screen \in {"prepare", "agent", "open", "export", "recovery"} : GoTo(screen)
        \/ GoHome
        \/ tui' = [Home EXCEPT !.at = "gone"]
    BY <1>3 DEF HandleHome
  <2> QED BY <2>1, GoToElsewhere, HomeElsewhere DEF Home, Elsewhere, IsTui
<1>4. CASE HandleFailure
  <2>1. GoHome \/ tui' = [Home EXCEPT !.at = "gone"]
    BY <1>4 DEF HandleFailure
  <2> QED BY <2>1, HomeElsewhere DEF Home, Elsewhere, IsTui
<1> QED BY <1>1, <1>2, <1>3, <1>4

\* The steps of the review that neither show nor answer the confirmation.
LEMMA ReviewElsewhere ==
  ASSUME IsTui,
         OpenChanges \/ ShowFiles \/ HandleFiles \/ ShowBulk \/ HandleBulk
           \/ ReloadAfterBulk \/ ShowDetail \/ HandleDetail \/ Apply \/ ApplyRefused
  PROVE  Elsewhere'
<1>1. CASE OpenChanges
  BY <1>1, OpenElsewhere, RefuseElsewhere DEF OpenChanges
<1>2. CASE ShowFiles
  BY <1>2, GoToElsewhere DEF ShowFiles, At, Elsewhere, IsTui
<1>3. CASE HandleFiles
  <2>1. ui'.phase = "idle" /\ tui.at = "files"
    BY <1>3 DEF HandleFiles, Dismissed, Chosen, Handled, Ends
  <2>2. CASE AskToApply
    BY <2>1, <2>2, RefuseElsewhere DEF AskToApply, Elsewhere, IsTui
  <2>3. CASE GoHome \/ GoTo("bulk")
    BY <2>3, GoToElsewhere, HomeElsewhere
  <2>4. CASE \E page, diff : tui' = [tui EXCEPT !.page = page, !.diff = diff]
    BY <2>1, <2>4 DEF Elsewhere, IsTui
  <2>5. CASE \E diff : tui' = [tui EXCEPT !.diff = diff]
    BY <2>1, <2>5 DEF Elsewhere, IsTui
  <2> QED BY <1>3, <2>2, <2>3, <2>4, <2>5 DEF HandleFiles
<1>4. CASE ShowBulk
  BY <1>4, GoToElsewhere, RefuseElsewhere DEF ShowBulk, At, Elsewhere, IsTui
<1>5. CASE HandleBulk
  BY <1>5, GoToElsewhere DEF HandleBulk, Elsewhere, IsTui
<1>6. CASE ReloadAfterBulk
  BY <1>6, HomeElsewhere, RefuseElsewhere DEF ReloadAfterBulk, At, Elsewhere, IsTui
<1>7. CASE ShowDetail
  BY <1>7, RefuseElsewhere DEF ShowDetail, At, Elsewhere, IsTui
<1>8. CASE HandleDetail
  BY <1>8, RefuseElsewhere DEF HandleDetail, BackToBulk, Elsewhere, IsTui
<1>9. CASE Apply \/ ApplyRefused
  BY <1>9, HomeElsewhere, RefuseElsewhere DEF Apply, ApplyRefused
<1> QED BY <1>1, <1>2, <1>3, <1>4, <1>5, <1>6, <1>7, <1>8, <1>9

\* Only the exchange, the environment and the confirmation itself keep the
\* coordinator where a confirmation leads.
LEMMA NextConfirmed == ConfirmInv /\ [Next]_vars => ConfirmInv'
<1> SUFFICES ASSUME ConfirmInv, [Next]_vars PROVE ConfirmInv' OBVIOUS
<1>0. IsTui
  BY DEF ConfirmInv
<1>1. CASE Exchange
  <2>1. UNCHANGED tui /\ ui.phase # "idle"
    BY <1>1 DEF Exchange, HelperConnects, ExchangeBreaks, HelperAnswers, HelperExits,
                Kill, Exits, Returns
  <2> QED BY <2>1 DEF ConfirmInv, IsTui
<1>2. CASE Meanwhile \/ Ended \/ UNCHANGED vars
  BY <1>2, MeanwhileUi DEF Ended, vars, ConfirmInv, IsTui
<1>3. CASE Agent \/ Recovery
  BY <1>0, <1>3, AgentElsewhere, RecoveryElsewhere, ElsewhereConfirmed
<1>4. CASE ScreenFails \/ ShowHome \/ HandleHome \/ ShowFailure \/ HandleFailure
  BY <1>0, <1>4, ScreensElsewhere, ElsewhereConfirmed
<1>5. CASE ShowConfirm
  BY <1>5 DEF ShowConfirm, At, ConfirmInv, IsTui
<1>6. CASE HandleConfirm
  <2>1. CASE Chosen("confirm", "confirm-apply") /\ SameAsShown
    BY <1>6, <2>1 DEF HandleConfirm, Chosen, Dismissed, SameAsShown, Identity,
                      ConfirmInv, IsTui
  <2>2. CASE ~(Chosen("confirm", "confirm-apply") /\ SameAsShown)
    BY <1>6, <2>2, HomeElsewhere, RefuseElsewhere, ElsewhereConfirmed
    DEF HandleConfirm
  <2> QED BY <2>1, <2>2
<1>7. CASE OpenChanges \/ ShowFiles \/ HandleFiles \/ ShowBulk \/ HandleBulk
             \/ ReloadAfterBulk \/ ShowDetail \/ HandleDetail \/ Apply \/ ApplyRefused
  BY <1>0, <1>7, ReviewElsewhere, ElsewhereConfirmed
<1> QED BY <1>1, <1>2, <1>3, <1>4, <1>5, <1>6, <1>7 DEF Next, Review

\* What the TUI applies is the Work Set the confirmation was opened for, with the
\* disposition of each Bulk path that the screen listed, whatever other terminals
\* wrote in between (confirmAndApplyWorkSet, applyPending).
THEOREM ConfirmedApply == Spec => AppliedAsConfirmed
<1>1. ConfirmInv /\ [Next]_vars => [Applies => pending = tui.confirmed]_vars
  <2> SUFFICES ASSUME ConfirmInv, [Next]_vars, Applies
               PROVE  pending = tui.confirmed
    OBVIOUS
  <2>1. tui.at = "apply" /\ tui' # tui /\ pending' # pending
    BY DEF Applies
  <2>2. CASE Apply
    BY <2>1, <2>2 DEF Apply, SameAsShown, Identity, ConfirmInv
  <2>3. CASE Exchange \/ Meanwhile \/ Ended \/ UNCHANGED vars
    BY <2>1, <2>3, MeanwhileUi
    DEF Exchange, HelperConnects, ExchangeBreaks, HelperAnswers, HelperExits,
        Kill, Exits, Returns, Ended, vars
  <2>4. CASE ScreenFails \/ ShowHome \/ HandleHome \/ ShowFailure \/ HandleFailure
             \/ Agent \/ ApplyRefused
    <3>1. ScreenFails \/ ShowHome \/ HandleHome \/ ShowFailure \/ HandleFailure
            \/ ApplyRefused => UNCHANGED pending
      BY DEF ScreenFails, ShowHome, HandleHome, ShowFailure, HandleFailure,
             ApplyRefused, work
    <3>2. Agent => UNCHANGED pending
      BY DEF Agent, PrepareStart, ShowSnapshot, HandleSnapshot, AgentResumes,
             AgentCleansUp, RecoverStale, AgentVerifies, AgentStarts, AgentRefused,
             OpenCodeEnds, work
    <3> QED BY <2>1, <2>4, <3>1, <3>2
  <2>5. CASE Recovery
    BY <2>1, <2>5
    DEF Recovery, Export, ReadExported, ShowRecovery, HandleRecovery, At, Chosen,
        Dismissed
  <2>6. CASE Review /\ ~Apply /\ ~ApplyRefused
    BY <2>1, <2>6
    DEF Review, OpenChanges, ShowFiles, HandleFiles, ShowBulk, HandleBulk,
        ReloadAfterBulk, ShowDetail, HandleDetail, ShowConfirm, HandleConfirm,
        At, Chosen, Dismissed
  <2> QED BY <2>2, <2>3, <2>4, <2>5, <2>6 DEF Next
<1> QED BY <1>1, InitConfirmed, NextConfirmed, PTL DEF Spec, AppliedAsConfirmed

-----------------------------------------------------------------------------
(* The exchange *)

IsUi == ui = [phase |-> ui.phase, helpers |-> ui.helpers, actions |-> ui.actions,
              event |-> ui.event]

\* There is a helper only while an exchange is under way, which is on one of the
\* screens that show a view.
ExchangeInv ==
  /\ IsUi /\ ui.helpers \in {0, 1}
  /\ ui.phase \in {"idle", "result"} => ui.helpers = 0
  /\ ui.phase \in {"launched", "shown"} => ui.helpers = 1
  /\ ui.phase # "idle" => tui.at \in Screens

LEMMA ExchangeIsFree == ExchangeInv => TerminalIsFree
<1> SUFFICES ASSUME ExchangeInv PROVE TerminalIsFree OBVIOUS
<1>1. CASE tui.at \in {"opencode", "gone"}
  <2>1. ui.helpers = 0
    BY <1>1 DEF ExchangeInv, Screens
  <2> QED BY <2>1 DEF TerminalIsFree
<1>2. CASE tui.at \notin {"opencode", "gone"}
  BY <1>2 DEF ExchangeInv, TerminalIsFree
<1> QED BY <1>1, <1>2

\* What a step of the coordinator does with the exchange: it waits for nothing,
\* handles what was returned, or launches a helper for a screen it stays on.
UiStep ==
  \/ UNCHANGED ui /\ (ui.phase = "idle" \/ UNCHANGED tui)
  \/ Handled /\ ui.phase = "result"
  \/ /\ ui.phase = "idle" /\ tui'.at \in Screens
     /\ \E actions, files : Launch(actions, files)

LEMMA UiStepIsFree == ExchangeInv /\ UiStep => ExchangeInv'
<1> SUFFICES ASSUME ExchangeInv, UiStep PROVE ExchangeInv' OBVIOUS
<1>1. CASE UNCHANGED ui /\ (ui.phase = "idle" \/ UNCHANGED tui)
  BY <1>1 DEF ExchangeInv, IsUi
<1>2. CASE Handled /\ ui.phase = "result"
  BY <1>2 DEF Handled, Ends, ExchangeInv, IsUi
<1>3. CASE /\ ui.phase = "idle" /\ tui'.at \in Screens
           /\ \E actions, files : Launch(actions, files)
  <2>1. PICK actions, files : Launch(actions, files)
    BY <1>3
  <2>2. ui.helpers = 0 /\ 0 + 1 = 1
    BY <1>3 DEF ExchangeInv
  <2>3. CASE Result("error")
    BY <1>3, <2>2, <2>3 DEF Result, Ends, ExchangeInv, IsUi
  <2>4. CASE ui' = [phase |-> "launched", helpers |-> ui.helpers + 1,
                    actions |-> actions, event |-> "none"]
    BY <1>3, <2>2, <2>4 DEF ExchangeInv, IsUi
  <2> QED BY <2>1, <2>3, <2>4 DEF Launch
<1> QED BY <1>1, <1>2, <1>3 DEF UiStep

LEMMA AgentUi == IsTui /\ Agent => UiStep
<1> SUFFICES ASSUME IsTui, Agent PROVE UiStep OBVIOUS
<1>1. CASE ShowSnapshot
  BY <1>1 DEF ShowSnapshot, At, UiStep, Screens
<1>2. CASE HandleSnapshot
  BY <1>2 DEF HandleSnapshot, Chosen, Dismissed, UiStep
<1>3. CASE \/ PrepareStart \/ AgentResumes \/ AgentCleansUp \/ AgentVerifies
           \/ AgentStarts \/ AgentRefused \/ OpenCodeEnds
  BY <1>3 DEF PrepareStart, AgentResumes, AgentCleansUp, AgentVerifies, AgentStarts,
              AgentRefused, OpenCodeEnds, At, UiStep
<1> QED BY <1>1, <1>2, <1>3 DEF Agent

LEMMA ReviewUi == IsTui /\ Review => UiStep
<1> SUFFICES ASSUME IsTui, Review PROVE UiStep OBVIOUS
<1>1. CASE OpenChanges \/ ReloadAfterBulk \/ Apply \/ ApplyRefused
  BY <1>1 DEF OpenChanges, ReloadAfterBulk, Apply, ApplyRefused, At, UiStep
<1>2. CASE HandleFiles \/ HandleBulk \/ HandleDetail \/ HandleConfirm
  BY <1>2 DEF HandleFiles, HandleBulk, HandleDetail, HandleConfirm, Chosen, Dismissed,
              UiStep
<1>3. CASE ShowFiles
  BY <1>3 DEF ShowFiles, At, UiStep, Screens, IsTui
<1>4. CASE ShowBulk
  BY <1>4 DEF ShowBulk, At, UiStep, Screens, IsTui
<1>5. CASE ShowDetail \/ ShowConfirm
  BY <1>5 DEF ShowDetail, ShowConfirm, At, UiStep, Screens, IsTui
<1> QED BY <1>1, <1>2, <1>3, <1>4, <1>5 DEF Review

LEMMA RecoveryUi == Recovery => UiStep
<1> SUFFICES ASSUME Recovery PROVE UiStep OBVIOUS
<1>1. CASE ShowRecovery
  BY <1>1 DEF ShowRecovery, At, UiStep, Screens
<1>2. CASE Export \/ ReadExported
  BY <1>2 DEF Export, ReadExported, At, UiStep
<1>3. CASE HandleRecovery
  BY <1>3 DEF HandleRecovery, Chosen, Dismissed, UiStep
<1> QED BY <1>1, <1>2, <1>3 DEF Recovery

LEMMA ScreensUi ==
  ScreenFails \/ ShowHome \/ HandleHome \/ ShowFailure \/ HandleFailure => UiStep
<1>1. ShowHome \/ ShowFailure => UiStep
  BY DEF ShowHome, ShowFailure, At, UiStep, Screens
<1>2. ScreenFails \/ HandleHome \/ HandleFailure => UiStep
  BY DEF ScreenFails, HandleHome, HandleFailure, Chosen, UiStep
<1> QED BY <1>1, <1>2

\* The helper's side: it leaves the terminal before its exchange returns.
LEMMA ExchangeStep == ExchangeInv /\ Exchange => ExchangeInv'
<1> SUFFICES ASSUME ExchangeInv, Exchange PROVE ExchangeInv' OBVIOUS
<1>1. UNCHANGED tui /\ 1 - 1 = 0
  BY DEF Exchange, HelperConnects, ExchangeBreaks, HelperAnswers, HelperExits, Kill,
         Exits, Returns
<1>2. CASE HelperConnects
  BY <1>1, <1>2 DEF HelperConnects, ExchangeInv, IsUi
<1>3. CASE ExchangeBreaks
  <2>1. ui.phase \in {"launched", "shown"}
    BY <1>3 DEF ExchangeBreaks
  <2>2. CASE Ends("broken", "error", ui.helpers)
    BY <1>1, <2>1, <2>2 DEF Ends, ExchangeInv, IsUi
  <2>3. CASE Ends("broken", "error", ui.helpers - 1)
    BY <1>1, <2>1, <2>3 DEF Ends, ExchangeInv, IsUi
  <2> QED BY <1>3, <2>2, <2>3 DEF ExchangeBreaks
<1>4. CASE HelperAnswers
  <2>1. PICK e : Ends("answered", e, ui.helpers) \/ Ends("broken", "error", ui.helpers)
    BY <1>4 DEF HelperAnswers
  <2> QED BY <1>1, <1>4, <2>1 DEF HelperAnswers, Ends, ExchangeInv, IsUi
<1>5. CASE HelperExits \/ Kill
  <2>1. ui.helpers = 1 /\ ui.phase \in {"answered", "broken"}
    BY <1>5 DEF HelperExits, Kill, ExchangeInv
  <2>2. Ends(ui.phase, ui.event, 0)
    BY <1>1, <1>5, <2>1 DEF HelperExits, Kill, Exits
  <2> QED BY <1>1, <2>1, <2>2 DEF Ends, ExchangeInv, IsUi
<1>6. CASE Returns
  <2>1. ui.helpers = 0 /\ ui.phase \in {"answered", "broken"}
    BY <1>6 DEF Returns, Awaited
  <2>2. PICK e : Result(e)
    BY <1>6 DEF Returns
  <2> QED BY <1>1, <2>1, <2>2 DEF Result, Ends, ExchangeInv, IsUi
<1> QED BY <1>2, <1>3, <1>4, <1>5, <1>6 DEF Exchange

\* The exchange stays whole, whatever the coordinator and the helper do.
LEMMA NextIsFree == IsTui /\ ExchangeInv /\ [Next]_vars => ExchangeInv'
<1> SUFFICES ASSUME IsTui, ExchangeInv, [Next]_vars PROVE ExchangeInv' OBVIOUS
<1>1. CASE Exchange
  BY <1>1, ExchangeStep
<1>2. CASE ScreenFails \/ ShowHome \/ HandleHome \/ ShowFailure \/ HandleFailure
  BY <1>2, ScreensUi, UiStepIsFree
<1>3. CASE Agent
  BY <1>3, AgentUi, UiStepIsFree
<1>4. CASE Review
  BY <1>4, ReviewUi, UiStepIsFree
<1>5. CASE Recovery
  BY <1>5, RecoveryUi, UiStepIsFree
<1>6. CASE Meanwhile
  BY <1>6, MeanwhileUi, UiStepIsFree DEF UiStep
<1>7. CASE Ended \/ UNCHANGED vars
  BY <1>7, UiStepIsFree DEF Ended, vars, UiStep
<1> QED BY <1>1, <1>2, <1>3, <1>4, <1>5, <1>6, <1>7 DEF Next

\* One program at a time uses the terminal, in whichever way an exchange ends and
\* however long a helper lives on (exchangeUIView).
THEOREM TerminalFree == Spec => []TerminalIsFree
<1>1. Init => ConfirmInv /\ ExchangeInv
  BY InitConfirmed DEF Init, Idle, ExchangeInv, IsUi
<1>2. ConfirmInv /\ ExchangeInv /\ [Next]_vars => ConfirmInv' /\ ExchangeInv'
  BY NextConfirmed, NextIsFree DEF ConfirmInv
<1> QED BY <1>1, <1>2, ExchangeIsFree, PTL DEF Spec

-----------------------------------------------------------------------------
(* Approval of the content a VM is made of *)

\* The stored approval, and the content an approval was verified for, are among
\* the contents the user approved.
ApprovalInv ==
  /\ IsTui
  /\ host \in Nat \ {0}
  /\ approved \in consented \cup {0}
  /\ tui.at = "starting" => tui.digest \in consented

\* A step of the coordinator that verifies no approval.
ShownStep ==
  \/ UNCHANGED tui
  \/ IsTui' /\ tui'.at # "starting"

LEMMA HomeShown == GoHome \/ Refuse => ShownStep
BY DEF GoHome, Refuse, Home, ShownStep, IsTui

LEMMA GoToShown ==
  ASSUME IsTui, NEW screen, GoTo(screen), screen # "starting"
  PROVE  ShownStep
BY DEF GoTo, ShownStep, IsTui

LEMMA LeavesShown ==
  ASSUME NEW screen, tui' = [Home EXCEPT !.at = screen], screen # "starting"
  PROVE  ShownStep
BY DEF Home, ShownStep, IsTui

LEMMA OpenShown == ASSUME NEW onError, OpenReview(onError) PROVE ShownStep
BY DEF OpenReview, Home, ShownStep, IsTui

\* A step that leaves the Project and its approvals alone.
LEMMA ShownApproval ==
  ApprovalInv /\ ShownStep /\ UNCHANGED <<host, approved, consented>> => ApprovalInv'
BY DEF ApprovalInv, ShownStep, IsTui

\* A step that changes the Project, at any screen.
LEMMA ChangedApproval ==
  ASSUME ApprovalInv, ShownStep, host' \in Contents \/ host' = host,
         UNCHANGED <<approved, consented>>
  PROVE  ApprovalInv'
<1>1. host' \in Nat \ {0}
  BY ConsoleAssumption DEF ApprovalInv, Contents
<1> QED BY <1>1 DEF ApprovalInv, ShownStep, IsTui

LEMMA AgentApproval == ApprovalInv /\ Agent => ApprovalInv'
<1> SUFFICES ASSUME ApprovalInv, Agent PROVE ApprovalInv' OBVIOUS
<1>0. IsTui
  BY DEF ApprovalInv
<1>1. CASE PrepareStart
  <2>1. ShownStep
    BY <1>0, <1>1 DEF PrepareStart, ShownStep, IsTui
  <2> QED BY <1>1, <2>1, ShownApproval DEF PrepareStart, work, history
<1>2. CASE ShowSnapshot \/ AgentCleansUp
  BY <1>2, ShownApproval
  DEF ShowSnapshot, AgentCleansUp, RecoverStale, ShownStep, work, history
<1>3. CASE HandleSnapshot
  <2>1. CASE consented' = consented \cup {tui.digest} /\ Approve(tui.digest)
    <3>1. IsTui' /\ tui'.at # "starting"
      BY <2>1 DEF Approve, Refuse, Home, IsTui
    <3>2. approved' \in {approved, tui.digest}
      BY <2>1 DEF Approve
    <3> QED BY <1>3, <2>1, <3>1, <3>2 DEF HandleSnapshot, ApprovalInv
  <2>2. CASE GoHome /\ UNCHANGED <<approved, consented>>
    BY <1>3, <2>2, HomeShown, ShownApproval DEF HandleSnapshot, ApprovalInv
  <2> QED BY <1>3, <2>1, <2>2 DEF HandleSnapshot
<1>4. CASE AgentResumes \/ AgentStarts \/ AgentRefused \/ OpenCodeEnds
  <2>1. ShownStep
    BY <1>0, <1>4, HomeShown, GoToShown, LeavesShown
    DEF AgentResumes, AgentStarts, AgentRefused, OpenCodeEnds
  <2> QED BY <1>4, <2>1, ShownApproval
          DEF AgentResumes, AgentStarts, AgentRefused, OpenCodeEnds, work, history
<1>5. CASE AgentVerifies
  BY <1>0, <1>5 DEF AgentVerifies, ApprovalHolds, ApprovalInv, IsTui, work, history
<1> QED BY <1>1, <1>2, <1>3, <1>4, <1>5 DEF Agent

LEMMA ReviewApproval == ApprovalInv /\ Review => ApprovalInv'
<1> SUFFICES ASSUME ApprovalInv, Review PROVE ApprovalInv' OBVIOUS
<1>0. IsTui
  BY DEF ApprovalInv
<1>1. ShownStep
  <2>1. CASE OpenChanges
    BY <2>1, OpenShown, HomeShown DEF OpenChanges
  <2>2. CASE ShowFiles \/ ShowBulk \/ ShowDetail \/ ShowConfirm
    BY <1>0, <2>2, GoToShown, HomeShown
    DEF ShowFiles, ShowBulk, ShowDetail, ShowConfirm, At, ShownStep, IsTui
  <2>3. CASE HandleFiles
    <3>1. tui.at = "files"
      BY <2>3 DEF HandleFiles, Dismissed, Chosen
    <3>2. CASE AskToApply
      BY <1>0, <3>2, HomeShown DEF AskToApply, ShownStep, IsTui
    <3>3. CASE GoHome \/ GoTo("bulk")
      BY <1>0, <3>3, GoToShown, HomeShown
    <3>4. CASE \E page, diff : tui' = [tui EXCEPT !.page = page, !.diff = diff]
      BY <1>0, <3>1, <3>4 DEF ShownStep, IsTui
    <3>5. CASE \E diff : tui' = [tui EXCEPT !.diff = diff]
      BY <1>0, <3>1, <3>5 DEF ShownStep, IsTui
    <3> QED BY <2>3, <3>2, <3>3, <3>4, <3>5 DEF HandleFiles
  <2>4. CASE HandleBulk
    BY <1>0, <2>4, GoToShown DEF HandleBulk, ShownStep, IsTui
  <2>5. CASE ReloadAfterBulk
    BY <1>0, <2>5, HomeShown DEF ReloadAfterBulk, ShownStep, IsTui
  <2>6. CASE HandleDetail
    BY <1>0, <2>6, HomeShown DEF HandleDetail, BackToBulk, ShownStep, IsTui
  <2>7. CASE HandleConfirm
    BY <1>0, <2>7, HomeShown DEF HandleConfirm, ShownStep, IsTui
  <2>8. CASE Apply \/ ApplyRefused
    BY <2>8, HomeShown DEF Apply, ApplyRefused
  <2> QED BY <2>1, <2>2, <2>3, <2>4, <2>5, <2>6, <2>7, <2>8 DEF Review
<1>2. CASE Apply
  BY <1>1, <1>2, ChangedApproval DEF Apply, ApplyWorkSet
<1>3. CASE ~Apply
  <2>1. UNCHANGED <<host, approved, consented>>
    BY <1>3
    DEF Review, OpenChanges, ShowFiles, HandleFiles, ShowBulk, HandleBulk,
        ReloadAfterBulk, ShowDetail, HandleDetail, ShowConfirm, HandleConfirm,
        ApplyRefused, work, history
  <2> QED BY <1>1, <2>1, ShownApproval
<1> QED BY <1>2, <1>3

LEMMA NextApproval == ApprovalInv /\ [Next]_vars => ApprovalInv'
<1> SUFFICES ASSUME ApprovalInv, [Next]_vars PROVE ApprovalInv' OBVIOUS
<1>0. IsTui
  BY DEF ApprovalInv
<1>1. CASE Exchange \/ Ended \/ UNCHANGED vars
  BY <1>1, ShownApproval
  DEF Exchange, HelperConnects, ExchangeBreaks, HelperAnswers, HelperExits, Kill,
      Exits, Returns, Ended, vars, work, history, ShownStep
<1>2. CASE ScreenFails \/ ShowHome \/ HandleHome \/ ShowFailure \/ HandleFailure
  <2>1. UNCHANGED <<host, approved, consented>>
    BY <1>2 DEF ScreenFails, ShowHome, HandleHome, ShowFailure, HandleFailure, work,
                history
  <2>2. CASE ShowHome \/ ShowFailure
    BY <2>1, <2>2, ShownApproval DEF ShowHome, ShowFailure, ShownStep
  <2>3. CASE ScreenFails \/ HandleHome \/ HandleFailure
    <3>1. \/ \E screen \in {"prepare", "agent", "open", "export", "recovery"} : GoTo(screen)
          \/ GoHome \/ Refuse
          \/ tui' = [Home EXCEPT !.at = "gone"]
      BY <2>3 DEF ScreenFails, HandleHome, HandleFailure
    <3>2. ShownStep
      BY <1>0, <3>1, GoToShown, HomeShown DEF Home, ShownStep, IsTui
    <3> QED BY <2>1, <3>2, ShownApproval
  <2> QED BY <1>2, <2>2, <2>3
<1>3. CASE Agent
  BY <1>3, AgentApproval
<1>4. CASE Review
  BY <1>4, ReviewApproval
<1>5. CASE Recovery
  <2>1. ShownStep
    BY <1>0, <1>5, HomeShown, GoToShown, OpenShown
    DEF Recovery, Export, ReadExported, ShowRecovery, HandleRecovery, ShownStep
  <2>2. UNCHANGED <<host, approved, consented>>
    BY <1>5 DEF Recovery, Export, ReadExported, ShowRecovery, HandleRecovery, ExportVM,
                RecoverStale, work, history
  <2> QED BY <2>1, <2>2, ShownApproval
<1>6. CASE Meanwhile
  <2>1. ShownStep
    BY <1>6, MeanwhileUi DEF ShownStep
  <2>2. CASE EditProject \/ ApplyElsewhere
    BY <2>1, <2>2, ChangedApproval DEF EditProject, ApplyElsewhere, ApplyWorkSet, history
  <2>3. CASE ApproveElsewhere
    BY <2>3 DEF ApproveElsewhere, ApprovalInv, IsTui
  <2>4. CASE \/ ResolveElsewhere \/ ReviewNormallyElsewhere \/ DiscardElsewhere
             \/ StartElsewhere \/ ExportElsewhere \/ SupervisorFails
    BY <2>1, <2>4, ShownApproval
    DEF ResolveElsewhere, ReviewNormallyElsewhere, DiscardElsewhere, StartElsewhere,
        ExportElsewhere, ExportVM, SupervisorFails, history
  <2> QED BY <1>6, <2>2, <2>3, <2>4 DEF Meanwhile
<1> QED BY <1>1, <1>2, <1>3, <1>4, <1>5, <1>6 DEF Next

\* A VM is made only of a content the user approved, however the Project is
\* edited between the preview, the approval, the check and the copy
\* (snapshotApprove, verifySnapshotApproval).
THEOREM ApprovedStart == Spec => StartedAsApproved
<1>1. Init => ApprovalInv
  BY DEF Init, Home, ApprovalInv, IsTui
<1>2. ApprovalInv /\ [Next]_vars
        => [vm.state = "none" /\ vm'.state # "none" => vm'.from \in consented /\ vm'.from = host]_vars
  <2> SUFFICES ASSUME ApprovalInv, [Next]_vars, vm.state = "none", vm'.state # "none"
               PROVE  vm'.from \in consented /\ vm'.from = host
    OBVIOUS
  <2>1. CASE AgentStarts
    BY <2>1 DEF AgentStarts, At, ApprovalInv
  <2>2. CASE StartElsewhere
    BY <2>2 DEF StartElsewhere, ApprovalHolds, ApprovalInv
  <2>3. ~ExportVM /\ ~RecoverStale /\ ~SupervisorFails
    BY DEF ExportVM, RecoverStale, SupervisorFails
  <2>4. CASE Meanwhile /\ ~StartElsewhere
    BY <2>3, <2>4
    DEF Meanwhile, EditProject, ResolveElsewhere, ReviewNormallyElsewhere,
        ApplyElsewhere, ApplyWorkSet, DiscardElsewhere, ExportElsewhere,
        ApproveElsewhere
  <2>5. CASE Agent /\ ~AgentStarts
    BY <2>3, <2>5
    DEF Agent, PrepareStart, ShowSnapshot, HandleSnapshot, AgentResumes,
        AgentCleansUp, AgentVerifies, AgentRefused, OpenCodeEnds, work
  <2>6. CASE Recovery
    BY <2>3, <2>6
    DEF Recovery, Export, ReadExported, ShowRecovery, HandleRecovery, work
  <2>7. CASE Review
    BY <2>7
    DEF Review, OpenChanges, ShowFiles, HandleFiles, ShowBulk, HandleBulk,
        ReloadAfterBulk, ShowDetail, HandleDetail, ShowConfirm, HandleConfirm,
        Apply, ApplyWorkSet, ApplyRefused, work
  <2>8. CASE \/ Exchange \/ ScreenFails \/ ShowHome \/ HandleHome
             \/ ShowFailure \/ HandleFailure \/ Ended \/ UNCHANGED vars
    BY <2>8
    DEF Exchange, HelperConnects, ExchangeBreaks, HelperAnswers, HelperExits, Kill,
        Exits, Returns, ScreenFails, ShowHome, HandleHome, ShowFailure, HandleFailure,
        Ended, vars, work
  <2> QED BY <2>1, <2>2, <2>4, <2>5, <2>6, <2>7, <2>8 DEF Next
<1> QED BY <1>1, <1>2, NextApproval, PTL DEF Spec, StartedAsApproved

-----------------------------------------------------------------------------
(* The choices for the Bulk paths *)

Choices == [BulkRoots -> Dispositions \cup {Unresolved}]
IsPending ==
  /\ pending = [base |-> pending.base, from |-> pending.from,
                promoted |-> pending.promoted, choice |-> pending.choice,
                rev |-> pending.rev]
  /\ pending.choice \in Choices

\* The pending Work Set is the one exported last, so that decided is about it.
DecidedInv ==
  /\ sets \in Nat
  /\ pending # None => IsPending /\ pending.base = sets
  /\ DecidedAsShown

\* Without a pending Work Set there is nothing to be decided.
LEMMA GoneDecided == ASSUME DecidedInv, UNCHANGED sets, pending' = None PROVE DecidedInv'
BY DEF DecidedInv, DecidedAsShown

\* Choices may be added to those the user made for a Work Set that stays.
LEMMA KeptDecided ==
  ASSUME DecidedInv, UNCHANGED <<sets, pending>>, decided \subseteq decided'
  PROVE  DecidedInv'
<1>1. BulkOf(pending)' = BulkOf(pending)
  BY DEF BulkOf
<1> QED BY <1>1 DEF DecidedInv, DecidedAsShown, IsPending

LEMMA ResolveDecided ==
  ASSUME DecidedInv, pending # None, NEW b, NEW d \in Dispositions, Resolve(b, d),
         UNCHANGED sets, decided' = decided \cup {<<b, d>>}
  PROVE  DecidedInv'
<1>1. IsPending /\ pending.base = sets
  BY DEF DecidedInv
<1>2. /\ pending'.base = sets /\ pending'.promoted = pending.promoted
      /\ pending'.choice = [pending.choice EXCEPT ![b] = d]
  BY <1>1 DEF Resolve, IsPending
<1>3. IsPending'
  BY <1>1 DEF Resolve, IsPending, Choices
<1>4. ASSUME NEW c \in BulkOf(pending)', pending'.choice[c] # Unresolved
      PROVE  <<c, pending'.choice[c]>> \in decided'
  <2>1. c \in BulkOf(pending) /\ c \in BulkRoots
    BY <1>2, <1>4 DEF BulkOf
  <2>2. CASE c = b
    BY <1>1, <1>2, <2>1, <2>2 DEF IsPending, Choices
  <2>3. CASE c # b
    <3>1. pending'.choice[c] = pending.choice[c]
      BY <1>1, <1>2, <2>1, <2>3 DEF IsPending, Choices
    <3> QED BY <1>4, <2>1, <3>1 DEF DecidedInv, DecidedAsShown
  <2> QED BY <2>2, <2>3
<1> QED BY <1>2, <1>3, <1>4 DEF DecidedInv, DecidedAsShown

LEMMA PromotedDecided ==
  ASSUME DecidedInv, pending # None, NEW b, ReviewNormally(b), UNCHANGED <<sets, decided>>
  PROVE  DecidedInv'
<1>1. IsPending /\ pending.base = sets
  BY DEF DecidedInv
<1>2. /\ pending'.base = sets /\ pending'.promoted = pending.promoted \cup {b}
      /\ pending'.choice = [pending.choice EXCEPT ![b] = Unresolved]
  BY <1>1 DEF ReviewNormally, IsPending
<1>3. IsPending'
  BY <1>1 DEF ReviewNormally, IsPending, Choices
<1>4. ASSUME NEW c \in BulkOf(pending)', pending'.choice[c] # Unresolved
      PROVE  <<c, pending'.choice[c]>> \in decided'
  <2>1. c \in BulkOf(pending) /\ c # b /\ c \in BulkRoots
    BY <1>2, <1>4 DEF BulkOf
  <2>2. pending'.choice[c] = pending.choice[c]
    BY <1>1, <1>2, <2>1 DEF IsPending, Choices
  <2> QED BY <1>4, <2>1, <2>2 DEF DecidedInv, DecidedAsShown
<1> QED BY <1>2, <1>3, <1>4 DEF DecidedInv, DecidedAsShown

\* A new Work Set starts without a choice.
LEMMA ExportDecided == DecidedInv /\ ExportVM => DecidedInv'
<1> SUFFICES ASSUME DecidedInv, ExportVM PROVE DecidedInv' OBVIOUS
<1>1. CASE pending' = Exported(vm.from) /\ sets' = sets + 1
  <2>1. /\ IsPending' /\ pending'.base = sets' /\ sets' \in Nat
        /\ \A c \in BulkRoots : pending'.choice[c] = Unresolved
    BY <1>1 DEF Exported, IsPending, Choices, DecidedInv
  <2> QED BY <2>1 DEF DecidedInv, DecidedAsShown, BulkOf
<1>2. CASE UNCHANGED <<pending, sets>>
  BY <1>2, KeptDecided DEF ExportVM, history
<1> QED BY <1>1, <1>2 DEF ExportVM

LEMMA DetailDecided == DecidedInv /\ HandleDetail => DecidedInv'
<1> SUFFICES ASSUME DecidedInv, HandleDetail PROVE DecidedInv' OBVIOUS
<1>0. UNCHANGED sets
  BY DEF HandleDetail
<1>1. CASE UNCHANGED pending /\ decided \subseteq decided'
  BY <1>0, <1>1, KeptDecided
<1>2. CASE /\ StillShown(tui.copy)
           /\ \E d \in Dispositions :
                /\ decided' = IF pending # None /\ tui.copy.base = sets
                              THEN decided \cup {<<tui.bulk, d>>} ELSE decided
                /\ Resolve(tui.bulk, d)
  <2>1. pending # None /\ tui.copy.base = pending.base
    BY <1>2 DEF StillShown, Digest
  <2>2. tui.copy.base = sets
    BY <2>1 DEF DecidedInv
  <2> QED BY <1>0, <1>2, <2>1, <2>2, ResolveDecided
<1>3. CASE StillShown(tui.copy) /\ ReviewNormally(tui.bulk) /\ UNCHANGED decided
  BY <1>0, <1>3, PromotedDecided DEF StillShown
<1> QED BY <1>1, <1>2, <1>3 DEF HandleDetail

\* A disposition is in force only for the content it was chosen for
\* (updatePendingResolution, reviewPendingBulkNormally).
THEOREM Decided == Spec => []DecidedAsShown
<1>1. Init => DecidedInv
  BY DEF Init, DecidedInv, DecidedAsShown
<1>2. DecidedInv /\ [Next]_vars => DecidedInv'
  <2> SUFFICES ASSUME DecidedInv, [Next]_vars PROVE DecidedInv' OBVIOUS
  <2>1. CASE ExportVM
    BY <2>1, ExportDecided
  <2>2. CASE HandleDetail
    BY <2>2, DetailDecided
  <2>3. CASE Agent
    BY <2>3, KeptDecided
    DEF Agent, PrepareStart, ShowSnapshot, HandleSnapshot, AgentResumes,
        AgentCleansUp, RecoverStale, AgentVerifies, AgentStarts, AgentRefused,
        OpenCodeEnds, work, history
  <2>4. CASE Review /\ ~HandleDetail /\ ~Apply
    BY <2>4, KeptDecided
    DEF Review, OpenChanges, ShowFiles, HandleFiles, ShowBulk, HandleBulk,
        ReloadAfterBulk, ShowDetail, ShowConfirm, HandleConfirm, ApplyRefused, work,
        history
  <2>5. CASE Recovery /\ ~ExportVM
    BY <2>5, KeptDecided
    DEF Recovery, Export, ReadExported, ShowRecovery, HandleRecovery, RecoverStale,
        work, history
  <2>6. CASE ResolveElsewhere
    BY <2>6, ResolveDecided DEF ResolveElsewhere
  <2>7. CASE ReviewNormallyElsewhere
    BY <2>7, PromotedDecided DEF ReviewNormallyElsewhere, history
  <2>8. CASE EditProject \/ StartElsewhere \/ ApproveElsewhere \/ SupervisorFails
    BY <2>8, KeptDecided
    DEF EditProject, StartElsewhere, ApproveElsewhere, SupervisorFails, history
  <2>9. CASE \/ Exchange \/ ScreenFails \/ ShowHome \/ HandleHome
             \/ ShowFailure \/ HandleFailure \/ Ended \/ UNCHANGED vars
    BY <2>9, KeptDecided
    DEF Exchange, HelperConnects, ExchangeBreaks, HelperAnswers, HelperExits, Kill,
        Exits, Returns, ScreenFails, ShowHome, HandleHome, ShowFailure, HandleFailure,
        Ended, vars, work, history
  <2>10. CASE Apply \/ ApplyElsewhere \/ DiscardElsewhere
    BY <2>10, GoneDecided DEF Apply, ApplyElsewhere, ApplyWorkSet, DiscardElsewhere
  <2> QED BY <2>1, <2>2, <2>3, <2>4, <2>5, <2>6, <2>7, <2>8, <2>9, <2>10
          DEF Next, Meanwhile, ExportElsewhere
<1>3. DecidedInv => DecidedAsShown
  BY DEF DecidedInv
<1> QED BY <1>1, <1>2, <1>3, PTL DEF Spec
=============================================================================

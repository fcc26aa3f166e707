---------------------------- MODULE ChangesApply ----------------------------
(***************************************************************************)
(* `sunaba changes apply` around the host transaction: the pending Work    *)
(* Set, its Resolution and the retention journal (internal/cli/cli.go      *)
(* applyPending, resumeRetentionFinalization; internal/cli/pending.go;     *)
(* internal/retention/retention.go).  Command line processes share these   *)
(* files; only the host transaction and the commands that change a         *)
(* disposition hold the Project lock.                                      *)
(*                                                                         *)
(* The host transaction is the atomic step that ApplyTransaction proves    *)
(* it to be.  Contents of the Project are numbers, which stand for the     *)
(* digests the code compares: contents may come back.                      *)
(***************************************************************************)
EXTENDS Naturals

CONSTANTS Cli,         \* processes that run `changes apply`
          M,           \* Bulk paths of a Work Set are drawn from 1 .. M
          Meanwhile,   \* commands that may run during an unfinished apply
          MaxSets,     \* bound on exported Work Sets
          MaxRev,      \* bound on Resolution revisions
          MaxContents, \* bound on the contents the Project can have
          MaxEdits,    \* bound on the user's edits of the Project
          MaxFaults,   \* bound on failing operations
          MaxCrashes   \* bound on crashes of an applying process

Commands == {"export", "resolve", "recreate", "status", "discard", "edit"}

ASSUME ChangesAssumption ==
  /\ M \in Nat \ {0} /\ Meanwhile \subseteq Commands
  /\ MaxSets \in Nat /\ MaxRev \in Nat \ {0}
  /\ MaxContents \in Nat \ {0} /\ MaxEdits \in Nat
  /\ MaxFaults \in Nat /\ MaxCrashes \in Nat

VARIABLES
  host,       \* contents of the Project
  edits,      \* number of edits by the user
  sets,       \* number of Work Sets exported so far
  ws,         \* the pending Work Set, 0 when there is none
  rev, disp,  \* its Resolution: revision and dispositions
  base, res,  \* Core baseline and result of every Work Set
  bulk,       \* Bulk paths of every Work Set
  loc,        \* where each Bulk object is
  item,       \* its project_bound record exists
  receipt,    \* its artifact record or discard receipt exists
  discarding, \* the `retained discard` that is running: object and next step
  discarded,  \* objects with a discard receipt of `retained discard`
  author,     \* the plans that wrote the item and the other record
  cleaning,   \* the command that cleans up a finalized journal: plan and next step
  j,          \* the retention journal
  lock,       \* holder of the Project lock
  pc, mine, cur,  \* each process: next step, the plan it works from, operation
  applied,    \* history: the plans committed to the Project
  onhost,     \* history: the Work Set committed last, 0 after an edit of the Project
  waived,     \* history: Work Sets and objects the user discarded explicitly
  faults, crashes

pending == <<sets, ws, rev, disp, base, res, bulk>>
store == <<loc, item, receipt, discarding, discarded, author>>
process == <<pc, mine, cur>>
history == <<applied, onhost, waived>>
bounds == <<faults, crashes>>
vars == <<host, edits, pending, store, cleaning, j, lock, process, history, bounds>>

Nobody == "nobody"
Discarder == "retained discard"
Items == 1 .. M
Sets == 1 .. MaxSets
Contents == 0 .. MaxContents
Final == {"keep_host", "retain_artifact", "discard"}
Dispositions == Final \cup {"unresolved"}
Unresolved == [b \in Items |-> "unresolved"]
Phases == {"none", "prepared", "project_committed", "retention_finalized"}

(* An Apply Plan with its retention journal.  owner stands for CreatedAt:   *)
(* the only part of a journal's identity that two equal plans do not share. *)
Plans == [ws : Sets, rev : 1 .. MaxRev, disp : [Items -> Dispositions], owner : Cli]
NoJournal == [phase |-> "none"]
Journals == [phase : Phases \ {"none"}, plan : Plans] \cup {NoJournal}
NoPlan == [ws |-> 0]
NoDiscard == [step |-> "none"]
NoCleanup == [step |-> "none"]

Steps == {"idle", "load", "resume", "remark", "dropstale", "plan", "confirm",
          "reload", "prepare", "apply", "mark", "failed", "dropfailed",
          "finalize", "move", "record", "purge", "finish", "rmpending", "rmjournal"}

TypeOK ==
  /\ host \in Contents /\ edits \in 0 .. MaxEdits
  /\ sets \in 0 .. MaxSets /\ ws \in 0 .. sets /\ rev \in 0 .. MaxRev
  /\ disp \in [Items -> Dispositions]
  /\ base \in [Sets -> Contents] /\ res \in [Sets -> Contents]
  /\ bulk \in [Sets -> SUBSET Items]
  /\ loc \in [Sets \X Items -> {"none", "objects", "artifacts", "trash", "gone"}]
  /\ item \in [Sets \X Items -> BOOLEAN] /\ receipt \in [Sets \X Items -> BOOLEAN]
  /\ discarding \in {NoDiscard} \cup
       [step : {"move", "receipt", "purge", "unlist"}, object : Sets \X Items]
  /\ discarded \subseteq Sets \X Items
  /\ author \in [Sets \X Items -> [item : Plans \cup {NoPlan}, receipt : Plans \cup {NoPlan}]]
  /\ cleaning \in {NoCleanup} \cup [step : {"pending", "journal"}, plan : Plans]
  /\ j \in Journals /\ lock \in Cli \cup {Nobody, Discarder}
  /\ pc \in [Cli -> Steps] /\ mine \in [Cli -> Plans \cup {NoPlan}]
  /\ cur \in [Cli -> 1 .. M]
  /\ applied \subseteq Plans /\ onhost \in {0} \cup Sets /\ waived \subseteq Sets \X (Items \cup {0})
  /\ faults \in 0 .. MaxFaults /\ crashes \in 0 .. MaxCrashes

Init ==
  /\ host = 0 /\ edits = 0 /\ sets = 0 /\ ws = 0 /\ rev = 0 /\ disp = Unresolved
  /\ base = [w \in Sets |-> 0] /\ res = [w \in Sets |-> 0] /\ bulk = [w \in Sets |-> {}]
  /\ loc = [x \in Sets \X Items |-> "none"]
  /\ item = [x \in Sets \X Items |-> FALSE] /\ receipt = [x \in Sets \X Items |-> FALSE]
  /\ discarding = NoDiscard /\ discarded = {} /\ cleaning = NoCleanup
  /\ author = [x \in Sets \X Items |-> [item |-> NoPlan, receipt |-> NoPlan]]
  /\ j = NoJournal /\ lock = Nobody
  /\ pc = [p \in Cli |-> "idle"] /\ mine = [p \in Cli |-> NoPlan] /\ cur = [p \in Cli |-> 1]
  /\ applied = {} /\ onhost = 0 /\ waived = {} /\ faults = 0 /\ crashes = 0

------------------------------------------------------------------------------
(* The other commands, each of them one step. *)

Quiet == j = NoJournal /\ cleaning = NoCleanup /\ \A p \in Cli : pc[p] = "idle"
May(command) == Quiet \/ command \in Meanwhile

(* persistPending, at the end of an Agent Session, which holds the lock. *)
Export ==
  /\ May("export") /\ ws = 0 /\ lock = Nobody /\ sets < MaxSets
  /\ sets' = sets + 1 /\ ws' = sets + 1 /\ rev' = 1 /\ disp' = Unresolved
  /\ \E B \in SUBSET Items, result \in Contents :
       /\ bulk' = [bulk EXCEPT ![sets + 1] = B]
       /\ base' = [base EXCEPT ![sets + 1] = host]
       /\ res' = [res EXCEPT ![sets + 1] = result]
       /\ loc' = [x \in Sets \X Items |->
                    IF x[1] = sets + 1 /\ x[2] \in B THEN "objects" ELSE loc[x]]
  /\ UNCHANGED <<host, edits, item, receipt, discarding, discarded, author, cleaning, j, lock, process, history, bounds>>

FinalizedInAnyPhase == j # NoJournal

Finalized == j.phase = "retention_finalized"

(* CleanupFinalizedPending, which every loadPending runs first, here in a   *)
(* command that only looks (`status`): it reads the journal, removes what   *)
(* is pending, and then the journal if it is still the one it read.         *)
Status ==
  /\ May("status") /\ Finalized /\ cleaning = NoCleanup
  /\ cleaning' = [step |-> "pending", plan |-> j.plan]
  /\ UNCHANGED <<host, edits, pending, store, j, lock, process, history, bounds>>

CleanupFinalizedPending ==
  /\ \/ /\ cleaning.step = "pending"
        /\ ws' = 0 /\ cleaning' = [cleaning EXCEPT !.step = "journal"] /\ UNCHANGED j
     \/ /\ cleaning.step = "journal"
        /\ j' = IF Finalized /\ j.plan = cleaning.plan THEN NoJournal ELSE j
        /\ cleaning' = NoCleanup /\ UNCHANGED ws
  /\ UNCHANGED <<host, edits, sets, rev, disp, base, res, bulk, store, lock, process, history, bounds>>

CleanupStops ==
  /\ cleaning # NoCleanup /\ crashes < MaxCrashes
  /\ crashes' = crashes + 1 /\ cleaning' = NoCleanup
  /\ UNCHANGED <<host, edits, pending, store, j, lock, process, history, faults>>

(* changes bulk resolve: updatePendingResolution under the Project lock. *)
Resolve ==
  /\ May("resolve") /\ ws # 0 /\ ~Finalized /\ lock = Nobody /\ rev < MaxRev
  /\ \E b \in bulk[ws], d \in Final : disp' = [disp EXCEPT ![b] = d]
  /\ rev' = rev + 1
  /\ UNCHANGED <<host, edits, sets, ws, base, res, bulk, store, cleaning, j, lock, process, history, bounds>>

(* recreate --discard-pending: refused for a Work Set with Bulk paths, if   *)
(* it can be loaded; one that cannot (another workspace policy, damaged     *)
(* files) is removed as it is.                                              *)
DiscardPending ==
  /\ May("recreate") /\ ws # 0 /\ ~Finalized
  /\ \/ bulk[ws] = {} /\ UNCHANGED faults
     \/ faults < MaxFaults /\ faults' = faults + 1
  /\ ws' = 0 /\ waived' = waived \cup {<<ws, 0>>}
  /\ UNCHANGED <<host, edits, sets, rev, disp, base, res, bulk, store, cleaning, j, lock, process,
                 applied, onhost, crashes>>

(* retained discard: DiscardProjectItem under the Project lock, a step for  *)
(* every file it touches.  A receipt left by an earlier run skips the move, *)
(* a discard receipt of a plan is refused (recordMatches).                  *)
StartDiscard ==
  /\ May("discard") /\ lock = Nobody
  /\ \E x \in Sets \X Items :
       /\ item[x] /\ ~receipt[x]
       /\ discarding' = [step |-> IF x \in discarded THEN "purge" ELSE "move", object |-> x]
       /\ waived' = waived \cup {x}
  /\ lock' = Discarder
  /\ UNCHANGED <<host, edits, pending, loc, item, receipt, discarded, author, cleaning, j, process,
                 applied, onhost, bounds>>

DiscardGoto(step) ==
  /\ discarding' = IF step = "none" THEN NoDiscard ELSE [discarding EXCEPT !.step = step]
  /\ lock' = IF step = "none" THEN Nobody ELSE lock

DiscardProjectItem ==
  /\ \/ /\ discarding.step = "move"
        /\ IF loc[discarding.object] \in {"objects", "trash"}
           THEN loc' = [loc EXCEPT ![discarding.object] = "trash"] /\ DiscardGoto("receipt")
           ELSE UNCHANGED loc /\ DiscardGoto("none")
        /\ UNCHANGED <<item, discarded>>
     \/ /\ discarding.step = "receipt"
        /\ discarded' = discarded \cup {discarding.object} /\ DiscardGoto("purge")
        /\ UNCHANGED <<loc, item>>
     \/ /\ discarding.step = "purge"
        /\ loc' = [loc EXCEPT ![discarding.object] = IF @ = "trash" THEN "gone" ELSE @]
        /\ DiscardGoto("unlist") /\ UNCHANGED <<item, discarded>>
     \/ /\ discarding.step = "unlist"
        /\ item' = [item EXCEPT ![discarding.object] = FALSE] /\ DiscardGoto("none")
        /\ UNCHANGED <<loc, discarded>>
  /\ UNCHANGED <<host, edits, pending, receipt, author, cleaning, j, process, history, bounds>>

(* It is interrupted, or one of its file operations fails. *)
DiscardStops ==
  /\ discarding # NoDiscard /\ crashes < MaxCrashes
  /\ crashes' = crashes + 1 /\ DiscardGoto("none")
  /\ UNCHANGED <<host, edits, pending, loc, item, receipt, discarded, author, cleaning, j, process, history, faults>>

(* The user edits the Project, whoever holds the lock, and may well put it  *)
(* back to contents it had before.                                          *)
EditHost ==
  /\ May("edit") /\ edits < MaxEdits
  /\ edits' = edits + 1 /\ host' \in Contents \ {host} /\ onhost' = 0
  /\ UNCHANGED <<pending, store, cleaning, j, lock, process, applied, waived, bounds>>

------------------------------------------------------------------------------
(* changes apply, by process p. *)

Goto(p, step) == pc' = [pc EXCEPT ![p] = step]
Fails(p) == Goto(p, "idle")

StartApply(p) ==
  /\ pc[p] = "idle" /\ (ws # 0 \/ Finalized)
  /\ Goto(p, "load")
  /\ UNCHANGED <<host, edits, pending, store, cleaning, j, lock, mine, cur, history, bounds>>

(* loadPending: a finalized journal is cleaned up, which ends the command. *)
Load(p) ==
  /\ pc[p] = "load"
  /\ \/ /\ Finalized
        /\ mine' = [mine EXCEPT ![p] = j.plan] /\ Goto(p, "rmpending")
     \/ /\ ~Finalized /\ ws = 0
        /\ Fails(p) /\ UNCHANGED mine
     \/ /\ ~Finalized /\ ws # 0
        /\ mine' = [mine EXCEPT ![p] = [ws |-> ws, rev |-> rev, disp |-> disp, owner |-> p]]
        /\ Goto(p, "resume")
  /\ UNCHANGED <<host, edits, pending, store, cleaning, j, lock, cur, history, bounds>>

SameResolution(a, b) == a.ws = b.ws /\ a.rev = b.rev /\ a.disp = b.disp

(* resumeRetentionFinalization with ResumeWorkSetTransaction inside.  The   *)
(* journal must be of this Work Set and this Resolution, and the Project    *)
(* must be in its before-state or its after-state.                          *)
Resume(p) ==
  /\ pc[p] = "resume"
  /\ LET w == mine[p].ws IN
       \/ /\ j = NoJournal
          /\ Goto(p, "plan") /\ UNCHANGED mine
       \/ /\ j # NoJournal
          /\ ~SameResolution(j.plan, mine[p]) \/ (~Finalized /\ lock # Nobody)
          /\ Fails(p) /\ UNCHANGED mine
       \/ /\ Finalized /\ SameResolution(j.plan, mine[p])
          /\ mine' = [mine EXCEPT ![p] = j.plan] /\ Goto(p, "rmpending")
       \/ /\ j # NoJournal /\ ~Finalized /\ lock = Nobody /\ SameResolution(j.plan, mine[p])
          /\ mine' = [mine EXCEPT ![p] = j.plan]
          /\ \/ host = res[w] /\ j.phase = "prepared" /\ Goto(p, "remark")
             \/ host = res[w] /\ j.phase = "project_committed" /\ Goto(p, "finalize")
             \/ host # res[w] /\ host = base[w] /\ j.phase = "prepared" /\ Goto(p, "dropstale")
             \/ /\ host # res[w] /\ (host = base[w] => j.phase # "prepared")
                /\ Fails(p)
  /\ UNCHANGED <<host, edits, pending, store, cleaning, j, lock, cur, history, bounds>>

(* MarkProjectCommitted: the journal on disk must still be the expected one. *)
Expected(p) == j # NoJournal /\ j.plan = mine[p]

MarkProjectCommitted(p, next, otherwise) ==
  IF Expected(p) /\ j.phase = "prepared"
  THEN j' = [j EXCEPT !.phase = "project_committed"] /\ Goto(p, next)
  ELSE UNCHANGED j /\ Goto(p, otherwise)

(* When the Core does not change, before-state and after-state are the      *)
(* same, and a plan that was only prepared counts as committed.             *)
Remark(p) ==
  /\ pc[p] = "remark"
  /\ MarkProjectCommitted(p, "finalize", "idle")
  /\ applied' = IF j' # j THEN applied \cup {mine[p]} ELSE applied
  /\ UNCHANGED <<host, edits, pending, store, cleaning, lock, mine, cur, onhost, waived, bounds>>

(* RemovePrepared: a missing journal is fine, a different one is refused. *)
RemovePrepared(p, next) ==
  \/ j = NoJournal /\ UNCHANGED j /\ Goto(p, next)
  \/ Expected(p) /\ j.phase = "prepared" /\ j' = NoJournal /\ Goto(p, next)
  \/ j # NoJournal /\ ~(Expected(p) /\ j.phase = "prepared") /\ UNCHANGED j /\ Fails(p)

DropStale(p) ==
  /\ pc[p] = "dropstale"
  /\ RemovePrepared(p, "plan")
  /\ UNCHANGED <<host, edits, pending, store, cleaning, lock, mine, cur, history, bounds>>

Durable(w) == \A b \in bulk[w] : loc[<<w, b>>] = "objects"

(* PrepareWorkSetPlan and BuildApplyPlan: the Project is at the baseline,   *)
(* every Bulk path is resolved, and every object is where it was captured.  *)
Plan(p) ==
  /\ pc[p] = "plan"
  /\ IF /\ host = base[mine[p].ws] /\ Durable(mine[p].ws)
        /\ \A b \in bulk[mine[p].ws] : mine[p].disp[b] # "unresolved"
     THEN Goto(p, "confirm") ELSE Fails(p)
  /\ mine' = [mine EXCEPT ![p].owner = p]
  /\ UNCHANGED <<host, edits, pending, store, cleaning, j, lock, cur, history, bounds>>

(* The user confirms the plan, or does not. *)
Confirm(p) ==
  /\ pc[p] = "confirm"
  /\ Goto(p, "reload") \/ Fails(p)
  /\ UNCHANGED <<host, edits, pending, store, cleaning, j, lock, mine, cur, history, bounds>>

(* loadPending once more: what was confirmed must still be pending. *)
Reload(p) ==
  /\ pc[p] = "reload"
  /\ \/ Finalized /\ mine' = [mine EXCEPT ![p] = j.plan] /\ Goto(p, "rmpending")
     \/ ~Finalized /\ ws = mine[p].ws /\ rev = mine[p].rev /\ Goto(p, "prepare") /\ UNCHANGED mine
     \/ ~Finalized /\ ~(ws = mine[p].ws /\ rev = mine[p].rev) /\ Fails(p) /\ UNCHANGED mine
  /\ UNCHANGED <<host, edits, pending, store, cleaning, j, lock, cur, history, bounds>>

(* retention.Prepare overwrites whatever journal is there. *)
Prepare(p) ==
  /\ pc[p] = "prepare"
  /\ j' = [phase |-> "prepared", plan |-> mine[p]]
  /\ Goto(p, "apply")
  /\ UNCHANGED <<host, edits, pending, store, cleaning, lock, mine, cur, history, bounds>>

(* ApplyWorkSet without the comparison with the baseline. *)
ApplyWithoutBaseline(p) ==
  /\ pc[p] = "apply"
  /\ IF lock = Nobody
     THEN /\ host' = res[mine[p].ws] /\ lock' = p /\ Goto(p, "mark")
          /\ applied' = applied \cup {mine[p]} /\ onhost' = mine[p].ws
     ELSE Goto(p, "failed") /\ UNCHANGED <<host, lock, applied, onhost>>
  /\ UNCHANGED <<edits, pending, store, cleaning, j, mine, cur, waived, bounds>>

(* ApplyWorkSet takes the Project lock, compares the Project with the       *)
(* baseline and commits; any refusal goes to the error path.                *)
Apply(p) ==
  /\ pc[p] = "apply"
  /\ LET w == mine[p].ws IN
       IF lock = Nobody /\ host = base[w] /\ Durable(w)
       THEN /\ host' = res[w] /\ lock' = p /\ Goto(p, "mark")
            /\ applied' = applied \cup {mine[p]} /\ onhost' = w
       ELSE Goto(p, "failed") /\ UNCHANGED <<host, lock, applied, onhost>>
  /\ UNCHANGED <<edits, pending, store, cleaning, j, mine, cur, waived, bounds>>

Mark(p) ==
  /\ pc[p] = "mark"
  /\ MarkProjectCommitted(p, "finalize", "failed") /\ lock' = Nobody
  /\ UNCHANGED <<host, edits, pending, store, cleaning, mine, cur, history, bounds>>

(* The error path without the question whether the Project is committed. *)
FailedDropsJournal(p) ==
  /\ pc[p] = "failed"
  /\ IF j # NoJournal /\ lock = Nobody
     THEN mine' = [mine EXCEPT ![p] = j.plan] /\ Goto(p, "dropfailed")
     ELSE UNCHANGED mine /\ Fails(p)
  /\ UNCHANGED <<host, edits, pending, store, cleaning, j, lock, cur, history, bounds>>

(* After a failed apply, whatever prepared journal is on disk is removed    *)
(* when the Project turns out not to be committed.                          *)
Failed(p) ==
  /\ pc[p] = "failed"
  /\ LET w == mine[p].ws IN
       IF j.phase = "prepared" /\ lock = Nobody /\ host # res[w] /\ host = base[w]
       THEN mine' = [mine EXCEPT ![p] = j.plan] /\ Goto(p, "dropfailed")
       ELSE UNCHANGED mine /\ Fails(p)
  /\ UNCHANGED <<host, edits, pending, store, cleaning, j, lock, cur, history, bounds>>

DropFailed(p) ==
  /\ pc[p] = "dropfailed"
  /\ RemovePrepared(p, "idle")
  /\ UNCHANGED <<host, edits, pending, store, cleaning, lock, mine, cur, history, bounds>>

------------------------------------------------------------------------------
(* retention.Finalize, which holds no lock. *)

Finalize(p) ==
  /\ pc[p] = "finalize"
  /\ \/ Finalized /\ Goto(p, "rmpending") /\ UNCHANGED cur
     \/ /\ j.phase = "project_committed" /\ SameResolution(j.plan, mine[p])
        /\ Goto(p, "move") /\ cur' = [cur EXCEPT ![p] = 1]
     \/ /\ ~Finalized /\ ~(j.phase = "project_committed" /\ SameResolution(j.plan, mine[p]))
        /\ Fails(p) /\ UNCHANGED cur
  /\ UNCHANGED <<host, edits, pending, store, cleaning, j, lock, mine, history, bounds>>

Object(p) == <<mine[p].ws, cur[p]>>
Disposition(p) == IF cur[p] \in bulk[mine[p].ws] THEN mine[p].disp[cur[p]] ELSE "none"
NextOperationStopsEarly(p) ==
  IF cur[p] + 1 >= M THEN Goto(p, "finish") /\ UNCHANGED cur
                     ELSE Goto(p, "move") /\ cur' = [cur EXCEPT ![p] = @ + 1]

NextOperation(p) ==
  IF cur[p] = M THEN Goto(p, "finish") /\ UNCHANGED cur
                ELSE Goto(p, "move") /\ cur' = [cur EXCEPT ![p] = @ + 1]

MoveObjectOnce(p, to) ==
  \/ /\ loc[Object(p)] = "objects"
     /\ loc' = [loc EXCEPT ![Object(p)] = to] /\ Goto(p, "record")
  \/ /\ loc[Object(p)] # "objects"
     /\ UNCHANGED loc /\ Fails(p)

(* moveObject: done already, a rename, or neither place has the object. *)
MoveObject(p, to) ==
  \/ /\ loc[Object(p)] \in {"objects", to}
     /\ loc' = [loc EXCEPT ![Object(p)] = to] /\ Goto(p, "record")
  \/ /\ loc[Object(p)] \notin {"objects", to}
     /\ UNCHANGED loc /\ Fails(p)

(* The receipt of a `retained discard` is where the plan wants its own. *)
Discarded(p) == Disposition(p) = "discard" /\ Object(p) \in discarded

(* recordMatches: a record of this plan skips the move, any other one is    *)
(* refused.                                                                 *)
Move(p) ==
  /\ pc[p] = "move"
  /\ \/ Disposition(p) = "none" /\ NextOperation(p) /\ UNCHANGED loc
     \/ Disposition(p) = "keep_host" /\ Goto(p, "record") /\ UNCHANGED <<cur, loc>>
     \/ /\ Disposition(p) \in {"retain_artifact", "discard"} /\ ~receipt[Object(p)] /\ ~Discarded(p)
        /\ MoveObject(p, IF Disposition(p) = "discard" THEN "trash" ELSE "artifacts")
        /\ UNCHANGED cur
     \/ /\ Disposition(p) \in {"retain_artifact", "discard"} /\ receipt[Object(p)]
        /\ author[Object(p)].receipt = mine[p]
        /\ Goto(p, "purge") /\ UNCHANGED <<cur, loc>>
     \/ /\ Disposition(p) \in {"retain_artifact", "discard"}
        /\ (receipt[Object(p)] /\ author[Object(p)].receipt # mine[p])
             \/ (~receipt[Object(p)] /\ Discarded(p))
        /\ Fails(p) /\ UNCHANGED <<cur, loc>>
  /\ UNCHANGED <<host, edits, pending, item, receipt, discarding, discarded, author, cleaning, j, lock, mine, history, bounds>>

(* writeRecordOnce for a project_bound item, writeRecord for the others.    *)
(* An item that a different plan of the Work Set wrote is refused.          *)
Record(p) ==
  /\ pc[p] = "record"
  /\ LET x == Object(p) IN
       \/ /\ Disposition(p) = "keep_host" /\ item[x] /\ author[x].item # mine[p]
          /\ Fails(p) /\ UNCHANGED <<item, receipt, author>>
       \/ /\ Disposition(p) = "keep_host" /\ (item[x] => author[x].item = mine[p])
          /\ item' = [item EXCEPT ![x] = TRUE] /\ author' = [author EXCEPT ![x].item = mine[p]]
          /\ Goto(p, "purge") /\ UNCHANGED receipt
       \/ /\ Disposition(p) # "keep_host"
          /\ receipt' = [receipt EXCEPT ![x] = TRUE]
          /\ author' = [author EXCEPT ![x].receipt = mine[p]]
          /\ Goto(p, "purge") /\ UNCHANGED item
  /\ UNCHANGED <<host, edits, pending, loc, discarding, discarded, cleaning, j, lock, mine, cur, history, bounds>>

PurgeEverything(p) ==
  /\ pc[p] = "purge"
  /\ loc' = [loc EXCEPT ![Object(p)] = "gone"]
  /\ NextOperation(p)
  /\ UNCHANGED <<host, edits, pending, item, receipt, discarding, discarded, author, cleaning, j, lock, mine, history, bounds>>

(* removeObject(trash): only a discarded object is ever there. *)
Purge(p) ==
  /\ pc[p] = "purge"
  /\ IF Disposition(p) = "discard" /\ loc[Object(p)] = "trash"
     THEN loc' = [loc EXCEPT ![Object(p)] = "gone"] ELSE UNCHANGED loc
  /\ NextOperation(p)
  /\ UNCHANGED <<host, edits, pending, item, receipt, discarding, discarded, author, cleaning, j, lock, mine, history, bounds>>

(* The journal read at the start of Finalize is written back, finalized. *)
Finish(p) ==
  /\ pc[p] = "finish"
  /\ j' = [phase |-> "retention_finalized", plan |-> mine[p]]
  /\ Goto(p, "rmpending")
  /\ UNCHANGED <<host, edits, pending, store, cleaning, lock, mine, cur, history, bounds>>

RemovePending(p) ==
  /\ pc[p] = "rmpending"
  /\ ws' = 0 /\ Goto(p, "rmjournal")
  /\ UNCHANGED <<host, edits, sets, rev, disp, base, res, bulk, store, cleaning, j, lock, mine, cur, history, bounds>>

RemoveFinalized(p) ==
  /\ pc[p] = "rmjournal"
  /\ IF Finalized /\ Expected(p) THEN j' = NoJournal ELSE UNCHANGED j
  /\ Goto(p, "idle")
  /\ UNCHANGED <<host, edits, pending, store, cleaning, lock, mine, cur, history, bounds>>

------------------------------------------------------------------------------
(* An operation fails without effect: the error path of a failed apply, or  *)
(* the end of the command.  A crash also frees the lock.                    *)
Fault(p) ==
  /\ pc[p] \notin {"idle", "confirm"} /\ faults < MaxFaults
  /\ faults' = faults + 1 /\ lock' = IF lock = p THEN Nobody ELSE lock
  /\ Goto(p, IF pc[p] \in {"apply", "mark"} THEN "failed" ELSE "idle")
  /\ UNCHANGED <<host, edits, pending, store, cleaning, j, mine, cur, history, crashes>>

Crash(p) ==
  /\ pc[p] # "idle" /\ crashes < MaxCrashes
  /\ crashes' = crashes + 1 /\ lock' = IF lock = p THEN Nobody ELSE lock
  /\ Goto(p, "idle")
  /\ UNCHANGED <<host, edits, pending, store, cleaning, j, mine, cur, history, faults>>

Work(p) ==
  \/ Load(p) \/ Resume(p) \/ Remark(p) \/ DropStale(p) \/ Plan(p) \/ Reload(p)
  \/ Prepare(p) \/ Apply(p) \/ Mark(p) \/ Failed(p) \/ DropFailed(p) \/ Finalize(p)
  \/ Move(p) \/ Record(p) \/ Purge(p) \/ Finish(p) \/ RemovePending(p) \/ RemoveFinalized(p)

Next == \/ Export \/ Status \/ Resolve \/ DiscardPending \/ EditHost
        \/ CleanupFinalizedPending \/ CleanupStops
        \/ StartDiscard \/ DiscardProjectItem \/ DiscardStops
        \/ \E p \in Cli : StartApply(p) \/ Work(p) \/ Confirm(p) \/ Fault(p) \/ Crash(p)

Spec == Init /\ [][Next]_vars

(* A running command is scheduled, and a user whose journal is unfinished   *)
(* runs the command again.                                                  *)
FairSpec == /\ Spec
            /\ WF_vars(DiscardProjectItem)
            /\ \A p \in Cli : WF_vars(Work(p)) /\ WF_vars(j # NoJournal /\ StartApply(p))

------------------------------------------------------------------------------
(* Bulk data is deleted only where an applied plan discards it, or by the   *)
(* explicit `retained discard` (Finalize: "Object deletion happens only for *)
(* an already approved apply/discard disposition and only after a durable   *)
(* Project commit marker exists").                                          *)
DeletedOnlyAsApproved ==
  \A x \in Sets \X Items : loc[x] = "gone" =>
    x \in waived \/ \E a \in applied : a.ws = x[1] /\ a.disp[x[2]] = "discard"

(* Data to be kept on the host or pinned as an artifact is still where its  *)
(* disposition puts it once the plan is finalized; at any time, a listed    *)
(* item is backed by its object until the user starts to discard it.        *)
KeptDataIsThere ==
  /\ Finalized =>
       \A b \in bulk[j.plan.ws] : LET x == <<j.plan.ws, b>> IN
         /\ j.plan.disp[b] = "keep_host" => x \in waived \/ (item[x] /\ loc[x] = "objects")
         /\ j.plan.disp[b] = "retain_artifact" => receipt[x] /\ loc[x] = "artifacts"
         /\ j.plan.disp[b] = "discard" => receipt[x] /\ loc[x] = "gone"
  /\ \A x \in Sets \X Items : item[x] => loc[x] = "objects" \/ x \in waived

(* A retained item whose discard completed is not listed again.  Broken by  *)
(* Meanwhile = {"discard"} and one crash: the resumed phase lists it.       *)
DiscardIsFinal == [][\A x \in waived : ~item[x] => ~item'[x]]_vars

(* A Work Set whose result the Project holds is not applied again, by no    *)
(* process and by no rerun: only where the user edited the Project, or      *)
(* another Work Set was applied since.  (A user who puts the Project back   *)
(* to the baseline of a Work Set that is still pending has it applied       *)
(* again: the code compares digests, not histories.)                        *)
AppliedOnce == [][\A p \in Cli : Apply(p) /\ applied' # applied =>
                    mine[p].ws # onhost \/ res[mine[p].ws] = base[mine[p].ws]]_vars

(* A pending Work Set leaves the disk only after its plan was applied, or   *)
(* by an explicit discard.                                                  *)
PendingLeaves ==
  [][ws # 0 /\ ws' = 0 => <<ws, 0>> \in waived' \/ \E a \in applied : a.ws = ws]_vars

(* The Project never holds the result of a Work Set that is still pending   *)
(* without the journal that lets the next command finish its retention.     *)
CommitIsRecorded ==
  ws # 0 /\ onhost = ws =>
    j # NoJournal /\ j.plan.ws = ws /\ j.plan.rev = rev

(* "Retention finalization after the Project commit is re-runnable by a     *)
(* durable journal of its own" (sunaba-secure-agent-platform.md, 9.4): once *)
(* the journal says that the Project is committed, running the command      *)
(* again gets it past that phase.  Broken by Meanwhile = {"edit"} and one   *)
(* crash, and by "resolve" and "recreate", which do not look at the journal.*)
CommittedIsFinalized == (j.phase = "project_committed") ~> (j.phase # "project_committed")

(* An unfinished retention journal is eventually completed. *)
Completes == (j # NoJournal) ~> (j = NoJournal)
=============================================================================

------------------------- MODULE ChangesApplyProofs -------------------------
(***************************************************************************)
(* Proofs about ChangesApply: for any number of processes, commands,       *)
(* faults and crashes, what may be deleted and what may be applied; and    *)
(* that one `changes apply` at a time, with any other command except an    *)
(* export between its steps, loses nothing of a pending Work Set.          *)
(***************************************************************************)
EXTENDS ChangesApply, TLAPS

-----------------------------------------------------------------------------
(* The inductive invariant of any number of processes and commands.           *)

Objects == Sets \X Items
Discards == {NoDiscard} \cup [step : {"move", "receipt", "purge", "unlist"}, object : Objects]
Shape ==
  /\ host \in Contents /\ sets \in 0 .. MaxSets /\ ws \in 0 .. sets
  /\ rev \in 0 .. MaxRev /\ disp \in [Items -> Dispositions]
  /\ base \in [Sets -> Contents] /\ res \in [Sets -> Contents]
  /\ bulk \in [Sets -> SUBSET Items]
  /\ loc \in [Objects -> {"none", "objects", "artifacts", "trash", "gone"}]
  /\ item \in [Objects -> BOOLEAN] /\ receipt \in [Objects -> BOOLEAN]
  /\ discarding \in Discards
  /\ cleaning \in {NoCleanup} \cup [step : {"pending", "journal"}, plan : Plans]
  /\ j \in Journals
  /\ pc \in [Cli -> Steps] /\ mine \in [Cli -> Plans \cup {NoPlan}] /\ cur \in [Cli -> Items]
  /\ applied \subseteq Plans
  /\ ws # 0 => rev # 0

\* What a process works on, and what a journal or the history is about, has
\* been exported.
Working == Steps \ {"idle", "load"}
Exported ==
  /\ j # NoJournal => j.plan.ws <= sets
  /\ \A a \in applied : a.ws <= sets
  /\ \A p \in Cli : mine[p].ws <= sets
  /\ \A p \in Cli : pc[p] \in Working => mine[p] \in Plans

\* Data moves for a plan that was committed to the Project,
Moving == {"move", "record", "purge", "finish"}
Committed(plan) == \E a \in applied : a.ws = plan.ws /\ a.disp = plan.disp
Approved ==
  /\ discarding # NoDiscard => discarding.object \in waived
  /\ \A p \in Cli : pc[p] = "mark" => mine[p] \in applied
  /\ j.phase = "project_committed" => Committed(j.plan)
  /\ \A p \in Cli : pc[p] \in Moving => Committed(mine[p])
  /\ DeletedOnlyAsApproved

\* and until the user edits the Project, it holds the result that was committed
\* last.
LastCommit == onhost # 0 => onhost \in Sets /\ onhost <= sets /\ host = res[onhost]

IInv == Shape /\ Exported /\ Approved /\ LastCommit

-----------------------------------------------------------------------------
(* One process, and no Work Set is exported while it is at work.              *)

OneApply == (\A p, q \in Cli : p = q) /\ "export" \notin Meanwhile

Applied(w) == \E a \in applied : a.ws = w
Held(w) == w # 0 /\ onhost = w
Journal(phase, plan) == j.phase = phase /\ j.plan = plan

\* Journals and plans are about the last Work Set that was exported,
Latest ==
  /\ ws # 0 => ws = sets
  /\ j # NoJournal => j.plan.ws = sets
  /\ \A p \in Cli : pc[p] \in Working => mine[p].ws = sets

\* in the Resolution it has, unless a command may change that meanwhile,
Confirming == {"plan", "confirm", "reload", "prepare"}
Loaded == {"resume"} \cup Confirming
Revised == "resolve" \notin Meanwhile /\ ws # 0 =>
  /\ j # NoJournal => j.plan.rev = rev
  /\ \A p \in Cli : pc[p] \in Loaded => mine[p].rev = rev

\* and the journal outlives what is pending.
OwnJournal ==
  /\ Finalized => Applied(sets)
  /\ ws # 0 /\ Held(sets) => j # NoJournal

\* What a process knows at each of its steps.
Prepared == {"remark", "dropstale", "apply", "mark", "failed", "dropfailed"}
Knows(p) ==
  /\ pc[p] = "resume" => ~Finalized
  /\ pc[p] \in Confirming => j = NoJournal
  /\ pc[p] \in Prepared => Journal("prepared", mine[p])
  /\ pc[p] \in {"dropstale", "dropfailed"} => ~Held(sets)
  /\ pc[p] \in {"finalize"} \cup Moving => Journal("project_committed", mine[p])
  /\ pc[p] \in {"rmpending", "rmjournal"} =>
       Journal("retention_finalized", mine[p]) \/ (j = NoJournal /\ ws = 0)
  /\ pc[p] = "rmjournal" => ws = 0

\* A cleanup removes what is pending and then the finalized journal it has
\* read, or finds that a process did; no process is before that by then.
Resting == {"idle", "load", "rmpending", "rmjournal"}
Cleanup == cleaning # NoCleanup =>
  /\ Journal("retention_finalized", cleaning.plan) \/ (j = NoJournal /\ ws = 0)
  /\ cleaning.step = "journal" => ws = 0
  /\ \A p \in Cli : pc[p] \in Resting

\* Nothing has happened yet to the Bulk data of a Work Set,
Touching(x) == discarding # NoDiscard /\ discarding.object = x
Fresh(w) == \A b \in Items : /\ ~item[<<w, b>>] /\ ~receipt[<<w, b>>] /\ ~Touching(<<w, b>>)
                             /\ b \in bulk[w] => loc[<<w, b>>] = "objects"
Open ==
  /\ j.phase \notin {"project_committed", "retention_finalized"}
  /\ \/ ws # 0 \/ j # NoJournal
     \/ \E p \in Cli : pc[p] \in Loaded \cup Prepared
Untouched ==
  /\ \A w \in Sets : w > sets => Fresh(w) /\ bulk[w] = {}
  /\ Open => Fresh(sets)

\* it is on its way to where the plan wants it,
OnTheWay(x, d) ==
  /\ d = "keep_host" => loc[x] = "objects" \/ x \in waived
  /\ d = "retain_artifact" => loc[x] = "artifacts" \/ (loc[x] = "objects" /\ ~receipt[x])
  /\ d = "discard" => loc[x] \in {"trash", "gone"} \/ (loc[x] = "objects" /\ ~receipt[x])
  /\ d = "discard" /\ loc[x] = "gone" => receipt[x]
Moved(x, d) ==
  /\ d = "retain_artifact" => loc[x] = "artifacts"
  /\ d = "discard" => loc[x] \in {"trash", "gone"}
Recorded(x, d) ==
  /\ Moved(x, d)
  /\ d = "keep_host" => x \in waived \/ (item[x] /\ loc[x] = "objects")
  /\ d \in {"retain_artifact", "discard"} => receipt[x]
\* or there.
Settled(x, d) == Recorded(x, d) /\ (d = "discard" => loc[x] = "gone")

ItemsBacked == \A x \in Objects : item[x] => loc[x] = "objects" \/ x \in waived
OnlyKept == j # NoJournal => \A b \in Items :
  item[<<j.plan.ws, b>>] \/ Touching(<<j.plan.ws, b>>) => j.plan.disp[b] = "keep_host"
UnderWay == j.phase = "project_committed" =>
  \A b \in bulk[j.plan.ws] : OnTheWay(<<j.plan.ws, b>>, j.plan.disp[b])
AllSettled == Finalized => \A b \in bulk[j.plan.ws] : Settled(<<j.plan.ws, b>>, j.plan.disp[b])
Finalizing(p) ==
  /\ pc[p] \in {"move", "record", "purge"} =>
       \A b \in bulk[mine[p].ws] : b < cur[p] => Settled(<<mine[p].ws, b>>, mine[p].disp[b])
  /\ pc[p] = "finish" =>
       \A b \in bulk[mine[p].ws] : Settled(<<mine[p].ws, b>>, mine[p].disp[b])
  /\ pc[p] \in {"record", "purge"} => cur[p] \in bulk[mine[p].ws]
  /\ pc[p] = "record" => Moved(Object(p), mine[p].disp[cur[p]])
  /\ pc[p] = "purge" => Recorded(Object(p), mine[p].disp[cur[p]])
Retention == ItemsBacked /\ OnlyKept /\ UnderWay /\ AllSettled /\ \A p \in Cli : Finalizing(p)

Alone == /\ IInv /\ Latest /\ Revised /\ OwnJournal /\ (\A p \in Cli : Knows(p))
         /\ Cleanup /\ Untouched /\ Retention

USE ChangesAssumption

-----------------------------------------------------------------------------
(* Journals, plans and discards.                                              *)

LEMMA JournalIs ==
  ASSUME Shape
  PROVE  /\ j = NoJournal => j.phase = "none"
         /\ j # NoJournal => j.plan \in Plans /\ j = [phase |-> j.phase, plan |-> j.plan]
                             /\ j.phase \in {"prepared", "project_committed", "retention_finalized"}
         /\ j.phase # "none" => j # NoJournal
<1>1. j \in [phase : Phases \ {"none"}, plan : Plans] \cup {NoJournal}
  BY DEF Shape, Journals
<1>2. CASE j = NoJournal
  BY <1>2 DEF NoJournal
<1>3. CASE j \in [phase : Phases \ {"none"}, plan : Plans]
  <2>1. j.phase \in Phases \ {"none"} /\ j.plan \in Plans
        /\ j = [phase |-> j.phase, plan |-> j.plan]
    BY <1>3
  <2>2. NoJournal.phase = "none"
    BY DEF NoJournal
  <2> QED BY <2>1, <2>2 DEF Phases
<1> QED BY <1>1, <1>2, <1>3

LEMMA NewJournal ==
  ASSUME NEW phase \in Phases \ {"none"}, NEW plan \in Plans,
         NEW h, h = [phase |-> phase, plan |-> plan]
  PROVE  h \in Journals /\ h # NoJournal /\ h.phase = phase /\ h.plan = plan
<1>1. h \in [phase : Phases \ {"none"}, plan : Plans] /\ h.phase = phase /\ h.plan = plan
  OBVIOUS
<1>2. NoJournal.phase = "none"
  BY DEF NoJournal
<1> QED BY <1>1, <1>2 DEF Journals

LEMMA PlanIs ==
  ASSUME NEW m \in Plans
  PROVE  /\ m.ws \in Sets /\ m.ws # 0 /\ m.rev \in 1 .. MaxRev /\ m.disp \in [Items -> Dispositions]
         /\ m.owner \in Cli
BY DEF Plans, Sets

LEMMA MineIs ==
  ASSUME Shape, NEW p \in Cli
  PROVE  /\ mine[p] \in Plans \/ mine[p] = NoPlan
         /\ mine[p].ws \in Sets \/ mine[p].ws = 0
         /\ mine[p].ws # 0 => mine[p] \in Plans
         /\ pc[p] \in Steps /\ cur[p] \in Items
<1>1. mine[p] \in Plans \cup {NoPlan} /\ pc[p] \in Steps /\ cur[p] \in Items
  BY DEF Shape
<1>2. NoPlan.ws = 0
  BY DEF NoPlan
<1> QED BY <1>1, <1>2, PlanIs

-----------------------------------------------------------------------------
(* What any step of a process has to show.                                    *)

\* Nothing is deleted that may not be.
Keeps == \A x \in Objects : loc'[x] = "gone" =>
           \/ loc[x] = "gone" \/ x \in waived
           \/ \E a \in applied : a.ws = x[1] /\ a.disp[x[2]] = "discard"
StoreShape ==
  /\ loc' \in [Objects -> {"none", "objects", "artifacts", "trash", "gone"}]
  /\ item' \in [Objects -> BOOLEAN] /\ receipt' \in [Objects -> BOOLEAN]
  /\ Keeps

LEMMA SameStore == ASSUME Shape, UNCHANGED store PROVE StoreShape /\ UNCHANGED discarding
BY DEF Shape, store, StoreShape, Keeps

LEMMA Step ==
  ASSUME IInv, NEW p \in Cli, NEW s \in Steps, NEW m \in Plans \cup {NoPlan},
         pc' = [pc EXCEPT ![p] = s], mine' = [mine EXCEPT ![p] = m], cur' \in [Cli -> Items],
         UNCHANGED <<host, onhost, cleaning, sets, rev, disp, base, res, bulk, discarding, applied, waived>>,
         ws' = ws \/ ws' = 0, StoreShape, j' \in Journals,
         j' # NoJournal => j'.plan.ws <= sets,
         j'.phase = "project_committed" => Committed(j'.plan),
         m.ws <= sets, s \in Working => m \in Plans,
         s = "mark" => m \in applied, s \in Moving => Committed(m)
  PROVE  IInv'
<1>1. Shape
  BY DEF IInv
<1>2. \A q \in Cli : pc'[q] = IF q = p THEN s ELSE pc[q]
  BY <1>1 DEF Shape
<1>3. \A q \in Cli : mine'[q] = IF q = p THEN m ELSE mine[q]
  BY <1>1 DEF Shape
<1>4. ws' \in 0 .. sets' /\ (ws' # 0 => rev' # 0)
  BY <1>1 DEF Shape
<1>5. Shape'
  BY <1>1, <1>4 DEF Shape, StoreShape, Contents, Sets, Objects, Items
<1>6. Exported'
  BY <1>2, <1>3 DEF IInv, Exported
<1>7. Approved'
  <2>1. DeletedOnlyAsApproved'
    BY DEF IInv, Approved, DeletedOnlyAsApproved, StoreShape, Keeps, Objects
  <2> QED BY <1>2, <1>3, <2>1 DEF IInv, Approved, Committed
<1>8. LastCommit'
  BY DEF IInv, LastCommit
<1> QED BY <1>5, <1>6, <1>7, <1>8 DEF IInv

LEMMA SameJournal ==
  ASSUME IInv, j' = j \/ j' = NoJournal
  PROVE  /\ j' \in Journals /\ (j' # NoJournal => j'.plan.ws <= sets)
         /\ j'.phase = "project_committed" => Committed(j'.plan)
<1>1. NoJournal \in Journals /\ NoJournal.phase = "none"
  BY DEF Journals, NoJournal
<1>2. j \in Journals
  BY DEF IInv, Shape
<1> QED BY <1>1, <1>2 DEF IInv, Exported, Approved

\* A process goes on with the plan it has.
LEMMA Goes ==
  ASSUME IInv, NEW p \in Cli, NEW s \in Steps, Goto(p, s), cur' \in [Cli -> Items],
         UNCHANGED <<mine, host, onhost, cleaning, sets, rev, disp, base, res, bulk, discarding, applied,
                     waived>>,
         ws' = ws \/ ws' = 0, StoreShape, j' \in Journals,
         j' # NoJournal => j'.plan.ws <= sets,
         j'.phase = "project_committed" => Committed(j'.plan),
         s \in Working => pc[p] \in Working,
         s = "mark" => mine[p] \in applied, s \in Moving => Committed(mine[p])
  PROVE  IInv'
<1>1. mine' = [mine EXCEPT ![p] = mine[p]] /\ mine[p] \in Plans \cup {NoPlan}
  BY DEF IInv, Shape
<1>2. mine[p].ws <= sets /\ (pc[p] \in Working => mine[p] \in Plans)
  BY DEF IInv, Exported
<1> QED BY <1>1, <1>2, Step DEF Goto

LEMMA SameCur == ASSUME IInv, UNCHANGED cur PROVE cur' \in [Cli -> Items]
BY DEF IInv, Shape

LEMMA StartStep == ASSUME IInv, NEW p \in Cli, StartApply(p) PROVE IInv'
<1>1. /\ Goto(p, "load") /\ "load" \in Steps /\ "load" \notin Working /\ "load" \notin Moving
      /\ UNCHANGED <<mine, cur, host, onhost, cleaning, pending, store, j, applied, waived>>
  BY DEF StartApply, history, Steps, Working, Moving
<1> QED BY <1>1, Goes, SameCur, SameJournal, SameStore DEF pending, IInv

\* A finalized journal is cleaned up instead.
LEMMA CleansStep ==
  ASSUME IInv, NEW p \in Cli, Finalized, mine' = [mine EXCEPT ![p] = j.plan],
         Goto(p, "rmpending"),
         UNCHANGED <<cur, host, onhost, cleaning, pending, store, j, applied, waived>>
  PROVE  IInv'
<1>1. j.plan \in Plans /\ j.plan.ws <= sets
  BY JournalIs DEF IInv, Exported, Finalized
<1>2. "rmpending" \in Steps \ (Moving \cup {"mark"})
  BY DEF Steps, Moving
<1> QED BY <1>1, <1>2, Step, SameCur, SameJournal, SameStore DEF Goto, pending, IInv

LEMMA LoadStep == ASSUME IInv, NEW p \in Cli, Load(p) PROVE IInv'
<1>1. UNCHANGED <<cur, host, onhost, cleaning, sets, rev, disp, base, res, bulk, store, applied,
                  waived>>
  BY DEF Load, history, pending
<1>2. CASE Goto(p, "idle") /\ UNCHANGED <<mine, ws, j>>
  <2>1. "idle" \in Steps /\ "idle" \notin Working /\ "idle" \notin Moving
    BY DEF Steps, Working, Moving
  <2> QED BY <1>1, <1>2, <2>1, Goes, SameCur, SameJournal, SameStore DEF IInv
<1>4. CASE Finalized /\ mine' = [mine EXCEPT ![p] = j.plan] /\ Goto(p, "rmpending")
  BY <1>1, <1>4, CleansStep DEF Load, pending
<1>3. CASE /\ ws # 0 /\ Goto(p, "resume") /\ UNCHANGED <<ws, j>>
           /\ mine' = [mine EXCEPT ![p] = [ws |-> ws, rev |-> rev, disp |-> disp, owner |-> p]]
  <2> DEFINE m == [ws |-> ws, rev |-> rev, disp |-> disp, owner |-> p]
  <2>1. m \in Plans /\ m.ws <= sets
    <3>1. ws \in Sets /\ rev \in 1 .. MaxRev /\ disp \in [Items -> Dispositions] /\ ws <= sets
      BY <1>3 DEF IInv, Shape, Sets
    <3> QED BY <3>1 DEF Plans
  <2>2. "resume" \in Steps /\ "resume" # "mark" /\ "resume" \notin Moving
    BY DEF Steps, Moving
  <2> HIDE DEF m
  <2> QED BY <1>1, <1>3, <2>1, <2>2, Step, SameCur, SameJournal, SameStore DEF Goto, IInv, m
<1> QED BY <1>2, <1>3, <1>4 DEF Load, pending, Fails

LEMMA ResumeStep == ASSUME IInv, NEW p \in Cli, Resume(p) PROVE IInv'
<1>1. /\ UNCHANGED <<cur, host, onhost, cleaning, pending, store, j, applied, waived>>
      /\ pc[p] \in Working
  BY DEF Resume, history, Working, Steps
<1>2. CASE (Goto(p, "plan") \/ Fails(p)) /\ UNCHANGED mine
  <2>1. /\ "idle" \in Steps /\ "idle" \notin Working /\ "idle" \notin Moving
        /\ "plan" \in Steps /\ "plan" \notin Moving
    BY DEF Steps, Working, Moving
  <2> QED BY <1>1, <1>2, <2>1, Goes, SameCur, SameJournal, SameStore DEF pending, Fails, IInv
<1>3. CASE j # NoJournal /\ mine' = [mine EXCEPT ![p] = j.plan]
  <2>1. j.plan \in Plans /\ j.plan.ws <= sets
    BY <1>3, JournalIs DEF IInv, Exported
  <2>2. PICK s \in {"remark", "finalize", "dropstale", "idle", "rmpending"} : Goto(p, s)
    BY <1>3 DEF Resume, Fails
  <2>3. s \in Steps /\ s \notin Moving /\ s # "mark"
    BY DEF Steps, Moving
  <2> QED BY <1>1, <1>3, <2>1, <2>2, <2>3, Step, SameCur, SameJournal, SameStore
          DEF Goto, pending, IInv
<1> QED BY <1>2, <1>3, JournalIs DEF Resume, Finalized, IInv

LEMMA MarksCommitted ==
  ASSUME IInv, NEW p \in Cli, NEW next, NEW otherwise,
         MarkProjectCommitted(p, next, otherwise), mine[p] \in applied'
  PROVE  /\ j' \in Journals /\ (j' # NoJournal => j'.plan.ws <= sets)
         /\ j' # j => Goto(p, next) /\ j'.plan = mine[p] /\ j'.phase = "project_committed"
         /\ Goto(p, next) \/ Goto(p, otherwise)
<1>1. CASE j' = j
  BY <1>1, SameJournal DEF MarkProjectCommitted
<1>2. CASE j # NoJournal /\ j' = [j EXCEPT !.phase = "project_committed"] /\ j.plan = mine[p]
  <2>1. j.plan \in Plans /\ j = [phase |-> j.phase, plan |-> j.plan]
    BY <1>2, JournalIs DEF IInv
  <2>2. j' = [phase |-> "project_committed", plan |-> j.plan]
    BY <1>2, <2>1
  <2>3. j' \in Journals /\ j'.plan = j.plan /\ j'.phase = "project_committed"
    BY <2>1, <2>2, NewJournal DEF Phases
  <2> QED BY <1>2, <2>3 DEF IInv, Exported, MarkProjectCommitted
<1> QED BY <1>1, <1>2 DEF MarkProjectCommitted, Expected

\* What a step adds to the history, it adds for a plan that is in the Project.
LEMMA MarkStep == ASSUME IInv, NEW p \in Cli, Mark(p) PROVE IInv'
<1>1. /\ UNCHANGED <<mine, cur, host, onhost, cleaning, pending, store, applied, waived>>
      /\ MarkProjectCommitted(p, "finalize", "failed") /\ mine[p] \in applied /\ pc[p] \in Working
  BY DEF Mark, history, IInv, Approved, Working, Steps
<1>2. /\ j' \in Journals /\ (j' # NoJournal => j'.plan.ws <= sets)
      /\ j' # j => j'.plan = mine[p]
      /\ Goto(p, "finalize") \/ Goto(p, "failed")
  BY <1>1, MarksCommitted
<1>3. j'.phase = "project_committed" => Committed(j'.plan)
  <2>1. CASE j' = j
    BY <2>1 DEF IInv, Approved
  <2>2. CASE j' # j
    BY <1>1, <1>2, <2>2 DEF Committed
  <2> QED BY <2>1, <2>2
<1>4. {"finalize", "failed"} \subseteq Steps \ (Moving \cup {"mark"})
  BY DEF Steps, Moving
<1> QED BY <1>1, <1>2, <1>3, <1>4, Goes, SameCur, SameStore DEF pending, IInv

\* The plan counts as applied now.
LEMMA AppliedMore ==
  ASSUME IInv, NEW m \in Plans, m.ws <= sets, applied' = applied \cup {m},
         UNCHANGED sets
  PROVE  /\ applied' \subseteq Plans /\ \A a \in applied' : a.ws <= sets
         /\ \A plan : Committed(plan) => Committed(plan)'
<1>1. applied \subseteq Plans /\ \A a \in applied : a.ws <= sets
  BY DEF IInv, Shape, Exported
<1>2. \A plan : Committed(plan) => Committed(plan)'
  BY DEF Committed
<1> QED BY <1>1, <1>2

LEMMA RemarkStep == ASSUME IInv, NEW p \in Cli, Remark(p) PROVE IInv'
<1>1. /\ UNCHANGED <<mine, cur, host, onhost, cleaning, pending, store, waived>>
      /\ MarkProjectCommitted(p, "finalize", "idle") /\ pc[p] \in Working
      /\ pc[p] = "remark" /\ mine[p] \in Plans /\ mine[p].ws <= sets
      /\ applied' = IF j' # j THEN applied \cup {mine[p]} ELSE applied
  BY DEF Remark, history, IInv, Exported, Working, Steps
<1>2. CASE j' = j
  <2>1. applied' = applied /\ (Goto(p, "finalize") \/ Goto(p, "idle"))
    BY <1>1, <1>2 DEF MarkProjectCommitted
  <2>2. {"finalize", "idle"} \subseteq Steps \ (Moving \cup {"mark"})
    BY DEF Steps, Moving
  <2> QED BY <1>1, <1>2, <2>1, <2>2, Goes, SameCur, SameStore, SameJournal DEF pending, IInv
<1>3. CASE j' # j
  <2>1. /\ applied' = applied \cup {mine[p]} /\ mine[p] \in applied'
        /\ UNCHANGED sets
    BY <1>1, <1>3 DEF pending
  <2>2. /\ j' \in Journals /\ (j' # NoJournal => j'.plan.ws <= sets)
        /\ j'.plan = mine[p] /\ Goto(p, "finalize")
    BY <1>1, <1>3, <2>1, MarksCommitted
  <2>3. /\ applied' \subseteq Plans /\ \A a \in applied' : a.ws <= sets
        /\ \A plan : Committed(plan) => Committed(plan)'
    BY <1>1, <2>1, AppliedMore
  <2>5. Shape
    BY DEF IInv
  <2>6. pc' = [pc EXCEPT ![p] = "finalize"] /\ \A q \in Cli : q # p => pc'[q] = pc[q]
    BY <2>2, <2>5 DEF Goto, Shape
  <2>7. pc'[p] = "finalize"
    BY <2>5, <2>6 DEF Shape
  <2>8. Shape'
    <3>1. pc' \in [Cli -> Steps]
      BY <2>5, <2>6 DEF Shape, Steps
    <3> QED BY <1>1, <2>2, <2>3, <2>5, <3>1 DEF Shape, pending, store
  <2>9. Exported'
    BY <1>1, <2>2, <2>3, <2>6, <2>7 DEF IInv, Exported, pending
  <2>10. Approved'
    <3>1. DeletedOnlyAsApproved'
      BY <1>1, <2>1 DEF IInv, Approved, DeletedOnlyAsApproved, store
    <3>2. Committed(j.plan)'
      BY <2>1, <2>2 DEF Committed
    <3> QED BY <1>1, <2>1, <2>2, <2>3, <2>6, <2>7, <3>1, <3>2
            DEF IInv, Approved, store, Moving, Committed
  <2>11. LastCommit'
    BY <1>1 DEF IInv, LastCommit, pending
  <2> QED BY <2>8, <2>9, <2>10, <2>11 DEF IInv
<1> QED BY <1>2, <1>3

LEMMA ApplyStep == ASSUME IInv, NEW p \in Cli, Apply(p) PROVE IInv'
<1> DEFINE w == mine[p].ws
<1>1. /\ UNCHANGED <<mine, cur, cleaning, pending, store, j, waived>>
      /\ pc[p] = "apply" /\ mine[p] \in Plans /\ w <= sets /\ w \in Sets /\ Shape
  <2>1. pc[p] = "apply" /\ pc[p] \in Working
    BY DEF Apply, Working, Steps
  <2> QED BY <2>1, PlanIs DEF Apply, IInv, Exported
<1>2. CASE Goto(p, "failed") /\ UNCHANGED <<host, applied, onhost>>
  <2>1. "failed" \in Steps \ (Moving \cup {"mark"}) /\ pc[p] \in Working
    BY <1>1 DEF Steps, Moving, Working
  <2> QED BY <1>1, <1>2, <2>1, Goes, SameCur, SameStore, SameJournal DEF pending
<1>3. CASE /\ host = base[w] /\ host' = res[w] /\ Goto(p, "mark")
           /\ applied' = applied \cup {mine[p]} /\ onhost' = w
  <2>1. /\ applied' \subseteq Plans /\ \A a \in applied' : a.ws <= sets
        /\ \A plan : Committed(plan) => Committed(plan)'
    BY <1>1, <1>3, AppliedMore DEF pending
  <2>2. /\ pc' = [pc EXCEPT ![p] = "mark"] /\ \A q \in Cli : q # p => pc'[q] = pc[q]
    BY <1>1, <1>3 DEF Goto, Shape
  <2>3. pc'[p] = "mark"
    BY <1>1, <2>2 DEF Shape
  <2>4. Shape'
    <3>1. pc' \in [Cli -> Steps]
      BY <1>1, <2>2 DEF Shape, Steps
    <3>2. host' \in Contents
      BY <1>1, <1>3 DEF Shape
    <3> QED BY <1>1, <2>1, <3>1, <3>2 DEF Shape, pending, store
  <2>5. Exported'
    BY <1>1, <2>1, <2>2, <2>3 DEF IInv, Exported, pending
  <2>6. Approved'
    <3>1. DeletedOnlyAsApproved'
      BY <1>1, <1>3 DEF IInv, Approved, DeletedOnlyAsApproved, store
    <3>2. mine[p] \in applied' /\ \A a \in applied : a \in applied'
      BY <1>3
    <3> QED BY <1>1, <2>1, <2>2, <2>3, <3>1, <3>2
            DEF IInv, Approved, store, Moving, Committed
  <2>7. LastCommit'
    BY <1>1, <1>3 DEF LastCommit, pending
  <2> QED BY <2>4, <2>5, <2>6, <2>7 DEF IInv
<1> QED BY <1>2, <1>3 DEF Apply

LEMMA RemoveStep ==
  ASSUME IInv, NEW p \in Cli, NEW next \in {"plan", "idle"}, RemovePrepared(p, next),
         pc[p] \in Working,
         UNCHANGED <<mine, cur, host, onhost, cleaning, pending, store, applied, waived>>
  PROVE  IInv'
<1>1. (Goto(p, next) \/ Goto(p, "idle")) /\ (j' = j \/ j' = NoJournal)
  BY DEF RemovePrepared, Fails
<1>2. {"plan", "idle"} \subseteq Steps \ (Moving \cup {"mark"})
  BY DEF Steps, Moving
<1> QED BY <1>1, <1>2, Goes, SameCur, SameJournal, SameStore DEF pending, IInv

LEMMA DropStaleStep == ASSUME IInv, NEW p \in Cli, DropStale(p) PROVE IInv'
<1>1. pc[p] \in Working
  BY DEF DropStale, history, Working, Steps
<1> QED BY <1>1, RemoveStep DEF DropStale, history

LEMMA DropFailedStep == ASSUME IInv, NEW p \in Cli, DropFailed(p) PROVE IInv'
<1>1. pc[p] \in Working
  BY DEF DropFailed, history, Working, Steps
<1> QED BY <1>1, RemoveStep DEF DropFailed, history

\* Plan makes the process the owner of its plan and leaves the rest of it.
LEMMA Owned ==
  ASSUME IInv, NEW p \in Cli, Plan(p)
  PROVE  LET m == [mine[p] EXCEPT !.owner = p] IN
         /\ mine[p] \in Plans /\ m \in Plans /\ mine' = [mine EXCEPT ![p] = m]
         /\ m.ws = mine[p].ws /\ m.rev = mine[p].rev /\ m.disp = mine[p].disp
<1> DEFINE m == [mine[p] EXCEPT !.owner = p]
<1>1. pc[p] \in Working
  BY DEF Plan, history, Working, Steps
<1>2. mine[p] \in Plans /\ mine \in [Cli -> Plans \cup {NoPlan}]
  BY <1>1 DEF IInv, Exported, Shape
<1>3. m \in Plans /\ m.ws = mine[p].ws /\ m.rev = mine[p].rev /\ m.disp = mine[p].disp
  BY <1>2 DEF Plans
<1>4. mine' = [mine EXCEPT ![p] = m]
  BY <1>2 DEF Plan
<1> QED BY <1>2, <1>3, <1>4

LEMMA PlanStep == ASSUME IInv, NEW p \in Cli, Plan(p) PROVE IInv'
<1> DEFINE m == [mine[p] EXCEPT !.owner = p]
<1>1. m \in Plans /\ mine' = [mine EXCEPT ![p] = m] /\ m.ws = mine[p].ws
  BY Owned
<1>2. /\ Goto(p, "confirm") \/ Goto(p, "idle")
      /\ UNCHANGED <<cur, host, onhost, cleaning, pending, store, j, applied, waived>>
  BY DEF Plan, history, Fails
<1>3. {"confirm", "idle"} \subseteq Steps \ (Moving \cup {"mark"})
  BY DEF Steps, Moving
<1>4. m.ws <= sets
  BY <1>1 DEF IInv, Exported
<1> HIDE DEF m
<1> QED BY <1>1, <1>2, <1>3, <1>4, Step, SameCur, SameJournal, SameStore
        DEF pending, IInv, Goto

LEMMA ConfirmStep == ASSUME IInv, NEW p \in Cli, Confirm(p) PROVE IInv'
<1>1. /\ Goto(p, "reload") \/ Goto(p, "idle")
      /\ UNCHANGED <<mine, cur, host, onhost, cleaning, pending, store, j, applied, waived>>
      /\ pc[p] \in Working
  BY DEF Confirm, history, Fails, Working, Steps
<1>2. {"reload", "idle"} \subseteq Steps \ (Moving \cup {"mark"})
  BY DEF Steps, Moving
<1> QED BY <1>1, <1>2, Goes, SameCur, SameJournal, SameStore DEF pending, IInv

LEMMA ReloadStep == ASSUME IInv, NEW p \in Cli, Reload(p) PROVE IInv'
<1>1. /\ UNCHANGED <<cur, host, onhost, cleaning, pending, store, j, applied, waived>>
      /\ pc[p] \in Working
  BY DEF Reload, history, Working, Steps
<1>2. CASE Finalized /\ mine' = [mine EXCEPT ![p] = j.plan] /\ Goto(p, "rmpending")
  BY <1>1, <1>2, CleansStep
<1>3. CASE (Goto(p, "prepare") \/ Goto(p, "idle")) /\ UNCHANGED mine
  <2>1. {"prepare", "idle"} \subseteq Steps \ (Moving \cup {"mark"})
    BY DEF Steps, Moving
  <2> QED BY <1>1, <1>3, <2>1, Goes, SameCur, SameJournal, SameStore DEF pending, IInv
<1> QED BY <1>2, <1>3 DEF Reload, Fails

LEMMA PrepareStep == ASSUME IInv, NEW p \in Cli, Prepare(p) PROVE IInv'
<1>1. /\ Goto(p, "apply") /\ pc[p] \in Working
      /\ UNCHANGED <<mine, cur, host, onhost, cleaning, pending, store, applied, waived>>
      /\ mine[p] \in Plans /\ mine[p].ws <= sets
      /\ j' = [phase |-> "prepared", plan |-> mine[p]]
  BY DEF Prepare, history, Working, Steps, IInv, Exported
<1>2. "apply" \in Steps \ (Moving \cup {"mark"})
  BY DEF Steps, Moving
<1>3. j' \in Journals /\ j'.phase = "prepared" /\ j'.plan = mine[p]
  BY <1>1, NewJournal DEF Phases
<1> QED BY <1>1, <1>2, <1>3, Goes, SameCur, SameStore DEF pending, IInv

LEMMA FailedStep == ASSUME IInv, NEW p \in Cli, Failed(p) PROVE IInv'
<1>1. /\ UNCHANGED <<cur, host, onhost, cleaning, pending, store, j, applied, waived>>
      /\ pc[p] \in Working
  BY DEF Failed, history, Working, Steps
<1>2. {"dropfailed", "idle"} \subseteq Steps \ (Moving \cup {"mark"})
  BY DEF Steps, Moving
<1>3. CASE UNCHANGED mine /\ Goto(p, "idle")
  BY <1>1, <1>2, <1>3, Goes, SameCur, SameJournal, SameStore DEF pending, IInv
<1>4. CASE /\ mine' = [mine EXCEPT ![p] = j.plan] /\ Goto(p, "dropfailed")
           /\ j.phase = "prepared"
  <2>1. j.plan \in Plans /\ j.plan.ws <= sets
    BY <1>4, JournalIs DEF IInv, Exported
  <2> QED BY <1>1, <1>2, <1>4, <2>1, Step, SameCur, SameJournal, SameStore DEF Goto, pending, IInv
<1> QED BY <1>3, <1>4 DEF Failed, Fails

LEMMA FinalizeStep == ASSUME IInv, NEW p \in Cli, Finalize(p) PROVE IInv'
<1>1. /\ UNCHANGED <<mine, host, onhost, cleaning, pending, store, j, applied, waived>>
      /\ pc[p] \in Working /\ Shape
  BY DEF Finalize, history, Working, Steps, IInv
<1>2. {"move", "rmpending", "idle"} \subseteq Steps \ {"mark"}
      /\ "rmpending" \notin Moving /\ "idle" \notin Moving
  BY DEF Steps, Moving
<1>3. CASE UNCHANGED cur /\ (Goto(p, "rmpending") \/ Goto(p, "idle"))
  BY <1>1, <1>2, <1>3, Goes, SameCur, SameJournal, SameStore DEF pending
<1>4. CASE /\ j.phase = "project_committed" /\ SameResolution(j.plan, mine[p])
           /\ Goto(p, "move") /\ cur' = [cur EXCEPT ![p] = 1]
  <2>1. cur' \in [Cli -> Items]
    BY <1>1, <1>4 DEF Shape, Items
  <2>2. Committed(mine[p])
    BY <1>4 DEF IInv, Approved, Committed, SameResolution
  <2> QED BY <1>1, <1>2, <1>4, <2>1, <2>2, Goes, SameJournal, SameStore DEF pending
<1> QED BY <1>3, <1>4 DEF Finalize, Fails

\* The objects of a plan that was committed.
LEMMA AtWork ==
  ASSUME IInv, NEW p \in Cli, pc[p] \in Moving
  PROVE  /\ mine[p] \in Plans /\ mine[p].ws \in Sets /\ mine[p].ws <= sets /\ cur[p] \in Items
         /\ Object(p) \in Objects /\ Object(p)[1] = mine[p].ws /\ Object(p)[2] = cur[p]
         /\ pc[p] \in Working /\ Committed(mine[p])
         /\ Disposition(p) \in Dispositions \cup {"none"}
<1>1. pc[p] \in Working
  BY DEF Moving, Working, Steps
<1>2. mine[p] \in Plans /\ mine[p].ws \in Sets /\ mine[p].ws <= sets /\ cur[p] \in Items
  BY <1>1, PlanIs, MineIs DEF IInv, Exported
<1>3. mine[p].disp \in [Items -> Dispositions]
  BY <1>2, PlanIs
<1> QED BY <1>1, <1>2, <1>3 DEF Object, Objects, Disposition, IInv, Approved

LEMMA NextIs ==
  ASSUME Shape, NEW p \in Cli, NextOperation(p)
  PROVE  cur' \in [Cli -> Items] /\ (Goto(p, "finish") \/ Goto(p, "move"))
<1>1. CASE UNCHANGED cur
  BY <1>1 DEF NextOperation, Shape
<1>2. CASE cur[p] # M /\ cur' = [cur EXCEPT ![p] = @ + 1] /\ Goto(p, "move")
  <2>1. cur[p] \in Items /\ cur[p] + 1 \in Items
    BY <1>2 DEF Shape, Items
  <2> QED BY <1>2, <2>1 DEF Shape
<1> QED BY <1>1, <1>2 DEF NextOperation

\* One object moves, its data is not deleted.
LEMMA Relocated ==
  ASSUME Shape, Keeps, NEW x \in Objects, NEW to \in {"artifacts", "trash", "gone"},
         loc' = [loc EXCEPT ![x] = to], UNCHANGED <<item, receipt>>
  PROVE  StoreShape
BY DEF Shape, StoreShape

LEMMA MoveStep == ASSUME IInv, NEW p \in Cli, Move(p) PROVE IInv'
<1>1. /\ pc[p] \in Moving /\ Shape
      /\ UNCHANGED <<mine, host, onhost, cleaning, pending, item, receipt, discarding, discarded, j,
                     applied, waived>>
  BY DEF Move, history, Moving, IInv
<1>2. {"move", "record", "purge", "finish", "idle"} \subseteq Steps \ {"mark"}
      /\ "idle" \notin Working /\ "idle" \notin Moving
  BY DEF Steps, Moving, Working
<1>3. cur' \in [Cli -> Items]
  BY <1>1, NextIs DEF Move, Shape
<1>4. PICK s \in {"move", "record", "purge", "finish", "idle"} : Goto(p, s)
  BY <1>1, NextIs DEF Move, MoveObject, Fails
<1>5. StoreShape
  <2>1. CASE UNCHANGED loc
    BY <1>1, <2>1 DEF Shape, StoreShape, Keeps
  <2>2. CASE ~UNCHANGED loc
    <3>1. PICK to \in {"trash", "artifacts"} : loc' = [loc EXCEPT ![Object(p)] = to]
      BY <2>2 DEF Move, MoveObject
    <3>2. Keeps
      BY <1>1, <3>1, AtWork DEF Shape, Keeps
    <3> QED BY <1>1, <3>1, <3>2, AtWork, Relocated
  <2> QED BY <2>1, <2>2
<1> QED BY <1>1, <1>2, <1>3, <1>4, <1>5, AtWork, Goes, SameJournal DEF pending

LEMMA RecordStep == ASSUME IInv, NEW p \in Cli, Record(p) PROVE IInv'
<1>1. /\ pc[p] \in Moving /\ Shape /\ (Goto(p, "purge") \/ Goto(p, "idle"))
      /\ UNCHANGED <<mine, cur, host, onhost, cleaning, pending, loc, discarding, discarded, j,
                     applied, waived>>
  BY DEF Record, history, Moving, IInv, Fails
<1>2. {"purge", "idle"} \subseteq Steps \ {"mark"} /\ "idle" \notin Working /\ "idle" \notin Moving
  BY DEF Steps, Working, Moving
<1>3. StoreShape
  BY <1>1, AtWork DEF Record, Shape, StoreShape, Keeps
<1> QED BY <1>1, <1>2, <1>3, AtWork, Goes, SameCur, SameJournal DEF pending

LEMMA PurgeStep == ASSUME IInv, NEW p \in Cli, Purge(p) PROVE IInv'
<1>1. /\ pc[p] \in Moving /\ Shape /\ NextOperation(p)
      /\ UNCHANGED <<mine, host, onhost, cleaning, pending, item, receipt, discarding, discarded, j,
                     applied, waived>>
  BY DEF Purge, history, Moving, IInv
<1>2. {"move", "finish"} \subseteq Steps \ {"mark"}
  BY DEF Steps
<1>3. StoreShape
  <2>1. CASE UNCHANGED loc
    BY <1>1, <2>1 DEF Shape, StoreShape, Keeps
  <2>2. CASE Disposition(p) = "discard" /\ loc' = [loc EXCEPT ![Object(p)] = "gone"]
    <3>1. \E a \in applied : a.ws = mine[p].ws /\ a.disp[cur[p]] = "discard"
      BY <1>1, <2>2, AtWork DEF Disposition, Committed
    <3>2. Keeps
      BY <1>1, <2>2, <3>1, AtWork DEF Shape, Keeps
    <3> QED BY <1>1, <2>2, <3>2, AtWork, Relocated
  <2> QED BY <2>1, <2>2 DEF Purge
<1> QED BY <1>1, <1>2, <1>3, NextIs, AtWork, Goes, SameJournal DEF pending

LEMMA FinishStep == ASSUME IInv, NEW p \in Cli, Finish(p) PROVE IInv'
<1>1. /\ pc[p] \in Moving /\ Shape /\ Goto(p, "rmpending")
      /\ UNCHANGED <<mine, cur, host, onhost, cleaning, pending, store, applied, waived>>
      /\ j' = [phase |-> "retention_finalized", plan |-> mine[p]]
  BY DEF Finish, history, Moving, IInv
<1>2. "rmpending" \in Steps \ (Moving \cup {"mark"})
  BY DEF Steps, Moving
<1>3. j' \in Journals /\ j'.phase = "retention_finalized" /\ j'.plan = mine[p]
  BY <1>1, AtWork, NewJournal DEF Phases
<1> QED BY <1>1, <1>2, <1>3, AtWork, Goes, SameCur, SameStore DEF pending

LEMMA RemovePendingStep == ASSUME IInv, NEW p \in Cli, RemovePending(p) PROVE IInv'
<1>1. /\ ws' = 0 /\ Goto(p, "rmjournal") /\ pc[p] \in Working
      /\ UNCHANGED <<mine, cur, host, onhost, cleaning, sets, rev, disp, base, res, bulk, store, j, applied,
                     waived>>
  BY DEF RemovePending, history, Working, Steps
<1>2. "rmjournal" \in Steps \ (Moving \cup {"mark"})
  BY DEF Steps, Moving
<1> QED BY <1>1, <1>2, Goes, SameCur, SameJournal, SameStore DEF IInv

LEMMA RemoveFinalizedStep == ASSUME IInv, NEW p \in Cli, RemoveFinalized(p) PROVE IInv'
<1>1. /\ Goto(p, "idle") /\ j' \in {j, NoJournal}
      /\ UNCHANGED <<mine, cur, host, onhost, cleaning, pending, store, applied, waived>>
  BY DEF RemoveFinalized, history
<1>2. "idle" \in Steps \ (Working \cup Moving \cup {"mark"})
  BY DEF Steps, Moving, Working
<1> QED BY <1>1, <1>2, Goes, SameCur, SameJournal, SameStore DEF pending, IInv

LEMMA StopStep == ASSUME IInv, NEW p \in Cli, Fault(p) \/ Crash(p) PROVE IInv'
<1>1. PICK s \in {"idle", "failed"} :
        /\ Goto(p, s) /\ (s = "failed" => pc[p] \in Working)
        /\ UNCHANGED <<mine, cur, host, onhost, cleaning, pending, store, j, applied, waived>>
  BY DEF Fault, history, Crash, Working, Steps
<1>2. /\ {"idle", "failed"} \subseteq Steps \ (Moving \cup {"mark"})
      /\ "idle" \notin Working
  BY DEF Steps, Moving, Working
<1> QED BY <1>1, <1>2, Goes, SameCur, SameJournal, SameStore DEF pending, IInv

-----------------------------------------------------------------------------
(* The other commands.                                                        *)

LEMMA Aside ==
  ASSUME IInv, UNCHANGED <<process, sets, applied>>, LastCommit',
         j' = j \/ j' = NoJournal, Shape', DeletedOnlyAsApproved',
         (discarding # NoDiscard => discarding.object \in waived)'
  PROVE  IInv'
<1>1. j' # NoJournal => j' = j
  OBVIOUS
<1>2. j'.phase = "project_committed" => j' = j
  BY DEF NoJournal
<1>3. UNCHANGED <<pc, mine, cur>>
  BY DEF process
<1>4. Exported'
  BY <1>1, <1>3 DEF IInv, Exported
<1>5. Approved'
  BY <1>2, <1>3 DEF IInv, Approved, Committed
<1> QED BY <1>4, <1>5 DEF IInv

LEMMA SameCommit ==
  ASSUME IInv, UNCHANGED <<host, onhost, sets, res>> PROVE LastCommit'
BY DEF IInv, LastCommit

LEMMA StatusStep == ASSUME IInv, Status \/ CleanupStops PROVE IInv'
<1>1. UNCHANGED <<host, onhost, pending, store, j, process, applied, waived>>
  BY DEF Status, CleanupStops, history
<1>2. cleaning' \in {NoCleanup} \cup [step : {"pending", "journal"}, plan : Plans]
  <2>1. Finalized => j.plan \in Plans
    BY JournalIs DEF IInv, Finalized
  <2> QED BY <2>1 DEF Status, CleanupStops
<1>3. Shape'
  BY <1>1, <1>2 DEF IInv, Shape, pending, store, process, Discards
<1>4. DeletedOnlyAsApproved'
  BY <1>1 DEF IInv, Approved, DeletedOnlyAsApproved, store
<1> QED BY <1>1, <1>3, <1>4, Aside, SameCommit DEF pending, store, IInv, Approved

\* The cleanup that runs, and its plan.
LEMMA CleaningIs ==
  ASSUME Shape, cleaning.step \in {"pending", "journal"}
  PROVE  cleaning # NoCleanup /\ cleaning.plan \in Plans
         /\ cleaning = [step |-> cleaning.step, plan |-> cleaning.plan]
BY DEF Shape, NoCleanup

LEMMA CleanupStep == ASSUME IInv, CleanupFinalizedPending PROVE IInv'
<1>1. /\ UNCHANGED <<host, onhost, sets, rev, disp, base, res, bulk, store, process, applied, waived>>
      /\ cleaning.step \in {"pending", "journal"}
      /\ j' = j \/ j' = NoJournal
      /\ ws' = ws \/ ws' = 0
  BY DEF CleanupFinalizedPending, history
<1>2. cleaning' = NoCleanup \/ cleaning' = [cleaning EXCEPT !.step = "journal"]
  BY DEF CleanupFinalizedPending
<1>3. cleaning' \in {NoCleanup} \cup [step : {"pending", "journal"}, plan : Plans]
  BY <1>1, <1>2, CleaningIs DEF IInv
<1>4. j' \in Journals /\ ws' \in 0 .. sets /\ (ws' # 0 => rev # 0)
  BY <1>1, SameJournal DEF IInv, Shape
<1>5. Shape'
  BY <1>1, <1>3, <1>4 DEF IInv, Shape, store, process, Discards
<1>6. DeletedOnlyAsApproved'
  BY <1>1 DEF IInv, Approved, DeletedOnlyAsApproved, store
<1> QED BY <1>1, <1>5, <1>6, Aside, SameCommit DEF store, IInv, Approved

LEMMA ResolveStep == ASSUME IInv, Resolve PROVE IInv'
<1>1. Shape'
  <2>1. rev' \in 0 .. MaxRev /\ rev' # 0
    BY DEF IInv, Shape, Resolve
  <2>2. disp' \in [Items -> Dispositions]
    BY DEF IInv, Shape, Resolve, Dispositions
  <2> QED BY <2>1, <2>2 DEF IInv, Shape, Resolve, store, process, history
<1>2. DeletedOnlyAsApproved'
  BY DEF IInv, Approved, DeletedOnlyAsApproved, Resolve, store, history
<1> QED BY <1>1, <1>2, Aside, SameCommit DEF Resolve, history, store, IInv, Approved

LEMMA DiscardPendingStep == ASSUME IInv, DiscardPending PROVE IInv'
<1>1. Shape'
  <2>1. ws' \in 0 .. sets'
    BY DEF IInv, Shape, DiscardPending
  <2> QED BY <2>1 DEF IInv, Shape, DiscardPending, store, process
<1>2. DeletedOnlyAsApproved'
  BY DEF IInv, Approved, DeletedOnlyAsApproved, DiscardPending, store
<1> QED BY <1>1, <1>2, Aside, SameCommit DEF DiscardPending, store, IInv, Approved

LEMMA StartDiscardStep == ASSUME IInv, StartDiscard PROVE IInv'
<1>1. PICK x \in Objects, step \in {"purge", "move"} :
        discarding' = [step |-> step, object |-> x] /\ waived' = waived \cup {x}
  BY DEF StartDiscard, Objects
<1>2. discarding' \in Discards /\ discarding'.object = x
  BY <1>1 DEF Discards
<1>3. Shape'
  BY <1>2 DEF IInv, Shape, StartDiscard, pending, process, Discards
<1>4. DeletedOnlyAsApproved'
  BY <1>1 DEF IInv, Approved, DeletedOnlyAsApproved, StartDiscard
<1> QED BY <1>1, <1>2, <1>3, <1>4, Aside, SameCommit DEF StartDiscard, pending

\* The object of a discard, and where its next step goes.
LEMMA DiscardIs ==
  ASSUME Shape, discarding # NoDiscard
  PROVE  /\ discarding.object \in Objects
         /\ discarding = [step |-> discarding.step, object |-> discarding.object]
BY DEF Shape, Discards

LEMMA DiscardGoes ==
  ASSUME Shape, discarding # NoDiscard, NEW step \in {"none", "receipt", "purge", "unlist"},
         DiscardGoto(step)
  PROVE  /\ discarding' \in Discards
         /\ discarding' # NoDiscard => discarding'.object = discarding.object
<1>1. CASE step = "none"
  BY <1>1 DEF DiscardGoto, Discards
<1>2. CASE step # "none"
  <2>1. discarding' = [step |-> step, object |-> discarding.object]
    BY <1>2, DiscardIs DEF DiscardGoto
  <2>2. discarding' \in [step : {"move", "receipt", "purge", "unlist"}, object : Objects]
    BY <1>2, <2>1, DiscardIs
  <2> QED BY <2>1, <2>2 DEF Discards
<1> QED BY <1>1, <1>2

LEMMA Discarding ==
  ASSUME DiscardProjectItem PROVE discarding # NoDiscard
BY DEF DiscardProjectItem, NoDiscard

LEMMA DiscardStep == ASSUME IInv, DiscardProjectItem PROVE IInv'
<1> DEFINE x == discarding.object
<1>1. /\ Shape /\ discarding # NoDiscard /\ x \in Objects /\ x \in waived
      /\ UNCHANGED <<host, onhost, cleaning, pending, receipt, j, process, applied, waived>>
  BY Discarding, DiscardIs DEF DiscardProjectItem, history, IInv, Approved
<1>2. /\ discarding' \in Discards
      /\ discarding' # NoDiscard => discarding'.object = x
  BY <1>1, DiscardGoes DEF DiscardProjectItem
<1>3. loc' = loc \/ \E to \in {"trash", "gone", loc[x]} : loc' = [loc EXCEPT ![x] = to]
  BY <1>1 DEF DiscardProjectItem
<1>4. loc' \in [Objects -> {"none", "objects", "artifacts", "trash", "gone"}]
  BY <1>1, <1>3 DEF Shape
<1>5. \A y \in Objects : y # x => loc'[y] = loc[y]
  BY <1>1, <1>3 DEF Shape
<1>6. item' \in [Objects -> BOOLEAN]
  BY <1>1 DEF DiscardProjectItem, Shape
<1>7. Shape'
  BY <1>1, <1>2, <1>4, <1>6 DEF Shape, pending, process, Discards
<1>8. DeletedOnlyAsApproved'
  BY <1>1, <1>5 DEF IInv, Approved, DeletedOnlyAsApproved, Objects
<1> QED BY <1>1, <1>2, <1>7, <1>8, Aside, SameCommit DEF pending

LEMMA DiscardStopsStep == ASSUME IInv, DiscardStops PROVE IInv'
<1>1. Shape /\ discarding # NoDiscard /\ DiscardGoto("none")
  BY DEF DiscardStops, history, IInv
<1>2. discarding' \in Discards /\ (discarding' # NoDiscard => discarding'.object = discarding.object)
  BY <1>1, DiscardGoes
<1>3. Shape'
  BY <1>1, <1>2 DEF Shape, DiscardStops, pending, process, history, Discards
<1>4. DeletedOnlyAsApproved'
  BY DEF IInv, Approved, DeletedOnlyAsApproved, DiscardStops, history
<1> QED BY <1>1, <1>2, <1>3, <1>4, Aside, SameCommit DEF DiscardStops, history, pending, IInv, Approved

LEMMA EditStep == ASSUME IInv, EditHost PROVE IInv'
<1>1. /\ UNCHANGED <<cleaning, pending, store, j, process, applied, waived>>
      /\ host' \in Contents /\ onhost' = 0
  BY DEF EditHost
<1>2. Shape'
  BY <1>1 DEF IInv, Shape, pending, store, process, Discards
<1>3. DeletedOnlyAsApproved'
  BY <1>1 DEF IInv, Approved, DeletedOnlyAsApproved, store
<1>4. LastCommit'
  BY <1>1 DEF LastCommit
<1> QED BY <1>1, <1>2, <1>3, <1>4, Aside DEF pending, store, IInv, Approved

LEMMA ExportStep == ASSUME IInv, Export PROVE IInv'
<1> DEFINE n == sets + 1
<1>1. /\ UNCHANGED <<host, onhost, cleaning, item, receipt, discarding, discarded, j, process, applied,
                     waived>>
      /\ Shape /\ n \in Sets /\ sets' = n /\ ws' = n /\ rev' = 1 /\ disp' = Unresolved
      /\ sets \in Nat /\ n # 0 /\ \A i \in Nat : i <= sets => i # n /\ i <= n
  BY DEF Export, history, IInv, Shape, Sets
<1>2. PICK B \in SUBSET Items, r \in Contents :
        /\ bulk' = [bulk EXCEPT ![n] = B]
        /\ base' = [base EXCEPT ![n] = host] /\ res' = [res EXCEPT ![n] = r]
        /\ loc' = [x \in Sets \X Items |->
                     IF x[1] = n /\ x[2] \in B THEN "objects" ELSE loc[x]]
  BY DEF Export
<1>3. /\ \A w \in Sets : w # n => base'[w] = base[w] /\ res'[w] = res[w]
      /\ base'[n] = host /\ res'[n] = r
  BY <1>1, <1>2 DEF Shape
<1>4. \A a \in applied : a \in Plans /\ a.ws \in Sets /\ a.ws <= sets /\ a.ws # n
  BY <1>1, PlanIs DEF Shape, IInv, Exported, Sets
<1>6. Shape'
  <2>2. base' \in [Sets -> Contents] /\ res' \in [Sets -> Contents] /\ bulk' \in [Sets -> SUBSET Items]
    BY <1>1, <1>2 DEF Shape
  <2>3. loc' \in [Objects -> {"none", "objects", "artifacts", "trash", "gone"}]
    BY <1>1, <1>2 DEF Shape, Objects
  <2>4. /\ sets' \in 0 .. MaxSets /\ ws' \in 0 .. sets' /\ rev' \in 0 .. MaxRev /\ rev' # 0
        /\ disp' \in [Items -> Dispositions]
    BY <1>1 DEF Sets, Unresolved, Dispositions
  <2> QED BY <1>1, <2>2, <2>3, <2>4 DEF Shape, process
<1>7. Exported'
  <2>1. ASSUME j # NoJournal PROVE j.plan.ws <= n
    BY <1>1, <2>1, JournalIs, PlanIs DEF IInv, Exported, Sets
  <2>2. ASSUME NEW p \in Cli PROVE mine[p].ws <= n
    BY <1>1, <2>2, MineIs DEF IInv, Exported, Sets
  <2>4. \A a \in applied : a.ws <= n
    BY <1>1, <1>4 DEF Sets
  <2> QED BY <1>1, <2>1, <2>2, <2>4 DEF IInv, Exported, process
<1>8. Approved'
  <2>1. DeletedOnlyAsApproved'
    BY <1>1, <1>2 DEF IInv, Approved, DeletedOnlyAsApproved
  <2> QED BY <1>1, <2>1 DEF IInv, Approved, Committed, process
<1>9. LastCommit'
  BY <1>1, <1>3 DEF IInv, LastCommit, Sets
<1> QED BY <1>6, <1>7, <1>8, <1>9 DEF IInv

-----------------------------------------------------------------------------
(* What holds for any number of processes and commands.                       *)

LEMMA InitIInv == ASSUME Init PROVE IInv
<1>1. NoJournal \in Journals /\ NoJournal.phase = "none"
  BY DEF Journals, NoJournal
<1>2. Shape
  <2>1. NoPlan \in Plans \cup {NoPlan} /\ "idle" \in Steps /\ 1 \in Items
    BY DEF Steps, Items
  <2>2. Unresolved \in [Items -> Dispositions]
    BY DEF Unresolved, Dispositions
  <2> QED BY <1>1, <2>1, <2>2 DEF Init, Shape, Contents, Objects, Discards
<1>3. Exported
  BY <1>1 DEF Init, Exported, Working, NoPlan, Sets
<1>4. Approved
  BY <1>1 DEF Init, Approved, Moving, DeletedOnlyAsApproved
<1>5. LastCommit
  BY DEF Init, LastCommit
<1> QED BY <1>2, <1>3, <1>4, <1>5 DEF IInv

LEMMA CommandStep ==
  ASSUME IInv, Export \/ Status \/ CleanupFinalizedPending \/ CleanupStops \/ Resolve \/ DiscardPending \/ EditHost
               \/ StartDiscard \/ DiscardProjectItem \/ DiscardStops
  PROVE  IInv'
BY ExportStep, StatusStep, CleanupStep, ResolveStep, DiscardPendingStep, EditStep, StartDiscardStep,
   DiscardStep, DiscardStopsStep

LEMMA ProcessStep ==
  ASSUME IInv, NEW p \in Cli, StartApply(p) \/ Work(p) \/ Confirm(p) \/ Fault(p) \/ Crash(p)
  PROVE  IInv'
<1>1. CASE Work(p)
  BY <1>1, LoadStep, ResumeStep, RemarkStep, DropStaleStep, PlanStep, ReloadStep, PrepareStep,
     ApplyStep, MarkStep, FailedStep, DropFailedStep, FinalizeStep, MoveStep, RecordStep,
     PurgeStep, FinishStep, RemovePendingStep, RemoveFinalizedStep DEF Work
<1> QED BY <1>1, StartStep, ConfirmStep, StopStep

LEMMA StepIInv == IInv /\ [Next]_vars => IInv'
<1> SUFFICES ASSUME IInv, [Next]_vars PROVE IInv'
  OBVIOUS
<1>1. CASE UNCHANGED vars
  <2>1. UNCHANGED <<host, onhost, cleaning, sets, ws, rev, disp, base, res, bulk, loc, item, receipt,
                    discarding, j, pc, mine, cur, applied, waived>>
    BY <1>1 DEF vars, pending, store, process, history
  <2>2. Shape'
    BY <2>1 DEF IInv, Shape, Contents, Discards
  <2>3. DeletedOnlyAsApproved'
    BY <2>1 DEF IInv, Approved, DeletedOnlyAsApproved
  <2> QED BY <2>1, <2>2, <2>3, Aside, SameCommit DEF process, IInv, Approved
<1>2. CASE Next
  BY <1>2, CommandStep, ProcessStep DEF Next
<1> QED BY <1>1, <1>2

LEMMA Inductive == Spec => []IInv
BY InitIInv, StepIInv, PTL DEF Spec

\* Whatever runs at the same time, Bulk data is deleted only where a plan
\* committed to the Project discards it, or by the explicit `retained discard`
\* (Finalize deletes for the plan of its journal, which was marked committed).
THEOREM OnlyAsApproved == Spec => []DeletedOnlyAsApproved
<1>1. IInv => DeletedOnlyAsApproved
  BY DEF IInv, Approved
<1> QED BY <1>1, Inductive, PTL

\* A Work Set whose result the Project still holds is not committed again,
\* whoever prepared its plan and however often: ApplyWorkSet demands the
\* baseline, and only an edit of the user or another commit moves the Project.
THEOREM AtMostOnce == Spec => AppliedOnce
<1> DEFINE Once == \A p \in Cli : Apply(p) /\ applied' # applied =>
                     mine[p].ws # onhost \/ res[mine[p].ws] = base[mine[p].ws]
<1>1. IInv /\ [Next]_vars => [Once]_vars
  <2> SUFFICES ASSUME IInv, NEW p \in Cli, Apply(p), applied' # applied, mine[p].ws = onhost
               PROVE  res[mine[p].ws] = base[mine[p].ws]
    OBVIOUS
  <2>1. host = base[mine[p].ws]
    BY DEF Apply
  <2>2. mine[p] \in Plans
    BY DEF IInv, Exported, Apply, Working, Steps
  <2>3. onhost # 0
    BY <2>2, PlanIs
  <2> QED BY <2>1, <2>3 DEF IInv, LastCommit
<1> QED BY <1>1, Inductive, PTL DEF Spec, AppliedOnce

-----------------------------------------------------------------------------
(* One process: the other commands.                                           *)

\* Between two commands the pending Work Set has no journal and is as it was
\* exported, and every listed item has its object.
LEMMA BetweenCommands ==
  ASSUME IInv', j' = NoJournal, cleaning' = NoCleanup, \A p \in Cli : pc'[p] = "idle",
         ws' = sets', (~Held(sets) /\ Fresh(sets))',
         (\A w \in Sets : w > sets => Fresh(w) /\ bulk[w] = {})', ItemsBacked'
  PROVE  Alone'
<1>1. j'.phase = "none"
  BY DEF NoJournal
<1>2. OwnJournal' /\ Latest' /\ Revised'
  BY <1>1 DEF OwnJournal, Finalized, Latest, Revised, Working, Loaded, Confirming
<1>3. \A p \in Cli : Knows(p)'
  BY DEF Knows, Moving, Confirming, Prepared
<1>4. Cleanup' /\ Untouched'
  BY DEF Cleanup, Untouched
<1>5. Retention'
  BY <1>1 DEF Retention, OnlyKept, UnderWay, AllSettled, Finalizing, Finalized
<1> QED BY <1>2, <1>3, <1>4, <1>5 DEF Alone

LEMMA AloneExport == ASSUME OneApply, Alone, Export PROVE Alone'
<1> DEFINE n == sets + 1
<1>1. IInv' /\ j' = NoJournal /\ cleaning' = NoCleanup /\ \A p \in Cli : pc'[p] = "idle"
  <2>1. Quiet
    BY DEF OneApply, Export, May
  <2> QED BY <2>1, CommandStep DEF Alone, Export, process, Quiet
<1>2. /\ sets' = n /\ ws' = n /\ sets \in Nat /\ n \in Sets
      /\ UNCHANGED <<item, receipt, discarding, onhost, applied, waived>>
  BY DEF Export, history, Alone, IInv, Shape, Sets
<1>3. PICK B \in SUBSET Items :
        /\ bulk' = [bulk EXCEPT ![n] = B]
        /\ loc' = [x \in Sets \X Items |->
                     IF x[1] = n /\ x[2] \in B THEN "objects" ELSE loc[x]]
  BY DEF Export
<1>4. /\ \A w \in Sets : w > sets => Fresh(w) /\ bulk[w] = {}
      /\ ItemsBacked
  BY DEF Alone, Untouched, Retention
<1>5. bulk \in [Sets -> SUBSET Items]
  BY DEF Alone, IInv, Shape
<1>6. Fresh(n) /\ bulk'[n] = B
  BY <1>2, <1>3, <1>4, <1>5
<1>7. ASSUME NEW b \in Items, b \in B PROVE loc'[<<n, b>>] = "objects"
  BY <1>2, <1>3, <1>7
<1>8. (~Held(sets) /\ Fresh(sets))'
  <2>1. onhost # n
    BY <1>2 DEF Alone, IInv, LastCommit, Sets
  <2>2. \A b \in Items : b \in bulk'[n] => loc'[<<n, b>>] = "objects"
    BY <1>6, <1>7
  <2> QED BY <1>2, <1>6, <2>1, <2>2 DEF Held, Fresh, Touching
<1>9. ASSUME NEW w \in Sets, w > n PROVE Fresh(w)' /\ bulk'[w] = {}
  <2>1. w > sets /\ w # n
    BY <1>2, <1>9 DEF Sets
  <2>2. bulk'[w] = {} /\ Fresh(w)
    BY <1>3, <1>4, <1>5, <2>1
  <2> QED BY <1>2, <2>2 DEF Fresh, Touching
<1>10. ASSUME NEW x \in Objects, item[x] PROVE loc'[x] = "objects" \/ x \in waived
  <2>1. loc'[x] = "objects" \/ loc'[x] = loc[x]
    BY <1>3 DEF Objects
  <2> QED BY <1>4, <1>10, <2>1 DEF ItemsBacked
<1> QED BY <1>1, <1>2, <1>8, <1>9, <1>10, BetweenCommands DEF ItemsBacked

\* A command that leaves the journal and the process alone: the pending Work
\* Set may go, its Resolution may change, a discard may start on a listed item.
LEMMA Besides ==
  ASSUME Alone, IInv', UNCHANGED <<sets, bulk, loc, item, receipt, applied, j, process>>,
         ws' = ws \/ ws' = 0, onhost' = onhost \/ onhost' = 0, waived \subseteq waived',
         Revised', Cleanup',
         \A y : Touching(y)' => Touching(y) \/ item[y]
  PROVE  Alone'
<1>1. UNCHANGED <<pc, mine, cur>>
  BY DEF process
<1>2. Latest' /\ OwnJournal'
  BY <1>1 DEF Alone, Latest, OwnJournal, Applied, Held, Finalized
<1>3. \A p \in Cli : Knows(p)'
  BY <1>1 DEF Alone, Knows, Journal, Held, Finalized
<1>4. \A w : Fresh(w) => Fresh(w)'
  BY DEF Fresh
<1>5. Untouched'
  <2>1. Open' => Open
    BY <1>1 DEF Open
  <2>2. PICK w : w = sets
    OBVIOUS
  <2>3. Open => Fresh(w)'
    BY <1>4, <2>2 DEF Alone, Untouched
  <2>4. Open' => Fresh(sets)'
    BY <2>1, <2>2, <2>3 DEF Fresh, Touching
  <2> QED BY <1>4, <2>4 DEF Alone, Untouched
<1>6. (ItemsBacked /\ UnderWay /\ AllSettled)'
  BY DEF Alone, Retention, ItemsBacked, UnderWay, AllSettled, OnTheWay, Settled, Recorded, Moved,
         Finalized
<1>7. OnlyKept'
  <2> SUFFICES ASSUME j # NoJournal, NEW b \in Items,
                      item[<<j.plan.ws, b>>] \/ Touching(<<j.plan.ws, b>>)'
               PROVE  j.plan.disp[b] = "keep_host"
    BY DEF OnlyKept, Touching
  <2>1. PICK y : y = <<j.plan.ws, b>>
    OBVIOUS
  <2>2. Touching(y)' => Touching(y) \/ item[y]
    OBVIOUS
  <2>3. item[<<j.plan.ws, b>>] \/ Touching(<<j.plan.ws, b>>)
    BY <2>1, <2>2 DEF Touching
  <2> QED BY <2>3 DEF Alone, Retention, OnlyKept
<1>8. \A p \in Cli : Finalizing(p)'
  BY <1>1 DEF Alone, Retention, Finalizing, Settled, Recorded, Moved, Object
<1> QED BY <1>2, <1>3, <1>5, <1>6, <1>7, <1>8 DEF Alone, Retention

LEMMA AloneCommand ==
  ASSUME Alone, Resolve \/ DiscardPending \/ EditHost \/ StartDiscard
  PROVE  Alone'
<1>1. /\ IInv' /\ UNCHANGED <<sets, bulk, loc, item, receipt, applied, j, process>>
      /\ ws' = ws \/ ws' = 0
      /\ onhost' = onhost \/ onhost' = 0
      /\ waived \subseteq waived'
      /\ UNCHANGED cleaning
  BY CommandStep
     DEF Alone, Resolve, DiscardPending, EditHost, StartDiscard, pending, store, history
<1>2. Revised'
  <2>1. CASE Resolve
    <3>1. Quiet \/ "resolve" \in Meanwhile
      BY <2>1 DEF Resolve, history, May
    <3> QED BY <1>1, <3>1 DEF Revised, Quiet, process, Loaded, Confirming
  <2>2. CASE DiscardPending
    BY <2>2 DEF Revised, DiscardPending
  <2>3. CASE UNCHANGED pending
    BY <1>1, <2>3 DEF Alone, Revised, pending, process
  <2> QED BY <2>1, <2>2, <2>3 DEF EditHost, StartDiscard
<1>3. \A y : Touching(y)' => Touching(y) \/ item[y]
  BY DEF Resolve, DiscardPending, EditHost, StartDiscard, store, Touching
<1>4. Cleanup'
  BY <1>1 DEF Alone, Cleanup, Journal, process
<1> QED BY <1>1, <1>2, <1>3, <1>4, Besides

\* Where a process is while a journal is finalized.
LEMMA AtRest == ASSUME Alone, Finalized, NEW p \in Cli PROVE pc[p] \in Resting
<1>1. pc[p] \in Steps /\ NoJournal.phase = "none"
  BY DEF Alone, IInv, Shape, NoJournal
<1> QED BY <1>1 DEF Alone, Knows, Finalized, Journal, Steps, Resting, Confirming, Prepared, Moving

\* The cleanup of a finalized journal: a process that is removing what is
\* pending finds it gone.
LEMMA AloneStatus == ASSUME Alone, Status \/ CleanupStops PROVE Alone'
<1>1. /\ IInv' /\ UNCHANGED <<onhost, pending, store, applied, waived, process, j>>
  BY CommandStep DEF Alone, Status, CleanupStops, history
<1>2. Cleanup'
  <2>1. CASE Status
    <3>1. cleaning'.plan = j.plan /\ cleaning'.step = "pending" /\ Finalized
      BY <2>1 DEF Status
    <3>2. \A p \in Cli : pc'[p] \in Resting
      BY <1>1, <3>1, AtRest DEF process
    <3> QED BY <1>1, <3>1, <3>2 DEF Cleanup, Journal, Finalized
  <2>2. CASE CleanupStops
    BY <2>2 DEF CleanupStops, Cleanup
  <2> QED BY <2>1, <2>2
<1>3. Revised'
  BY <1>1 DEF Alone, Revised, pending, process
<1> QED BY <1>1, <1>2, <1>3, Besides DEF pending, store, Touching

LEMMA AloneCleanup == ASSUME Alone, CleanupFinalizedPending PROVE Alone'
<1>1. /\ IInv' /\ UNCHANGED <<onhost, sets, rev, disp, bulk, store, applied, waived, process>>
      /\ cleaning.step \in {"pending", "journal"} /\ Shape
  BY CommandStep DEF Alone, CleanupFinalizedPending, history, IInv
<1>2. cleaning # NoCleanup /\ (\A p \in Cli : pc[p] \in Resting)
  BY <1>1, CleaningIs DEF Alone, Cleanup
<1>3. CASE cleaning.step = "pending"
  <2>1. ws' = 0 /\ cleaning' = [cleaning EXCEPT !.step = "journal"] /\ UNCHANGED j
    BY <1>3 DEF CleanupFinalizedPending
  <2>2. cleaning'.plan = cleaning.plan /\ cleaning'.step = "journal"
    BY <1>1, <2>1, CleaningIs
  <2>3. Cleanup' /\ Revised'
    BY <1>1, <1>2, <2>1, <2>2 DEF Alone, Cleanup, Revised, Journal, process
  <2> QED BY <1>1, <2>1, <2>3, Besides DEF store, Touching
<1>4. CASE cleaning.step = "journal"
  <2>1. ws = 0 /\ ws' = 0 /\ cleaning' = NoCleanup /\ Cleanup'
    BY <1>2, <1>4 DEF Alone, Cleanup, CleanupFinalizedPending
  <2>2. CASE UNCHANGED j
    <3>1. Revised'
      BY <2>1 DEF Revised
    <3> QED BY <1>1, <2>1, <2>2, <3>1, Besides DEF store, Touching
  <2>3. CASE j' = NoJournal
    <3>1. UNCHANGED <<pc, mine, cur>> /\ j'.phase = "none"
      BY <1>1, <2>3 DEF process, NoJournal
    <3>2. Latest' /\ Revised' /\ OwnJournal'
      BY <1>1, <2>1, <2>3, <3>1 DEF Alone, Latest, Revised, OwnJournal, Finalized
    <3>3. \A p \in Cli : Knows(p)'
      BY <1>2, <2>1, <2>3, <3>1 DEF Knows, Resting, Confirming, Prepared, Moving
    <3>4. Untouched'
      BY <1>1, <1>2, <2>1, <2>3, <3>1
         DEF Alone, Untouched, Open, Fresh, Touching, store, Resting, Loaded, Confirming, Prepared
    <3>5. Retention'
      BY <1>1, <1>2, <2>3, <3>1
         DEF Alone, Retention, ItemsBacked, OnlyKept, UnderWay, AllSettled, Finalizing, Finalized,
             Resting, store
    <3> QED BY <1>1, <2>1, <3>2, <3>3, <3>4, <3>5 DEF Alone
  <2> QED BY <1>4, <2>2, <2>3 DEF CleanupFinalizedPending
<1> QED BY <1>1, <1>3, <1>4

\* What is known of the object of a discard, at any step of an apply.
LEMMA DiscardedObject ==
  ASSUME Alone, discarding # NoDiscard
  PROVE  LET x == discarding.object IN
         /\ x \in Objects /\ x \in waived /\ x = <<x[1], x[2]>> /\ x[1] \in Sets /\ x[2] \in Items
         /\ x[1] <= sets
         /\ Open => x[1] # sets
         /\ j # NoJournal /\ x[1] = j.plan.ws => j.plan.disp[x[2]] = "keep_host"
<1> DEFINE x == discarding.object
<1>1. x \in Objects /\ x \in waived
  BY DiscardIs DEF Alone, IInv, Approved
<1>2. x = <<x[1], x[2]>> /\ x[1] \in Sets /\ x[2] \in Items
  BY <1>1 DEF Objects
<1>3. ASSUME NEW w, w = x[1] PROVE Touching(<<w, x[2]>>) /\ ~Fresh(w)
  BY <1>2, <1>3 DEF Touching, Fresh
<1>4. x[1] <= sets
  <2>1. PICK w \in Sets : w = x[1]
    BY <1>2
  <2>2. ~(w > sets)
    BY <1>3, <2>1 DEF Alone, Untouched
  <2>3. w \in Nat /\ sets \in Nat
    BY DEF Alone, IInv, Shape, Sets
  <2> QED BY <2>1, <2>2, <2>3
<1>5. Open => x[1] # sets
  BY <1>3 DEF Alone, Untouched
<1>6. j # NoJournal /\ x[1] = j.plan.ws => j.plan.disp[x[2]] = "keep_host"
  <2> SUFFICES ASSUME j # NoJournal, x[1] = j.plan.ws PROVE j.plan.disp[x[2]] = "keep_host"
    OBVIOUS
  <2>1. Touching(<<j.plan.ws, x[2]>>)
    BY <1>2 DEF Touching
  <2> QED BY <1>2, <2>1 DEF Alone, Retention, OnlyKept
<1> QED BY <1>1, <1>2, <1>4, <1>5, <1>6

\* Where the data of an object is kept only depends on what is known of it.
LEMMA Elsewhere ==
  ASSUME NEW x, NEW d, loc'[x] = loc[x], item'[x] = item[x], receipt'[x] = receipt[x],
         UNCHANGED waived
  PROVE  /\ OnTheWay(x, d)' <=> OnTheWay(x, d)
         /\ Moved(x, d)' <=> Moved(x, d)
         /\ Recorded(x, d)' <=> Recorded(x, d)
         /\ Settled(x, d)' <=> Settled(x, d)
BY DEF OnTheWay, Moved, Recorded, Settled

\* Nothing is asked of an object whose discard the user started.
LEMMA Waived ==
  ASSUME NEW x, NEW d, d = "keep_host", x \in waived, UNCHANGED waived
  PROVE  OnTheWay(x, d)' /\ Moved(x, d)' /\ Recorded(x, d)' /\ Settled(x, d)'
BY DEF OnTheWay, Moved, Recorded, Settled

\* A discard touches only its object, and lets an item only disappear.
LEMMA DiscardTouches ==
  ASSUME Alone, DiscardProjectItem \/ DiscardStops
  PROVE  /\ discarding # NoDiscard
         /\ \A y \in Objects : y # discarding.object =>
              loc'[y] = loc[y] /\ item'[y] = item[y]
         /\ \A y \in Objects : item'[y] => item[y]
         /\ discarding' # NoDiscard => discarding'.object = discarding.object
         /\ UNCHANGED <<host, onhost, cleaning, pending, receipt, j, process, applied, waived>>
<1>1. Shape
  BY DEF Alone, IInv
<1>2. CASE DiscardStops
  <2>1. DiscardGoto("none") /\ discarding # NoDiscard
    BY <1>2 DEF DiscardStops, history
  <2>2. discarding' = NoDiscard
    BY <2>1 DEF DiscardGoto
  <2> QED BY <1>2, <2>1, <2>2 DEF DiscardStops, history
<1>3. CASE DiscardProjectItem
  <2> DEFINE x == discarding.object
  <2>1. discarding # NoDiscard /\ x \in Objects
    BY <1>1, <1>3, Discarding, DiscardIs
  <2>2. discarding' # NoDiscard => discarding'.object = discarding.object
    BY <1>1, <1>3, <2>1, DiscardGoes DEF DiscardProjectItem
  <2>3. loc' = loc \/ \E to \in {"trash", "gone", loc[x]} : loc' = [loc EXCEPT ![x] = to]
    BY <1>3 DEF DiscardProjectItem
  <2>4. item' = item \/ item' = [item EXCEPT ![x] = FALSE]
    BY <1>3 DEF DiscardProjectItem
  <2>5. \A y \in Objects : y # x => loc'[y] = loc[y]
    BY <1>1, <2>1, <2>3 DEF Shape
  <2>6. \A y \in Objects : (y # x => item'[y] = item[y]) /\ (item'[y] => item[y])
    BY <1>1, <2>1, <2>4 DEF Shape
  <2>7. UNCHANGED <<host, onhost, cleaning, pending, receipt, j, process, applied, waived>>
    BY <1>3 DEF DiscardProjectItem, history
  <2> QED BY <2>1, <2>2, <2>5, <2>6, <2>7
<1> QED BY <1>2, <1>3

LEMMA AloneDiscard == ASSUME Alone, DiscardProjectItem \/ DiscardStops PROVE Alone'
<1>1. PICK x : x = discarding.object
  OBVIOUS
<1>2. /\ x \in Objects /\ x \in waived /\ x = <<x[1], x[2]>> /\ x[1] <= sets
      /\ x[1] \in Sets /\ x[2] \in Items
      /\ Open => x[1] # sets
      /\ j # NoJournal /\ x[1] = j.plan.ws => j.plan.disp[x[2]] = "keep_host"
  BY <1>1, DiscardedObject, DiscardTouches
<1>3. /\ \A y \in Objects : y # x => loc'[y] = loc[y] /\ item'[y] = item[y]
      /\ \A y \in Objects : item'[y] => item[y]
      /\ \A y : Touching(y)' => Touching(y)
      /\ UNCHANGED <<host, onhost, cleaning, sets, ws, rev, disp, base, res, bulk, receipt, j, pc, mine, cur,
                     applied, waived>>
  BY <1>1, DiscardTouches DEF Touching, pending, process
<1>4. IInv'
  BY CommandStep DEF Alone
<1>5. Latest' /\ Revised' /\ OwnJournal' /\ Cleanup'
  BY <1>3 DEF Alone, Latest, Revised, OwnJournal, Applied, Held, Finalized, Cleanup, Journal
<1>6. \A p \in Cli : Knows(p)'
  BY <1>3 DEF Alone, Knows, Held, Finalized, Journal
<1>7. \A w \in Sets : w # x[1] /\ Fresh(w) => Fresh(w)'
  BY <1>3 DEF Fresh, Objects
<1>8. Untouched'
  <2>1. \A w \in Sets : w > sets => w # x[1]
    BY <1>2 DEF Alone, IInv, Shape, Sets
  <2>2. Open => sets \in Sets
    <3>1. Open => sets # 0
      <4>1. j # NoJournal => sets # 0
        BY JournalIs, PlanIs DEF Alone, Latest, IInv
      <4>2. ASSUME NEW p \in Cli, pc[p] \in Loaded \cup Prepared
            PROVE  sets # 0
        <5>1. pc[p] \in Working
          BY <4>2 DEF Loaded, Confirming, Prepared, Working, Steps
        <5> QED BY <5>1, PlanIs DEF Alone, Latest, IInv, Exported
      <4>3. ws # 0 => sets # 0
        BY DEF Alone, Latest
      <4> QED BY <4>1, <4>2, <4>3 DEF Open
    <3> QED BY <3>1 DEF Alone, IInv, Shape, Sets
  <2>3. PICK v : v = sets
    OBVIOUS
  <2>4. Open => Fresh(v)'
    BY <1>2, <1>7, <2>2, <2>3 DEF Alone, Untouched
  <2>5. (Open => Fresh(sets))'
    BY <1>3, <2>3, <2>4 DEF Open, Fresh, Touching
  <2>6. \A w \in Sets : w > sets => Fresh(w)' /\ bulk'[w] = {}
    BY <1>3, <1>7, <2>1 DEF Alone, Untouched
  <2> QED BY <1>3, <2>5, <2>6 DEF Untouched
<1>9. ASSUME NEW plan, plan \in Plans, x[1] = plan.ws => plan.disp[x[2]] = "keep_host",
             NEW b \in Items
      PROVE  LET y == <<plan.ws, b>> d == plan.disp[b] IN
             /\ OnTheWay(y, d) => OnTheWay(y, d)'
             /\ Moved(y, d) => Moved(y, d)'
             /\ Recorded(y, d) => Recorded(y, d)'
             /\ Settled(y, d) => Settled(y, d)'
  <2>1. CASE <<plan.ws, b>> = x
    <3>1. plan.disp[b] = "keep_host" /\ <<plan.ws, b>> \in waived
      BY <1>2, <1>9, <2>1
    <3> QED BY <1>3, <3>1, Waived
  <2>2. CASE <<plan.ws, b>> # x
    <3>1. <<plan.ws, b>> \in Objects
      BY <1>9, PlanIs DEF Objects
    <3> QED BY <1>3, <2>2, <3>1, Elsewhere
  <2> QED BY <2>1, <2>2
<1>10. bulk \in [Sets -> SUBSET Items]
  BY DEF Alone, IInv, Shape
<1>11. UnderWay' /\ AllSettled'
  <2> SUFFICES ASSUME j.phase = "project_committed" \/ Finalized PROVE UnderWay' /\ AllSettled'
    BY <1>3 DEF UnderWay, AllSettled, Finalized
  <2>1. PICK plan : plan = j.plan
    OBVIOUS
  <2>2. j # NoJournal /\ plan \in Plans /\ plan.ws \in Sets
    BY <2>1, JournalIs, PlanIs DEF Alone, IInv, Finalized
  <2>3. j.phase = "project_committed" =>
          \A b \in bulk[plan.ws] : OnTheWay(<<plan.ws, b>>, plan.disp[b])'
    BY <1>2, <1>9, <1>10, <2>1, <2>2 DEF Alone, Retention, UnderWay
  <2>4. Finalized => \A b \in bulk[plan.ws] : Settled(<<plan.ws, b>>, plan.disp[b])'
    BY <1>2, <1>9, <1>10, <2>1, <2>2 DEF Alone, Retention, AllSettled
  <2> QED BY <1>3, <2>1, <2>3, <2>4
          DEF UnderWay, AllSettled, OnTheWay, Settled, Recorded, Moved, Finalized
<1>12. ASSUME NEW p \in Cli PROVE Finalizing(p)'
  <2> SUFFICES ASSUME pc[p] \in {"move", "record", "purge", "finish"} PROVE Finalizing(p)'
    BY <1>3 DEF Finalizing
  <2>1. PICK plan, c : plan = mine[p] /\ c = cur[p]
    OBVIOUS
  <2>2. j # NoJournal /\ j.plan = plan /\ plan \in Plans /\ plan.ws \in Sets /\ c \in Items
    BY <2>1, AtWork, JournalIs DEF Alone, Knows, Journal, Moving, IInv
  <2>3. pc[p] \in {"move", "record", "purge"} =>
          \A b \in bulk[plan.ws] : b < c => Settled(<<plan.ws, b>>, plan.disp[b])'
    BY <1>2, <1>9, <1>10, <2>1, <2>2 DEF Alone, Retention, Finalizing
  <2>4. pc[p] = "finish" => \A b \in bulk[plan.ws] : Settled(<<plan.ws, b>>, plan.disp[b])'
    BY <1>2, <1>9, <1>10, <2>1, <2>2 DEF Alone, Retention, Finalizing
  <2>5. /\ pc[p] \in {"record", "purge"} => c \in bulk[plan.ws]
        /\ pc[p] = "record" => Moved(<<plan.ws, c>>, plan.disp[c])'
        /\ pc[p] = "purge" => Recorded(<<plan.ws, c>>, plan.disp[c])'
    BY <1>2, <1>9, <1>10, <2>1, <2>2 DEF Alone, Retention, Finalizing, Object
  <2> QED BY <1>3, <2>1, <2>3, <2>4, <2>5 DEF Finalizing, Settled, Recorded, Moved, Object
<1>13. ItemsBacked'
  BY <1>2, <1>3 DEF Alone, Retention, ItemsBacked
<1>14. OnlyKept'
  <2> SUFFICES ASSUME j # NoJournal, NEW b \in Items,
                      item'[<<j.plan.ws, b>>] \/ Touching(<<j.plan.ws, b>>)'
               PROVE  j.plan.disp[b] = "keep_host"
    BY <1>3 DEF OnlyKept, Touching
  <2>1. <<j.plan.ws, b>> \in Objects
    BY JournalIs, PlanIs DEF Alone, IInv, Objects
  <2>2. item[<<j.plan.ws, b>>] \/ Touching(<<j.plan.ws, b>>)
    BY <1>3, <2>1 DEF Touching
  <2> QED BY <2>2 DEF Alone, Retention, OnlyKept
<1> QED BY <1>4, <1>5, <1>6, <1>8, <1>11, <1>12, <1>13, <1>14 DEF Alone, Retention

-----------------------------------------------------------------------------
(* The steps of the process up to the retention phase.                        *)

\* No data moves: what is left to show is about the journal and the process.
LEMMA Settles ==
  ASSUME OneApply, Alone, NEW p \in Cli, IInv', UNCHANGED <<sets, bulk, store, waived>>,
         pc'[p] \notin {"record", "purge", "finish"}, pc'[p] = "move" => cur'[p] = 1,
         Latest', Revised', OwnJournal', Knows(p)', Cleanup', Untouched', OnlyKept', UnderWay',
         AllSettled'
  PROVE  Alone'
<1>1. \A q \in Cli : q = p
  BY DEF OneApply
<1>2. ItemsBacked'
  BY DEF Alone, Retention, ItemsBacked, store
<1>3. Finalizing(p)'
  <2>1. \A b \in Items : ~(b < 1)
    BY DEF Items
  <2>2. ASSUME pc'[p] = "move" PROVE \A b \in bulk'[mine'[p].ws] : ~(b < cur'[p])
    <3>1. "move" \in Working
      BY DEF Working, Steps
    <3>2. mine'[p] \in Plans
      BY <2>2, <3>1 DEF IInv, Exported
    <3>3. bulk'[mine'[p].ws] \subseteq Items
      BY <3>2, PlanIs DEF IInv, Shape
    <3> QED BY <2>1, <2>2, <3>3
  <2> QED BY <2>2 DEF Finalizing
<1> QED BY <1>1, <1>2, <1>3 DEF Alone, Retention

LEMMA NotCleaning ==
  ASSUME Alone, NEW p \in Cli, pc[p] \notin Resting, UNCHANGED cleaning PROVE Cleanup'
BY DEF Alone, Cleanup

LEMMA SameData ==
  ASSUME UNCHANGED <<sets, bulk, store>>
  PROVE  /\ \A w : Fresh(w)' <=> Fresh(w)
         /\ \A x : Touching(x)' <=> Touching(x)
BY DEF Fresh, Touching, store

\* The plan of the process is about the pending Work Set and its Resolution.
Carries(p) ==
  /\ pc'[p] \in Working => mine'[p].ws = sets
  /\ "resolve" \notin Meanwhile /\ ws # 0 /\ pc'[p] \in Loaded => mine'[p].rev = rev
  /\ pc'[p] \in Loaded \cup Prepared => ws # 0 \/ j # NoJournal \/ pc[p] \in Loaded \cup Prepared
  /\ pc'[p] \in Resting \/ pc[p] \notin Resting \/ (~Finalized /\ ws # 0)

\* The journal stays, or goes: with what is pending, or without a commit.
LEMMA Onward ==
  ASSUME OneApply, Alone, NEW p \in Cli, IInv',
         UNCHANGED <<sets, rev, bulk, store, waived, cleaning>>,
         pc'[p] \notin {"record", "purge", "finish"}, pc'[p] = "move" => cur'[p] = 1,
         ws' = ws \/ ws' = 0, j' = j \/ j' = NoJournal,
         j' # j => j.phase = "prepared" \/ (ws' = 0 /\ pc'[p] = "idle"),
         Carries(p), OwnJournal', Knows(p)'
  PROVE  Alone'
<1>1. \A q \in Cli : q = p
  BY DEF OneApply
<1>2. Latest' /\ Revised'
  BY <1>1 DEF Alone, Latest, Revised, Carries
<1>3. Untouched'
  <2>1. \A v \in Sets : v > sets => Fresh(v)' /\ bulk'[v] = {}
    BY SameData DEF Alone, Untouched
  <2>2. Open' => Open
    BY <1>1 DEF Open, Carries, NoJournal, Loaded, Confirming, Prepared
  <2>3. PICK w : w = sets
    OBVIOUS
  <2>4. Open => Fresh(w)'
    BY <2>3, SameData DEF Alone, Untouched
  <2> QED BY <2>1, <2>2, <2>3, <2>4 DEF Untouched, Fresh, Touching
<1>4. OnlyKept'
  BY DEF Alone, Retention, OnlyKept, Touching, store
<1>5. UnderWay' /\ AllSettled'
  <2>1. CASE j' = j
    BY <2>1 DEF Alone, Retention, UnderWay, AllSettled, OnTheWay, Settled, Recorded, Moved, store,
                Finalized
  <2>2. CASE j' = NoJournal
    BY <2>2 DEF UnderWay, AllSettled, Finalized, NoJournal
  <2> QED BY <2>1, <2>2
<1>6. Cleanup'
  <2> SUFFICES ASSUME cleaning # NoCleanup PROVE Cleanup'
    BY DEF Cleanup
  <2>1. /\ Journal("retention_finalized", cleaning.plan) \/ (j = NoJournal /\ ws = 0)
        /\ cleaning.step = "journal" => ws = 0
        /\ pc[p] \in Resting
    BY DEF Alone, Cleanup
  <2>2. \A q \in Cli : pc'[q] \in Resting
    BY <1>1, <2>1 DEF Carries, Finalized, Journal
  <2>3. Journal("retention_finalized", cleaning.plan)' \/ (j' = NoJournal /\ ws' = 0)
    BY <2>1 DEF Journal, NoJournal
  <2> QED BY <2>1, <2>2, <2>3 DEF Cleanup
<1> QED BY <1>2, <1>3, <1>4, <1>5, <1>6, Settles

LEMMA PcIs ==
  ASSUME Alone, NEW p \in Cli, NEW s, Goto(p, s)
  PROVE  pc'[p] = s
BY DEF Goto, Alone, IInv, Shape

\* A step of the process that changes neither the journal nor what is pending
\* nor the history.
LEMMA Keep ==
  ASSUME OneApply, Alone, NEW p \in Cli, IInv',
         UNCHANGED <<pending, store, onhost, cleaning, waived, j, applied>>,
         pc'[p] \notin {"record", "purge", "finish"}, pc'[p] = "move" => cur'[p] = 1,
         Carries(p), Knows(p)'
  PROVE  Alone'
<1>1. UNCHANGED <<sets, ws, rev, disp, bulk, store, onhost, cleaning, waived, j, applied>>
  BY DEF pending
<1>2. OwnJournal'
  BY <1>1 DEF Alone, OwnJournal, Applied, Held, Finalized
<1> QED BY <1>1, <1>2, Onward

LEMMA Idle ==
  ASSUME NEW p \in Cli, pc'[p] \in {"idle", "load"}
  PROVE  Knows(p)' /\ Carries(p)
BY DEF Knows, Carries, Moving, Working, Loaded, Confirming, Prepared, Resting

\* The process goes on with the plan it has.
LEMMA Carried ==
  ASSUME Alone, NEW p \in Cli, pc[p] \in Working,
         mine'[p].ws = mine[p].ws, mine'[p].rev = mine[p].rev,
         pc'[p] \in Loaded => pc[p] \in Loaded,
         pc'[p] \in Prepared => j # NoJournal \/ pc[p] \in Loaded \cup Prepared,
         pc'[p] \in Resting \/ pc[p] \notin Resting
  PROVE  Carries(p)
BY DEF Alone, Latest, Revised, Carries

LEMMA AloneStart == ASSUME OneApply, Alone, NEW p \in Cli, StartApply(p) PROVE Alone'
<1>1. IInv' /\ pc'[p] = "load" /\ UNCHANGED <<pending, store, onhost, cleaning, waived, j, applied>>
  BY ProcessStep, PcIs DEF StartApply, history, Alone
<1> QED BY <1>1, Idle, Keep

LEMMA AloneStop == ASSUME OneApply, Alone, NEW p \in Cli, Fault(p) \/ Crash(p) PROVE Alone'
<1>1. /\ IInv' /\ UNCHANGED <<pending, store, onhost, cleaning, waived, j, applied, mine>>
      /\ pc'[p] = "idle" \/ (pc'[p] = "failed" /\ pc[p] \in {"apply", "mark"})
  BY ProcessStep, PcIs DEF Fault, history, Crash, Alone
<1>2. CASE pc'[p] = "idle"
  BY <1>1, <1>2, Idle, Keep
<1>3. CASE pc'[p] = "failed" /\ pc[p] \in {"apply", "mark"}
  <2>1. Knows(p)'
    BY <1>1, <1>3 DEF Alone, Knows, Journal, Moving, Confirming, Prepared
  <2>2. Carries(p)
    BY <1>1, <1>3, Carried DEF Resting, Working, Steps, Loaded, Confirming, Prepared
  <2> QED BY <1>1, <1>3, <2>1, <2>2, Keep
<1> QED BY <1>1, <1>2, <1>3

LEMMA AloneConfirm == ASSUME OneApply, Alone, NEW p \in Cli, Confirm(p) PROVE Alone'
<1>1. /\ IInv' /\ UNCHANGED <<pending, store, onhost, cleaning, waived, j, applied, mine>>
      /\ pc[p] = "confirm" /\ (pc'[p] = "idle" \/ pc'[p] = "reload")
  BY ProcessStep, PcIs DEF Confirm, history, Fails, Alone
<1>2. Knows(p)'
  BY <1>1 DEF Alone, Knows, Moving, Confirming, Prepared
<1>3. Carries(p)
  BY <1>1, Carried, Idle DEF Resting, Working, Steps, Loaded, Confirming, Prepared
<1> QED BY <1>1, <1>2, <1>3, Keep

LEMMA AloneLoad == ASSUME OneApply, Alone, NEW p \in Cli, Load(p) PROVE Alone'
<1>1. /\ IInv' /\ Shape
      /\ UNCHANGED <<pending, store, onhost, cleaning, waived, j, applied>>
  BY ProcessStep DEF Load, history, Work, Alone, IInv
<1>2. CASE Finalized /\ mine' = [mine EXCEPT ![p] = j.plan] /\ Goto(p, "rmpending")
  <2>1. pc'[p] = "rmpending" /\ mine'[p] = j.plan /\ j # NoJournal
    BY <1>1, <1>2, PcIs, JournalIs DEF Shape, Finalized
  <2>2. Knows(p)'
    BY <1>1, <1>2, <2>1 DEF Knows, Moving, Journal, Finalized, Confirming, Prepared
  <2>3. Carries(p)
    BY <2>1 DEF Alone, Latest, Carries, Loaded, Confirming, Prepared, Resting
  <2> QED BY <1>1, <2>1, <2>2, <2>3, Keep
<1>3. CASE Fails(p)
  <2>1. pc'[p] = "idle"
    BY <1>3, PcIs DEF Fails
  <2> QED BY <1>1, <1>3, <2>1, Idle, Keep
<1>4. CASE /\ ~Finalized /\ ws # 0 /\ Goto(p, "resume")
           /\ mine' = [mine EXCEPT ![p] = [ws |-> ws, rev |-> rev, disp |-> disp, owner |-> p]]
  <2> DEFINE m == [ws |-> ws, rev |-> rev, disp |-> disp, owner |-> p]
  <2>1. pc'[p] = "resume" /\ mine'[p] = m
    BY <1>1, <1>4, PcIs DEF Shape
  <2>2. m.ws = ws /\ m.rev = rev /\ ws = sets
    BY <1>4 DEF Alone, Latest
  <2> HIDE DEF m
  <2>3. Knows(p)'
    BY <1>1, <1>4, <2>1 DEF Knows, Moving, Finalized, Confirming, Prepared
  <2>4. Carries(p)
    BY <1>4, <2>1, <2>2 DEF Carries
  <2> QED BY <1>1, <1>4, <2>1, <2>3, <2>4, Keep
<1> QED BY <1>2, <1>3, <1>4 DEF Load

\* A Project that is not at the result of a Work Set does not hold it.
LEMMA NotHeld ==
  ASSUME IInv, NEW w \in Sets, host # res[w]
  PROVE  ~Held(w)
BY DEF IInv, LastCommit, Held

LEMMA AloneResume == ASSUME OneApply, Alone, NEW p \in Cli, Resume(p) PROVE Alone'
<1>1. /\ IInv' /\ IInv /\ Shape /\ pc[p] = "resume" /\ pc[p] \in Working \cap Loaded
      /\ UNCHANGED <<pending, store, onhost, cleaning, waived, j, applied>>
  BY ProcessStep DEF Resume, history, Work, Alone, IInv, Working, Steps, Loaded
<1>2. ~Finalized
  BY <1>1 DEF Alone, Knows
<1>3. CASE Goto(p, "plan") /\ UNCHANGED mine /\ j = NoJournal
  <2>1. pc'[p] = "plan"
    BY <1>3, PcIs
  <2>2. Knows(p)'
    BY <1>1, <1>3, <2>1 DEF Knows, Moving, Prepared
  <2>3. Carries(p)
    BY <1>1, <1>3, <2>1, Carried DEF Resting, Prepared
  <2> QED BY <1>1, <1>3, <2>1, <2>2, <2>3, Keep
<1>4. CASE Fails(p)
  <2>1. pc'[p] = "idle"
    BY <1>4, PcIs DEF Fails
  <2> QED BY <1>1, <2>1, Idle, Keep
<1>5. CASE /\ j # NoJournal /\ SameResolution(j.plan, mine[p])
           /\ mine' = [mine EXCEPT ![p] = j.plan]
           /\ \/ j.phase = "prepared" /\ Goto(p, "remark")
              \/ j.phase = "project_committed" /\ Goto(p, "finalize")
              \/ /\ host # res[mine[p].ws] /\ host = base[mine[p].ws]
                 /\ j.phase = "prepared" /\ Goto(p, "dropstale")
  <2>1. /\ mine'[p] = j.plan /\ j.plan \in Plans /\ j.plan.ws \in Sets /\ j.plan.ws = sets
        /\ j.plan.ws = mine[p].ws /\ j.plan.rev = mine[p].rev
    BY <1>1, <1>5, JournalIs, PlanIs DEF Shape, SameResolution, Alone, Latest
  <2>2. /\ \/ pc'[p] \in {"remark", "dropstale"} /\ j.phase = "prepared"
           \/ pc'[p] = "finalize" /\ j.phase = "project_committed"
        /\ pc'[p] = "dropstale" => ~Held(sets)
    BY <1>1, <1>5, <2>1, PcIs, NotHeld
  <2>3. Knows(p)'
    BY <1>1, <2>1, <2>2 DEF Knows, Moving, Journal, Held, Confirming, Prepared, pending
  <2>4. Carries(p)
    BY <1>1, <2>1, <2>2, Carried DEF Resting, Loaded, Confirming
  <2> QED BY <1>1, <2>2, <2>3, <2>4, Keep
<1> QED BY <1>2, <1>3, <1>4, <1>5 DEF Resume

\* The Project is not committed, the prepared journal goes.
LEMMA AloneRemove ==
  ASSUME OneApply, Alone, NEW p \in Cli, NEW next \in {"plan", "idle"}, RemovePrepared(p, next),
         pc[p] = IF next = "plan" THEN "dropstale" ELSE "dropfailed", IInv',
         UNCHANGED <<mine, pending, store, onhost, cleaning, waived, applied>>
  PROVE  Alone'
<1>1. /\ Journal("prepared", mine[p]) /\ ~Held(sets) /\ j # NoJournal
      /\ pc[p] \in Working
  BY JournalIs DEF Alone, Knows, Journal, IInv, Prepared, Working, Steps
<1>2. j' = NoJournal /\ pc'[p] = next
  BY <1>1, PcIs DEF RemovePrepared, Expected, Journal
<1>3. OwnJournal'
  BY <1>1, <1>2 DEF OwnJournal, Held, Finalized, NoJournal, pending
<1>4. Knows(p)'
  BY <1>2 DEF Knows, Moving, Finalized, Prepared
<1>5. Carries(p)
  BY <1>1 DEF Alone, Latest, Revised, Carries, Journal, Resting
<1>6. UNCHANGED <<sets, ws, rev, bulk>> /\ j.phase = "prepared"
  BY <1>1 DEF pending, Journal
<1> QED BY <1>2, <1>3, <1>4, <1>5, <1>6, Onward

LEMMA AloneDrop ==
  ASSUME OneApply, Alone, NEW p \in Cli, DropStale(p) \/ DropFailed(p) PROVE Alone'
BY AloneRemove, ProcessStep DEF DropStale, DropFailed, history, Work, Alone

LEMMA AlonePlan == ASSUME OneApply, Alone, NEW p \in Cli, Plan(p) PROVE Alone'
<1> DEFINE m == [mine[p] EXCEPT !.owner = p]
<1>1. /\ IInv' /\ IInv /\ Shape /\ pc[p] = "plan" /\ pc[p] \in Working
      /\ UNCHANGED <<pending, store, onhost, cleaning, waived, j, applied>>
  BY ProcessStep DEF Plan, history, Work, Alone, IInv, Working, Steps
<1>2. mine' = [mine EXCEPT ![p] = m] /\ m.ws = mine[p].ws /\ m.rev = mine[p].rev
  BY <1>1, Owned
<1> HIDE DEF m
<1>3. mine'[p] = m
  BY <1>1, <1>2 DEF Shape
<1>4. pc'[p] \in {"confirm", "idle"}
  BY PcIs DEF Plan, Fails
<1>5. Knows(p)'
  BY <1>1, <1>4 DEF Alone, Knows, Moving, Confirming, Prepared
<1>6. Carries(p)
  BY <1>1, <1>2, <1>3, <1>4, Carried DEF Resting, Loaded, Confirming, Prepared
<1> QED BY <1>1, <1>4, <1>5, <1>6, Keep

LEMMA AloneReload == ASSUME OneApply, Alone, NEW p \in Cli, Reload(p) PROVE Alone'
<1>1. IInv' /\ pc[p] = "reload" /\ ~Finalized
  BY ProcessStep DEF Reload, Work, Alone, Knows, Confirming, Finalized, NoJournal
<1>2. /\ UNCHANGED <<pending, store, onhost, cleaning, waived, j, applied, mine>>
      /\ pc'[p] \in {"prepare", "idle"}
  BY <1>1, PcIs DEF Reload, history, Fails
<1>3. Knows(p)'
  BY <1>1, <1>2 DEF Alone, Knows, Moving, Confirming, Prepared
<1>4. Carries(p)
  BY <1>1, <1>2, Carried DEF Working, Steps, Loaded, Confirming, Prepared, Resting
<1> QED BY <1>1, <1>2, <1>3, <1>4, Keep

\* The Work Set is as it was exported when the process gets to its plan.
LEMMA StillFresh ==
  ASSUME Alone, NEW p \in Cli, pc[p] \in Confirming \cup Prepared
  PROVE  mine[p] \in Plans /\ mine[p].ws = sets /\ Fresh(sets)
<1>1. pc[p] \in Working
  BY DEF Working, Steps, Confirming, Prepared
<1>2. j.phase \in {"none", "prepared"}
  BY DEF Alone, Knows, Journal, NoJournal
<1> QED BY <1>1, <1>2 DEF Alone, IInv, Exported, Latest, Untouched, Open, Loaded

LEMMA AlonePrepare == ASSUME OneApply, Alone, NEW p \in Cli, Prepare(p) PROVE Alone'
<1>1. /\ IInv' /\ pc[p] = "prepare" /\ pc'[p] = "apply"
      /\ pc[p] \in Confirming \cap Loaded \cap Working
      /\ UNCHANGED <<mine, pending, store, cleaning, waived, applied>>
      /\ j' = [phase |-> "prepared", plan |-> mine[p]]
  BY ProcessStep, PcIs DEF Prepare, history, Work, Alone, Loaded, Confirming, Working, Steps
<1>2. mine[p] \in Plans /\ mine[p].ws = sets /\ Fresh(sets)
  BY <1>1, StillFresh
<1>3. j'.phase = "prepared" /\ j'.plan = mine[p] /\ j' # NoJournal
  BY <1>1, <1>2, NewJournal DEF Phases
<1>4. OwnJournal' /\ Knows(p)'
  BY <1>1, <1>3 DEF OwnJournal, Knows, Finalized, Moving, Journal, Confirming
<1>5. Latest' /\ Revised'
  BY <1>1, <1>2, <1>3 DEF Alone, OneApply, Latest, Revised, pending, Loaded, Confirming
<1>6. Untouched'
  BY <1>1, <1>2 DEF Alone, Untouched, Fresh, Touching, store, pending
<1>7. OnlyKept' /\ UnderWay' /\ AllSettled'
  BY <1>1, <1>2, <1>3 DEF OnlyKept, UnderWay, AllSettled, Fresh, Touching, store, Finalized
<1>8. Cleanup'
  BY <1>1, NotCleaning DEF Resting
<1> QED BY <1>1, <1>4, <1>5, <1>6, <1>7, <1>8, Settles DEF pending

LEMMA AloneApply == ASSUME OneApply, Alone, NEW p \in Cli, Apply(p) PROVE Alone'
<1>1. /\ IInv' /\ pc[p] = "apply" /\ UNCHANGED <<mine, pending, store, cleaning, waived, j>>
      /\ pc'[p] \in {"mark", "failed"} /\ pc[p] \in Working
  BY ProcessStep, PcIs DEF Apply, Work, Alone, Working, Steps
<1>2. Journal("prepared", mine[p]) /\ j # NoJournal
  BY <1>1, JournalIs DEF Alone, Knows, Journal, IInv, Prepared
<1>3. OwnJournal'
  BY <1>1, <1>2 DEF OwnJournal, Finalized, Journal
<1>4. Knows(p)'
  BY <1>1, <1>2 DEF Knows, Moving, Journal, Confirming
<1>5. Carries(p)
  BY <1>1, <1>2, Carried DEF Resting, Loaded, Confirming
<1> QED BY <1>1, <1>3, <1>4, <1>5, Onward DEF pending

\* The commit is recorded: the data of the Work Set is on its way from here.
LEMMA AloneMarks ==
  ASSUME OneApply, Alone, NEW p \in Cli, NEW other, MarkProjectCommitted(p, "finalize", other),
         pc[p] \in {"remark", "mark"}, IInv', applied \subseteq applied',
         UNCHANGED <<mine, pending, store, cleaning, waived>>
  PROVE  Alone'
<1>1. /\ Journal("prepared", mine[p]) /\ j # NoJournal /\ j = [phase |-> j.phase, plan |-> j.plan]
      /\ mine[p] \in Plans /\ mine[p].ws = sets /\ Fresh(sets)
  BY JournalIs, StillFresh DEF Alone, Knows, Journal, IInv, Prepared
<1>2. j' = [j EXCEPT !.phase = "project_committed"] /\ pc'[p] = "finalize"
  BY <1>1, PcIs DEF MarkProjectCommitted, Expected, Journal
<1>3. j' = [phase |-> "project_committed", plan |-> mine[p]]
  BY <1>1, <1>2 DEF Journal
<1>4. j'.phase = "project_committed" /\ j'.plan = mine[p] /\ j' # NoJournal
  BY <1>1, <1>3, NewJournal DEF Phases
<1>5. OwnJournal' /\ Knows(p)'
  BY <1>2, <1>4 DEF OwnJournal, Knows, Finalized, Moving, Journal, Confirming, Prepared
<1>6. Latest' /\ Revised'
  BY <1>1, <1>2, <1>4
     DEF Alone, OneApply, Latest, Revised, pending, Loaded, Confirming, Journal
<1>7. Untouched'
  BY <1>4 DEF Alone, Untouched, Open, Fresh, Touching, store, pending
<1>8. OnlyKept' /\ AllSettled'
  BY <1>1, <1>4 DEF OnlyKept, AllSettled, Fresh, Touching, store, Finalized
<1>9. UnderWay'
  <2> SUFFICES ASSUME NEW b \in bulk[mine[p].ws]
               PROVE  OnTheWay(<<mine[p].ws, b>>, mine[p].disp[b])'
    BY <1>4 DEF UnderWay, OnTheWay, pending
  <2>1. b \in Items
    BY <1>1, PlanIs DEF Alone, IInv, Shape
  <2>2. loc[<<mine[p].ws, b>>] = "objects" /\ ~receipt[<<mine[p].ws, b>>]
    BY <1>1, <2>1 DEF Fresh
  <2> QED BY <2>2 DEF OnTheWay, store
<1>10. Cleanup'
  BY NotCleaning DEF Resting
<1> QED BY <1>2, <1>5, <1>6, <1>7, <1>8, <1>9, <1>10, Settles DEF pending

LEMMA AloneMark ==
  ASSUME OneApply, Alone, NEW p \in Cli, Mark(p) \/ Remark(p) PROVE Alone'
BY AloneMarks, ProcessStep DEF Mark, Remark, history, Work, Alone

LEMMA AloneFailed == ASSUME OneApply, Alone, NEW p \in Cli, Failed(p) PROVE Alone'
<1>1. /\ IInv' /\ IInv /\ Shape /\ pc[p] = "failed" /\ pc[p] \in Working
      /\ UNCHANGED <<pending, store, onhost, cleaning, waived, j, applied>>
  BY ProcessStep DEF Failed, history, Work, Alone, IInv, Working, Steps
<1>2. CASE Fails(p)
  BY <1>1, <1>2, PcIs, Idle, Keep DEF Fails
<1>3. CASE /\ host # res[mine[p].ws] /\ host = base[mine[p].ws]
           /\ mine' = [mine EXCEPT ![p] = j.plan] /\ Goto(p, "dropfailed")
  <2>1. /\ Journal("prepared", mine[p]) /\ mine[p].ws \in Sets /\ mine[p].ws = sets
        /\ j # NoJournal
    BY <1>1, JournalIs, PlanIs DEF Alone, Knows, Journal, Latest, Prepared
  <2>2. ~Held(sets)
    BY <1>1, <1>3, <2>1, NotHeld
  <2>3. pc'[p] = "dropfailed" /\ mine'[p] = mine[p]
    BY <1>1, <1>3, <2>1, PcIs DEF Shape, Journal
  <2>4. Knows(p)'
    BY <1>1, <2>1, <2>2, <2>3 DEF Knows, Moving, Journal, Held, Confirming, pending
  <2>5. Carries(p)
    BY <1>1, <2>1, <2>3, Carried DEF Resting, Loaded, Confirming
  <2> QED BY <1>1, <2>3, <2>4, <2>5, Keep
<1> QED BY <1>2, <1>3 DEF Failed

LEMMA AloneFinalize == ASSUME OneApply, Alone, NEW p \in Cli, Finalize(p) PROVE Alone'
<1>1. /\ IInv' /\ Shape /\ pc[p] = "finalize" /\ pc[p] \in Working
      /\ UNCHANGED <<mine, pending, store, onhost, cleaning, waived, j, applied>>
  BY ProcessStep DEF Finalize, history, Work, Alone, IInv, Working, Steps
<1>2. Journal("project_committed", mine[p]) /\ ~Finalized
  BY <1>1 DEF Alone, Knows, Journal, Finalized
<1>3. CASE Fails(p)
  BY <1>1, <1>3, PcIs, Idle, Keep DEF Fails
<1>4. CASE Goto(p, "move") /\ cur' = [cur EXCEPT ![p] = 1]
  <2>1. pc'[p] = "move" /\ cur'[p] = 1
    BY <1>1, <1>4, PcIs DEF Shape
  <2>2. Knows(p)'
    BY <1>1, <1>2, <2>1 DEF Knows, Moving, Journal, Confirming, Prepared
  <2>3. Carries(p)
    BY <1>1, <2>1, Carried DEF Resting, Loaded, Confirming, Prepared
  <2> QED BY <1>1, <2>1, <2>2, <2>3, Keep
<1> QED BY <1>2, <1>3, <1>4 DEF Finalize

LEMMA AloneRemovePending ==
  ASSUME OneApply, Alone, NEW p \in Cli, RemovePending(p) PROVE Alone'
<1>1. /\ IInv' /\ pc[p] = "rmpending" /\ pc'[p] = "rmjournal" /\ ws' = 0 /\ pc[p] \in Working
      /\ UNCHANGED <<mine, sets, rev, disp, bulk, store, onhost, cleaning, waived, j, applied>>
  BY ProcessStep, PcIs DEF RemovePending, history, Work, Alone, Working, Steps
<1>2. Journal("retention_finalized", mine[p]) \/ j = NoJournal
  BY <1>1 DEF Alone, Knows
<1>3. OwnJournal' /\ Knows(p)'
  BY <1>1, <1>2
     DEF Alone, OwnJournal, Knows, Finalized, Moving, Journal, Applied, Held, Confirming, Prepared
<1>4. Carries(p)
  BY <1>1, Carried DEF Resting, Loaded, Confirming, Prepared
<1> QED BY <1>1, <1>3, <1>4, Onward

LEMMA AloneRemoveFinalized ==
  ASSUME OneApply, Alone, NEW p \in Cli, RemoveFinalized(p) PROVE Alone'
<1>1. /\ IInv' /\ pc[p] = "rmjournal" /\ pc'[p] = "idle" /\ j' \in {j, NoJournal}
      /\ UNCHANGED <<mine, pending, store, onhost, cleaning, waived, applied>>
  BY ProcessStep, PcIs DEF RemoveFinalized, history, Work, Alone
<1>2. ws = 0
  BY <1>1 DEF Alone, Knows
<1>3. OwnJournal'
  <2>1. CASE j' = j
    BY <1>1, <1>2, <2>1 DEF Alone, OwnJournal, Finalized, Applied, pending
  <2>2. CASE j' = NoJournal
    BY <1>1, <1>2, <2>2 DEF OwnJournal, Finalized, NoJournal, pending
  <2> QED BY <1>1, <2>1, <2>2
<1> QED BY <1>1, <1>2, <1>3, Idle, Onward DEF pending

-----------------------------------------------------------------------------
(* The retention phase: every object reaches the place its disposition names. *)

LEMMA AtWorkAlone ==
  ASSUME Alone, NEW p \in Cli, pc[p] \in Moving
  PROVE  /\ j # NoJournal /\ j.phase = "project_committed" /\ j.plan = mine[p]
         /\ mine[p] \in Plans /\ mine[p].ws \in Sets /\ cur[p] \in Items
         /\ bulk[mine[p].ws] \subseteq Items /\ Object(p) = <<mine[p].ws, cur[p]>>
         /\ \A b \in Items : <<mine[p].ws, b>> \in Objects
         /\ Disposition(p) \in Dispositions <=> cur[p] \in bulk[mine[p].ws]
         /\ cur[p] \in bulk[mine[p].ws] => Disposition(p) = mine[p].disp[cur[p]]
<1>1. /\ mine[p] \in Plans /\ mine[p].ws \in Sets /\ cur[p] \in Items
      /\ mine[p].disp \in [Items -> Dispositions]
  BY AtWork, PlanIs DEF Alone
<1>2. Journal("project_committed", mine[p])
  BY DEF Alone, Knows
<1>3. bulk[mine[p].ws] \subseteq Items
  BY <1>1 DEF Alone, IInv, Shape
<1>4. "none" \notin Dispositions
  BY DEF Dispositions, Final
<1> QED BY <1>1, <1>2, <1>3, <1>4, JournalIs
        DEF Journal, Object, Objects, Disposition, Alone, IInv

\* A step that touches the object x of the plan at most, whose disposition is d.
LEMMA Handles ==
  ASSUME OneApply, Alone, NEW p \in Cli, pc[p] \in {"move", "record", "purge"}, IInv',
         UNCHANGED <<pending, discarding, onhost, cleaning, j, mine, applied, waived>>,
         NEW w, NEW c, NEW x, NEW d, w = mine[p].ws, c = cur[p], x = <<w, c>>,
         d = mine[p].disp[c],
         \A y \in Objects : y # x =>
           loc'[y] = loc[y] /\ item'[y] = item[y] /\ receipt'[y] = receipt[y],
         item'[x] => d = "keep_host" /\ (loc'[x] = "objects" \/ x \in waived),
         c \in bulk[w] => OnTheWay(x, d)',
         \/ pc'[p] = "idle"
         \/ pc'[p] = "record" /\ cur'[p] = c /\ c \in bulk[w] /\ Moved(x, d)'
         \/ pc'[p] = "purge" /\ cur'[p] = c /\ c \in bulk[w] /\ Recorded(x, d)'
         \/ pc'[p] = "move" /\ cur'[p] = c + 1 /\ (c \in bulk[w] => Settled(x, d)')
         \/ pc'[p] = "finish" /\ c = M /\ (c \in bulk[w] => Settled(x, d)')
  PROVE  Alone'
<1> DEFINE D == mine[p].disp
<1>1. /\ j # NoJournal /\ j.phase = "project_committed" /\ j.plan = mine[p]
      /\ c \in Items /\ w \in Sets /\ bulk[w] \subseteq Items
      /\ \A b \in Items : <<w, b>> \in Objects
      /\ UNCHANGED <<sets, ws, rev, disp, bulk>>
  BY AtWorkAlone DEF Moving, pending
<1>2. OwnJournal' /\ Cleanup'
  BY <1>1, NotCleaning DEF Alone, OwnJournal, Applied, Held, Finalized, Resting
<1>3. Knows(p)' /\ Latest' /\ Revised'
  BY <1>1 DEF Alone, OneApply, Knows, Latest, Revised, Moving, Journal, Loaded, Confirming, Prepared
<1>4. Untouched'
  <2>1. w <= sets
    BY AtWork DEF Alone, Moving
  <2>2. ASSUME NEW v \in Sets, v > sets PROVE Fresh(v)' /\ bulk[v] = {}
    <3>1. v # w
      BY <1>1, <2>1, <2>2 DEF Alone, IInv, Shape, Sets
    <3>2. Fresh(v) /\ bulk[v] = {}
      BY <2>2 DEF Alone, Untouched
    <3>3. \A b \in Items : <<v, b>> \in Objects /\ <<v, b>> # x
      BY <3>1 DEF Objects
    <3> QED BY <1>1, <3>2, <3>3 DEF Fresh, Touching
  <2> QED BY <1>1, <2>2 DEF Untouched, Open
<1>5. ItemsBacked'
  BY DEF Alone, Retention, ItemsBacked
<1>6. OnlyKept'
  <2> SUFFICES ASSUME NEW b \in Items, item'[<<w, b>>] \/ Touching(<<w, b>>)
               PROVE  D[b] = "keep_host"
    BY <1>1 DEF OnlyKept, Touching
  <2>1. CASE b = c /\ item'[<<w, b>>]
    BY <2>1
  <2>2. CASE Touching(<<w, b>>)
    BY <1>1, <2>2 DEF Alone, Retention, OnlyKept, Touching
  <2>3. CASE b # c /\ item'[<<w, b>>]
    <3>1. item[<<w, b>>]
      BY <1>1, <2>3
    <3> QED BY <1>1, <3>1 DEF Alone, Retention, OnlyKept
  <2> QED BY <2>1, <2>2, <2>3
<1>7. ASSUME NEW b \in Items, b # c
      PROVE  /\ OnTheWay(<<w, b>>, D[b]) => OnTheWay(<<w, b>>, D[b])'
             /\ Settled(<<w, b>>, D[b]) => Settled(<<w, b>>, D[b])'
  <2>1. PICK y, e : y = <<w, b>> /\ e = D[b]
    OBVIOUS
  <2>2. y \in Objects /\ y # x
    BY <1>1, <1>7, <2>1
  <2>3. (OnTheWay(y, e) => OnTheWay(y, e)') /\ (Settled(y, e) => Settled(y, e)')
    BY <2>2, Elsewhere
  <2> QED BY <2>1, <2>3 DEF OnTheWay, Settled, Recorded, Moved
<1>8. UnderWay'
  <2>1. ASSUME NEW b \in bulk[w] PROVE OnTheWay(<<w, b>>, D[b])'
    <3>1. CASE b = c
      BY <3>1 DEF OnTheWay
    <3>2. CASE b # c
      BY <1>1, <1>7, <3>2 DEF Alone, Retention, UnderWay
    <3> QED BY <3>1, <3>2
  <2> QED BY <1>1, <2>1 DEF UnderWay, OnTheWay
<1>9. AllSettled'
  BY <1>1 DEF AllSettled, Finalized
<1>10. Finalizing(p)'
  <2>1. \A b \in bulk[w] : b < c => Settled(<<w, b>>, D[b])'
    <3> SUFFICES ASSUME NEW b \in bulk[w], b < c PROVE Settled(<<w, b>>, D[b])'
      OBVIOUS
    <3>1. b \in Items /\ b # c
      BY <1>1 DEF Items
    <3> QED BY <1>7, <3>1 DEF Alone, Retention, Finalizing
  <2>2. (c \in bulk[w] => Settled(x, d)') =>
           \A b \in bulk[w] : b < c + 1 => Settled(<<w, b>>, D[b])'
    <3> SUFFICES ASSUME c \in bulk[w] => Settled(x, d)', NEW b \in bulk[w], b < c + 1
                 PROVE  Settled(<<w, b>>, D[b])'
      OBVIOUS
    <3>1. CASE b = c
      BY <3>1 DEF Settled, Recorded, Moved
    <3>2. CASE b # c
      <4>1. b < c
        BY <1>1, <3>2 DEF Items
      <4> QED BY <2>1, <4>1
    <3> QED BY <3>1, <3>2
  <2>3. c = M => \A b \in bulk[w] : b < c + 1
    BY <1>1 DEF Items
  <2>4. CASE pc'[p] = "idle"
    BY <2>4 DEF Finalizing
  <2>5. CASE pc'[p] = "record" /\ cur'[p] = c /\ c \in bulk[w] /\ Moved(x, d)'
    BY <1>1, <2>1, <2>5 DEF Finalizing, Object, Settled, Recorded, Moved
  <2>6. CASE pc'[p] = "purge" /\ cur'[p] = c /\ c \in bulk[w] /\ Recorded(x, d)'
    BY <1>1, <2>1, <2>6 DEF Finalizing, Object, Settled, Recorded, Moved
  <2>7. CASE pc'[p] = "move" /\ cur'[p] = c + 1 /\ (c \in bulk[w] => Settled(x, d)')
    BY <1>1, <2>2, <2>7 DEF Finalizing, Settled, Recorded, Moved
  <2>8. CASE pc'[p] = "finish" /\ c = M /\ (c \in bulk[w] => Settled(x, d)')
    BY <1>1, <2>2, <2>3, <2>8 DEF Finalizing, Settled, Recorded, Moved
  <2> QED BY <2>4, <2>5, <2>6, <2>7, <2>8
<1> QED BY <1>2, <1>3, <1>4, <1>5, <1>6, <1>8, <1>9, <1>10 DEF OneApply, Alone, Retention

\* What is known of the object the process is at.
LEMMA Current ==
  ASSUME Alone, NEW p \in Cli, pc[p] \in {"move", "record", "purge"},
         NEW x, NEW d, x = Object(p), d = mine[p].disp[cur[p]]
  PROVE  /\ x \in Objects
         /\ item[x] => d = "keep_host" /\ (loc[x] = "objects" \/ x \in waived)
         /\ cur[p] \in bulk[mine[p].ws] => OnTheWay(x, d)
         /\ pc[p] = "record" => cur[p] \in bulk[mine[p].ws] /\ Moved(x, d)
         /\ pc[p] = "purge" => cur[p] \in bulk[mine[p].ws] /\ Recorded(x, d)
<1>1. /\ j # NoJournal /\ j.phase = "project_committed" /\ j.plan = mine[p]
      /\ x = <<mine[p].ws, cur[p]>> /\ cur[p] \in Items /\ x \in Objects
  BY AtWorkAlone DEF Moving
<1> QED BY <1>1 DEF Alone, Retention, ItemsBacked, OnlyKept, UnderWay, Finalizing

LEMMA NextObject ==
  ASSUME Alone, NEW p \in Cli, NextOperation(p)
  PROVE  \/ pc'[p] = "finish" /\ cur[p] = M
         \/ pc'[p] = "move" /\ cur'[p] = cur[p] + 1
BY PcIs DEF NextOperation, Alone, IInv, Shape

LEMMA AloneMove == ASSUME OneApply, Alone, NEW p \in Cli, Move(p) PROVE Alone'
<1>1. PICK w, c, x, d : w = mine[p].ws /\ c = cur[p] /\ x = <<w, c>> /\ d = mine[p].disp[c]
  OBVIOUS
<1>2. /\ pc[p] = "move" /\ pc[p] \in Moving /\ IInv' /\ Shape /\ x = Object(p)
      /\ UNCHANGED <<pending, item, receipt, discarding, onhost, cleaning, j, mine, applied,
                     waived>>
  BY <1>1, ProcessStep DEF Move, history, Moving, Work, Alone, IInv, Object
<1>3. /\ x \in Objects /\ (item[x] => d = "keep_host" /\ (loc[x] = "objects" \/ x \in waived))
      /\ c \in bulk[w] => OnTheWay(x, d)
      /\ c \in bulk[w] => Disposition(p) = d
      /\ Disposition(p) \in Dispositions <=> c \in bulk[w]
  BY <1>1, <1>2, Current, AtWorkAlone
<1>4. CASE UNCHANGED loc /\ pc'[p] = "idle"
  <2>1. c \in bulk[w] => OnTheWay(x, d)'
    BY <1>2, <1>3, <1>4, Elsewhere
  <2> QED BY <1>1, <1>2, <1>3, <1>4, <2>1, Handles
<1>5. CASE UNCHANGED loc /\ Disposition(p) = "none" /\ NextOperation(p)
  <2>1. c \notin bulk[w]
    BY <1>3, <1>5 DEF Dispositions, Final
  <2> QED BY <1>1, <1>2, <1>3, <1>5, <2>1, NextObject, Handles
<1>6. CASE UNCHANGED <<cur, loc>> /\ Disposition(p) = "keep_host" /\ Goto(p, "record")
  <2>1. c \in bulk[w] /\ d = "keep_host"
    BY <1>3, <1>6 DEF Dispositions, Final
  <2>2. OnTheWay(x, d)' /\ Moved(x, d)'
    BY <1>2, <1>3, <1>6, <2>1, Elsewhere DEF Moved
  <2>3. pc'[p] = "record" /\ cur'[p] = c
    BY <1>1, <1>6, PcIs
  <2> QED BY <1>1, <1>2, <1>3, <1>6, <2>1, <2>2, <2>3, Handles
<1>7. CASE /\ UNCHANGED <<cur, loc>> /\ Disposition(p) \in {"retain_artifact", "discard"}
           /\ receipt[Object(p)] /\ Goto(p, "purge")
  <2>1. c \in bulk[w] /\ d \in {"retain_artifact", "discard"}
    BY <1>3, <1>7 DEF Dispositions, Final
  <2>2. OnTheWay(x, d)' /\ Recorded(x, d)'
    <3>1. Recorded(x, d)
      BY <1>2, <1>3, <1>7, <2>1 DEF OnTheWay, Recorded, Moved
    <3> QED BY <1>2, <1>3, <1>7, <2>1, <3>1, Elsewhere
  <2>3. pc'[p] = "purge" /\ cur'[p] = c
    BY <1>1, <1>7, PcIs
  <2> QED BY <1>1, <1>2, <1>3, <1>7, <2>1, <2>2, <2>3, Handles
<1>8. ASSUME NEW to, to = IF Disposition(p) = "discard" THEN "trash" ELSE "artifacts",
             loc' = [loc EXCEPT ![Object(p)] = to], UNCHANGED cur,
             Disposition(p) \in {"retain_artifact", "discard"}, ~receipt[Object(p)],
             Goto(p, "record")
      PROVE  Alone'
  <2>1. c \in bulk[w] /\ d \in {"retain_artifact", "discard"} /\ Disposition(p) = d
    BY <1>3, <1>8 DEF Dispositions, Final
  <2>2. loc'[x] = to /\ \A y \in Objects : y # x => loc'[y] = loc[y]
    BY <1>2, <1>3, <1>8 DEF Shape
  <2>3. ~item'[x] /\ ~receipt'[x]
    BY <1>2, <1>3, <1>8, <2>1
  <2>4. OnTheWay(x, d)' /\ Moved(x, d)'
    BY <1>8, <2>1, <2>2 DEF OnTheWay, Moved
  <2>5. pc'[p] = "record" /\ cur'[p] = c
    BY <1>1, <1>8, PcIs
  <2> QED BY <1>1, <1>2, <1>3, <2>1, <2>2, <2>3, <2>4, <2>5, Handles
<1> QED BY <1>4, <1>5, <1>6, <1>7, <1>8, PcIs DEF Move, MoveObject, Fails

LEMMA AloneRecord == ASSUME OneApply, Alone, NEW p \in Cli, Record(p) PROVE Alone'
<1>1. PICK w, c, x, d : w = mine[p].ws /\ c = cur[p] /\ x = <<w, c>> /\ d = mine[p].disp[c]
  OBVIOUS
<1>2. /\ pc[p] = "record" /\ pc[p] \in Moving /\ IInv' /\ Shape /\ x = Object(p)
      /\ cur'[p] = c
      /\ UNCHANGED <<pending, loc, discarding, onhost, cleaning, j, mine, applied, waived>>
  BY <1>1, ProcessStep DEF Record, history, Moving, Work, Alone, IInv, Object
<1>3. /\ x \in Objects /\ (item[x] => d = "keep_host" /\ (loc[x] = "objects" \/ x \in waived))
      /\ c \in bulk[w] /\ OnTheWay(x, d) /\ Moved(x, d) /\ Disposition(p) = d
  BY <1>1, <1>2, Current, AtWorkAlone
<1>6. CASE pc'[p] = "idle" /\ UNCHANGED <<item, receipt>>
  <2>1. OnTheWay(x, d)'
    BY <1>2, <1>3, <1>6, Elsewhere
  <2> QED BY <1>1, <1>2, <1>3, <1>6, <2>1, Handles
<1>4. CASE /\ d = "keep_host" /\ pc'[p] = "purge" /\ item' = [item EXCEPT ![x] = TRUE] /\ UNCHANGED receipt
  <2>1. loc[x] = "objects" \/ x \in waived
    BY <1>3, <1>4 DEF OnTheWay
  <2>2. item'[x] /\ \A y \in Objects : y # x => item'[y] = item[y]
    BY <1>2, <1>3, <1>4 DEF Shape
  <2>3. OnTheWay(x, d)' /\ Recorded(x, d)'
    BY <1>2, <1>4, <2>1, <2>2 DEF OnTheWay, Recorded, Moved
  <2>4. /\ \A y \in Objects : y # x =>
              loc'[y] = loc[y] /\ item'[y] = item[y] /\ receipt'[y] = receipt[y]
        /\ item'[x] => d = "keep_host" /\ (loc'[x] = "objects" \/ x \in waived)
    BY <1>2, <1>4, <2>1, <2>2
  <2>5. pc'[p] = "purge"
    BY <1>4
  <2> QED BY <1>1, <1>2, <1>3, <2>3, <2>4, <2>5, Handles
<1>5. CASE /\ d # "keep_host" /\ pc'[p] = "purge" /\ receipt' = [receipt EXCEPT ![x] = TRUE] /\ UNCHANGED item
  <2>1. receipt'[x] /\ \A y \in Objects : y # x => receipt'[y] = receipt[y]
    BY <1>2, <1>3, <1>5 DEF Shape
  <2>2. OnTheWay(x, d)' /\ Recorded(x, d)'
    BY <1>2, <1>3, <1>5, <2>1 DEF OnTheWay, Recorded, Moved
  <2>3. /\ \A y \in Objects : y # x =>
              loc'[y] = loc[y] /\ item'[y] = item[y] /\ receipt'[y] = receipt[y]
        /\ item'[x] => d = "keep_host" /\ (loc'[x] = "objects" \/ x \in waived)
    BY <1>2, <1>3, <1>5, <2>1
  <2>4. pc'[p] = "purge"
    BY <1>5
  <2> QED BY <1>1, <1>2, <1>3, <2>2, <2>3, <2>4, Handles
<1> QED BY <1>2, <1>3, <1>4, <1>5, <1>6, PcIs DEF Record, Fails

LEMMA AlonePurge == ASSUME OneApply, Alone, NEW p \in Cli, Purge(p) PROVE Alone'
<1>1. PICK w, c, x, d : w = mine[p].ws /\ c = cur[p] /\ x = <<w, c>> /\ d = mine[p].disp[c]
  OBVIOUS
<1>2. /\ pc[p] = "purge" /\ pc[p] \in Moving /\ IInv' /\ Shape /\ x = Object(p)
      /\ NextOperation(p)
      /\ UNCHANGED <<pending, item, receipt, discarding, onhost, cleaning, j, mine, applied,
                     waived>>
  BY <1>1, ProcessStep DEF Purge, history, Moving, Work, Alone, IInv, Object
<1>3. /\ x \in Objects /\ (item[x] => d = "keep_host" /\ (loc[x] = "objects" \/ x \in waived))
      /\ c \in bulk[w] /\ OnTheWay(x, d) /\ Recorded(x, d) /\ Disposition(p) = d
  BY <1>1, <1>2, Current, AtWorkAlone
<1>4. CASE UNCHANGED loc /\ (d = "discard" => loc[x] # "trash")
  <2>1. Settled(x, d)
    BY <1>3, <1>4 DEF Settled, Recorded, Moved
  <2>2. OnTheWay(x, d)' /\ Settled(x, d)'
    BY <1>2, <1>3, <1>4, <2>1, Elsewhere
  <2> QED BY <1>1, <1>2, <1>3, <1>4, <2>2, NextObject, Handles
<1>5. CASE d = "discard" /\ loc' = [loc EXCEPT ![x] = "gone"]
  <2>1. loc'[x] = "gone" /\ \A y \in Objects : y # x => loc'[y] = loc[y]
    BY <1>2, <1>3, <1>5 DEF Shape
  <2>2. OnTheWay(x, d)' /\ Settled(x, d)'
    BY <1>2, <1>3, <1>5, <2>1 DEF OnTheWay, Settled, Recorded, Moved
  <2>3. ~item'[x]
    BY <1>2, <1>3, <1>5
  <2> QED BY <1>1, <1>2, <1>3, <2>1, <2>2, <2>3, NextObject, Handles
<1> QED BY <1>2, <1>3, <1>4, <1>5 DEF Purge

LEMMA AloneFinish == ASSUME OneApply, Alone, NEW p \in Cli, Finish(p) PROVE Alone'
<1>1. /\ IInv' /\ pc[p] = "finish" /\ pc[p] \in Moving /\ pc'[p] = "rmpending"
      /\ UNCHANGED <<mine, cur, pending, store, onhost, cleaning, waived, applied>>
      /\ j' = [phase |-> "retention_finalized", plan |-> mine[p]]
  BY ProcessStep, PcIs DEF Finish, history, Work, Moving, Alone
<1>2. /\ j # NoJournal /\ j.phase = "project_committed" /\ j.plan = mine[p] /\ mine[p] \in Plans
      /\ Committed(mine[p])
  BY <1>1, AtWorkAlone, AtWork DEF Alone
<1>3. j'.phase = "retention_finalized" /\ j'.plan = mine[p] /\ j' # NoJournal
  BY <1>1, <1>2, NewJournal DEF Phases
<1>4. /\ mine[p].ws = sets /\ OwnJournal' /\ Knows(p)'
  BY <1>1, <1>2, <1>3
     DEF Alone, Latest, OwnJournal, Knows, Applied, Held, pending, Finalized, Moving, Journal, Committed,
         Confirming, Prepared
<1>5. Latest' /\ Revised'
  BY <1>1, <1>2, <1>3, <1>4
     DEF Alone, OneApply, Latest, Revised, pending, Loaded, Confirming
<1>6. Untouched'
  BY <1>3, <1>1 DEF Alone, Untouched, Open, Fresh, Touching, store, pending
<1>7. OnlyKept' /\ UnderWay'
  BY <1>1, <1>2, <1>3 DEF Alone, Retention, OnlyKept, UnderWay, Touching, store
<1>8. AllSettled'
  BY <1>1, <1>2, <1>3
     DEF Alone, Retention, Finalizing, AllSettled, Settled, Recorded, Moved, store, pending
<1>9. Cleanup'
  BY <1>1, NotCleaning DEF Moving, Resting
<1> QED BY <1>1, <1>4, <1>5, <1>6, <1>7, <1>8, <1>9, Settles DEF pending

-----------------------------------------------------------------------------
(* What holds for one process at a time.                                      *)

LEMMA InitAlone == ASSUME Init PROVE Alone
<1>1. IInv /\ NoJournal.phase = "none"
  BY InitIInv DEF NoJournal
<1>2. Latest /\ Revised /\ OwnJournal /\ Cleanup /\ \A p \in Cli : Knows(p)
  BY <1>1 DEF Init, Latest, Revised, OwnJournal, Cleanup, Knows, Moving, Finalized, Working, Loaded,
              Confirming, Prepared
<1>3. Untouched
  BY <1>1 DEF Init, Untouched, Open, Fresh, Touching, Objects, Loaded, Confirming, Prepared
<1>4. Retention
  BY <1>1 DEF Init, Retention, ItemsBacked, OnlyKept, UnderWay, AllSettled, Finalizing, Finalized,
              Objects
<1> QED BY <1>1, <1>2, <1>3, <1>4 DEF Alone

LEMMA StepAlone == ASSUME OneApply, Alone, [Next]_vars PROVE Alone'
<1>1. CASE UNCHANGED vars
  <2>1. UNCHANGED <<host, onhost, cleaning, sets, ws, rev, disp, base, res, bulk, loc, item, receipt,
                    discarding, j, pc, mine, cur, applied, waived>>
    BY <1>1 DEF vars, pending, store, process, history
  <2>2. IInv'
    BY <1>1, StepIInv DEF Alone
  <2>3. Latest' /\ Revised' /\ OwnJournal' /\ Cleanup'
    BY <2>1 DEF Alone, Latest, Revised, OwnJournal, Applied, Held, Finalized, Cleanup, Journal
  <2>4. \A p \in Cli : Knows(p)'
    BY <2>1 DEF Alone, Knows, Held, Finalized, Journal
  <2>5. Untouched'
    BY <2>1 DEF Alone, Untouched, Open, Fresh, Touching
  <2>6. (ItemsBacked /\ OnlyKept /\ UnderWay /\ AllSettled)'
    BY <2>1 DEF Alone, Retention, ItemsBacked, OnlyKept, UnderWay, AllSettled, Touching, OnTheWay,
                Settled, Recorded, Moved, Finalized
  <2>7. \A p \in Cli : Finalizing(p)'
    BY <2>1 DEF Alone, Retention, Finalizing, Settled, Recorded, Moved, Object
  <2> QED BY <2>2, <2>3, <2>4, <2>5, <2>6, <2>7 DEF Alone, Retention
<1>2. CASE \/ Export \/ Status \/ CleanupFinalizedPending \/ CleanupStops
           \/ Resolve \/ DiscardPending \/ EditHost \/ StartDiscard
  BY <1>2, AloneExport, AloneStatus, AloneCleanup, AloneCommand
<1>3. CASE DiscardProjectItem \/ DiscardStops
  BY <1>3, AloneDiscard
<1>4. ASSUME NEW p \in Cli, Work(p) PROVE Alone'
  BY <1>4, AloneLoad, AloneResume, AloneMark, AloneDrop, AlonePlan, AloneReload, AlonePrepare,
     AloneApply, AloneFailed, AloneFinalize, AloneMove, AloneRecord, AlonePurge, AloneFinish,
     AloneRemovePending, AloneRemoveFinalized DEF Work
<1>5. ASSUME NEW p \in Cli, StartApply(p) \/ Confirm(p) \/ Fault(p) \/ Crash(p) PROVE Alone'
  BY <1>5, AloneStart, AloneConfirm, AloneStop
<1> QED BY <1>1, <1>2, <1>3, <1>4, <1>5 DEF Next

LEMMA InductiveAlone == ASSUME OneApply PROVE Spec => []Alone
<1>1. Init => Alone
  BY InitAlone
<1>2. Alone /\ [Next]_vars => Alone'
  BY StepAlone
<1> QED BY <1>1, <1>2, PTL DEF Spec

\* Whatever fails, wherever it crashes, and whatever the user edits, resolves,
\* discards or looks at before the next attempt: data to be kept on the host or
\* as an artifact is where its disposition puts it when the journal is
\* finalized, and a listed item has its object until the user discards it.
THEOREM KeptDataStays ==
  ASSUME OneApply PROVE Spec => []KeptDataIsThere
<1>1. Alone => KeptDataIsThere
  <2> SUFFICES ASSUME Alone PROVE KeptDataIsThere
    OBVIOUS
  <2>1. \A x \in Sets \X Items : item[x] => loc[x] = "objects" \/ x \in waived
    BY DEF Alone, Retention, ItemsBacked, Objects
  <2> QED BY <2>1 DEF KeptDataIsThere, Alone, Retention, AllSettled, Settled, Recorded, Moved
<1> QED BY <1>1, InductiveAlone, PTL

\* A Work Set that is in the Project and still pending has its journal, with
\* which the next command finishes the retention phase; it is the journal of
\* its Resolution as long as that is not changed meanwhile.
THEOREM CommitHasJournal ==
  ASSUME OneApply, "resolve" \notin Meanwhile PROVE Spec => []CommitIsRecorded
<1>1. Alone => CommitIsRecorded
  BY DEF Alone, Latest, Revised, OwnJournal, CommitIsRecorded, Held
<1> QED BY <1>1, InductiveAlone, PTL

\* The pending Work Set leaves the disk applied, or discarded by the user.
THEOREM LeavesApplied ==
  ASSUME OneApply PROVE Spec => PendingLeaves
<1> DEFINE Leaves == ws # 0 /\ ws' = 0 => <<ws, 0>> \in waived' \/ \E a \in applied : a.ws = ws
<1>1. Alone /\ [Next]_vars => [Leaves]_vars
  <2> SUFFICES ASSUME Alone, Next, ws # 0, ws' = 0
               PROVE  <<ws, 0>> \in waived' \/ Applied(ws)
    BY DEF Applied
  <2>1. CASE DiscardPending
    BY <2>1 DEF DiscardPending
  <2>2. CASE Export
    <3>1. sets + 1 # 0
      BY DEF Alone, IInv, Shape
    <3> QED BY <2>2, <3>1 DEF Export
  <2>3. CASE Finalized
    BY <2>3 DEF Alone, OwnJournal, Latest
  <2>4. ASSUME NEW p \in Cli, RemovePending(p) PROVE Applied(ws)
    <3>1. Finalized
      BY <2>4 DEF Alone, Knows, RemovePending, Finalized, Journal
    <3> QED BY <2>3, <3>1 DEF Alone, OwnJournal, Latest
  <2>5. CASE \E p \in Cli : StartApply(p) \/ Work(p) \/ Confirm(p) \/ Fault(p) \/ Crash(p)
    BY <2>3, <2>4, <2>5
       DEF StartApply, history, Work, Confirm, Fault, Crash, Load, Resume, Remark, DropStale, Plan, Reload,
           Prepare, Apply, Mark, Failed, DropFailed, Finalize, Move, Record, Purge, Finish,
           RemoveFinalized, pending
  <2>7. CASE CleanupFinalizedPending
    <3>1. cleaning.step = "pending"
      BY <2>7 DEF CleanupFinalizedPending
    <3>2. cleaning # NoCleanup
      BY <3>1, CleaningIs DEF Alone, IInv
    <3>3. Finalized
      BY <3>2 DEF Alone, Cleanup, Journal, Finalized
    <3> QED BY <2>3, <3>3
  <2>6. CASE Status \/ CleanupStops \/ Resolve \/ EditHost \/ StartDiscard \/ DiscardProjectItem \/ DiscardStops
    BY <2>3, <2>6
       DEF Status, CleanupStops, Resolve, EditHost, StartDiscard, DiscardProjectItem, DiscardStops, pending
  <2> QED BY <2>1, <2>2, <2>5, <2>6, <2>7 DEF Next
<1> QED BY <1>1, InductiveAlone, PTL DEF Spec, PendingLeaves
=============================================================================

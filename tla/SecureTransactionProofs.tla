---------------------- MODULE SecureTransactionProofs ----------------------
(***************************************************************************)
(* Proofs about SecureTransaction for any number of files, faults, crashes *)
(* and calls, when AtomicWriteOwned fails only before its rename.          *)
(***************************************************************************)
EXTENDS SecureTransaction, TLAPS

(* The lock admits one process. *)
Exclusive == pc["r"] = "idle" \/ pc["w"] = "idle"

(* Without a journal the files are of one generation at every moment.       *)
Generation == jrnl = "none" => target = before \/ target = AllNew

(* What each step of a call knows of the files. *)
Prepared(p) ==
  /\ pc[p] \in {"prepare", "journal"} => p = "w" /\ jrnl = "none"
  /\ pc[p] = "journal" => target = before /\ \A k \in Idx : tmp[k]
  /\ pc[p] \in {"journal", "replace", "rbjournal"} => p = "w" /\ \A k \in Idx : Existed(k) => bak[k]

Advancing(p) ==
  /\ pc[p] \in {"replace", "rbjournal", "commit"} => jrnl = "committing"
  /\ pc[p] \in {"replace", "commit"} =>
       idx[p] \in Idx /\ \A k \in Idx : k < idx[p] => target[k] = "new"

Undoing(p) ==
  pc[p] = "undo" => /\ jrnl = "rollback" /\ idx[p] \in Idx
                    /\ \A k \in Idx : k > idx[p] => target[k] = before[k]

Finishing(p) ==
  /\ pc[p] \in {"clean", "unlink"} => \/ jrnl = "committing" /\ target = AllNew
                                      \/ jrnl = "rollback" /\ target = before
  /\ pc[p] = "clean" => idx[p] \in Idx

Works(p) == Prepared(p) /\ Advancing(p) /\ Undoing(p) /\ Finishing(p)

Progress == \A p \in Procs : Works(p)

(* The writer is in recovery only before its own files or with an error to  *)
(* report, and what it reported as complete stays complete.                 *)
Opening == result["w"] = "opening"

Honest ==
  /\ result["r"] # "opening"
  /\ pc["w"] \in {"rbjournal", "read", "commit", "undo"} => err["w"] \/ Opening
  /\ pc["w"] \in {"clean", "unlink"} => err["w"] \/ Opening \/ target = AllNew
  /\ result["w"] = "ok" => target = AllNew /\ jrnl = "none" /\ pc["w"] = "idle"

IInv == TypeOK /\ Exclusive /\ Generation /\ Recoverable /\ Progress /\ Honest

USE TransactionAssumption

-----------------------------------------------------------------------------
(* Facts used by every step *)

LEMMA InitIInv == Init => IInv
<1> SUFFICES ASSUME Init PROVE IInv OBVIOUS
<1> USE DEF Init
<1>1. TypeOK
  BY DEF TypeOK, None, Procs, Steps
<1>2. \A p \in Procs : pc[p] = "idle"
  OBVIOUS
<1>3. Progress
  BY <1>2 DEF Progress, Works, Prepared, Advancing, Undoing, Finishing
<1>4. Exclusive /\ Generation /\ Recoverable
  BY <1>2 DEF Exclusive, Generation, Recoverable, Procs
<1>5. Honest
  BY <1>2 DEF Honest, Procs
<1> QED BY <1>1, <1>3, <1>4, <1>5 DEF IInv

\* A process that is in a call is the only one: its own progress is everybody's.
LEMMA OnlyOne ==
  ASSUME IInv, NEW p \in Procs, pc[p] # "idle", NEW s \in Steps, Goto(p, s), Works(p)'
  PROVE  Exclusive' /\ Progress' /\ pc' \in [Procs -> Steps] /\ pc'[p] = s
         /\ (p = "r" => pc["w"] = "idle" /\ pc'["w"] = "idle")
<1>1. pc \in [Procs -> Steps] /\ pc' = [pc EXCEPT ![p] = s]
  BY DEF IInv, TypeOK, Goto
<1>2. ASSUME NEW q \in Procs, q # p PROVE pc[q] = "idle" /\ pc'[q] = "idle"
  BY <1>1, <1>2 DEF IInv, Exclusive, Procs
<1>3. \A q \in Procs : Works(q)'
  BY <1>2 DEF Works, Prepared, Advancing, Undoing, Finishing
<1>4. Exclusive'
  BY <1>2 DEF Exclusive, Procs
<1> QED BY <1>1, <1>2, <1>3, <1>4 DEF Progress, Procs

\* A call that returns an error, or that ends between a journal and the files,
\* leaves them to the next reader.
LEMMA Leaves ==
  ASSUME IInv, NEW p \in Procs, pc[p] # "idle", Goto(p, "idle"),
         UNCHANGED <<target, before, jrnl>>,
         tmp' \in [Idx -> BOOLEAN], bak' \in [Idx -> BOOLEAN],
         jrnl = "none" \/ UNCHANGED <<tmp, bak>>,
         result' \in [Procs -> {"none", "opening", "ok", "error"}],
         \A q \in Procs : q # p => result'[q] = result[q], result'[p] # "opening",
         result'[p] # "ok" \/ (jrnl = "none" /\ p = "r"),
         err' = err
  PROVE  Exclusive' /\ Generation' /\ Recoverable' /\ Progress' /\ Honest'
<1>1. pc' = [pc EXCEPT ![p] = "idle"] /\ pc \in [Procs -> Steps] /\ "idle" \in Steps
  BY DEF Goto, IInv, TypeOK, Steps
<1>2. Works(p)'
  BY <1>1 DEF Works, Prepared, Advancing, Undoing, Finishing
<1>3. Exclusive' /\ Progress' /\ pc'[p] = "idle" /\ (p = "r" => pc'["w"] = "idle")
  BY <1>1, <1>2, OnlyOne
<1>4. Generation' /\ Recoverable'
  BY DEF IInv, Generation, Recoverable, Existed, AllNew, Idx
<1>5. /\ pc'["w"] = "idle" /\ (result'["w"] = "ok" => result["w"] = "ok")
      /\ result'["r"] # "opening"
  BY <1>3 DEF Procs, IInv, Honest
<1>6. Honest'
  BY <1>5 DEF IInv, Honest, AllNew, Idx
<1> QED BY <1>3, <1>4, <1>6

-----------------------------------------------------------------------------
(* The steps of a call *)

LEMMA BeginIInv == ASSUME IInv, BeginWrite \/ BeginRead PROVE IInv'
<1> DEFINE p == IF BeginWrite THEN "w" ELSE "r"
           v == IF BeginWrite THEN "opening" ELSE "none"
<1>1. /\ p \in Procs /\ v \in {"none", "opening"} /\ (p = "r" => v = "none")
      /\ p = "w" => v = "opening"
      /\ Begin(p, v)
  BY DEF BeginWrite, BeginRead, Procs
<1> HIDE DEF p, v
<1>2. /\ pc' = [pc EXCEPT ![p] = "read"] /\ (\A q \in Procs : pc[q] = "idle")
      /\ err' = [err EXCEPT ![p] = FALSE] /\ result' = [result EXCEPT ![p] = v]
      /\ UNCHANGED <<target, before, tmp, bak, jrnl, idx, mem, faults, crashes>>
  BY <1>1 DEF Begin, Goto, files
<1>3. TypeOK'
  BY <1>1, <1>2 DEF IInv, TypeOK, Steps, Procs
<1>4. pc'[p] = "read" /\ result'[p] = v
      /\ \A q \in Procs : q # p => pc'[q] = "idle" /\ result'[q] = result[q]
  BY <1>1, <1>2 DEF IInv, TypeOK
<1>5. Exclusive' /\ Progress'
  <2>1. \A q \in Procs : pc'[q] \in {"idle", "read"}
    BY <1>4
  <2>2. Progress'
    BY <2>1 DEF Progress, Works, Prepared, Advancing, Undoing, Finishing
  <2> QED BY <1>1, <1>4, <2>2 DEF Exclusive, Procs
<1>6. Generation' /\ Recoverable'
  BY <1>2 DEF Generation, Recoverable, Existed, AllNew, IInv
<1>7. Honest'
  <2>1. CASE p = "w"
    <3>1. result'["r"] = result["r"]
      BY <1>4, <2>1 DEF Procs
    <3> QED BY <1>1, <1>4, <2>1, <3>1 DEF Honest, Opening, IInv
  <2>2. CASE p = "r"
    <3>1. result'["w"] = result["w"] /\ pc'["w"] = "idle"
      BY <1>4, <2>2 DEF Procs
    <3> QED BY <1>1, <1>2, <1>4, <2>2, <3>1 DEF Honest, AllNew, IInv
  <2> QED BY <1>1, <2>1, <2>2 DEF Procs
<1> QED BY <1>3, <1>5, <1>6, <1>7 DEF IInv

LEMMA PrepareIInv == ASSUME IInv, Prepare PROVE IInv'
<1>1. /\ "w" \in Procs /\ "journal" \in Steps /\ pc["w"] = "prepare"
      /\ Goto("w", "journal") /\ pc' = [pc EXCEPT !["w"] = "journal"]
      /\ before' = Present /\ target' = Present
      /\ tmp' = [k \in Idx |-> TRUE] /\ bak' = [k \in Idx |-> Present[k] = "old"]
      /\ UNCHANGED <<jrnl, idx, mem, err, result, faults, crashes>>
  BY DEF Prepare, Procs, Steps, Goto
<1>2. /\ Present \in [Idx -> {"absent", "old"}]
      /\ Present \in [Idx -> {"absent", "old", "new"}]
  BY DEF Present
<1>3. TypeOK'
  BY <1>1, <1>2 DEF IInv, TypeOK
<1>4. jrnl = "none" /\ result["w"] # "ok"
  BY <1>1 DEF IInv, Progress, Works, Prepared, Honest
<1>5. pc'["w"] = "journal"
  BY <1>1 DEF IInv, TypeOK
<1>6. Works("w")'
  BY <1>1, <1>4, <1>5 DEF Works, Prepared, Advancing, Undoing, Finishing, Existed
<1>7. Exclusive' /\ Progress'
  BY <1>1, <1>6, OnlyOne
<1>8. Generation' /\ Recoverable' /\ Honest'
  BY <1>1, <1>4, <1>5 DEF Generation, Recoverable, Honest, IInv
<1> QED BY <1>3, <1>7, <1>8 DEF IInv

LEMMA WriteJournalIInv == ASSUME IInv, WriteTransactionJournal PROVE IInv'
<1>1. /\ "w" \in Procs /\ "replace" \in Steps /\ pc["w"] = "journal"
      /\ Goto("w", "replace") /\ pc' = [pc EXCEPT !["w"] = "replace"]
      /\ jrnl' = "committing" /\ mem' = [mem EXCEPT !["w"] = "committing"]
      /\ idx' = [idx EXCEPT !["w"] = 1]
      /\ UNCHANGED <<target, before, tmp, bak, err, result, faults, crashes>>
  BY DEF WriteTransactionJournal, Procs, Steps, Goto
<1>2. TypeOK'
  BY <1>1 DEF IInv, TypeOK, Procs, Steps
<1>3. /\ jrnl = "none" /\ target = before
      /\ \A k \in Idx : tmp[k] /\ (Existed(k) => bak[k])
  BY <1>1 DEF IInv, Progress, Works, Prepared
<1>4. pc'["w"] = "replace" /\ idx'["w"] = 1
  BY <1>1 DEF IInv, TypeOK
<1>5. Works("w")'
  BY <1>1, <1>3, <1>4 DEF Works, Prepared, Advancing, Undoing, Finishing, Existed, Idx
<1>6. Exclusive' /\ Progress'
  BY <1>1, <1>5, OnlyOne
<1>7. result["w"] # "ok"
  BY <1>1 DEF IInv, Honest
<1>8. Generation' /\ Recoverable' /\ Honest'
  BY <1>1, <1>3, <1>4, <1>7 DEF Generation, Recoverable, Honest, IInv
<1> QED BY <1>2, <1>6, <1>8 DEF IInv

\* An ascending loop that has dealt with the files before its index.
LEMMA Ascend ==
  ASSUME IInv, NEW p \in Procs, pc[p] \in {"replace", "commit"},
         Advance(p, pc[p], "clean"), target' \in [Idx -> {"absent", "old", "new"}],
         target'[idx[p]] = "new", \A k \in Idx : k # idx[p] => target'[k] = target[k],
         UNCHANGED <<before, bak, jrnl>>
  PROVE  /\ Works(p)' /\ idx' \in [Procs -> 0 .. N]
         /\ \E s \in Steps : Goto(p, s)
         /\ pc'[p] = "clean" => target' = AllNew
         /\ pc'[p] \in {pc[p], "clean"} /\ jrnl = "committing"
<1>1. /\ jrnl = "committing" /\ idx[p] \in Idx
      /\ \A k \in Idx : k < idx[p] => target[k] = "new"
      /\ pc[p] = "replace" => p = "w" /\ \A k \in Idx : Existed(k) => bak[k]
  BY DEF IInv, Progress, Works, Advancing, Prepared
<1>2. pc \in [Procs -> Steps] /\ idx \in [Procs -> 0 .. N]
  BY DEF IInv, TypeOK
<1>3. CASE idx[p] = N
  <2>1. pc' = [pc EXCEPT ![p] = "clean"] /\ idx' = [idx EXCEPT ![p] = 1]
    BY <1>3 DEF Advance, Goto
  <2>2. pc'[p] = "clean" /\ idx'[p] = 1 /\ "clean" \in Steps
    BY <1>2, <2>1 DEF Steps
  <2>3. \A k \in Idx : target'[k] = "new"
    BY <1>1, <1>3 DEF Idx
  <2>4. target' = AllNew
    BY <2>3 DEF AllNew
  <2>5. Works(p)'
    BY <1>1, <2>2, <2>4 DEF Works, Prepared, Advancing, Undoing, Finishing, Idx, AllNew
  <2>6. Goto(p, "clean") /\ idx' \in [Procs -> 0 .. N]
    BY <1>2, <2>1 DEF Goto
  <2> QED BY <1>1, <2>2, <2>4, <2>5, <2>6
<1>4. CASE idx[p] # N
  <2>1. pc' = [pc EXCEPT ![p] = pc[p]] /\ idx' = [idx EXCEPT ![p] = @ + 1]
    BY <1>4 DEF Advance, Goto
  <2>2. pc'[p] = pc[p] /\ idx'[p] = idx[p] + 1 /\ pc[p] \in Steps
    BY <1>2, <2>1
  <2>3. idx'[p] \in Idx /\ \A k \in Idx : k < idx'[p] => target'[k] = "new"
    BY <1>1, <1>4, <2>2 DEF Idx
  <2>4. Works(p)'
    BY <1>1, <2>2, <2>3 DEF Works, Prepared, Advancing, Undoing, Finishing, Existed
  <2>5. idx' \in [Procs -> 0 .. N]
    BY <1>2, <2>1, <2>2, <2>3 DEF Idx
  <2>6. Goto(p, pc[p]) /\ pc[p] # "clean"
    BY <2>1 DEF Goto
  <2> QED BY <1>1, <2>2, <2>4, <2>5, <2>6
<1> QED BY <1>3, <1>4

\* The rename of one staged file, in the call itself or in recovery.
LEMMA InstallOne ==
  ASSUME IInv, NEW p \in Procs, pc[p] \in {"replace", "commit"}, NEW k \in Idx, k = idx[p],
         \/ /\ tmp[k] /\ target' = [target EXCEPT ![k] = "new"]
            /\ tmp' = [tmp EXCEPT ![k] = FALSE]
         \/ ~tmp[k] /\ UNCHANGED <<target, tmp>>,
         Advance(p, pc[p], "clean"),
         UNCHANGED <<before, bak, jrnl, mem, err, result, faults, crashes>>
  PROVE  IInv'
<1>1. TypeOK /\ jrnl = "committing" /\ Recoverable
  BY DEF IInv, Progress, Works, Advancing
<1>2. /\ target' \in [Idx -> {"absent", "old", "new"}] /\ tmp' \in [Idx -> BOOLEAN]
      /\ target'[k] = "new" /\ ~tmp'[k]
      /\ \A m \in Idx : m # k => target'[m] = target[m] /\ tmp'[m] = tmp[m]
  BY <1>1, ZenonT(60) DEF TypeOK, Recoverable
<1>3. /\ Works(p)' /\ idx' \in [Procs -> 0 .. N]
      /\ pc'[p] = "clean" => target' = AllNew
      /\ pc'[p] \in {pc[p], "clean"}
  BY <1>2, Ascend
<1>4. PICK s \in Steps : Goto(p, s)
  BY <1>2, Ascend
<1>5. Exclusive' /\ Progress' /\ pc' \in [Procs -> Steps]
      /\ (p = "r" => pc["w"] = "idle" /\ pc'["w"] = "idle")
  BY <1>3, <1>4, OnlyOne
<1>6. TypeOK'
  BY <1>1, <1>2, <1>3, <1>5 DEF TypeOK
<1>7. Generation' /\ Recoverable'
  BY <1>1, <1>2 DEF Generation, Recoverable
<1>8. result["w"] # "ok"
  BY <1>1 DEF IInv, Honest
<1>9. Honest'
  <2>1. CASE p = "r"
    BY <1>5, <1>8, <2>1 DEF Honest, IInv
  <2>2. CASE p = "w"
    BY <1>3, <1>8, <2>2 DEF Honest, IInv, Opening
  <2> QED BY <2>1, <2>2 DEF Procs
<1> QED BY <1>5, <1>6, <1>7, <1>9 DEF IInv

\* The call or its recovery stops with an error; the journal stays as it is.
LEMMA GivesUp ==
  ASSUME IInv, NEW p \in Procs, pc[p] # "idle", Return(p, TRUE),
         UNCHANGED <<target, before, jrnl, idx, err>>,
         mem' \in [Procs -> {"none", "committing", "rollback"}],
         tmp' \in [Idx -> BOOLEAN], bak' \in [Idx -> BOOLEAN],
         jrnl = "none" \/ UNCHANGED <<tmp, bak>>,
         faults' \in 0 .. MaxFaults, crashes' \in 0 .. MaxCrashes
  PROVE  IInv'
<1>1. Goto(p, "idle") /\ result' = [result EXCEPT ![p] = "error"] /\ TypeOK
  BY DEF Return, IInv
<1>2. /\ result' \in [Procs -> {"none", "opening", "ok", "error"}] /\ result'[p] = "error"
      /\ \A q \in Procs : q # p => result'[q] = result[q]
      /\ pc' \in [Procs -> Steps]
  BY <1>1 DEF TypeOK, Goto, Steps
<1>3. Exclusive' /\ Generation' /\ Recoverable' /\ Progress' /\ Honest'
  BY <1>1, <1>2, Leaves
<1>4. TypeOK'
  BY <1>1, <1>2 DEF TypeOK
<1> QED BY <1>3, <1>4 DEF IInv

\* The rollback of a call begins.
LEMMA StartsRollback ==
  ASSUME IInv, pc["w"] = "replace", Goto("w", "rbjournal"), err' = [err EXCEPT !["w"] = TRUE],
         \/ \E k \in Idx : /\ tmp[k] /\ target' = [target EXCEPT ![k] = "new"]
                           /\ tmp' = [tmp EXCEPT ![k] = FALSE]
         \/ UNCHANGED <<target, tmp>>,
         UNCHANGED <<before, bak, jrnl, idx, mem, result>>,
         faults' \in 0 .. MaxFaults, crashes' \in 0 .. MaxCrashes
  PROVE  IInv'
<1>1. /\ TypeOK /\ jrnl = "committing" /\ Recoverable /\ \A k \in Idx : Existed(k) => bak[k]
      /\ "w" \in Procs /\ "rbjournal" \in Steps
  BY DEF IInv, Progress, Works, Advancing, Prepared, Procs, Steps
<1>2. pc'["w"] = "rbjournal" /\ err'["w"] /\ pc' \in [Procs -> Steps]
  BY <1>1 DEF TypeOK, Goto
<1>3. TypeOK'
  BY <1>1, <1>2 DEF TypeOK
<1>4. Works("w")'
  BY <1>1, <1>2 DEF Works, Prepared, Advancing, Undoing, Finishing, Existed
<1>5. Exclusive' /\ Progress'
  BY <1>1, <1>4, OnlyOne
<1>6. Recoverable'
  BY <1>1 DEF Recoverable, TypeOK
<1>7. Generation' /\ Honest'
  BY <1>1, <1>2 DEF Generation, Honest, IInv
<1> QED BY <1>3, <1>5, <1>6, <1>7 DEF IInv

LEMMA ReplaceIInv == ASSUME IInv, Replace PROVE IInv'
<1>1. pc["w"] = "replace" /\ "w" \in Procs /\ idx["w"] \in Idx /\ TypeOK
  BY DEF Replace, Procs, IInv, Progress, Works, Advancing
<1>2. CASE tmp[idx["w"]]
  BY <1>1, <1>2, InstallOne DEF Replace
<1>3. CASE ~tmp[idx["w"]]
  BY <1>1, <1>3, StartsRollback DEF Replace, TypeOK
<1> QED BY <1>2, <1>3

LEMMA RollbackJournalIInv == ASSUME IInv, WriteRollbackJournal PROVE IInv'
<1>1. /\ pc["w"] = "rbjournal" /\ "w" \in Procs /\ "read" \in Steps
      /\ Goto("w", "read") /\ jrnl' = "rollback"
      /\ UNCHANGED <<target, before, tmp, bak, idx, mem, err, result, faults, crashes>>
  BY DEF WriteRollbackJournal, Procs, Steps
<1>2. /\ TypeOK /\ jrnl = "committing" /\ Recoverable /\ \A k \in Idx : Existed(k) => bak[k]
  BY <1>1 DEF IInv, Progress, Works, Advancing, Prepared
<1>3. pc'["w"] = "read" /\ pc' \in [Procs -> Steps]
  BY <1>1, <1>2 DEF TypeOK, Goto
<1>4. TypeOK'
  BY <1>1, <1>2, <1>3 DEF TypeOK
<1>5. Works("w")'
  BY <1>3 DEF Works, Prepared, Advancing, Undoing, Finishing
<1>6. Exclusive' /\ Progress'
  BY <1>1, <1>5, OnlyOne
<1>7. Recoverable'
  BY <1>1, <1>2 DEF Recoverable, TypeOK, Existed
<1>8. Generation' /\ Honest'
  BY <1>1, <1>2, <1>3 DEF Generation, Honest, Opening, IInv
<1> QED BY <1>4, <1>6, <1>7, <1>8 DEF IInv

\* The recovery that WriteTransaction starts with is over.
LEMMA GoesOn ==
  ASSUME IInv, NEW p \in Procs, pc[p] # "idle", result[p] = "opening", ~err[p],
         Return(p, err[p]), jrnl' = "none", target = before \/ target = AllNew,
         mem' \in [Procs -> {"none", "committing", "rollback"}],
         UNCHANGED <<target, before, tmp, bak, idx, err, faults, crashes>>
  PROVE  IInv'
<1>1. TypeOK /\ p = "w" /\ "prepare" \in Steps
  BY DEF IInv, Honest, Procs, Steps
<1>2. Goto(p, "prepare") /\ result' = [result EXCEPT ![p] = "none"]
  BY DEF Return
<1>3. /\ pc' \in [Procs -> Steps] /\ pc'[p] = "prepare"
      /\ result' \in [Procs -> {"none", "opening", "ok", "error"}]
      /\ result'[p] = "none" /\ result'["r"] = result["r"]
  BY <1>1, <1>2 DEF TypeOK, Goto, Procs
<1>4. Works(p)'
  BY <1>1, <1>3 DEF Works, Prepared, Advancing, Undoing, Finishing
<1>5. Exclusive' /\ Progress'
  BY <1>1, <1>2, <1>4, OnlyOne
<1>6. TypeOK'
  BY <1>1, <1>3 DEF TypeOK
<1>7. Generation' /\ Recoverable'
  BY DEF Generation, Recoverable, AllNew
<1>8. Honest'
  BY <1>1, <1>3 DEF Honest, IInv
<1> QED BY <1>5, <1>6, <1>7, <1>8 DEF IInv

LEMMA ReadJournalIInv == ASSUME IInv, NEW p \in Procs, ReadJournal(p) PROVE IInv'
<1>1. /\ pc[p] = "read" /\ mem' = [mem EXCEPT ![p] = jrnl] /\ TypeOK
      /\ UNCHANGED <<target, before, tmp, bak, jrnl, err, faults, crashes>>
      /\ mem' \in [Procs -> {"none", "committing", "rollback"}]
  BY DEF ReadJournal, files, IInv, TypeOK
<1>2. CASE jrnl = "none"
  <2>1. Return(p, err[p]) /\ UNCHANGED idx
    BY <1>2 DEF ReadJournal
  <2>2. p = "w" => err[p] \/ result[p] = "opening"
    BY <1>1 DEF IInv, Honest, Opening
  <2>3. CASE result[p] = "opening" /\ ~err[p]
    <3>1. target = before \/ target = AllNew
      BY <1>2 DEF IInv, Generation
    <3> QED BY <1>1, <1>2, <2>1, <2>3, <3>1, GoesOn
  <2>4. CASE ~(result[p] = "opening" /\ ~err[p])
    <3>1. Goto(p, "idle") /\ result' = [result EXCEPT ![p] = IF err[p] THEN "error" ELSE "ok"]
      BY <2>1, <2>4 DEF Return
    <3>2. /\ result' \in [Procs -> {"none", "opening", "ok", "error"}]
          /\ result'[p] = (IF err[p] THEN "error" ELSE "ok")
          /\ \A q \in Procs : q # p => result'[q] = result[q]
          /\ pc' \in [Procs -> Steps]
      BY <1>1, <3>1 DEF TypeOK, Goto, Steps
    <3>3. Exclusive' /\ Generation' /\ Recoverable' /\ Progress' /\ Honest'
      BY <1>1, <1>2, <2>2, <2>4, <3>1, <3>2, Leaves DEF TypeOK, Procs
    <3>4. TypeOK'
      BY <1>1, <2>1, <3>2 DEF TypeOK
    <3> QED BY <3>3, <3>4 DEF IInv
  <2> QED BY <2>3, <2>4
<1>3. CASE jrnl # "none"
  <2> DEFINE s == IF jrnl = "committing" THEN "commit" ELSE "undo"
             i == IF jrnl = "committing" THEN 1 ELSE N
  <2>1. /\ Goto(p, s) /\ idx' = [idx EXCEPT ![p] = i] /\ UNCHANGED result
        /\ jrnl \in {"committing", "rollback"}
    BY <1>1, <1>3 DEF ReadJournal, TypeOK
  <2>2. s \in Steps /\ i \in Idx
    BY DEF Steps, Idx
  <2>3. /\ pc' \in [Procs -> Steps] /\ idx' \in [Procs -> 0 .. N]
        /\ pc'[p] = s /\ idx'[p] = i
    BY <1>1, <2>1, <2>2 DEF TypeOK, Goto, Idx
  <2>4. Works(p)'
    BY <1>1, <2>1, <2>3 DEF Works, Prepared, Advancing, Undoing, Finishing, Idx
  <2> HIDE DEF s, i
  <2>5. Exclusive' /\ Progress' /\ (p = "r" => pc["w"] = "idle" /\ pc'["w"] = "idle")
    BY <1>1, <2>1, <2>2, <2>4, OnlyOne
  <2>6. TypeOK'
    BY <1>1, <2>1, <2>3 DEF TypeOK
  <2>7. Generation' /\ Recoverable'
    BY <1>1 DEF Generation, Recoverable, Existed, AllNew, IInv
  <2>8. Honest'
    <3>1. result'["w"] # "ok"
      BY <1>3, <2>1 DEF IInv, Honest
    <3>2. CASE p = "r"
      BY <2>1, <2>5, <3>1, <3>2 DEF Honest, IInv
    <3>3. CASE p = "w"
      BY <1>1, <2>1, <2>3, <3>1, <3>3 DEF Honest, IInv, Opening, s
    <3> QED BY <3>2, <3>3 DEF Procs
  <2> QED BY <2>5, <2>6, <2>7, <2>8 DEF IInv
<1> QED BY <1>2, <1>3

LEMMA RecoverCommitIInv == ASSUME IInv, NEW p \in Procs, RecoverCommit(p) PROVE IInv'
<1>1. /\ pc[p] = "commit" /\ idx[p] \in Idx /\ TypeOK /\ jrnl = "committing" /\ Recoverable
      /\ UNCHANGED <<before, bak, jrnl, mem, err, faults, crashes>>
  BY DEF RecoverCommit, IInv, Progress, Works, Advancing
<1>2. IF tmp[idx[p]] THEN target[idx[p]] = before[idx[p]] ELSE target[idx[p]] = "new"
  BY <1>1 DEF Recoverable
<1>3. /\ Advance(p, "commit", "clean") /\ UNCHANGED result
      /\ \/ /\ tmp[idx[p]] /\ target' = [target EXCEPT ![idx[p]] = "new"]
            /\ tmp' = [tmp EXCEPT ![idx[p]] = FALSE]
         \/ ~tmp[idx[p]] /\ UNCHANGED <<target, tmp>>
  BY <1>2 DEF RecoverCommit
<1> QED BY <1>1, <1>3, InstallOne

LEMMA RecoverRollbackIInv == ASSUME IInv, NEW p \in Procs, RecoverRollback(p) PROVE IInv'
<1>1. /\ pc[p] = "undo" /\ TypeOK /\ jrnl = "rollback" /\ Recoverable
      /\ idx[p] \in Idx /\ \A m \in Idx : m > idx[p] => target[m] = before[m]
      /\ UNCHANGED <<before, tmp, jrnl, mem, err, faults, crashes>>
  BY DEF RecoverRollback, IInv, Progress, Works, Undoing
<1>2. CASE Existed(idx[p]) /\ bak[idx[p]] /\ target[idx[p]] = "absent"
  <2>1. Return(p, TRUE) /\ UNCHANGED <<target, bak, idx>>
    BY <1>2 DEF RecoverRollback
  <2>2. /\ mem' \in [Procs -> {"none", "committing", "rollback"}]
        /\ tmp' \in [Idx -> BOOLEAN] /\ bak' \in [Idx -> BOOLEAN]
        /\ faults' \in 0 .. MaxFaults /\ crashes' \in 0 .. MaxCrashes
    BY <1>1, <2>1 DEF TypeOK
  <2> QED BY <1>1, <2>1, <2>2, GivesUp
<1>3. CASE ~(Existed(idx[p]) /\ bak[idx[p]] /\ target[idx[p]] = "absent")
  <2> DEFINE k == idx[p]
             s == IF k = 1 THEN "clean" ELSE "undo"
  <2>1. /\ Goto(p, s) /\ UNCHANGED result
        /\ IF k = 1 THEN UNCHANGED idx ELSE idx' = [idx EXCEPT ![p] = @ - 1]
        /\ \/ /\ ~Existed(k) /\ target' = [target EXCEPT ![k] = "absent"] /\ UNCHANGED bak
           \/ /\ Existed(k) /\ target' = [target EXCEPT ![k] = "old"]
              /\ bak' = [bak EXCEPT ![k] = FALSE]
           \/ Existed(k) /\ target[k] = "old" /\ UNCHANGED <<target, bak>>
    <3>1. IF Existed(k) THEN bak[k] \/ target[k] = "old" ELSE target[k] # "old"
      BY <1>1 DEF Recoverable
    <3>2. target[k] \in {"absent", "old", "new"}
      BY <1>1 DEF TypeOK
    <3> QED BY <1>3, <3>1, <3>2 DEF RecoverRollback
  <2>2. /\ target' \in [Idx -> {"absent", "old", "new"}] /\ bak' \in [Idx -> BOOLEAN]
        /\ target'[k] = before[k]
        /\ \A m \in Idx : m # k => target'[m] = target[m] /\ bak'[m] = bak[m]
    <3>1. /\ k \in Idx /\ target \in [Idx -> {"absent", "old", "new"}]
          /\ before[k] = IF Existed(k) THEN "old" ELSE "absent"
          /\ bak \in [Idx -> BOOLEAN]
      BY <1>1 DEF TypeOK, Existed
    <3> HIDE DEF k
    <3>2. CASE ~Existed(k) /\ target' = [target EXCEPT ![k] = "absent"] /\ UNCHANGED bak
      BY <3>1, <3>2
    <3>3. CASE /\ Existed(k) /\ target' = [target EXCEPT ![k] = "old"]
               /\ bak' = [bak EXCEPT ![k] = FALSE]
      BY <3>1, <3>3
    <3>4. CASE Existed(k) /\ target[k] = "old" /\ UNCHANGED <<target, bak>>
      BY <3>1, <3>4
    <3> QED BY <2>1, <3>2, <3>3, <3>4
  <2>3. s \in Steps /\ pc' \in [Procs -> Steps] /\ pc'[p] = s
    BY <1>1, <2>1 DEF TypeOK, Goto, Steps
  <2>4. idx' \in [Procs -> 0 .. N] /\ idx'[p] \in Idx /\ idx'[p] = (IF k = 1 THEN k ELSE k - 1)
    <3>1. k \in Idx /\ idx \in [Procs -> 0 .. N] /\ k - 1 \in 0 .. N
      BY <1>1 DEF TypeOK, Idx
    <3>2. CASE k = 1
      BY <2>1, <3>1, <3>2
    <3>3. CASE k # 1
      BY <2>1, <3>1, <3>3 DEF Idx
    <3> QED BY <3>2, <3>3
  <2>5. \A m \in Idx : m > idx'[p] /\ (k = 1 => FALSE) => target'[m] = before'[m]
    BY <1>1, <2>2, <2>4 DEF Idx
  <2>6. k = 1 => target' = before'
    <3>1. k = 1 => \A m \in Idx : target'[m] = before[m]
      BY <1>1, <2>2 DEF Idx
    <3> QED BY <1>1, <2>2, <3>1 DEF TypeOK
  <2>7. Works(p)'
    BY <1>1, <2>3, <2>4, <2>5, <2>6 DEF Works, Prepared, Advancing, Undoing, Finishing
  <2> HIDE DEF k, s
  <2>8. Exclusive' /\ Progress' /\ (p = "r" => pc["w"] = "idle" /\ pc'["w"] = "idle")
    BY <1>1, <2>1, <2>3, <2>7, OnlyOne
  <2>9. TypeOK'
    BY <1>1, <2>1, <2>2, <2>3, <2>4 DEF TypeOK
  <2>10. Generation' /\ Recoverable'
    BY <1>1, <2>2 DEF Generation, Recoverable, Existed, TypeOK
  <2>11. Honest'
    <3>1. result'["w"] # "ok"
      BY <1>1, <2>1 DEF IInv, Honest
    <3>2. CASE p = "r"
      BY <2>1, <2>8, <3>1, <3>2 DEF Honest, IInv
    <3>3. CASE p = "w"
      BY <1>1, <2>1, <2>3, <3>1, <3>3 DEF Honest, IInv, Opening, s
    <3> QED BY <3>2, <3>3 DEF Procs
  <2> QED BY <2>8, <2>9, <2>10, <2>11 DEF IInv
<1> QED BY <1>2, <1>3

LEMMA CleanupIInv ==
  ASSUME IInv, NEW p \in Procs, pc[p] = "clean", Advance(p, "clean", "unlink"),
         tmp' \in [Idx -> BOOLEAN], bak' \in [Idx -> BOOLEAN],
         \A k \in Idx : (tmp'[k] => tmp[k]) /\ (bak'[k] => bak[k]),
         err' = err \/ err' = [err EXCEPT ![p] = TRUE],
         faults' \in 0 .. MaxFaults, crashes' \in 0 .. MaxCrashes,
         UNCHANGED <<target, before, jrnl, mem, result>>
  PROVE  IInv'
<1>1. /\ TypeOK /\ idx[p] \in Idx
      /\ \/ jrnl = "committing" /\ target = AllNew
         \/ jrnl = "rollback" /\ target = before
  BY DEF IInv, Progress, Works, Finishing
<1>2. PICK s \in {"clean", "unlink"}, i \in Idx : Goto(p, s) /\ idx' = [idx EXCEPT ![p] = i]
  <2>1. CASE idx[p] = N
    BY <1>1, <2>1 DEF Advance, Idx
  <2>2. CASE idx[p] # N
    <3>1. Goto(p, "clean") /\ idx' = [idx EXCEPT ![p] = idx[p] + 1]
      BY <2>2 DEF Advance
    <3>2. \A k \in 1 .. N : k # N => k + 1 \in 1 .. N
      OBVIOUS
    <3>3. idx[p] + 1 \in Idx
      BY <1>1, <2>2, <3>2 DEF Idx
    <3> QED BY <3>1, <3>3
  <2> QED BY <2>1, <2>2
<1>3. /\ s \in Steps /\ pc' \in [Procs -> Steps] /\ pc'[p] = s
      /\ idx' \in [Procs -> 0 .. N] /\ idx'[p] = i
      /\ err' \in [Procs -> BOOLEAN]
  <2>1. pc \in [Procs -> Steps] /\ idx \in [Procs -> 0 .. N] /\ i \in 0 .. N
    BY <1>1 DEF TypeOK, Idx
  <2>2. err' \in [Procs -> BOOLEAN]
    BY <1>1 DEF TypeOK
  <2>3. s \in Steps
    BY DEF Steps
  <2> QED BY <1>2, <2>1, <2>2, <2>3 DEF Goto
<1>4. Works(p)'
  BY <1>1, <1>2, <1>3 DEF Works, Prepared, Advancing, Undoing, Finishing, AllNew, Idx
<1>5. Exclusive' /\ Progress' /\ (p = "r" => pc["w"] = "idle" /\ pc'["w"] = "idle")
  BY <1>2, <1>3, <1>4, OnlyOne
<1>6. TypeOK'
  BY <1>1, <1>3 DEF TypeOK
<1>7. Generation'
  BY <1>1 DEF Generation
<1>8. Recoverable'
  <2>1. CASE jrnl = "committing"
    <3>1. \A k \in Idx : tmp'[k] => target[k] = before[k]
      BY <2>1 DEF IInv, Recoverable
    <3> QED BY <1>1, <2>1, <3>1 DEF Recoverable, AllNew
  <2>2. CASE jrnl = "rollback"
    BY <1>1, <2>2 DEF Recoverable, Existed, TypeOK
  <2> QED BY <1>1, <2>1, <2>2
<1>9. Honest'
  <2>1. result'["w"] # "ok"
    BY <1>1 DEF IInv, Honest
  <2>2. CASE p = "r"
    BY <1>5, <2>1, <2>2 DEF Honest, IInv
  <2>3. CASE p = "w"
    <3>1. err'["w"] \/ Opening \/ target = AllNew
      BY <1>1, <2>3 DEF IInv, Honest, TypeOK
    <3> QED BY <1>3, <2>1, <2>3, <3>1 DEF Honest, IInv, Opening, AllNew
  <2> QED BY <2>2, <2>3 DEF Procs
<1> QED BY <1>5, <1>6, <1>7, <1>8, <1>9 DEF IInv

LEMMA RemoveJournalIInv == ASSUME IInv, NEW p \in Procs, RemoveJournal(p) PROVE IInv'
<1>1. /\ pc[p] = "unlink" /\ jrnl' = "none" /\ Return(p, err[p]) /\ TypeOK
      /\ UNCHANGED <<target, before, tmp, bak, idx, mem, err, faults, crashes>>
  BY DEF RemoveJournal, IInv
<1>2. jrnl # "none" /\ (target = AllNew \/ target = before)
  BY <1>1 DEF IInv, Progress, Works, Finishing
<1>3. CASE result[p] = "opening" /\ ~err[p]
  BY <1>1, <1>2, <1>3, GoesOn DEF TypeOK
<1>4. CASE ~(result[p] = "opening" /\ ~err[p])
  <2>1. /\ Goto(p, "idle") /\ "idle" \in Steps
        /\ result' = [result EXCEPT ![p] = IF err[p] THEN "error" ELSE "ok"]
    BY <1>1, <1>4 DEF Return, Steps
  <2>2. /\ pc' \in [Procs -> Steps] /\ pc'[p] = "idle"
        /\ result' \in [Procs -> {"none", "opening", "ok", "error"}]
        /\ result'[p] = (IF err[p] THEN "error" ELSE "ok")
        /\ \A q \in Procs : q # p => result'[q] = result[q]
    BY <1>1, <2>1 DEF TypeOK, Goto
  <2>3. Works(p)'
    BY <2>2 DEF Works, Prepared, Advancing, Undoing, Finishing
  <2>4. Exclusive' /\ Progress' /\ (p = "r" => pc'["w"] = "idle")
    BY <1>1, <2>1, <2>3, OnlyOne
  <2>5. TypeOK'
    BY <1>1, <2>2 DEF TypeOK
  <2>6. Generation' /\ Recoverable'
    BY <1>1, <1>2 DEF Generation, Recoverable, AllNew
  <2>7. pc'["w"] = "idle" /\ result'["r"] # "opening"
    BY <2>2, <2>4 DEF Procs, IInv, Honest
  <2>8. result'["w"] = "ok" => target = AllNew
    <3>1. result["w"] # "ok"
      BY <1>2 DEF IInv, Honest
    <3>2. p = "w" => err["w"] \/ target = AllNew
      BY <1>1, <1>4 DEF IInv, Honest, Opening
    <3> QED BY <2>2, <3>1, <3>2 DEF Procs
  <2>9. target' = AllNew <=> target = AllNew
    BY <1>1 DEF AllNew
  <2>10. Honest'
    BY <1>1, <2>7, <2>8, <2>9 DEF Honest, AllNew
  <2> QED BY <2>4, <2>5, <2>6, <2>10 DEF IInv
<1> QED BY <1>3, <1>4

LEMMA FaultIInv == ASSUME IInv, SyncMayFail = FALSE, Fault PROVE IInv'
<1>1. /\ faults' \in 0 .. MaxFaults /\ crashes' \in 0 .. MaxCrashes /\ TypeOK
      /\ "w" \in Procs
  BY DEF Fault, IInv, TypeOK, Procs
<1>2. CASE PrepareFails
  BY <1>1, <1>2, GivesUp DEF PrepareFails, files, TypeOK
<1>3. CASE JournalWriteFails
  <2>1. /\ pc["w"] = "journal" /\ jrnl' = jrnl /\ Return("w", TRUE)
        /\ tmp' = None /\ bak' = None /\ UNCHANGED <<target, before, idx, mem, err>>
    BY <1>3 DEF JournalWriteFails, JournalAfterFault
  <2>2. jrnl = "none"
    BY <2>1 DEF IInv, Progress, Works, Prepared, Procs
  <2> QED BY <1>1, <2>1, <2>2, GivesUp DEF TypeOK, None
<1>4. CASE ReplaceFails
  <2>1. idx["w"] \in Idx
    BY <1>1, <1>4 DEF ReplaceFails, IInv, Progress, Works, Advancing
  <2> QED BY <1>1, <1>4, <2>1, StartsRollback DEF ReplaceFails
<1>5. CASE RollbackJournalWriteFails
  <2>1. /\ pc["w"] = "rbjournal" /\ jrnl' = jrnl /\ Return("w", TRUE)
        /\ UNCHANGED <<target, before, tmp, bak, idx, mem, err>>
    BY <1>5 DEF RollbackJournalWriteFails, JournalAfterFault
  <2> QED BY <1>1, <2>1, GivesUp DEF TypeOK
<1>6. ASSUME NEW p \in Procs, RecoveryFails(p) PROVE IInv'
  BY <1>1, <1>6, GivesUp DEF RecoveryFails, files, TypeOK
<1>7. ASSUME NEW p \in Procs, CleanupFails(p) PROVE IInv'
  <2>1. /\ err' = [err EXCEPT ![p] = TRUE] /\ UNCHANGED <<target, before, tmp, bak, jrnl, mem>>
    BY <1>7 DEF CleanupFails, files
  <2>2. CASE pc[p] = "clean"
    BY <1>1, <1>7, <2>1, <2>2, CleanupIInv DEF CleanupFails, TypeOK
  <2>3. CASE pc[p] = "unlink"
    <3>1. Return(p, TRUE) /\ UNCHANGED idx
      BY <1>7, <2>3 DEF CleanupFails
    <3>2. Goto(p, "idle") /\ result' = [result EXCEPT ![p] = "error"]
      BY <3>1 DEF Return
    <3>3. /\ result' \in [Procs -> {"none", "opening", "ok", "error"}] /\ result'[p] = "error"
          /\ \A q \in Procs : q # p => result'[q] = result[q]
          /\ pc' \in [Procs -> Steps] /\ pc'[p] = "idle" /\ err' \in [Procs -> BOOLEAN]
          /\ "idle" \in Steps
      BY <1>1, <2>1, <3>2 DEF TypeOK, Goto, Steps
    <3>4. Works(p)'
      BY <3>3 DEF Works, Prepared, Advancing, Undoing, Finishing
    <3>5. Exclusive' /\ Progress' /\ (p = "r" => pc'["w"] = "idle")
      BY <2>3, <3>2, <3>3, <3>4, OnlyOne
    <3>6. TypeOK'
      BY <1>1, <2>1, <3>1, <3>3 DEF TypeOK
    <3>7. Generation' /\ Recoverable'
      BY <2>1 DEF IInv, Generation, Recoverable, Existed, AllNew
    <3>8. Honest'
      <4>1. /\ pc'["w"] = "idle" /\ (result'["w"] = "ok" => result["w"] = "ok")
            /\ result'["r"] # "opening"
        BY <3>3, <3>5 DEF Procs, IInv, Honest
      <4> QED BY <2>1, <4>1 DEF IInv, Honest, AllNew
    <3> QED BY <3>5, <3>6, <3>7, <3>8 DEF IInv
  <2> QED BY <1>7, <2>2, <2>3 DEF CleanupFails
<1> QED BY <1>2, <1>3, <1>4, <1>5, <1>6, <1>7 DEF Fault

LEMMA CrashIInv == ASSUME IInv, NEW p \in Procs, Crash(p) PROVE IInv'
<1>1. /\ pc[p] # "idle" /\ Goto(p, "idle") /\ result' = [result EXCEPT ![p] = "none"]
      /\ crashes' \in 0 .. MaxCrashes /\ TypeOK
      /\ UNCHANGED <<target, before, tmp, bak, jrnl, idx, mem, err, faults>>
  BY DEF Crash, files, IInv, TypeOK
<1>2. /\ result' \in [Procs -> {"none", "opening", "ok", "error"}] /\ result'[p] = "none"
      /\ \A q \in Procs : q # p => result'[q] = result[q]
      /\ pc' \in [Procs -> Steps]
  BY <1>1 DEF TypeOK, Goto, Steps
<1>3. Exclusive' /\ Generation' /\ Recoverable' /\ Progress' /\ Honest'
  BY <1>1, <1>2, Leaves DEF TypeOK
<1> QED BY <1>1, <1>2, <1>3 DEF IInv, TypeOK

-----------------------------------------------------------------------------
(* The theorems *)

LEMMA NextIInv ==
  ASSUME IInv, SyncMayFail = FALSE, [Next]_vars
  PROVE  IInv'
<1>1. ASSUME NEW p \in Procs, CleanupArtifacts(p) PROVE IInv'
  BY <1>1, CleanupIInv DEF CleanupArtifacts, IInv, TypeOK
<1>2. CASE UNCHANGED vars
  BY <1>2 DEF vars, files, IInv, TypeOK, Exclusive, Generation, Recoverable, Progress, Works,
              Prepared, Advancing, Undoing, Finishing, Honest, Opening, Existed, AllNew
<1> QED BY <1>1, <1>2, BeginIInv, PrepareIInv, WriteJournalIInv, ReplaceIInv,
           RollbackJournalIInv, ReadJournalIInv, RecoverCommitIInv, RecoverRollbackIInv,
           RemoveJournalIInv, FaultIInv, CrashIInv
        DEF Next, Write, Recover

\* Without a journal the files are of one generation when the lock is free
\* (WriteTransaction, RecoverTransaction), after any number of calls that
\* failed, died or were finished by somebody else.
THEOREM OneGeneration ==
  ASSUME SyncMayFail = FALSE
  PROVE  Spec => []AllOrNothing
<1>1. IInv => AllOrNothing
  BY DEF IInv, Generation, AllOrNothing
<1> QED BY <1>1, InitIInv, NextIInv, PTL DEF Spec

\* A journal on disk can be followed to its end whatever operation failed and
\* wherever the process stopped (recoverCommit, recoverRollback).
THEOREM JournalsFinish ==
  ASSUME SyncMayFail = FALSE
  PROVE  Spec => []Recoverable
<1>1. IInv => Recoverable
  BY DEF IInv
<1> QED BY <1>1, InitIInv, NextIInv, PTL DEF Spec

\* WriteTransaction returns nil only with every file replaced.
THEOREM SuccessComplete ==
  ASSUME SyncMayFail = FALSE
  PROVE  Spec => []SuccessIsComplete
<1>1. IInv => SuccessIsComplete
  BY DEF IInv, Honest, SuccessIsComplete
<1> QED BY <1>1, InitIInv, NextIInv, PTL DEF Spec
=============================================================================

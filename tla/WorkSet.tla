------------------------------ MODULE WorkSet ------------------------------
(***************************************************************************)
(* The data a session carries from the Project to the VM and back:         *)
(* internal/workspace (snapshot.go, bulk.go, export.go, merged.go,         *)
(* changeset.go, workset.go) and what internal/apply/workset.go does with  *)
(* the result.                                                             *)
(*                                                                         *)
(* The Project is walked into a manifest that is partitioned into Core     *)
(* (copied into the VM) and Bulk roots (left on the host).  The guest      *)
(* edits its copy, the frozen copy is exported, merged over the baseline   *)
(* and partitioned again, and the difference becomes the Work Set that the *)
(* user resolves, plans and applies.                                       *)
(*                                                                         *)
(* A tree is a function from the finite set of paths to entries.  A file   *)
(* is its content ("f", "g"), a directory its mode ("d", "e"); both are    *)
(* what sameSnapshotEntry compares and a rename fingerprint holds.  A      *)
(* digest is the value it is computed from.  Every file counts one entry   *)
(* and no bytes, so the byte limits, which are compared exactly as the     *)
(* entry limits are, are left out.                                         *)
(***************************************************************************)
EXTENDS Naturals, Sequences, FiniteSets, FiniteSetsExt, SequencesExt

CONSTANTS
  Order,          \* the paths, as sequences of names, in canonical order
  Protected,      \* Protected Paths: paths under which nothing is exchanged
  Excluded,       \* snapshot.exclude
  Explicit,       \* the paths a literal or a component Bulk rule matches
  SoftEntries,    \* CoreSoftEntries
  HardEntries,    \* CoreHardEntries
  MaxEntries,     \* SnapshotPolicy.MaxEntries
  DirectoryApply, \* DirectoryApplyEnabled
  InitialTrees,   \* the Projects to start from
  MaxGuestEdits,  \* bound: edits of the guest
  MaxHostEdits    \* bound: edits of the user on the host

Paths == Range(Order)
Entries == {"none", "f", "g", "d", "e"}
Directories == {"d", "e"}
Dispositions == {"keep_host", "retain_artifact", "apply_directory", "discard"}

VARIABLES
  host,       \* the Project on the host
  phase,      \* "idle", "session", "frozen" (stopped VM) or "pending"
  base,       \* the approved partition: its core and its Bulk roots
  vm,         \* the guest's merged view of the workspace
  workSet,    \* the pending Work Set
  resolution, \* the disposition chosen for each of its Bulk roots
  planned,    \* an Apply Plan of this Work Set and Resolution is on display
  applied,    \* what the last application of a plan came to
  guestEdits, hostEdits

vars == <<host, phase, base, vm, workSet, resolution, planned, applied,
          guestEdits, hostEdits>>

-----------------------------------------------------------------------------
(* Paths and trees.                                                        *)

Under(p, root) == IsPrefix(root, p)

Overlap(p, q) == Under(p, q) \/ Under(q, p)

Parent(p) == Front(p)

\* The roots of a set of paths: those with no other member above them.
Topmost(S) == {p \in S : ~\E q \in S \ {p} : Under(p, q)}

Empty == [p \in Paths |-> "none"]

Present(tree) == {p \in Paths : tree[p] # "none"}

WellFormed(tree) ==
  \A p \in Present(tree) : Len(p) > 1 => tree[Parent(p)] \in Directories

Without(tree, roots) ==
  [p \in Paths |-> IF \E r \in roots : Under(p, r) THEN "none" ELSE tree[p]]

Only(tree, root) ==
  [p \in Paths |-> IF Under(p, root) THEN tree[p] ELSE "none"]

\* One tree laid over another.
Over(top, tree) ==
  [p \in Paths |-> IF top[p] # "none" THEN top[p] ELSE tree[p]]

\* What the walk of a Project skips, and with it everything below.
Hidden(p) == \E h \in Protected \cup Excluded : Under(p, h)

Visible(tree) == [p \in Paths |-> IF Hidden(p) THEN "none" ELSE tree[p]]

-----------------------------------------------------------------------------
(* The partition into Core and Bulk.                                       *)

IsDirectory(p, left, right) ==
  left[p] \in Directories \/ right[p] \in Directories

\* The directories the rules name, unless an exact override makes them
\* normal; a match inside a match is not a root of its own.
RuleRoots(left, right, normal) ==
  Topmost({p \in Explicit \ normal : IsDirectory(p, left, right)})

Union(left, right) == Present(left) \cup Present(right)

CoreCost(left, right, roots) ==
  Cardinality({p \in Union(left, right) : ~\E r \in roots : Under(p, r)})

SubtreeCost(left, right, root) ==
  Cardinality({p \in Union(left, right) : Under(p, root)})

\* The ceilings of the snapshot bound those of the Bulk policy.
Hard == Min({HardEntries, MaxEntries})
Soft == Min({SoftEntries, Hard})

Position(p) == CHOOSE i \in DOMAIN Order : Order[i] = p

\* Directories of the Project root moved out of an oversized Core, largest
\* first, until the rest fits.
Admissible(left, right, roots, normal) ==
  {p \in Paths : /\ Len(p) = 1 /\ p \notin normal
                 /\ IsDirectory(p, left, right)
                 /\ ~\E r \in roots : Overlap(p, r)}

ByCost(left, right, candidates) ==
  SetToSortSeq(candidates,
    LAMBDA p, q :
      \/ SubtreeCost(left, right, p) > SubtreeCost(left, right, q)
      \/ /\ SubtreeCost(left, right, p) = SubtreeCost(left, right, q)
         /\ Position(p) < Position(q))

\* The choices that bring Core below its ceiling: as many of the largest as
\* it takes.  None of them may be enough.
AdmissionRoots(left, right, roots, normal) ==
  LET sorted == ByCost(left, right, Admissible(left, right, roots, normal))
      first(n) == {sorted[i] : i \in 1..n}
      enough == {n \in 0..Len(sorted) :
                   CoreCost(left, right, roots \cup first(n)) <= Hard}
  IN  IF enough = {} THEN {} ELSE {first(Min(enough))}

StructuralRoots(left, right, roots, normal) ==
  Topmost({p \in Paths : /\ IsDirectory(p, left, right) /\ p \notin normal
                         /\ ~\E r \in roots : Overlap(p, r)
                         /\ SubtreeCost(left, right, p) > Soft})

\* classifyBulkRoots: the set holding the classification, or empty when Core
\* cannot be brought below its ceiling.
Classify(left, right, normal) ==
  LET rules == RuleRoots(left, right, normal)
  IN  {rules \cup more
           \cup StructuralRoots(left, right, rules \cup more, normal) :
         more \in AdmissionRoots(left, right, rules, normal)}

\* BuildPartitionedSnapshotManifest: one walk that stops at the directories
\* the rules name and moves the oversized ones out afterwards.  All of them
\* are present_untracked: their contents are neither hashed nor copied.
Partition(tree, normal) ==
  LET stops == RuleRoots(Visible(tree), Empty, normal)
      full == Without(Visible(tree), stops)
  IN  {[core |-> Without(full, roots), roots |-> stops \cup roots] :
         roots \in {S \in Classify(full, full, normal) :
                      Cardinality(Present(Without(full, S))) <= MaxEntries}}

-----------------------------------------------------------------------------
(* The frozen export.                                                      *)

\* parseMergedEntry refuses a Protected Path anywhere in the archive.
ArchiveIsSafe(tree) ==
  \A p \in Present(tree) : ~\E h \in Protected : Under(p, h)

\* ParseFrozenRootFS: the exported entries, excluded ones skipped, and a
\* whiteout for every path of the baseline that the archive lacks.
FrozenUpper(tree, core) ==
  {[path |-> p, entry |-> tree[p]] :
     p \in {q \in Present(tree) : ~\E h \in Excluded : Under(q, h)}}
  \cup {[path |-> p, entry |-> "none"] :
          p \in {q \in Present(core) : tree[q] = "none"}}

\* Whiteouts and everything that is not a directory remove what the baseline
\* has at their path and below.
WithoutReplaced(core, upper) ==
  Without(core, {u.path : u \in {v \in upper : v.entry \notin Directories}})

UpperEntries(upper) ==
  [p \in Paths |-> IF \E u \in upper : u.path = p
                   THEN (CHOOSE u \in upper : u.path = p).entry
                   ELSE "none"]

\* MaterializeMergedView: the entries of the upper are laid over what is left
\* of the baseline.  A path without a directory above it fails the export.
MergedView(core, upper) ==
  {t \in {Over(UpperEntries(upper), WithoutReplaced(core, upper))} :
     WellFormed(t)}

-----------------------------------------------------------------------------
(* Change Sets.                                                            *)

\* Plausible bug: a directory that is gone is left to its files' deletions.
DeletedFiles(before, after) ==
  {p \in Present(before) \ Present(after) : before[p] \notin Directories}

Deleted(before, after) == Present(before) \ Present(after)
Added(before, after) == Present(after) \ Present(before)

\* A file deleted in one place and added in another is a rename when no
\* other deletion or addition has the same fingerprint.
Renames(before, after) ==
  {<<p, q>> \in Deleted(before, after) \X Added(before, after) :
     /\ before[p] \notin Directories
     /\ before[p] = after[q]
     /\ \A o \in Deleted(before, after) \ {p} : before[o] # before[p]
     /\ \A o \in Added(before, after) \ {q} : after[o] # after[q]}

Change(kind, path, from) == [kind |-> kind, path |-> path, from |-> from]

BuildChangeSet(before, after) ==
  LET moves == Renames(before, after)
      out == {m[1] : m \in moves}
      in == {m[2] : m \in moves}
  IN  {Change("modify", p, <<>>) :
         p \in {q \in Present(before) \cap Present(after) :
                  before[q] # after[q]}}
      \cup {Change("rename", m[2], m[1]) : m \in moves}
      \cup {Change("delete", p, <<>>) : p \in Deleted(before, after) \ out}
      \cup {Change("add", p, <<>>) : p \in Added(before, after) \ in}

ChangedPaths(changes) ==
  {c.path : c \in changes}
  \cup {c.from : c \in {d \in changes : d.kind = "rename"}}

ChangesOverlap(changes, root) ==
  \E p \in ChangedPaths(changes) : Overlap(p, root)

AffectedRoots(changes) == Topmost(ChangedPaths(changes))

-----------------------------------------------------------------------------
(* Work Sets.                                                              *)

NoWorkSet == [base |-> Empty, core |-> Empty, bulk |-> {}, normal |-> {}]

BulkRoots(ws) == {b.root : b \in ws.bulk}

\* bulkRefs: the state of one root in the result.
ResultState(tree, root) ==
  CASE \A p \in Paths : Under(p, root) => tree[p] = "none" -> "absent"
    [] tree[root] \in Directories -> "exact"
    [] OTHER -> "unsupported"

\* CaptureBulkObject: the manifest and the blobs of everything below the root.
Captured(tree, root) == Only(tree, root)

BulkRecord(baseline, tree, root) ==
  [root   |-> root,
   before |-> IF root \in baseline.roots THEN "untracked" ELSE "absent",
   after  |-> ResultState(tree, root),
   object |-> Captured(tree, root)]

\* Plausible bug: the roots of the result are added without the check for an
\* overlap with the approved ones.
SharedRootsUnchecked(baseline, tree, roots) == baseline.roots \cup roots

\* The roots approved at the start, and those of the result that neither
\* contain one of them nor lie inside one.
SharedRoots(baseline, tree, roots) ==
  baseline.roots
  \cup {r \in roots : \A b \in baseline.roots : b = r \/ ~Overlap(b, r)}

\* A root the guest never touched is not shown.
Reported(baseline, record, changes) ==
  \/ record.before # "untracked"
  \/ record.after # "absent"
  \/ ChangesOverlap(changes, record.root)

\* PartitionResultManifest, the capture of every exact root as an object and
\* BuildPendingWorkSetFromPartitions.  The set is empty when Core is too
\* large or a root could not be captured.
BuildWorkSet(baseline, tree) ==
  {ws \in {LET roots == SharedRoots(baseline, tree, found)
               core == Without(tree, roots)
               changes == BuildChangeSet(baseline.core, core)
           IN  [base |-> baseline.core, core |-> core, normal |-> {},
                bulk |-> {b \in {BulkRecord(baseline, tree, r) : r \in roots} :
                            Reported(baseline, b, changes)}] :
             found \in Classify(Empty, tree, {})} :
     /\ Cardinality(Present(ws.core)) <= MaxEntries
     /\ \A b \in ws.bulk : b.after # "unsupported"}

\* allowedDisposition.  Captures are exact: a managed object for a directory,
\* an exact absence otherwise.
Allowed(record, disposition) ==
  CASE disposition = "keep_host" -> TRUE
    [] disposition = "apply_directory" -> record.before = "absent"
    [] OTHER -> record.after = "exact"

\* BuildResolution: one choice for every root, "unresolved" until made.
Resolutions(ws) ==
  {f \in [BulkRoots(ws) -> Dispositions \cup {"unresolved"}] :
     \A b \in ws.bulk :
       f[b.root] # "unresolved" => Allowed(b, f[b.root])}

Unresolved(ws) == [r \in BulkRoots(ws) |-> "unresolved"]

\* CanReviewBulkNormally and DeriveWorkSetReviewNormally: the object of a
\* root that the baseline lacks is laid into the result and becomes Core.
CanReviewNormally(record) ==
  record.before = "absent" /\ record.after = "exact"

Derive(ws, record) ==
  [ws EXCEPT !.core = Over(record.object, @),
             !.bulk = @ \ {record},
             !.normal = @ \cup {record.root}]

Derivable(ws, record) ==
  LET full == Derive(ws, record).core
  IN  /\ CanReviewNormally(record)
      /\ WellFormed(full)
      /\ Cardinality(Present(full)) <= MaxEntries

-----------------------------------------------------------------------------
(* Apply Plans.                                                            *)

WholeRoots(choice) == {r \in DOMAIN choice : choice[r] = "apply_directory"}

\* Plausible bug: the separation of Core changes from Bulk roots is dropped.
PathsNeedNotSeparate(ws) == TRUE

\* validatePlanPathSeparation
PathsSeparate(ws) ==
  \A r \in BulkRoots(ws) : ~ChangesOverlap(BuildChangeSet(ws.base, ws.core), r)

\* BuildApplyPlan
PlanBuilds(ws, choice) ==
  /\ \A r \in DOMAIN choice : choice[r] # "unresolved"
  /\ PathsSeparate(ws)

\* The Project is partitioned under the normal overrides of the Work Set.
CoreIs(tree, ws, core) == \E p \in Partition(tree, ws.normal) : p.core = core

\* validateBulkBeforeGuards: a whole directory is only ever created.
GuardsHold(tree, ws, choice) ==
  \A b \in ws.bulk :
    choice[b.root] = "apply_directory" =>
      DirectoryApply /\ b.after = "exact" /\ tree[b.root] = "none"

\* approvedSnapshotSubset: the affected subtrees of the result.
StagedCore(ws) ==
  [p \in Paths |->
     IF \E r \in AffectedRoots(BuildChangeSet(ws.base, ws.core)) : Under(p, r)
     THEN ws.core[p] ELSE "none"]

\* MaterializeBulkObjectAt: the objects to create are added to the stage.
StagedObject(ws, r) == (CHOOSE b \in ws.bulk : b.root = r).object

Staged(ws, choice) ==
  [p \in Paths |->
     IF \E r \in WholeRoots(choice) : Under(p, r)
     THEN StagedObject(ws, CHOOSE r \in WholeRoots(choice) : Under(p, r))[p]
     ELSE StagedCore(ws)[p]]

TransactionRoots(ws, choice) ==
  AffectedRoots(BuildChangeSet(ws.base, ws.core)) \cup WholeRoots(choice)

\* Every transaction root is renamed away with all it holds, and the staged
\* tree of that root, if any, is renamed into its place.
Renamed(tree, ws, choice) ==
  Over(Staged(ws, choice), Without(tree, TransactionRoots(ws, choice)))

\* verifyWorkSetProjection
Verified(tree, ws, choice) ==
  /\ CoreIs(tree, ws, ws.core)
  /\ \A b \in ws.bulk : choice[b.root] = "apply_directory" =>
       Visible(Only(tree, b.root)) = b.object

-----------------------------------------------------------------------------
(* Actions.                                                                *)

Init ==
  /\ host \in InitialTrees
  /\ phase = "idle"
  /\ base = [core |-> Empty, roots |-> {}]
  /\ vm = Empty
  /\ workSet = NoWorkSet
  /\ resolution = Unresolved(NoWorkSet)
  /\ planned = FALSE
  /\ applied = "no"
  /\ guestEdits = 0
  /\ hostEdits = 0

\* Edits that keep a tree well-formed: an entry written, a file or subtree
\* removed, a file or subtree moved to a free place.
Writes(tree) ==
  {[tree EXCEPT ![p] = e] : p \in Paths, e \in Entries \ {"none"}}

Removals(tree) == {Without(tree, {p}) : p \in Present(tree)}

\* A file moves, and so does the directory with what fits below its new
\* place; only moves that lose nothing are taken.
Moved(tree, p, q) ==
  [o \in Paths |->
     CASE Under(o, q) /\ p \o SubSeq(o, Len(q) + 1, Len(o)) \in Paths ->
            tree[p \o SubSeq(o, Len(q) + 1, Len(o))]
       [] Under(o, p) -> "none"
       [] OTHER -> tree[o]]

Moves(tree) ==
  {Moved(tree, p, q) :
     <<p, q>> \in {m \in Present(tree) \X Paths :
       /\ tree[m[2]] = "none" /\ ~Overlap(m[1], m[2])
       /\ Cardinality(Present(Moved(tree, m[1], m[2])))
            = Cardinality(Present(tree))}}

Edits(tree) ==
  {t \in Writes(tree) \cup Removals(tree) \cup Moves(tree) :
     WellFormed(t) /\ t # tree}

\* The user works on the Project at any time.
HostEdit ==
  /\ hostEdits < MaxHostEdits
  /\ hostEdits' = hostEdits + 1
  /\ host' \in Edits(host)
  /\ UNCHANGED <<phase, base, vm, workSet, resolution, planned, applied,
                 guestEdits>>

GuestEdit ==
  /\ phase = "session"
  /\ guestEdits < MaxGuestEdits
  /\ guestEdits' = guestEdits + 1
  /\ vm' \in Edits(vm)
  /\ UNCHANGED <<host, phase, base, workSet, resolution, planned, applied,
                 hostEdits>>

\* The previewed partition is approved and the session created from it: Core
\* is copied into the VM.
Start ==
  /\ phase = "idle"
  /\ base' \in Partition(host, {})
  /\ vm' = base'.core
  /\ phase' = "session"
  /\ applied' = "no"
  /\ UNCHANGED <<host, workSet, resolution, planned, guestEdits, hostEdits>>

\* verifyHostBaseline: the Project must still partition into what was
\* approved.
BaselineHolds == Partition(host, {}) = {base}

ExportedWorkSets ==
  UNION {BuildWorkSet(base, t) :
           t \in MergedView(base.core, FrozenUpper(vm, base.core))}

\* A refused export leaves a stopped VM that can be exported again.
ExportRefused ==
  /\ phase \in {"session", "frozen"}
  /\ ~BaselineHolds \/ ~ArchiveIsSafe(vm) \/ ExportedWorkSets = {}
  /\ phase' = "frozen"
  /\ UNCHANGED <<host, base, vm, workSet, resolution, planned, applied,
                 guestEdits, hostEdits>>

Export ==
  /\ phase \in {"session", "frozen"}
  /\ BaselineHolds
  /\ ArchiveIsSafe(vm)
  /\ workSet' \in ExportedWorkSets
  /\ resolution' = Unresolved(workSet')
  /\ phase' = "pending"
  /\ UNCHANGED <<host, base, vm, planned, applied, guestEdits, hostEdits>>

\* A new revision of the Resolution makes a displayed plan stale.
Resolve ==
  /\ phase = "pending"
  /\ resolution' \in Resolutions(workSet) \ {resolution}
  /\ planned' = FALSE
  /\ UNCHANGED <<host, phase, base, vm, workSet, applied, guestEdits,
                 hostEdits>>

ReviewNormally(record) ==
  /\ phase = "pending"
  /\ Derivable(workSet, record)
  /\ workSet' = Derive(workSet, record)
  /\ resolution' = [r \in BulkRoots(workSet') |-> resolution[r]]
  /\ planned' = FALSE
  /\ UNCHANGED <<host, phase, base, vm, applied, guestEdits, hostEdits>>

\* PrepareWorkSetPlan
PreparePlan ==
  /\ phase = "pending" /\ ~planned
  /\ CoreIs(host, workSet, workSet.base)
  /\ PlanBuilds(workSet, resolution)
  /\ GuardsHold(host, workSet, resolution)
  /\ planned' = TRUE
  /\ UNCHANGED <<host, phase, base, vm, workSet, resolution, applied,
                 guestEdits, hostEdits>>

\* ApplyWorkSet of the plan the user approved.  The Project is partitioned
\* and the guards are taken again; a verification that fails after the
\* renames rolls them back.
ApplyRefused ==
  /\ phase = "pending" /\ planned
  /\ \/ ~CoreIs(host, workSet, workSet.base)
     \/ ~GuardsHold(host, workSet, resolution)
  /\ planned' = FALSE
  /\ applied' = "refused"
  /\ UNCHANGED <<host, phase, base, vm, workSet, resolution, guestEdits,
                 hostEdits>>

ApplyStarts ==
  /\ phase = "pending" /\ planned
  /\ CoreIs(host, workSet, workSet.base)
  /\ GuardsHold(host, workSet, resolution)
  /\ planned' = FALSE

ApplyRollsBack ==
  /\ ApplyStarts
  /\ ~Verified(Renamed(host, workSet, resolution), workSet, resolution)
  /\ applied' = "rolled_back"
  /\ UNCHANGED <<host, phase, base, vm, workSet, resolution, guestEdits,
                 hostEdits>>

Apply ==
  /\ ApplyStarts
  /\ Verified(Renamed(host, workSet, resolution), workSet, resolution)
  /\ host' = Renamed(host, workSet, resolution)
  /\ applied' = "yes"
  /\ phase' = "idle"
  /\ vm' = Empty
  /\ workSet' = NoWorkSet
  /\ resolution' = Unresolved(NoWorkSet)
  /\ base' = [core |-> Empty, roots |-> {}]
  /\ UNCHANGED <<guestEdits, hostEdits>>

\* The user gives the VM or the pending Work Set up.
Discard ==
  /\ phase # "idle"
  /\ phase' = "idle"
  /\ vm' = Empty
  /\ workSet' = NoWorkSet
  /\ resolution' = Unresolved(NoWorkSet)
  /\ base' = [core |-> Empty, roots |-> {}]
  /\ planned' = FALSE
  /\ UNCHANGED <<host, applied, guestEdits, hostEdits>>

Next ==
  \/ HostEdit \/ GuestEdit \/ Start
  \/ Export \/ ExportRefused
  \/ Resolve \/ PreparePlan
  \/ \E record \in workSet.bulk : ReviewNormally(record)
  \/ ApplyRefused \/ ApplyRollsBack \/ Apply
  \/ Discard

Spec == Init /\ [][Next]_vars

-----------------------------------------------------------------------------
(* Properties.                                                             *)

Trees == {t \in [Paths -> Entries] : WellFormed(t)}

\* Type and shape: every tree the program holds is well-formed, and the
\* Resolution covers exactly the roots of the Work Set.
TypeOK ==
  /\ {host, vm, base.core, workSet.base, workSet.core} \subseteq Trees
  /\ phase \in {"idle", "session", "frozen", "pending"}
  /\ base.roots \subseteq Paths
  /\ resolution \in Resolutions(workSet)
  /\ planned \in BOOLEAN
  /\ applied \in {"no", "refused", "rolled_back", "yes"}
  /\ guestEdits \in 0..MaxGuestEdits /\ hostEdits \in 0..MaxHostEdits

\* Nothing the guest left in its workspace is lost on the way to the user:
\* Core and the captured objects together are the frozen workspace without the
\* excluded paths, and no path of it is in two of them.  The baseline of a path
\* may still be in Core while its result is in Bulk: see CoreAndBulkApart.
\* (PartitionResultManifest, MaterializeMergedView, CaptureBulkObject and
\* DeriveWorkSetReviewNormally.)
ResultIsWhole ==
  phase = "pending" =>
    \A p \in Paths :
      LET holders == {b \in workSet.bulk : b.object[p] # "none"}
      IN  /\ Visible(vm)[p] = IF holders = {} THEN workSet.core[p]
                              ELSE (CHOOSE b \in holders : TRUE).object[p]
          /\ Cardinality(holders) <= 1
          /\ holders # {} => workSet.core[p] = "none"

\* Replaying the Change Set the user reviews on the baseline gives the
\* result; no path is changed twice, and a rename carries a file unchanged
\* from the one place it left to the one place it came to. (BuildChangeSet.)
Replay(tree, after, changes) ==
  [p \in Paths |->
     CASE \E c \in changes : c.kind # "delete" /\ c.path = p -> after[p]
       [] \E c \in changes : c.kind = "delete" /\ c.path = p -> "none"
       [] \E c \in changes : c.kind = "rename" /\ c.from = p -> "none"
       [] OTHER -> tree[p]]

ReplayGivesResult ==
  phase = "pending" =>
    LET changes == BuildChangeSet(workSet.base, workSet.core)
    IN  /\ Replay(workSet.base, workSet.core, changes) = workSet.core
        /\ \A c, d \in changes : c.path = d.path => c = d
        /\ \A c \in changes : c.kind = "rename" =>
             /\ workSet.base[c.from] = workSet.core[c.path]
             /\ \A d \in changes \ {c} : c.from \notin {d.path, d.from}

\* An application leaves the Bulk roots it knows of, and that were not chosen for
\* a whole apply, as they are on the host: those of the Work Set, and those of
\* the approved partition, which were left out of the VM, even if the Work Set
\* does not mention them.  (validatePlanPathSeparation and the classification
\* must agree.)  It says nothing of a Bulk directory that came to the host after
\* the partition: see HostBulkKept.
BulkKept ==
  [][Apply => /\ \A r \in (base.roots \cup BulkRoots(workSet))
                         \ WholeRoots(resolution) :
                   Only(host', r) = Only(host, r)
              /\ \A r \in WholeRoots(resolution) :
                   Only(host, r) = Empty /\ Only(host', r) # Empty]_vars

\* An application leaves every Bulk directory of the host as it was, those made
\* after the export too.  Broken with the constants of the run: the guest puts a
\* file in the place of a directory or changes its mode, the user makes a Bulk
\* directory in it, which no comparison of Core sees, and the renaming of the
\* whole directory takes it along (affectedRoots, validatePlanPathSeparation).
HostBulkKept ==
  [][Apply => \A p \in Partition(host, workSet.normal) :
       \A r \in p.roots \ WholeRoots(resolution) : Only(host', r) = Only(host, r)]_vars

\* "snapshot.exclude" keeps a path out of the application too, and Protected
\* Paths stay: an application leaves both as they were. Claimed by
\* docs/plan/sunaba-secure-agent-platform.md:487, and broken by a rename of the
\* directory around such a path (affectedRoots; Excluded and InitialTrees as
\* MCExcluded and MCExcludedTrees).
HiddenKept ==
  [][Apply => \A p \in Paths : Hidden(p) => host'[p] = host[p]]_vars

\* A path is never both in Core and in Bulk, even when it exists on one side
\* of the session only. Claimed by the comment of PartitionResultManifest, and
\* broken by a Core directory that grows past the soft limit (SoftEntries = 1,
\* HardEntries = 2).
CoreAndBulkApart ==
  \A r \in BulkRoots(workSet) : \A p \in Paths :
    Under(p, r) => workSet.base[p] = "none" /\ workSet.core[p] = "none"
=============================================================================

----------------------------- MODULE AtomicApply -----------------------------
(***************************************************************************)
(* What a Work Set apply promises its user: whatever happens to the        *)
(* process, the host Project, once recovered, is entirely in the approved  *)
(* before-state or entirely in the approved after-state, and the only      *)
(* change it ever undergoes is the one step from the first to the second.  *)
(***************************************************************************)
CONSTANT Trees          \* the possible contents of the affected paths
VARIABLES tree,         \* the recovered contents of the affected paths
          before,       \* the approved before-state
          after         \* the approved after-state

avars == <<tree, before, after>>

AInit == /\ before \in Trees
         /\ after \in Trees
         /\ tree = before

(* The whole approved result becomes visible at once. *)
ACommit == /\ tree = before
           /\ tree' = after
           /\ UNCHANGED <<before, after>>

ASpec == AInit /\ [][ACommit]_avars
=============================================================================

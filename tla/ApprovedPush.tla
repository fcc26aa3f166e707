---------------------------- MODULE ApprovedPush ----------------------------
(***************************************************************************)
(* What the Git push broker promises the owner of a repository: the guest  *)
(* changes a ref of the upstream only as the user has approved, from the   *)
(* value the user was shown, every ref of a push or none, and at most once *)
(* for an approval.                                                        *)
(***************************************************************************)
EXTENDS FiniteSets

CONSTANTS Refs, Foreign   \* Foreign: commits other developers publish
VARIABLES upstream, approved

vars == <<upstream, approved>>

Init == upstream \in [Refs -> Foreign] /\ approved = {}

Approve(a) == approved' = approved \cup {a} /\ UNCHANGED upstream
(* An approval expires, or the attempt to use it fails. *)
Withdraw(a) == a \in approved /\ approved' = approved \ {a} /\ UNCHANGED upstream

Target(a, r) == (CHOOSE u \in a.updates : u.ref = r).new
Push(a) ==
  /\ a \in approved
  /\ \A u \in a.updates : upstream[u.ref] = u.old
  /\ upstream' = [r \in Refs |-> IF \E u \in a.updates : u.ref = r THEN Target(a, r) ELSE upstream[r]]
  /\ approved' = approved \ {a}

(* Other developers push what they like. *)
ForeignPush ==
  /\ \E r \in Refs, c \in Foreign : upstream' = [upstream EXCEPT ![r] = c]
  /\ UNCHANGED approved

Next == \/ ForeignPush
        \/ \E a \in approved' \ approved : Approve(a)
        \/ \E a \in approved : Withdraw(a) \/ Push(a)
Spec == Init /\ [][Next]_vars
=============================================================================

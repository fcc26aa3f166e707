----------------------------- MODULE MCGitPush -----------------------------
(* Constants of the instances of GitPush that TLC checks. *)
EXTENDS GitPush

(* One commit on top of "a". *)
SmallWishes == {[r \in {"main"} |-> "x"]}
SmallAncestor == {<<"a", "x">>}
=============================================================================

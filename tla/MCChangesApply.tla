--------------------------- MODULE MCChangesApply ---------------------------
(* ChangesApply with several processes, which TLC may exchange.             *)
EXTENDS ChangesApply, TLC

Interchangeable == Permutations(Cli)
=============================================================================

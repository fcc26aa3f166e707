------------------------ MODULE MCHostConfiguration ------------------------
EXTENDS HostConfiguration, TLC

\* Two settings that a VM does not notice, and one it must be recreated for.
MCSettings == {"plain", "quota", "memory"}
MCShape == [s \in MCSettings |-> IF s = "memory" THEN 2 ELSE 1]
MCSymmetry == Permutations(Procs)
=============================================================================

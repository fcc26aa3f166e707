----------------------------- MODULE MCWorkSet -----------------------------
(* Small Projects for WorkSet. *)
EXTENDS WorkSet

\* A directory in which a Bulk rule matches a name, and one with a file that
\* is enough to make it oversized.
a == <<"a">>
b == <<"b">>
MCOrder == <<a, <<"a", "n">>, <<"a", "n", "x">>, b, <<"b", "x">>>>
MCExplicit == {<<"a", "n">>}

MCTree(es) ==
  [p \in Range(MCOrder) |-> es[CHOOSE i \in DOMAIN MCOrder : MCOrder[i] = p]]

\* The rule matches on the host; both directories are small; b is oversized;
\* and only a file.
MCTrees == {MCTree(<<"d", "d", "f", "g", "none">>),
            MCTree(<<"d", "none", "none", "d", "none">>),
            MCTree(<<"f", "none", "none", "d", "f">>),
            MCTree(<<"none", "none", "none", "f", "none">>)}

\* A directory with a file that snapshot.exclude names.
MCExcludedOrder == <<a, <<"a", "s">>, b>>
MCExcluded == {<<"a", "s">>}
MCExcludedTrees ==
  {[p \in Range(MCExcludedOrder) |-> IF p = a THEN "d" ELSE "f"]}
=============================================================================
